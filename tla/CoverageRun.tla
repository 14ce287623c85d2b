------------------------------ MODULE CoverageRun ---------------------------
(***************************************************************************)
(* A coverage run (src/scripts/start_coverage_run.py): undock, plan, then  *)
(* drive to every segment of the path and follow it chunk by chunk, then   *)
(* dock.  The script is one thread that sends one goal at a time and waits *)
(* for its result, except that it cancels a chunk itself when the mower is *)
(* where the chunk ends.                                                   *)
(*                                                                         *)
(* The action servers are processes of their own; so is any other client,  *)
(* which may cancel their goals.                                           *)
(***************************************************************************)
EXTENDS CoveragePlan, HeadlandRings, FiniteSets

CONSTANTS Sites,     \* what the coverage server may find when it is asked
          Shapes     \* how far from its end a chunk leads, from its start to its end

Servers == {"undock", "navigate", "follow", "dock"}
Zones   == {"near", "between", "far"}

ASSUME CoverageRunAssumption ==
  /\ Shapes # {}
  /\ \A s \in Shapes : s \in Seq(Zones) /\ Len(s) > 1 /\ s[Len(s)] = "near"

VARIABLES step,        \* where the script is
          exit,        \* exit_code: 1 until run_sequence() returns another
          segments,    \* how many chunks each segment has, and which of both it is at
          segment,
          chunk,
          armed,       \* completion_armed
          shape,       \* external: the chunk being followed, and how far the mower has come
          progress,
          answer,      \* external: what the coverage server says when it is asked
          goal,        \* external: the latest goal of each action server
          driven,      \* history: the chunks, and of which segment, that were left only where a
                       \* chunk may be left, while no other client had cancelled a goal
          disturbed    \* history: did another client cancel a goal?

script == <<step, exit, segments, segment, chunk, armed>>
chunkVars == <<shape, progress>>
vars == <<script, chunkVars, answer, goal, driven, disturbed>>

\* How many chunks each segment of a path is cut into.
ChunkCounts(path) ==
  [k \in DOMAIN Segments(path) |-> Len(Chunks(Segments(path)[k]))]

\* What the coverage server may say, whatever the map is by then.
Plans == {[code |-> Answer(site).code, counts |-> ChunkCounts(Answer(site).path)] : site \in Sites}

ASSUME SitesAssumption == Sites \subseteq AnySite

Going == {"sent", "running"}

Init ==
  /\ step = "start"
  /\ exit = 1
  /\ segments = << >>
  /\ segment = 0
  /\ chunk = 0
  /\ armed = FALSE
  /\ shape = CHOOSE s \in Shapes : TRUE
  /\ progress = 1
  /\ answer \in Plans
  /\ goal = [s \in Servers |-> "none"]
  /\ driven = {}
  /\ disturbed = FALSE

-----------------------------------------------------------------------------
(* The script.                                                              *)

Goto(from, to) == step = from /\ step' = to

Send(server) == goal' = [goal EXCEPT ![server] = "sent"]

Exit(from, code) == /\ Goto(from, "end")
                    /\ exit' = code

\* A result says no error when its goal succeeded, and when Nav2 cancelled it: the script
\* looks at the error code, not at the status of the goal.
NoError(server) == goal[server] \in {"succeeded", "canceled"}

WaitForInterfaces == /\ \/ Goto("start", "undock") /\ Send("undock") /\ UNCHANGED exit
                        \/ Exit("start", 1) /\ UNCHANGED goal
                     /\ UNCHANGED <<segments, segment, chunk, armed, chunkVars, answer, driven, disturbed>>

UndockOver == /\ \/ goal["undock"] = "succeeded" /\ Goto("undock", "plan") /\ UNCHANGED exit
                 \/ goal["undock"] \in {"rejected", "failed", "canceled"} /\ Exit("undock", 2)
              /\ UNCHANGED <<segments, segment, chunk, armed, chunkVars, answer, goal, driven, disturbed>>

\* Anything but a path is the end of the run.
PlanCoverage == /\ \/ /\ answer.code = "success" /\ answer.counts # << >>
                      /\ Goto("plan", "segment")
                      /\ segments' = answer.counts
                      /\ segment' = 1
                      /\ UNCHANGED exit
                   \/ /\ answer.code # "success" \/ answer.counts = << >>
                      /\ Exit("plan", 3)
                      /\ UNCHANGED <<segments, segment>>
                /\ UNCHANGED <<chunk, armed, chunkVars, answer, goal, driven, disturbed>>

\* The next segment, or the way home.
NextSegment == /\ \/ /\ segment <= Len(segments)
                     /\ \/ Goto("segment", "goto") /\ Send("navigate") /\ UNCHANGED exit
                        \/ Exit("segment", 4) /\ UNCHANGED goal
                  \/ /\ segment > Len(segments)
                     /\ Goto("segment", "dock") /\ Send("dock")
                     /\ UNCHANGED exit
               /\ UNCHANGED <<segments, segment, chunk, armed, chunkVars, answer, driven, disturbed>>

\* Mutant: a rejected goal is waited for.
NavigateOverAccepted == /\ \/ NoError("navigate") /\ Goto("goto", "chunk") /\ chunk' = 1 /\ UNCHANGED exit
                           \/ goal["navigate"] = "failed" /\ Exit("goto", 4) /\ UNCHANGED chunk
                        /\ UNCHANGED <<segments, segment, armed, chunkVars, answer, goal, driven, disturbed>>

NavigateOver == /\ \/ NoError("navigate") /\ Goto("goto", "chunk") /\ chunk' = 1 /\ UNCHANGED exit
                   \/ goal["navigate"] \in {"rejected", "failed"} /\ Exit("goto", 4) /\ UNCHANGED chunk
                /\ UNCHANGED <<segments, segment, armed, chunkVars, answer, goal, driven, disturbed>>

\* The next chunk, or the next segment.  The follow goal starts anew, unarmed.
NextChunk ==
  /\ step = "chunk"
  /\ \/ /\ chunk <= segments[segment]
        /\ \/ /\ Goto("chunk", "follow")
              /\ Send("follow")
              /\ armed' = FALSE
              /\ shape' \in Shapes
              /\ progress' = 1
              /\ UNCHANGED <<exit, segment>>
           \/ /\ Exit("chunk", 5)
              /\ UNCHANGED <<goal, armed, shape, progress, segment>>
     \/ /\ chunk > segments[segment]
        /\ Goto("chunk", "segment")
        /\ segment' = segment + 1
        /\ UNCHANGED <<exit, goal, armed, shape, progress>>
  /\ UNCHANGED <<segments, chunk, answer, driven, disturbed>>

\* Where the mower is, when the transform is there to tell.
Zone == shape[progress]

\* async: a goal that is over by then stays as it is.
CancelGoal(server) == goal' = [goal EXCEPT ![server] = IF @ = "running" THEN "canceling" ELSE @]

\* Where a chunk may be left: at its end, or near its end once the mower has been far from it.
\* A chunk that comes near its end on its way and goes on is left there, too, and not driven on.
AtEnd == \/ progress = Len(shape)
         \/ Zone = "near" /\ \E k \in 1 .. progress : shape[k] = "far"

ChunkDone == /\ Goto("follow", "chunk")
             /\ chunk' = chunk + 1
             /\ driven' = IF AtEnd /\ ~disturbed THEN driven \union {<<segment, chunk>>} ELSE driven

Accepted(server) == goal[server] \notin {"none", "sent", "rejected"}

\* Mutant: a chunk is over when the mower is near its end, whether it has been away or not.
CompleteUnarmed == /\ Accepted("follow")
                   /\ Zone = "near"
                   /\ ChunkDone
                   /\ CancelGoal("follow")
                   /\ UNCHANGED <<exit, segments, segment, armed, chunkVars, answer, disturbed>>

\* Mutant: the goal of a chunk that is over is not cancelled.
CompleteUncancelled == /\ Accepted("follow")
                       /\ armed /\ Zone = "near"
                       /\ ChunkDone
                       /\ UNCHANGED <<exit, segments, segment, armed, chunkVars, answer, goal, disturbed>>

\* One turn of the loop that waits for the result.  The result may be there already, and
\* not have been looked at.
Arm == /\ step = "follow" /\ Accepted("follow")
       /\ Zone = "far"
       /\ armed' = TRUE
       /\ UNCHANGED <<step, exit, segments, segment, chunk, chunkVars, answer, goal, driven, disturbed>>

Complete == /\ Accepted("follow")
            /\ armed /\ Zone = "near"
            /\ ChunkDone
            /\ CancelGoal("follow")
            /\ UNCHANGED <<exit, segments, segment, armed, chunkVars, answer, disturbed>>

\* A failure near the end counts as the end, too, if the transform is there to tell.
FollowOver == /\ \/ NoError("follow") /\ ChunkDone /\ UNCHANGED exit
                 \/ goal["follow"] = "failed" /\ armed /\ Zone = "near" /\ ChunkDone /\ UNCHANGED exit
                 \/ goal["follow"] \in {"rejected", "failed"} /\ Exit("follow", 5) /\ UNCHANGED <<chunk, driven>>
              /\ UNCHANGED <<segments, segment, armed, chunkVars, answer, goal, disturbed>>

DockOver == /\ \/ goal["dock"] = "succeeded" /\ Exit("dock", 0)
               \/ goal["dock"] \in {"rejected", "failed"} /\ Exit("dock", 6)
            /\ UNCHANGED <<segments, segment, chunk, armed, chunkVars, answer, goal, driven, disturbed>>

\* Ctrl-C, or a shutdown of ROS: an exception takes the script to its end with its goal still out.
Interrupt == /\ step # "end"
             /\ step' = "end"
             /\ UNCHANGED <<exit, segments, segment, chunk, armed, chunkVars, answer, goal, driven, disturbed>>

Script == \/ WaitForInterfaces \/ UndockOver \/ PlanCoverage
          \/ NextSegment \/ NavigateOver \/ NextChunk
          \/ Arm \/ Complete \/ FollowOver \/ DockOver

-----------------------------------------------------------------------------
(* External: the action servers, the mower, and other clients.              *)

Answers(s) == /\ goal[s] = "sent"
              /\ goal' \in {[goal EXCEPT ![s] = g] : g \in {"running", "rejected"}}
              /\ UNCHANGED <<script, chunkVars, answer, driven, disturbed>>

Drive == /\ goal["follow"] = "running"
         /\ progress < Len(shape)
         /\ progress' = progress + 1
         /\ UNCHANGED <<script, shape, answer, goal, driven, disturbed>>

Ends(s) == /\ \/ /\ goal[s] = "running"
                 /\ s = "follow" => progress = Len(shape)
                 /\ goal' = [goal EXCEPT ![s] = "succeeded"]
              \/ goal[s] = "running"   /\ goal' = [goal EXCEPT ![s] = "failed"]
              \/ goal[s] = "canceling" /\ goal' = [goal EXCEPT ![s] = "canceled"]
           /\ UNCHANGED <<script, chunkVars, answer, driven, disturbed>>

OthersCancel(s) == /\ goal[s] = "running"
                   /\ s # "dock"
                   /\ goal' = [goal EXCEPT ![s] = "canceled"]
                   /\ disturbed' = TRUE
                   /\ driven' = {}
                   /\ UNCHANGED <<script, chunkVars, answer>>

External == Drive \/ \E s \in Servers : Answers(s) \/ Ends(s) \/ OthersCancel(s)

-----------------------------------------------------------------------------
Next == Script \/ Interrupt \/ External

Spec == Init /\ [][Next]_vars

\* The script runs, and no wait of it has a time limit: servers answer, and end what they
\* have begun.  Nothing makes a transform be there when the mower is near the end.
FairSpec == /\ Spec
            /\ WF_vars(Script)
            /\ WF_vars(Drive)
            /\ \A s \in Servers : WF_vars(Answers(s)) /\ WF_vars(Ends(s))

-----------------------------------------------------------------------------
(* Properties.                                                              *)

TypeOK ==
  /\ step \in {"start", "undock", "plan", "segment", "goto", "chunk", "follow", "dock", "end"}
  /\ exit \in 0 .. 6
  /\ segments \in Seq(Nat \ {0}) /\ segment \in 0 .. Len(segments) + 1
  /\ step \in {"chunk", "follow"} => chunk \in 1 .. segments[segment] + 1
  /\ armed \in BOOLEAN
  /\ shape \in Shapes
  /\ progress \in DOMAIN shape
  /\ goal \in [Servers -> Going \union {"none", "rejected", "canceling", "canceled", "succeeded", "failed"}]
  /\ driven \subseteq Nat \X Nat
  /\ disturbed \in BOOLEAN

\* Every ring of the headland that was found, and every loop around an exclusion, is on the
\* path once, however rings were grouped, regrouped and ordered (generateSwaths,
\* orderHeadlandSwaths).
PlanIsWhole == step = "plan" => \A site \in Sites : Whole(site)

\* Whatever point and direction the rings came with, each is gone round once, past all of its
\* corners, in the direction that was asked for, from the point next to where the ring before it
\* starts; the path has a gap only where the count of rings says that a group starts; and a group
\* that does start there is one walk without a gap.  (Behind a short group the count is off: a
\* group there is torn where the count starts one, and joined to the group before it.)
\* (orderHeadlandSwaths, createConnectedHeadlandPath).
GroupsAreWalked == step = "plan" => AllToursWalked

\* The chunks of every segment, one after the other, are the segment, and no chunk is shorter
\* than the minimum (split_follow_path_chunks).
ChunksJoin == step = "plan" =>
  \A site \in Sites : LET s == Segments(Answer(site).path) IN \A k \in DOMAIN s : Joined(s[k])

\* What there is to drive: every chunk of every segment.
AllChunks == UNION {{s} \X (1 .. segments[s]) : s \in DOMAIN segments}

\* A run that returns success has followed every chunk of every segment, unless another client
\* cancelled something: to its end, or until the mower was near its end after having been far
\* from it.  Neither a chunk that starts near its end, nor a failure that is taken for an end,
\* nor a race of the early end with the result lets a chunk be passed over.  (A chunk that comes
\* near its end on its way may be left there, and what is left of it is not driven.)
SuccessIsComplete ==
  step = "end" /\ exit = 0 /\ ~disturbed => driven = AllChunks

\* Two goals of the run never move the mower at once, and a run that ends by itself leaves
\* none behind: a chunk that is left early is cancelled before anything else is sent.
OneMover ==
  /\ Cardinality({s \in Servers : goal[s] \in Going}) <= 1
  /\ step = "end" /\ exit # 1 => \A s \in Servers : goal[s] \notin Going

\* Every run ends: each way for a goal to end is seen where the run waits for it.
RunEnds == <>(step = "end")
=============================================================================
