---------------------------- MODULE DockingHelper ---------------------------
(***************************************************************************)
(* The docking helper node (src/docking_helper/docking_helper_node.cpp).   *)
(*                                                                         *)
(* The executor thread takes the map, the charger topic and the goals of   *)
(* two action servers.  Each accepted goal gets a detached thread that     *)
(* looks its station up again, has Nav2 drive to the approach pose, then   *)
(* steers the mower itself until the charger is present.  Nothing keeps    *)
(* two goals from being served at once.                                    *)
(***************************************************************************)
EXTENDS Naturals

CONSTANTS Stations,       \* ids of docking stations
          NoApproach,     \* those whose record has no approach pose
          NearestGoals,   \* goals for dock_robot_nearest
          ToGoals,        \* goals for dock_robot_to
          Target,         \* dock_id of each of the latter
          None            \* no station

Goals == NearestGoals \union ToGoals

ASSUME DockingHelperAssumption ==
  /\ NearestGoals \intersect ToGoals = {}
  /\ NoApproach \subseteq Stations
  /\ None \notin Stations
  /\ \A g \in ToGoals : Target[g] \in Stations

VARIABLES status,     \* what the action servers say of each goal
          pc,         \* where the worker of each goal is
          station,    \* the station a worker found
          stations,   \* docking_stations_
          charger,    \* charger_present_
          twist,      \* the latest velocity on cmd_vel_joy: "none", "move" or "stop"
          nav         \* external: the NavigateToPose goal of each worker

vars == <<status, pc, station, stations, charger, twist, nav>>

Active == {"executing", "canceling"}

Init ==
  /\ status = [g \in Goals |-> "new"]
  /\ pc = [g \in Goals |-> "none"]
  /\ station = [g \in Goals |-> None]
  /\ stations = {}
  /\ charger = FALSE
  /\ twist = "none"
  /\ nav = [g \in Goals |-> "none"]

Goto(g, label) == pc' = [pc EXCEPT ![g] = label]
Step(g, from, to) == pc[g] = from /\ Goto(g, to)

\* succeed() and abort() throw on a goal that has its result: the process would die.
End(g, result) == status' = [status EXCEPT ![g] = IF status[g] \in Active THEN result ELSE "twice"]

-----------------------------------------------------------------------------
(* The executor.                                                            *)

ReceiveMap(s) == /\ stations' = s
                 /\ UNCHANGED <<status, pc, station, charger, twist, nav>>

ChargerStatus(present) == /\ charger' = present
                          /\ UNCHANGED <<status, pc, station, stations, twist, nav>>

Known(g) == IF g \in ToGoals THEN Target[g] \in stations ELSE stations # {}

Request(g) == /\ status[g] = "new"
              /\ \/ /\ ~Known(g)
                    /\ status' = [status EXCEPT ![g] = "rejected"]
                    /\ UNCHANGED pc
                 \/ /\ Known(g)
                    /\ status' = [status EXCEPT ![g] = "executing"]
                    /\ Goto(g, "find")
              /\ UNCHANGED <<station, stations, charger, twist, nav>>

\* Accepted, and never looked at again.
Cancel(g) == /\ status[g] = "executing"
             /\ status' = [status EXCEPT ![g] = "canceling"]
             /\ UNCHANGED <<pc, station, stations, charger, twist, nav>>

-----------------------------------------------------------------------------
(* The worker of a goal.                                                    *)

Fail(g, from) == Step(g, from, "done") /\ End(g, "aborted")

\* What the second lookup may return: it can miss what the goal callback saw, and the nearest
\* station is not found without the pose of the robot.
Candidates(g) == IF g \in ToGoals THEN (IF Target[g] \in stations THEN {Target[g]} ELSE {None})
                                  ELSE stations \union {None}

FindStation(g) == /\ \/ None \in Candidates(g) /\ Fail(g, "find") /\ UNCHANGED station
                     \/ \E s \in Candidates(g) \ {None} :
                          /\ Step(g, "find", "stage")
                          /\ station' = [station EXCEPT ![g] = s]
                          /\ UNCHANGED status
                  /\ UNCHANGED <<stations, charger, twist, nav>>

\* Mutant: no return after the abort of a goal that could not be staged.
StageNoReturn(g) == /\ Step(g, "stage", "drive")
                    /\ End(g, "aborted")
                    /\ UNCHANGED <<station, stations, charger, twist, nav>>

\* navigateToApproachPose(): no approach pose, or no server.
StageFails(g) == /\ Fail(g, "stage")
                 /\ UNCHANGED <<station, stations, charger, twist, nav>>

SendNavGoal(g) == /\ station[g] \notin NoApproach
                  /\ Step(g, "stage", "arrive")
                  /\ nav' = [nav EXCEPT ![g] = "sent"]
                  /\ UNCHANGED <<status, station, stations, charger, twist>>

\* Mutant: any result of the navigation lets the mower go on.
ArrivesAnyway(g) == /\ nav[g] \in {"succeeded", "failed"}
                    /\ Step(g, "arrive", "drive")
                    /\ UNCHANGED <<status, station, stations, charger, twist, nav>>

Arrives(g) == /\ nav[g] = "succeeded"
              /\ Step(g, "arrive", "drive")
              /\ UNCHANGED <<status, station, stations, charger, twist, nav>>

\* Rejected, failed, or no result within five minutes: then the navigation goes on.
StagingFails(g) == /\ nav[g] # "succeeded"
                   /\ Fail(g, "arrive")
                   /\ UNCHANGED <<station, stations, charger, twist, nav>>

ChargerFound(g) == /\ charger
                   /\ Step(g, "drive", "stop_charged")
                   /\ UNCHANGED <<status, station, stations, charger, twist, nav>>

\* Mutant: a missing transform keeps the loop from looking at the clock.
DriveTimesOutMoving(g) == /\ ~charger /\ twist = "move"
                          /\ Step(g, "drive", "stop_late")
                          /\ UNCHANGED <<status, station, stations, charger, twist, nav>>

DriveTimesOut(g) == /\ ~charger
                    /\ Step(g, "drive", "stop_late")
                    /\ UNCHANGED <<status, station, stations, charger, twist, nav>>

\* One turn of the loop: the velocity towards the station, or zero without a transform.
Steer(g) == /\ ~charger
            /\ pc[g] = "drive"
            /\ twist' \in {"move", "stop"}
            /\ UNCHANGED <<status, pc, station, stations, charger, nav>>

\* Mutant: the drive ends without a stop.
StopVelocityNot(g) == /\ \/ Step(g, "stop_charged", "charged")
                         \/ Step(g, "stop_late", "late")
                      /\ UNCHANGED <<status, station, stations, charger, twist, nav>>

\* Five times the zero velocity, of which the last counts.
StopVelocity(g) == /\ \/ Step(g, "stop_charged", "charged")
                      \/ Step(g, "stop_late", "late")
                   /\ twist' = "stop"
                   /\ UNCHANGED <<status, station, stations, charger, nav>>

Finish(g) == /\ \/ Step(g, "charged", "done") /\ End(g, "succeeded")
                \/ Fail(g, "late")
             /\ UNCHANGED <<station, stations, charger, twist, nav>>

Worker(g) == \/ FindStation(g) \/ StageFails(g) \/ SendNavGoal(g) \/ Arrives(g) \/ StagingFails(g)
             \/ ChargerFound(g) \/ DriveTimesOut(g) \/ Steer(g) \/ StopVelocity(g) \/ Finish(g)

-----------------------------------------------------------------------------
(* External: Nav2, which serves one goal and lets a new one preempt it.     *)

NavAccepts(g) == /\ nav[g] = "sent"
                 /\ nav' = [h \in Goals |-> IF h = g THEN "running"
                                            ELSE IF nav[h] = "running" THEN "failed" ELSE nav[h]]
                 /\ UNCHANGED <<status, pc, station, stations, charger, twist>>

NavEnds(g) == /\ \/ nav[g] = "sent" /\ nav' = [nav EXCEPT ![g] = "failed"]
                 \/ nav[g] = "running" /\ nav' \in {[nav EXCEPT ![g] = s] : s \in {"succeeded", "failed"}}
              /\ UNCHANGED <<status, pc, station, stations, charger, twist>>

-----------------------------------------------------------------------------
Executor == \/ \E s \in SUBSET Stations : ReceiveMap(s)
            \/ \E present \in BOOLEAN : ChargerStatus(present)
            \/ \E g \in Goals : Request(g) \/ Cancel(g)

External == \E g \in Goals : NavAccepts(g) \/ NavEnds(g)

Next == Executor \/ External \/ \E g \in Goals : Worker(g)

Spec == Init /\ [][Next]_vars

\* Threads run, the wait for Nav2 is over after five minutes, and the drive after 25 seconds:
\* its loop may turn again and again, but it looks at charger and clock in every turn.
FairSpec == /\ Spec
            /\ \A g \in Goals : /\ WF_vars(Worker(g))
                                /\ WF_vars(ChargerFound(g) \/ DriveTimesOut(g))

-----------------------------------------------------------------------------
(* Properties.                                                              *)

TypeOK ==
  /\ status \in [Goals -> Active \union {"new", "rejected", "succeeded", "aborted", "twice"}]
  /\ pc \in [Goals -> {"none", "find", "stage", "arrive", "drive", "stop_charged", "stop_late",
                       "charged", "late", "done"}]
  /\ station \in [Goals -> Stations \union {None}]
  /\ stations \subseteq Stations
  /\ charger \in BOOLEAN
  /\ twist \in {"none", "move", "stop"}
  /\ nav \in [Goals -> {"none", "sent", "running", "succeeded", "failed"}]

\* The mower never keeps a velocity nobody is going to stop: while the latest command on
\* cmd_vel_joy moves it, some worker is still steering, or about to stop it, however many
\* goals steer at once.
NoRunaway == twist = "move" => \E g \in Goals : pc[g] \in {"drive", "stop_charged", "stop_late"}

\* A worker steers blindly towards its station only from the approach pose Nav2 reached for
\* it; a navigation that another goal preempted does not count.
SteersFromApproach ==
  \A g \in Goals : pc[g] \in {"drive", "stop_charged", "stop_late"} =>
                      nav[g] = "succeeded" /\ station[g] \notin NoApproach \union {None}

\* No goal is given a second result, which would end the process, and with it the other
\* goals in the middle of their drive.
ResultGivenOnce == \A g \in Goals : status[g] # "twice"

\* Every accepted goal ends, whatever Nav2, the transforms, the charger and other goals do.
DockingEnds == \A g \in Goals : pc[g] = "find" ~> pc[g] = "done"
=============================================================================
