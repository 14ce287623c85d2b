----------------------------- MODULE MapRecorder ----------------------------
(***************************************************************************)
(* The map recorder node (src/map_recorder/map_recorder_node.cpp).         *)
(*                                                                         *)
(* One executor thread runs every callback: goals, cancels, the services   *)
(* of a recording and the charger topic.  Every accepted goal gets a       *)
(* detached thread, its worker, and all of them share the node's fields    *)
(* without a lock.  A callback is one step here; a worker takes one step   *)
(* per access to a shared field, so that callbacks fall between them.      *)
(***************************************************************************)
EXTENDS Naturals

CONSTANTS AreaGoals,   \* goals that clients of record_area_boundary may send
          DockGoals,   \* goals that clients of record_docking_station may send
          None,        \* no goal
          MaxPoints    \* boundary points are counted up to this number, which stands for itself and more

Goals == AreaGoals \union DockGoals

ASSUME MapRecorderAssumption ==
  /\ AreaGoals \intersect DockGoals = {}
  /\ None \notin Goals
  /\ MaxPoints \in Nat
  /\ MaxPoints >= 3

VARIABLES status,      \* what the action server says of each goal
          pc,          \* where the worker of each goal is
          response,    \* the save request of each worker, and the map server's answer to it
          docking,     \* docking_goal_handle_
          charging,    \* is_charging_detected_
          reported,    \* history: has the charger reported contact since the latest docking goal?
          drive,       \* external: the DriveOnHeading goal of each docking goal
          recording,   \* is_recording_area_
          auto,        \* auto_recording_mode_
          points,      \* current_boundary_points_.size()
          name,        \* current_area_name_, as the goal that set it
          services,    \* do the three services of a recording exist?
          area         \* the area in the save request of each area goal

goalVars == <<status, pc, response>>
dockVars == <<docking, charging, reported, drive>>
areaVars == <<recording, auto, points, name, services, area>>
vars == <<goalVars, dockVars, areaVars>>

Active   == {"executing", "canceling"}
Refusals == {"invalid", "busy"}
NoArea   == [name |-> None, points |-> 0]

Init ==
  /\ status = [g \in Goals |-> "new"]
  /\ pc = [g \in Goals |-> "none"]
  /\ response = [g \in Goals |-> "none"]
  /\ docking = None
  /\ charging = FALSE
  /\ reported = FALSE
  /\ drive = [d \in DockGoals |-> "none"]
  /\ recording = FALSE
  /\ auto = TRUE
  /\ points = 0
  /\ name = None
  /\ services = FALSE
  /\ area = [a \in AreaGoals |-> NoArea]

-----------------------------------------------------------------------------
(* Helpers of the workers.                                                  *)

Goto(g, label) == pc' = [pc EXCEPT ![g] = label]
Step(g, from, to) == pc[g] = from /\ Goto(g, to)

\* succeed(), abort() and canceled() throw on a goal that has its result already, and nothing
\* in the worker catches that: the process would die.
End(g, result) == status' = [status EXCEPT ![g] = IF status[g] \in Active THEN result ELSE "twice"]

Fail(g, from) == Step(g, from, "done") /\ End(g, "aborted")

\* current_boundary_points_.push_back()
Push == points' = IF points < MaxPoints THEN points + 1 ELSE points

\* async_cancel_goal() on the handle of the DriveOnHeading goal.
StopDrive(d) == drive' = [drive EXCEPT ![d] = IF drive[d] = "running" THEN "stopping" ELSE drive[d]]

-----------------------------------------------------------------------------
(* The executor: goals and cancels.  Asking for a goal, and accepting it,   *)
(* happen in one turn of the executor.                                      *)

\* Mutant: a docking goal does not look at area recordings.
DockingBusyAlone == docking # None /\ status[docking] \in Active

\* The guard of handleDockingGoal().
DockingBusy == \/ docking # None /\ status[docking] \in Active
               \/ recording

\* The guard of handleAreaBoundaryGoal(): the handle of a docking goal is never reset.
AreaBusy == docking # None \/ recording

Refuse(g, why) == /\ status' = [status EXCEPT ![g] = why]
                  /\ UNCHANGED <<pc, response, dockVars, areaVars>>

Accept(g, label) == /\ status' = [status EXCEPT ![g] = "executing"]
                    /\ Goto(g, label)
                    /\ UNCHANGED response

\* Mutant: a docking goal does not reset is_charging_detected_.
AcceptDockingStale(d) == /\ Accept(d, "server")
                         /\ docking' = d
                         /\ reported' = FALSE
                         /\ UNCHANGED <<charging, drive, areaVars>>

\* Mutant: the name of the station is kept in current_area_name_.
AcceptDockingNamed(d) == /\ Accept(d, "server")
                         /\ docking' = d
                         /\ charging' = FALSE
                         /\ reported' = FALSE
                         /\ name' = d
                         /\ UNCHANGED <<drive, recording, auto, points, services, area>>

\* handleDockingAccepted()
AcceptDocking(d) == /\ Accept(d, "server")
                    /\ docking' = d
                    /\ charging' = FALSE
                    /\ reported' = FALSE
                    /\ UNCHANGED <<drive, areaVars>>

\* handleAreaBoundaryAccepted()
AcceptArea(a) == /\ Accept(a, "first")
                 /\ points' = 0
                 /\ recording' = TRUE
                 /\ name' = a
                 /\ auto' \in BOOLEAN
                 /\ services' = TRUE
                 /\ UNCHANGED <<area, dockVars>>

RequestDocking(d) == /\ status[d] = "new"
                     /\ \/ Refuse(d, "invalid")
                        \/ DockingBusy /\ Refuse(d, "busy")
                        \/ ~DockingBusy /\ AcceptDocking(d)

RequestArea(a) == /\ status[a] = "new"
                  /\ \/ Refuse(a, "invalid")
                     \/ AreaBusy /\ Refuse(a, "busy")
                     \/ ~AreaBusy /\ AcceptArea(a)

\* Both cancel callbacks accept; the worker has to notice.
Cancel(g) == /\ status[g] = "executing"
             /\ status' = [status EXCEPT ![g] = "canceling"]
             /\ UNCHANGED <<pc, response, dockVars, areaVars>>

-----------------------------------------------------------------------------
(* The executor: the services of a recording and the charger topic.  The    *)
(* refusals of the services change nothing and are left out.                *)

SetRecordingMode(on) == /\ services /\ recording
                        /\ auto' = on
                        /\ UNCHANGED <<recording, points, name, services, area, goalVars, dockVars>>

AddBoundaryPoint == /\ services /\ recording /\ ~auto
                    /\ Push
                    /\ UNCHANGED <<recording, auto, name, services, area, goalVars, dockVars>>

FinishAreaRecording == /\ services /\ recording
                       /\ recording' = FALSE
                       /\ UNCHANGED <<auto, points, name, services, area, goalVars, dockVars>>

ChargingStatus(present) == /\ charging' = present
                           /\ reported' = (reported \/ present)
                           /\ UNCHANGED <<docking, drive, goalVars, areaVars>>

-----------------------------------------------------------------------------
(* What both workers end with: the save request to the map server.          *)

\* The request goes out unless the service is missing for ten seconds.
SendRequest(g, from) == /\ Step(g, from, "await")
                        /\ response' = [response EXCEPT ![g] = "pending"]
                        /\ UNCHANGED status

\* Mutant: any answer of the map server counts as a success.
AwaitAnyResponse(g) == /\ \/ /\ response[g] \in {"success", "failure"}
                             /\ Step(g, "await", "done")
                             /\ End(g, "succeeded")
                          \/ response[g] = "pending" /\ Fail(g, "await")
                       /\ UNCHANGED <<response, dockVars, areaVars>>

\* After five seconds without an answer the worker gives up; the request stays with the server.
AwaitResponse(g) == /\ \/ /\ response[g] = "success"
                          /\ Step(g, "await", "done")
                          /\ End(g, "succeeded")
                       \/ response[g] \in {"pending", "failure"} /\ Fail(g, "await")
                    /\ UNCHANGED <<response, dockVars, areaVars>>

-----------------------------------------------------------------------------
(* The worker of a docking goal.                                            *)

ServerUnavailable(d) == /\ Fail(d, "server")
                        /\ UNCHANGED <<response, dockVars, areaVars>>

SendDriveGoal(d) == /\ Step(d, "server", "offer")
                    /\ drive' = [drive EXCEPT ![d] = "sent"]
                    /\ UNCHANGED <<status, response, docking, charging, reported, areaVars>>

DriveAccepted(d) == /\ drive[d] \in {"running", "over"}
                    /\ Step(d, "offer", "wait")
                    /\ UNCHANGED <<status, response, dockVars, areaVars>>

\* Rejected, or no answer within five seconds: then a drive goal may yet be accepted.
DriveNotAccepted(d) == /\ drive[d] \in {"sent", "rejected"}
                       /\ Fail(d, "offer")
                       /\ UNCHANGED <<response, dockVars, areaVars>>

\* Mutant: the wait for charging has no time limit.
EndWaitCharging(d) == /\ charging
                      /\ Step(d, "wait", "stop")
                      /\ UNCHANGED <<status, response, dockVars, areaVars>>

\* The loop condition fails: charging is detected, or 60 seconds are over.
EndWait(d) == /\ Step(d, "wait", "stop")
              /\ UNCHANGED <<status, response, dockVars, areaVars>>

KeepWaiting(d) == /\ ~charging
                  /\ Step(d, "wait", "poll")
                  /\ UNCHANGED <<status, response, dockVars, areaVars>>

\* The body of the loop.
PollDockingCancel(d) == /\ \/ /\ status[d] = "canceling"
                              /\ Step(d, "poll", "done")
                              /\ End(d, "canceled")
                              /\ StopDrive(d)
                           \/ /\ status[d] # "canceling"
                              /\ Step(d, "poll", "wait")
                              /\ UNCHANGED <<status, drive>>
                        /\ UNCHANGED <<response, docking, charging, reported, areaVars>>

\* Mutant: the drive goal is left running once the wait is over.
StopAfterWaitNot(d) == /\ Step(d, "stop", "recheck")
                       /\ UNCHANGED <<status, response, dockVars, areaVars>>

StopAfterWait(d) == /\ Step(d, "stop", "recheck")
                    /\ StopDrive(d)
                    /\ UNCHANGED <<status, response, docking, charging, reported, areaVars>>

\* is_charging_detected_ is read once more.  Then nothing shared is touched up to the request,
\* and the pose of the charging port or the service may be missing.
SaveStation(d) == /\ \/ Fail(d, "recheck") /\ UNCHANGED response
                     \/ charging /\ SendRequest(d, "recheck")
                  /\ UNCHANGED <<dockVars, areaVars>>

DockingWorker(d) == \/ ServerUnavailable(d) \/ SendDriveGoal(d)
                    \/ DriveAccepted(d) \/ DriveNotAccepted(d)
                    \/ EndWait(d) \/ KeepWaiting(d) \/ PollDockingCancel(d) \/ StopAfterWait(d)
                    \/ SaveStation(d) \/ AwaitResponse(d)

-----------------------------------------------------------------------------
(* The worker of an area goal.                                              *)

\* getMowerPose() throws when the transform is missing: the catch block of the worker aborts,
\* then drops the flag and the services as a cancelled recording does.
PoseThrows(a, from) == /\ Step(a, from, "drop")
                       /\ End(a, "aborted")
                       /\ UNCHANGED <<response, dockVars, areaVars>>

FirstPoint(a) == \/ /\ Step(a, "first", "loop")
                    /\ Push
                    /\ UNCHANGED <<status, response, recording, auto, name, services, area, dockVars>>
                 \/ PoseThrows(a, "first")

\* The loop condition.
LoopWhileRecording(a) == /\ Step(a, "loop", IF recording THEN "poll" ELSE "leave")
                         /\ UNCHANGED <<status, response, dockVars, areaVars>>

\* Mutant: a recording in manual mode does not look at its goal.
PollAreaCancelAuto(a) ==
  /\ \/ /\ status[a] = "canceling" /\ auto
        /\ Step(a, "poll", "drop")
        /\ End(a, "canceled")
     \/ /\ ~(status[a] = "canceling" /\ auto)
        /\ Step(a, "poll", IF auto THEN "auto" ELSE "loop")
        /\ UNCHANGED status
  /\ UNCHANGED <<response, dockVars, areaVars>>

PollAreaCancel(a) == /\ \/ /\ status[a] = "canceling"
                           /\ Step(a, "poll", "drop")
                           /\ End(a, "canceled")
                        \/ /\ status[a] # "canceling"
                           /\ Step(a, "poll", IF auto THEN "auto" ELSE "loop")
                           /\ UNCHANGED status
                     /\ UNCHANGED <<response, dockVars, areaVars>>

\* Automatic mode adds a point when the mower has moved far enough.
AutoPoint(a) == \/ /\ Step(a, "auto", "loop")
                   /\ Push \/ UNCHANGED points
                   /\ UNCHANGED <<status, response, recording, auto, name, services, area, dockVars>>
                \/ PoseThrows(a, "auto")

\* Mutant: a cancelled or failed recording forgets is_recording_area_.
DropFlagNot(a) == /\ Step(a, "drop", "cleanup")
                  /\ UNCHANGED <<status, response, dockVars, areaVars>>

DropFlag(a) == /\ Step(a, "drop", "cleanup")
               /\ recording' = FALSE
               /\ UNCHANGED <<status, response, auto, points, name, services, area, dockVars>>

\* The reset of the services after the loop, and the one of the cancel and catch branches.
ResetServices(a) == /\ Step(a, "leave", "count") \/ Step(a, "cleanup", "done")
                    /\ services' = FALSE
                    /\ UNCHANGED <<status, response, recording, auto, points, name, area, dockVars>>

\* Mutant: no return after the abort for too few points.
CountPointsNoReturn(a) == /\ Step(a, "count", "valid")
                          /\ IF points < 3 THEN End(a, "aborted") ELSE UNCHANGED status
                          /\ UNCHANGED <<response, dockVars, areaVars>>

CountPoints(a) == /\ \/ points < 3 /\ Fail(a, "count")
                     \/ points >= 3 /\ Step(a, "count", "valid") /\ UNCHANGED status
                  /\ UNCHANGED <<response, dockVars, areaVars>>

\* isValidPolygon() counts the points, again.
ValidatePolygon(a) == /\ \/ points < 3 /\ Fail(a, "valid")
                         \/ points >= 3 /\ Step(a, "valid", "build") /\ UNCHANGED status
                      /\ UNCHANGED <<response, dockVars, areaVars>>

\* The area is filled from the shared fields, not from the goal; then the service may be missing.
SaveArea(a) == /\ area' = [area EXCEPT ![a] = [name |-> name, points |-> points]]
               /\ \/ Fail(a, "build") /\ UNCHANGED response
                  \/ SendRequest(a, "build")
               /\ UNCHANGED <<recording, auto, points, name, services, dockVars>>

AreaWorker(a) == \/ FirstPoint(a) \/ LoopWhileRecording(a) \/ PollAreaCancel(a) \/ AutoPoint(a)
                 \/ DropFlag(a) \/ ResetServices(a)
                 \/ CountPoints(a) \/ ValidatePolygon(a) \/ SaveArea(a) \/ AwaitResponse(a)

-----------------------------------------------------------------------------
(* External: the DriveOnHeading action server and the map server.           *)

DriveServer(d) == /\ \/ drive[d] = "sent" /\ drive' \in {[drive EXCEPT ![d] = s] : s \in {"running", "rejected"}}
                     \/ drive[d] \in {"running", "stopping"} /\ drive' = [drive EXCEPT ![d] = "over"]
                  /\ UNCHANGED <<docking, charging, reported, goalVars, areaVars>>

\* Success: the record is stored.  A failure says nothing of that.
MapServerAnswers(g) == /\ response[g] = "pending"
                       /\ response' \in {[response EXCEPT ![g] = s] : s \in {"success", "failure"}}
                       /\ UNCHANGED <<status, pc, dockVars, areaVars>>

-----------------------------------------------------------------------------
Worker(g) == IF g \in DockGoals THEN DockingWorker(g) ELSE AreaWorker(g)

Executor == \/ \E d \in DockGoals : RequestDocking(d)
            \/ \E a \in AreaGoals : RequestArea(a)
            \/ \E g \in Goals : Cancel(g)
            \/ \E on \in BOOLEAN : SetRecordingMode(on)
            \/ AddBoundaryPoint
            \/ FinishAreaRecording
            \/ \E present \in BOOLEAN : ChargingStatus(present)

External == \/ \E d \in DockGoals : DriveServer(d)
            \/ \E g \in Goals : MapServerAnswers(g)

Next == Executor \/ External \/ \E g \in Goals : Worker(g)

Spec == Init /\ [][Next]_vars

\* Threads run.  Clients, the charger, the drive and the map server need not do anything.
\* The wait for charging is a loop of 60 seconds: it may be entered again and again, but not
\* for ever, which is strong fairness of its end.
FairSpec == /\ Spec
            /\ \A g \in Goals : WF_vars(Worker(g))
            /\ \A d \in DockGoals : SF_vars(EndWait(d))

-----------------------------------------------------------------------------
(* Properties.                                                              *)

WorkerLabels == {"none", "done", "await", "server", "offer", "wait", "poll", "stop", "recheck",
                 "first", "loop", "auto", "drop", "cleanup", "leave", "count", "valid", "build"}

TypeOK ==
  /\ status \in [Goals -> Active \union Refusals \union {"new", "succeeded", "canceled", "aborted", "twice"}]
  /\ pc \in [Goals -> WorkerLabels]
  /\ response \in [Goals -> {"none", "pending", "success", "failure"}]
  /\ docking \in DockGoals \union {None}
  /\ charging \in BOOLEAN
  /\ reported \in BOOLEAN
  /\ drive \in [DockGoals -> {"none", "sent", "rejected", "running", "stopping", "over"}]
  /\ recording \in BOOLEAN
  /\ auto \in BOOLEAN
  /\ points \in 0 .. MaxPoints
  /\ name \in AreaGoals \union {None}
  /\ services \in BOOLEAN
  /\ area \in [AreaGoals -> [name: AreaGoals \union {None}, points: 0 .. MaxPoints]]

\* While the mower drives itself into a docking station nobody is recording an area with it,
\* and no second docking goal drives it: is_recording_area_ excludes an active docking goal.
OneDriver ==
  /\ \A d, e \in DockGoals : status[d] \in Active /\ status[e] \in Active => d = e
  /\ recording => \A d \in DockGoals : status[d] \notin Active

\* is_recording_area_ never outlives the workers: while it refuses goals as busy, some
\* worker will still leave its loop because of it, or clear it, however recordings overlap.
NoGhostRecording == recording => \E a \in AreaGoals : pc[a] \in {"first", "loop", "poll", "auto", "drop"}

\* No goal is given a second result: the exception would end the process and every recording.
ResultGivenOnce == \A g \in Goals : status[g] # "twice"

\* A docking station is sent to the map server only if the charger reported contact after
\* the goal was accepted ("If charging is not detected ... will not be recorded"): contact
\* left over from before the goal does not count.
ChargedBeforeSaved == docking # None /\ response[docking] # "none" => reported

\* A client told of success finds its record in the map; a client told that its goal was
\* cancelled never finds one.
ResultIsTruthful ==
  \A g \in Goals : /\ status[g] = "succeeded" => response[g] = "success"
                   /\ status[g] = "canceled" => response[g] = "none"

\* A docking worker, however it ends, does not leave a DriveOnHeading goal it could know of
\* running.  (A drive goal accepted after the worker gave up waiting is beyond it.)
DriveIsReleased ==
  [][\A d \in DockGoals : pc[d] # "done" /\ pc'[d] = "done" => drive'[d] # "running"]_vars

\* An accepted cancel ends the goal, whatever the mode and however recordings overlap.
CancelEnds == \A g \in Goals : status[g] = "canceling" ~> status[g] \notin Active

\* Every accepted docking goal ends by itself, charger or not.
DockingEnds == \A d \in DockGoals : status[d] = "executing" ~> status[d] \notin Active

\* An area goal is refused with "Another recording is already in progress" only while a
\* worker lives.  The code breaks this: docking_goal_handle_ outlives its goal.
BusyMeansBusy == AreaBusy => \E g \in Goals : pc[g] \notin {"none", "done"}

\* Every area sent to the map server has the three points of "minimum 3".  The code breaks
\* this: once the flag is down a second recording may start, and clears the points.
SavedAreaIsComplete == \A a \in AreaGoals : response[a] # "none" => area[a].points >= 3
=============================================================================
