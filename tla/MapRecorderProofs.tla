-------------------------- MODULE MapRecorderProofs -------------------------
(***************************************************************************)
(* Proofs about MapRecorder, for any number of goals.                      *)
(***************************************************************************)
EXTENDS MapRecorder, TLAPS

-----------------------------------------------------------------------------
(* Type correctness.                                                        *)

LEMMA InitType == Init => TypeOK
<1> SUFFICES ASSUME Init PROVE TypeOK
  OBVIOUS
<1>1. /\ 0 \in 0 .. MaxPoints
      /\ NoArea \in [name: AreaGoals \union {None}, points: 0 .. MaxPoints]
  BY MapRecorderAssumption DEF NoArea
<1>2. area \in [AreaGoals -> [name: AreaGoals \union {None}, points: 0 .. MaxPoints]]
  BY <1>1 DEF Init
<1>3. pc \in [Goals -> WorkerLabels]
  BY DEF Init, WorkerLabels
<1>. QED BY <1>1, <1>2, <1>3 DEF Init, TypeOK

LEMMA ExecutorType == TypeOK /\ Executor => TypeOK'
<1> SUFFICES ASSUME TypeOK, Executor PROVE TypeOK'
  OBVIOUS
<1> USE MapRecorderAssumption
    DEF TypeOK, Active, Refusals, WorkerLabels, Goals, vars, goalVars, dockVars, areaVars
<1>1. ASSUME NEW d \in DockGoals, RequestDocking(d) PROVE TypeOK'
  <2>1. CASE Refuse(d, "invalid") \/ Refuse(d, "busy")
    BY <2>1 DEF Refuse
  <2>2. CASE AcceptDocking(d)
    BY <2>2 DEF Accept, AcceptDocking, Goto
  <2>. QED BY <1>1, <2>1, <2>2 DEF RequestDocking
<1>2. ASSUME NEW a \in AreaGoals, RequestArea(a) PROVE TypeOK'
  <2>1. CASE Refuse(a, "invalid") \/ Refuse(a, "busy")
    BY <2>1 DEF Refuse
  <2>2. CASE AcceptArea(a)
    BY <2>2 DEF Accept, AcceptArea, Goto
  <2>. QED BY <1>2, <2>1, <2>2 DEF RequestArea
<1>3. ASSUME NEW g \in Goals, Cancel(g) PROVE TypeOK'
  BY <1>3 DEF Cancel
<1>4. ASSUME NEW on \in BOOLEAN, SetRecordingMode(on) PROVE TypeOK'
  BY <1>4 DEF SetRecordingMode
<1>5. CASE AddBoundaryPoint
  BY <1>5 DEF AddBoundaryPoint, Push
<1>6. CASE FinishAreaRecording
  BY <1>6 DEF FinishAreaRecording
<1>7. ASSUME NEW present \in BOOLEAN, ChargingStatus(present) PROVE TypeOK'
  BY <1>7 DEF ChargingStatus
<1>. QED BY <1>1, <1>2, <1>3, <1>4, <1>5, <1>6, <1>7 DEF Executor

LEMMA DockingWorkerType ==
  ASSUME TypeOK, NEW d \in DockGoals, DockingWorker(d) PROVE TypeOK'
<1> USE MapRecorderAssumption
    DEF TypeOK, Active, Refusals, WorkerLabels, Goals, vars, goalVars, dockVars, areaVars,
        Step, Goto, Fail, End, StopDrive
<1>1. CASE ServerUnavailable(d) BY <1>1 DEF ServerUnavailable
<1>2. CASE SendDriveGoal(d) BY <1>2 DEF SendDriveGoal
<1>3. CASE DriveAccepted(d) BY <1>3 DEF DriveAccepted
<1>4. CASE DriveNotAccepted(d) BY <1>4 DEF DriveNotAccepted
<1>5. CASE EndWait(d) BY <1>5 DEF EndWait
<1>6. CASE KeepWaiting(d) BY <1>6 DEF KeepWaiting
<1>7. CASE PollDockingCancel(d) BY <1>7 DEF PollDockingCancel
<1>8. CASE StopAfterWait(d) BY <1>8 DEF StopAfterWait
<1>9. CASE SaveStation(d) BY <1>9 DEF SaveStation, SendRequest
<1>10. CASE AwaitResponse(d) BY <1>10 DEF AwaitResponse
<1>. QED BY <1>1, <1>2, <1>3, <1>4, <1>5, <1>6, <1>7, <1>8, <1>9, <1>10 DEF DockingWorker

LEMMA AreaWorkerType ==
  ASSUME TypeOK, NEW a \in AreaGoals, AreaWorker(a) PROVE TypeOK'
<1> USE MapRecorderAssumption
    DEF TypeOK, Active, Refusals, WorkerLabels, Goals, vars, goalVars, dockVars, areaVars,
        Step, Goto, Fail, End, PoseThrows, Push
<1>1. CASE FirstPoint(a) BY <1>1 DEF FirstPoint
<1>2. CASE LoopWhileRecording(a) BY <1>2 DEF LoopWhileRecording
<1>3. CASE PollAreaCancel(a) BY <1>3 DEF PollAreaCancel
<1>4. CASE AutoPoint(a) BY <1>4 DEF AutoPoint
<1>5. CASE DropFlag(a) BY <1>5 DEF DropFlag
<1>6. CASE ResetServices(a) BY <1>6 DEF ResetServices
<1>7. CASE CountPoints(a) BY <1>7 DEF CountPoints
<1>8. CASE ValidatePolygon(a) BY <1>8 DEF ValidatePolygon
<1>9. CASE SaveArea(a) BY <1>9 DEF SaveArea, SendRequest
<1>10. CASE AwaitResponse(a) BY <1>10 DEF AwaitResponse
<1>. QED BY <1>1, <1>2, <1>3, <1>4, <1>5, <1>6, <1>7, <1>8, <1>9, <1>10 DEF AreaWorker

LEMMA ExternalType == TypeOK /\ External => TypeOK'
<1> USE DEF TypeOK, Goals, goalVars, dockVars, areaVars
<1>1. ASSUME TypeOK, NEW d \in DockGoals, DriveServer(d) PROVE TypeOK'
  BY <1>1 DEF DriveServer
<1>2. ASSUME TypeOK, NEW g \in Goals, MapServerAnswers(g) PROVE TypeOK'
  BY <1>2 DEF MapServerAnswers
<1>. QED BY <1>1, <1>2 DEF External

LEMMA NextType == TypeOK /\ [Next]_vars => TypeOK'
<1>1. ASSUME TypeOK, UNCHANGED vars PROVE TypeOK'
  BY <1>1 DEF TypeOK, vars, goalVars, dockVars, areaVars
<1>2. ASSUME TypeOK, NEW g \in Goals, Worker(g) PROVE TypeOK'
  BY <1>2, DockingWorkerType, AreaWorkerType DEF Worker, Goals
<1>. QED BY <1>1, <1>2, ExecutorType, ExternalType DEF Next

\* Every field of the recorder keeps its type, for any sets of goals.
THEOREM TypeCorrect == Spec => []TypeOK
  BY InitType, NextType, PTL DEF Spec

-----------------------------------------------------------------------------
(* What the steps of one goal do to the status and the place of the others. *)

\* A step of a worker is one of three kinds: it moves on, it gives its goal a result, or it
\* sends its request; other goals are not touched, and no callback's fields are written
\* except the flag, which only goes down.
LEMMA WorkerFrame ==
  ASSUME TypeOK, NEW g \in Goals, Worker(g)
  PROVE  /\ \A h \in Goals \ {g} : /\ status'[h] = status[h]
                                  /\ pc'[h] = pc[h]
                                  /\ response'[h] = response[h]
         /\ docking' = docking
         /\ recording' \in {recording, FALSE}
         /\ status'[g] \in Active => status[g] \in Active
<1> USE DEF TypeOK, Active, Refusals, Goals, goalVars, dockVars, areaVars, Step, Goto, Fail, End
<1>1. CASE g \in DockGoals
  <2> SUFFICES ASSUME DockingWorker(g)
               PROVE  /\ \A h \in Goals \ {g} : /\ status'[h] = status[h]
                                               /\ pc'[h] = pc[h]
                                               /\ response'[h] = response[h]
                      /\ docking' = docking
                      /\ recording' = recording
                      /\ status'[g] \in Active => status[g] \in Active
    BY <1>1 DEF Worker
  <2>1. CASE ServerUnavailable(g) \/ SendDriveGoal(g) \/ DriveAccepted(g) \/ DriveNotAccepted(g)
    BY <2>1 DEF ServerUnavailable, SendDriveGoal, DriveAccepted, DriveNotAccepted
  <2>2. CASE EndWait(g) \/ KeepWaiting(g) \/ PollDockingCancel(g) \/ StopAfterWait(g)
    BY <2>2 DEF EndWait, KeepWaiting, PollDockingCancel, StopAfterWait
  <2>3. CASE SaveStation(g) \/ AwaitResponse(g)
    BY <2>3 DEF SaveStation, SendRequest, AwaitResponse
  <2>. QED BY <2>1, <2>2, <2>3 DEF DockingWorker
<1>2. CASE g \notin DockGoals
  <2> SUFFICES ASSUME AreaWorker(g)
               PROVE  /\ \A h \in Goals \ {g} : /\ status'[h] = status[h]
                                               /\ pc'[h] = pc[h]
                                               /\ response'[h] = response[h]
                      /\ docking' = docking
                      /\ recording' \in {recording, FALSE}
                      /\ status'[g] \in Active => status[g] \in Active
    BY <1>2 DEF Worker
  <2>1. CASE FirstPoint(g) \/ LoopWhileRecording(g) \/ PollAreaCancel(g) \/ AutoPoint(g)
    BY <2>1 DEF FirstPoint, LoopWhileRecording, PollAreaCancel, AutoPoint, PoseThrows
  <2>2. CASE DropFlag(g) \/ ResetServices(g) \/ CountPoints(g) \/ ValidatePolygon(g)
    BY <2>2 DEF DropFlag, ResetServices, CountPoints, ValidatePolygon
  <2>3. CASE SaveArea(g) \/ AwaitResponse(g)
    BY <2>3 DEF SaveArea, SendRequest, AwaitResponse
  <2>. QED BY <2>1, <2>2, <2>3 DEF AreaWorker
<1>. QED BY <1>1, <1>2

-----------------------------------------------------------------------------
(* Exclusion of the two kinds of recording.                                 *)

\* OneDriver strengthened: the active docking goal is the one the handle holds.
DriverInv ==
  /\ TypeOK
  /\ \A d \in DockGoals : status[d] \in Active => d = docking /\ ~recording

LEMMA DriverInit == Init => DriverInv
  BY InitType DEF Init, DriverInv, Active, Goals

LEMMA DriverNext == DriverInv /\ [Next]_vars => DriverInv'
<1> SUFFICES ASSUME DriverInv, [Next]_vars
             PROVE  \A d \in DockGoals : status'[d] \in Active => d = docking' /\ ~recording'
  BY NextType DEF DriverInv
<1> USE MapRecorderAssumption DEF DriverInv, TypeOK, Active, Goals, vars, goalVars, dockVars, areaVars
<1>1. ASSUME NEW e \in DockGoals, RequestDocking(e)
      PROVE  \A d \in DockGoals : status'[d] \in Active => d = docking' /\ ~recording'
  <2>1. CASE Refuse(e, "invalid") \/ Refuse(e, "busy")
    BY <2>1 DEF Refuse
  <2>2. CASE ~DockingBusy /\ AcceptDocking(e)
    BY <2>2 DEF DockingBusy, AcceptDocking, Accept
  <2>. QED BY <1>1, <2>1, <2>2 DEF RequestDocking
<1>2. ASSUME NEW a \in AreaGoals, RequestArea(a)
      PROVE  \A d \in DockGoals : status'[d] \in Active => d = docking' /\ ~recording'
  <2>1. CASE Refuse(a, "invalid") \/ Refuse(a, "busy")
    BY <2>1 DEF Refuse
  <2>2. CASE ~AreaBusy /\ AcceptArea(a)
    BY <2>2 DEF AreaBusy, AcceptArea, Accept
  <2>. QED BY <1>2, <2>1, <2>2 DEF RequestArea
<1>3. ASSUME NEW g \in Goals, Cancel(g)
      PROVE  \A d \in DockGoals : status'[d] \in Active => d = docking' /\ ~recording'
  BY <1>3 DEF Cancel
<1>4. ASSUME \/ \E on \in BOOLEAN : SetRecordingMode(on)
             \/ AddBoundaryPoint
             \/ FinishAreaRecording
             \/ \E present \in BOOLEAN : ChargingStatus(present)
             \/ External
             \/ UNCHANGED vars
      PROVE  \A d \in DockGoals : status'[d] \in Active => d = docking' /\ ~recording'
  BY <1>4 DEF SetRecordingMode, AddBoundaryPoint, FinishAreaRecording, ChargingStatus,
              External, DriveServer, MapServerAnswers
<1>5. ASSUME NEW g \in Goals, Worker(g)
      PROVE  \A d \in DockGoals : status'[d] \in Active => d = docking' /\ ~recording'
  BY <1>5, WorkerFrame
<1>. QED BY <1>1, <1>2, <1>3, <1>4, <1>5 DEF Next, Executor

\* However many goals are sent, at most one docking goal drives the mower, and never while
\* an area is being recorded.
THEOREM ExclusiveDriver == Spec => []OneDriver
<1>1. DriverInv => OneDriver
  BY MapRecorderAssumption DEF DriverInv, OneDriver
<1>. QED BY <1>1, DriverInit, DriverNext, PTL DEF Spec

-----------------------------------------------------------------------------
(* is_recording_area_ never outlives the workers.                           *)

Recorders == {"first", "loop", "poll", "auto", "drop"}

LEMMA GhostNext == TypeOK /\ NoGhostRecording /\ [Next]_vars => NoGhostRecording'
<1> SUFFICES ASSUME TypeOK, NoGhostRecording, [Next]_vars, recording'
             PROVE  \E a \in AreaGoals : pc'[a] \in Recorders
  BY DEF NoGhostRecording, Recorders
<1> USE MapRecorderAssumption
    DEF NoGhostRecording, Recorders, TypeOK, Goals, vars, goalVars, dockVars, areaVars
<1>1. ASSUME NEW d \in DockGoals, RequestDocking(d) PROVE \E a \in AreaGoals : pc'[a] \in Recorders
  <2>1. recording /\ (UNCHANGED pc \/ pc' = [pc EXCEPT ![d] = "server"])
    BY <1>1 DEF RequestDocking, Refuse, AcceptDocking, Accept, Goto
  <2>. QED BY <2>1
<1>2. ASSUME NEW b \in AreaGoals, RequestArea(b) PROVE \E a \in AreaGoals : pc'[a] \in Recorders
  <2>1. CASE Refuse(b, "invalid") \/ Refuse(b, "busy")
    BY <2>1 DEF Refuse
  <2>2. CASE AcceptArea(b)
    BY <2>2 DEF AcceptArea, Accept, Goto
  <2>. QED BY <1>2, <2>1, <2>2 DEF RequestArea
<1>3. ASSUME \/ \E g \in Goals : Cancel(g)
             \/ \E on \in BOOLEAN : SetRecordingMode(on)
             \/ AddBoundaryPoint
             \/ FinishAreaRecording
             \/ \E present \in BOOLEAN : ChargingStatus(present)
             \/ External
             \/ UNCHANGED vars
      PROVE  \E a \in AreaGoals : pc'[a] \in Recorders
  BY <1>3 DEF Cancel, SetRecordingMode, AddBoundaryPoint, FinishAreaRecording, ChargingStatus,
              External, DriveServer, MapServerAnswers
<1>4. ASSUME NEW g \in Goals, Worker(g) PROVE \E a \in AreaGoals : pc'[a] \in Recorders
  <2>1. PICK a \in AreaGoals : pc[a] \in Recorders
    BY <1>4, WorkerFrame
  <2>2. CASE a # g
    BY <1>4, <2>1, <2>2, WorkerFrame
  <2>3. CASE a = g
    <3>1. AreaWorker(a)
      BY <1>4, <2>3 DEF Worker
    <3> USE <2>1 DEF Step, Goto, Fail
    <3>2. CASE FirstPoint(a) \/ LoopWhileRecording(a) \/ PollAreaCancel(a) \/ AutoPoint(a)
      BY <3>2 DEF FirstPoint, LoopWhileRecording, PollAreaCancel, AutoPoint, PoseThrows
    <3>3. CASE DropFlag(a)
      BY <3>3 DEF DropFlag
    <3>4. CASE ResetServices(a) \/ CountPoints(a) \/ ValidatePolygon(a) \/ SaveArea(a) \/ AwaitResponse(a)
      BY <3>4 DEF ResetServices, CountPoints, ValidatePolygon, SaveArea, SendRequest, AwaitResponse
    <3>. QED BY <3>1, <3>2, <3>3, <3>4 DEF AreaWorker
  <2>. QED BY <2>2, <2>3
<1>. QED BY <1>1, <1>2, <1>3, <1>4 DEF Next, Executor

\* However recordings overlap, the flag that refuses goals as busy is set only while some
\* worker is still bound to see it or to clear it.
THEOREM NoGhost == Spec => []NoGhostRecording
<1>1. Init => NoGhostRecording
  BY DEF Init, NoGhostRecording
<1>. QED BY <1>1, GhostNext, TypeCorrect, PTL DEF Spec

-----------------------------------------------------------------------------
(* Results.                                                                 *)

\* ResultGivenOnce and ResultIsTruthful strengthened: where a worker is tells whether its
\* goal has a result, and whether its request is out.
GoalInv(g) ==
  /\ pc[g] = "none" <=> status[g] \in Refusals \union {"new"}
  /\ status[g] \in Active <=> pc[g] \notin {"none", "drop", "cleanup", "done"}
  /\ status[g] # "twice"
  /\ response[g] # "none" => pc[g] \in {"await", "done"}
  /\ status[g] = "succeeded" => response[g] = "success"
  /\ status[g] = "canceled" => response[g] = "none"

ResultInv == \A g \in Goals : GoalInv(g)

LEMMA WorkerResult == ASSUME TypeOK, NEW g \in Goals, GoalInv(g), Worker(g) PROVE GoalInv(g)'
<1> USE DEF GoalInv, TypeOK, Active, Refusals, Step, Goto, Fail, End, SendRequest, AwaitResponse
<1>1. CASE DockingWorker(g)
  <2>1. CASE ServerUnavailable(g) \/ SendDriveGoal(g) \/ DriveAccepted(g) \/ DriveNotAccepted(g)
    BY <2>1 DEF ServerUnavailable, SendDriveGoal, DriveAccepted, DriveNotAccepted
  <2>2. CASE EndWait(g) \/ KeepWaiting(g) \/ PollDockingCancel(g) \/ StopAfterWait(g)
    BY <2>2 DEF EndWait, KeepWaiting, PollDockingCancel, StopAfterWait
  <2>3. CASE SaveStation(g)
    BY <2>3 DEF SaveStation
  <2>4. CASE AwaitResponse(g)
    BY <2>4
  <2>. QED BY <1>1, <2>1, <2>2, <2>3, <2>4 DEF DockingWorker
<1>2. CASE AreaWorker(g)
  <2>1. CASE FirstPoint(g) \/ LoopWhileRecording(g) \/ PollAreaCancel(g) \/ AutoPoint(g)
    BY <2>1 DEF FirstPoint, LoopWhileRecording, PollAreaCancel, AutoPoint, PoseThrows
  <2>2. CASE DropFlag(g) \/ ResetServices(g) \/ CountPoints(g) \/ ValidatePolygon(g)
    BY <2>2 DEF DropFlag, ResetServices, CountPoints, ValidatePolygon
  <2>3. CASE SaveArea(g)
    BY <2>3 DEF SaveArea
  <2>4. CASE AwaitResponse(g)
    BY <2>4
  <2>. QED BY <1>2, <2>1, <2>2, <2>3, <2>4 DEF AreaWorker
<1>. QED BY <1>1, <1>2 DEF Worker

LEMMA ResultNext == TypeOK /\ ResultInv /\ [Next]_vars => ResultInv'
<1> SUFFICES ASSUME TypeOK, ResultInv, [Next]_vars, NEW h \in Goals PROVE GoalInv(h)'
  BY DEF ResultInv
<1> USE DEF TypeOK, Goals, vars, goalVars, dockVars, areaVars
<1>0. GoalInv(h)
  BY DEF ResultInv
<1>1. CASE \/ \E d \in DockGoals : RequestDocking(d)
           \/ \E a \in AreaGoals : RequestArea(a)
           \/ \E g \in Goals : Cancel(g)
  <2>1. ASSUME NEW g \in Goals, status[g] = "new", Refuse(g, "invalid") \/ Refuse(g, "busy")
        PROVE  GoalInv(h)'
    BY <1>0, <2>1 DEF Refuse, GoalInv, Active, Refusals
  <2>2. ASSUME NEW g \in Goals, NEW label \in {"server", "first"}, status[g] = "new", Accept(g, label)
        PROVE  GoalInv(h)'
    BY <1>0, <2>2 DEF Accept, Goto, WorkerLabels, GoalInv, Active, Refusals
  <2>3. ASSUME NEW g \in Goals, Cancel(g) PROVE GoalInv(h)'
    BY <1>0, <2>3 DEF Cancel, GoalInv, Active, Refusals
  <2>4. ASSUME NEW d \in DockGoals, RequestDocking(d) PROVE GoalInv(h)'
    BY <2>1, <2>2, <2>4 DEF RequestDocking, AcceptDocking
  <2>5. ASSUME NEW a \in AreaGoals, RequestArea(a) PROVE GoalInv(h)'
    BY <2>1, <2>2, <2>5 DEF RequestArea, AcceptArea
  <2>. QED BY <1>1, <2>3, <2>4, <2>5
<1>2. CASE \/ \E on \in BOOLEAN : SetRecordingMode(on)
           \/ AddBoundaryPoint
           \/ FinishAreaRecording
           \/ \E present \in BOOLEAN : ChargingStatus(present)
           \/ \E d \in DockGoals : DriveServer(d)
           \/ UNCHANGED vars
  BY <1>0, <1>2 DEF GoalInv, SetRecordingMode, AddBoundaryPoint, FinishAreaRecording,
                    ChargingStatus, DriveServer
<1>3. CASE \E g \in Goals : MapServerAnswers(g)
  BY <1>0, <1>3 DEF GoalInv, Active, Refusals, MapServerAnswers
<1>4. ASSUME NEW g \in Goals, Worker(g) PROVE GoalInv(h)'
  <2>1. CASE g = h
    BY <1>0, <1>4, <2>1, WorkerResult
  <2>2. CASE g # h
    <3>1. status'[h] = status[h] /\ pc'[h] = pc[h] /\ response'[h] = response[h]
      BY <1>4, <2>2, WorkerFrame
    <3>. QED BY <1>0, <3>1 DEF GoalInv
  <2>. QED BY <2>1, <2>2
<1>. QED BY <1>1, <1>2, <1>3, <1>4 DEF Next, Executor, External

LEMMA ResultInvariant == Spec => []ResultInv
<1>1. Init => ResultInv
  BY DEF Init, ResultInv, GoalInv, Active, Refusals
<1>. QED BY <1>1, ResultNext, TypeCorrect, PTL DEF Spec

\* No worker, in any order of callbacks, gives its goal a second result.
THEOREM ResultOnce == Spec => []ResultGivenOnce
<1>1. ResultInv => ResultGivenOnce
  BY DEF ResultInv, GoalInv, ResultGivenOnce
<1>. QED BY <1>1, ResultInvariant, PTL

\* A success is backed by the map server's answer, and a cancelled goal sent it nothing.
THEOREM ResultTruthful == Spec => []ResultIsTruthful
<1>1. ResultInv => ResultIsTruthful
  BY DEF ResultInv, GoalInv, ResultIsTruthful
<1>. QED BY <1>1, ResultInvariant, PTL

-----------------------------------------------------------------------------
(* The charger's word.                                                      *)

\* ChargedBeforeSaved strengthened: contact is never remembered from before the goal.
ChargedInv == /\ charging => reported
              /\ ChargedBeforeSaved

\* A worker never writes the flag, and a docking worker sends its request only when it is up.
LEMMA WorkerCharged ==
  ASSUME TypeOK, ChargedInv, NEW g \in Goals, Worker(g) PROVE ChargedInv'
<1> USE DEF TypeOK, Goals, goalVars, dockVars, areaVars, Step, Goto, Fail
<1>1. charging' = charging /\ reported' = reported /\ docking' = docking
  <2>1. CASE DockingWorker(g)
    BY <2>1 DEF DockingWorker, ServerUnavailable, SendDriveGoal, DriveAccepted, DriveNotAccepted,
                EndWait, KeepWaiting, PollDockingCancel, StopAfterWait, SaveStation, AwaitResponse
  <2>2. CASE AreaWorker(g)
    BY <2>2 DEF AreaWorker, FirstPoint, LoopWhileRecording, PollAreaCancel, AutoPoint, PoseThrows,
                DropFlag, ResetServices, CountPoints, ValidatePolygon, SaveArea, AwaitResponse
  <2>. QED BY <2>1, <2>2 DEF Worker
<1>2. CASE docking # g
  <2>1. docking # None => response'[docking] = response[docking]
    BY <1>2, WorkerFrame
  <2>. QED BY <1>1, <2>1 DEF ChargedInv, ChargedBeforeSaved
<1>3. CASE docking = g
  <2>1. DockingWorker(g)
    BY <1>3, MapRecorderAssumption DEF Worker
  <2>2. response' = response \/ charging
    BY <2>1 DEF DockingWorker, ServerUnavailable, SendDriveGoal, DriveAccepted, DriveNotAccepted,
                EndWait, KeepWaiting, PollDockingCancel, StopAfterWait, SaveStation, AwaitResponse
  <2>. QED BY <1>1, <2>2 DEF ChargedInv, ChargedBeforeSaved
<1>. QED BY <1>2, <1>3

LEMMA ChargedNext == TypeOK /\ ResultInv /\ ChargedInv /\ [Next]_vars => ChargedInv'
<1> SUFFICES ASSUME TypeOK, ResultInv, ChargedInv, [Next]_vars PROVE ChargedInv'
  OBVIOUS
<1> USE DEF goalVars, dockVars, areaVars
<1>1. CASE UNCHANGED <<response, docking, charging, reported>>
  BY <1>1 DEF ChargedInv, ChargedBeforeSaved
<1>2. ASSUME NEW d \in DockGoals, RequestDocking(d) PROVE ChargedInv'
  <2>1. CASE Refuse(d, "invalid") \/ Refuse(d, "busy")
    BY <1>1, <2>1 DEF Refuse
  <2>2. CASE AcceptDocking(d)
    <3>1. d \in Goals /\ status[d] = "new"
      BY <1>2 DEF RequestDocking, Goals
    <3>2. response[d] = "none"
      BY <3>1 DEF ResultInv, GoalInv
    <3>. QED BY <2>2, <3>2 DEF AcceptDocking, Accept, ChargedInv, ChargedBeforeSaved
  <2>. QED BY <1>2, <2>1, <2>2 DEF RequestDocking
<1>3. ASSUME NEW a \in AreaGoals, RequestArea(a) PROVE ChargedInv'
  BY <1>1, <1>3 DEF RequestArea, Refuse, Accept, AcceptArea
<1>4. ASSUME NEW present \in BOOLEAN, ChargingStatus(present) PROVE ChargedInv'
  BY <1>4 DEF ChargingStatus, ChargedInv, ChargedBeforeSaved
<1>5. CASE \/ \E g \in Goals : Cancel(g)
           \/ \E on \in BOOLEAN : SetRecordingMode(on)
           \/ AddBoundaryPoint
           \/ FinishAreaRecording
           \/ \E d \in DockGoals : DriveServer(d)
           \/ UNCHANGED vars
  BY <1>1, <1>5 DEF Cancel, SetRecordingMode, AddBoundaryPoint, FinishAreaRecording, DriveServer, vars
<1>6. ASSUME NEW g \in Goals, MapServerAnswers(g) PROVE ChargedInv'
  <2>1. docking # None /\ response[docking] = "none" => response'[docking] = "none"
    BY <1>6 DEF MapServerAnswers, TypeOK, Goals
  <2>2. UNCHANGED <<docking, charging, reported>>
    BY <1>6 DEF MapServerAnswers
  <2>. QED BY <2>1, <2>2 DEF ChargedInv, ChargedBeforeSaved
<1>. QED BY <1>2, <1>3, <1>4, <1>5, <1>6, WorkerCharged DEF Next, Executor, External

\* A station is saved only on contact reported after the goal was accepted
\* (handleDockingAccepted, chargingStatusCallback), for any number of docking goals.
THEOREM ContactFirst == Spec => []ChargedBeforeSaved
<1>1. Init => ChargedInv
  BY DEF Init, ChargedInv, ChargedBeforeSaved
<1>2. ChargedInv => ChargedBeforeSaved
  BY DEF ChargedInv
<1>. QED BY <1>1, <1>2, ChargedNext, TypeCorrect, ResultInvariant, PTL DEF Spec

-----------------------------------------------------------------------------
(* The drive goal.                                                          *)

\* DriveIsReleased strengthened: where a docking worker is tells how far its drive goal is.
DriveGoalInv(d) ==
  /\ pc[d] \in {"none", "server"} => drive[d] = "none"
  /\ pc[d] \in {"wait", "poll", "stop"} => drive[d] \in {"running", "stopping", "over"}
  /\ pc[d] \in {"recheck", "await"} => drive[d] \in {"stopping", "over"}

DriveInv == \A d \in DockGoals : DriveGoalInv(d)

Released(d) == pc[d] # "done" /\ pc'[d] = "done" => drive'[d] # "running"

\* A docking worker keeps step with its own drive goal, and ends only without it.
LEMMA DockingWorkerDrive ==
  ASSUME TypeOK, NEW d \in DockGoals, DriveGoalInv(d), DockingWorker(d)
  PROVE  DriveGoalInv(d)' /\ Released(d)
<1> USE DEF TypeOK, Goals, goalVars, dockVars, areaVars, Step, Goto, Fail, DriveGoalInv, Released
<1>1. CASE ServerUnavailable(d) \/ SendDriveGoal(d) \/ DriveAccepted(d) \/ DriveNotAccepted(d)
  BY <1>1 DEF ServerUnavailable, SendDriveGoal, DriveAccepted, DriveNotAccepted
<1>2. CASE EndWait(d) \/ KeepWaiting(d)
  BY <1>2 DEF EndWait, KeepWaiting
<1>3. CASE PollDockingCancel(d) \/ StopAfterWait(d)
  BY <1>3 DEF PollDockingCancel, StopAfterWait, StopDrive
<1>4. CASE SaveStation(d) \/ AwaitResponse(d)
  BY <1>4 DEF SaveStation, SendRequest, AwaitResponse
<1>. QED BY <1>1, <1>2, <1>3, <1>4 DEF DockingWorker

\* Nor does the worker of another goal touch it.
LEMMA OtherWorkerDrive ==
  ASSUME TypeOK, NEW g \in Goals, Worker(g), NEW d \in DockGoals, d # g
  PROVE  drive'[d] = drive[d] /\ pc'[d] = pc[d]
<1> USE DEF TypeOK, Goals, goalVars, dockVars, areaVars
<1>1. pc'[d] = pc[d]
  BY WorkerFrame
<1>2. CASE DockingWorker(g)
  BY <1>1, <1>2 DEF DockingWorker, ServerUnavailable, SendDriveGoal, DriveAccepted, DriveNotAccepted,
                    EndWait, KeepWaiting, PollDockingCancel, StopAfterWait, StopDrive, SaveStation,
                    AwaitResponse
<1>3. CASE AreaWorker(g)
  BY <1>1, <1>3 DEF AreaWorker, FirstPoint, LoopWhileRecording, PollAreaCancel, AutoPoint, PoseThrows,
                    DropFlag, ResetServices, CountPoints, ValidatePolygon, SaveArea, AwaitResponse
<1>. QED BY <1>1, <1>2, <1>3 DEF Worker

LEMMA DriveNext ==
  ASSUME TypeOK, ResultInv, DriveInv, [Next]_vars, NEW d \in DockGoals
  PROVE  DriveGoalInv(d)' /\ Released(d)
<1> USE DEF TypeOK, Goals, goalVars, dockVars, areaVars
<1>0. DriveGoalInv(d)
  BY DEF DriveInv
<1>1. CASE UNCHANGED <<pc, drive>>
  BY <1>0, <1>1 DEF DriveGoalInv, Released
<1>2. ASSUME NEW g \in Goals, Worker(g) PROVE DriveGoalInv(d)' /\ Released(d)
  <2>1. CASE g = d
    BY <1>0, <1>2, <2>1, DockingWorkerDrive DEF Worker
  <2>2. CASE g # d
    BY <1>0, <1>2, <2>2, OtherWorkerDrive DEF DriveGoalInv, Released
  <2>. QED BY <2>1, <2>2
<1>3. ASSUME NEW e \in DockGoals, RequestDocking(e) PROVE DriveGoalInv(d)' /\ Released(d)
  <2>1. CASE Refuse(e, "invalid") \/ Refuse(e, "busy")
    BY <1>1, <2>1 DEF Refuse
  <2>2. CASE AcceptDocking(e)
    <3>1. pc[e] = "none"
      BY <1>3 DEF RequestDocking, ResultInv, GoalInv
    <3>. QED BY <1>0, <2>2, <3>1 DEF AcceptDocking, Accept, Goto, DriveGoalInv, Released
  <2>. QED BY <1>3, <2>1, <2>2 DEF RequestDocking
<1>4. ASSUME NEW a \in AreaGoals, RequestArea(a) PROVE DriveGoalInv(d)' /\ Released(d)
  <2>1. a # d
    BY MapRecorderAssumption
  <2>. QED BY <1>0, <1>4, <2>1 DEF RequestArea, Refuse, AcceptArea, Accept, Goto, DriveGoalInv, Released
<1>5. ASSUME NEW e \in DockGoals, DriveServer(e) PROVE DriveGoalInv(d)' /\ Released(d)
  BY <1>0, <1>5 DEF DriveServer, DriveGoalInv, Released
<1>6. CASE \/ \E g \in Goals : Cancel(g)
           \/ \E on \in BOOLEAN : SetRecordingMode(on)
           \/ AddBoundaryPoint
           \/ FinishAreaRecording
           \/ \E present \in BOOLEAN : ChargingStatus(present)
           \/ \E g \in Goals : MapServerAnswers(g)
           \/ UNCHANGED vars
  BY <1>1, <1>6 DEF Cancel, SetRecordingMode, AddBoundaryPoint, FinishAreaRecording,
                    ChargingStatus, MapServerAnswers, vars
<1>. QED BY <1>2, <1>3, <1>4, <1>5, <1>6 DEF Next, Executor, External

\* No docking worker ends with a drive goal it could know of still running: not by a cancel
\* in its loop, not after a save, for any number of goals (executeDockingStationRecording).
THEOREM DriveReleased == Spec => DriveIsReleased
<1>1. Init => DriveInv
  BY DEF Init, DriveInv, DriveGoalInv, Goals
<1>2. TypeOK /\ ResultInv /\ DriveInv /\ [Next]_vars => DriveInv'
  BY DriveNext DEF DriveInv
<1>3. TypeOK /\ ResultInv /\ DriveInv /\ [Next]_vars
        => [\A d \in DockGoals : pc[d] # "done" /\ pc'[d] = "done" => drive'[d] # "running"]_vars
  BY DriveNext DEF Released
<1>. QED BY <1>1, <1>2, <1>3, TypeCorrect, ResultInvariant, PTL DEF Spec, DriveIsReleased
=============================================================================
