------------------------ MODULE DockingHelperProofs -------------------------
(***************************************************************************)
(* Proofs about DockingHelper, for any stations and any number of goals.   *)
(***************************************************************************)
EXTENDS DockingHelper, TLAPS

-----------------------------------------------------------------------------
(* Type correctness.                                                        *)

LEMMA InitType == Init => TypeOK
  BY DEF Init, TypeOK

LEMMA WorkerType == ASSUME TypeOK, NEW g \in Goals, Worker(g) PROVE TypeOK'
<1> USE DockingHelperAssumption DEF TypeOK, Active, Step, Goto, Fail, End
<1>1. CASE FindStation(g)
  <2>1. CASE Fail(g, "find") /\ UNCHANGED station
    BY <1>1, <2>1 DEF FindStation
  <2>2. ASSUME NEW s \in Candidates(g) \ {None}, Step(g, "find", "stage"),
               station' = [station EXCEPT ![g] = s], UNCHANGED status
        PROVE  TypeOK'
    <3>1. s \in Stations
      BY <2>2 DEF Candidates
    <3>. QED BY <1>1, <2>2, <3>1 DEF FindStation
  <2>. QED BY <1>1, <2>1, <2>2 DEF FindStation
<1>2. CASE StageFails(g) BY <1>2 DEF StageFails
<1>3. CASE SendNavGoal(g) BY <1>3 DEF SendNavGoal
<1>4. CASE Arrives(g) BY <1>4 DEF Arrives
<1>5. CASE StagingFails(g) BY <1>5 DEF StagingFails
<1>6. CASE ChargerFound(g) BY <1>6 DEF ChargerFound
<1>7. CASE DriveTimesOut(g) BY <1>7 DEF DriveTimesOut
<1>8. CASE Steer(g) BY <1>8 DEF Steer
<1>9. CASE StopVelocity(g) BY <1>9 DEF StopVelocity
<1>10. CASE Finish(g) BY <1>10 DEF Finish
<1>. QED BY <1>1, <1>2, <1>3, <1>4, <1>5, <1>6, <1>7, <1>8, <1>9, <1>10 DEF Worker

LEMMA ExecutorType == TypeOK /\ Executor => TypeOK'
<1> SUFFICES ASSUME TypeOK, Executor PROVE TypeOK'
  OBVIOUS
<1> USE DEF TypeOK, Active
<1>1. ASSUME NEW s \in SUBSET Stations, ReceiveMap(s) PROVE TypeOK'
  BY <1>1 DEF ReceiveMap
<1>2. ASSUME NEW present \in BOOLEAN, ChargerStatus(present) PROVE TypeOK'
  BY <1>2 DEF ChargerStatus
<1>3. ASSUME NEW g \in Goals, Request(g) PROVE TypeOK'
  BY <1>3 DEF Request, Goto
<1>4. ASSUME NEW g \in Goals, Cancel(g) PROVE TypeOK'
  BY <1>4 DEF Cancel
<1>. QED BY <1>1, <1>2, <1>3, <1>4 DEF Executor

LEMMA ExternalType == TypeOK /\ External => TypeOK'
<1> SUFFICES ASSUME TypeOK, NEW g \in Goals, NavAccepts(g) \/ NavEnds(g) PROVE TypeOK'
  BY DEF External
<1>1. CASE NavAccepts(g) BY <1>1 DEF NavAccepts, TypeOK
<1>2. CASE NavEnds(g) BY <1>2 DEF NavEnds, TypeOK
<1>. QED BY <1>1, <1>2

LEMMA NextType == TypeOK /\ [Next]_vars => TypeOK'
<1>1. CASE UNCHANGED vars
  BY <1>1 DEF vars, TypeOK
<1>. QED BY <1>1, WorkerType, ExecutorType, ExternalType DEF Next

\* Every field of the docking helper keeps its type.
THEOREM TypeCorrect == Spec => []TypeOK
  BY InitType, NextType, PTL DEF Spec

-----------------------------------------------------------------------------
(* A step of a worker moves its own goal only.                              *)

Steering == {"drive", "stop_charged", "stop_late"}

LEMMA WorkerFrame ==
  ASSUME TypeOK, NEW g \in Goals, Worker(g), NEW h \in Goals, h # g
  PROVE  pc'[h] = pc[h] /\ status'[h] = status[h] /\ station'[h] = station[h] /\ nav'[h] = nav[h]
<1> USE DEF TypeOK, Step, Goto, Fail, End
<1>1. CASE FindStation(g) BY <1>1 DEF FindStation
<1>2. CASE StageFails(g) \/ SendNavGoal(g) \/ Arrives(g) \/ StagingFails(g)
  BY <1>2 DEF StageFails, SendNavGoal, Arrives, StagingFails
<1>3. CASE ChargerFound(g) \/ DriveTimesOut(g) \/ Steer(g)
  BY <1>3 DEF ChargerFound, DriveTimesOut, Steer
<1>4. CASE StopVelocity(g) \/ Finish(g)
  BY <1>4 DEF StopVelocity, Finish
<1>. QED BY <1>1, <1>2, <1>3, <1>4 DEF Worker

-----------------------------------------------------------------------------
(* Results.                                                                 *)

\* ResultGivenOnce strengthened: the label of a worker tells whether its goal has a result.
GoalInv(g) ==
  /\ pc[g] = "none" <=> status[g] \in {"new", "rejected"}
  /\ status[g] \in Active <=> pc[g] \notin {"none", "done"}
  /\ status[g] # "twice"

ResultInv == \A g \in Goals : GoalInv(g)

LEMMA WorkerResult == ASSUME TypeOK, NEW g \in Goals, GoalInv(g), Worker(g) PROVE GoalInv(g)'
<1> USE DEF TypeOK, Active, Step, Goto, Fail, End, GoalInv
<1>1. CASE FindStation(g) BY <1>1 DEF FindStation
<1>2. CASE StageFails(g) BY <1>2 DEF StageFails
<1>3. CASE SendNavGoal(g) BY <1>3 DEF SendNavGoal
<1>4. CASE Arrives(g) BY <1>4 DEF Arrives
<1>5. CASE StagingFails(g) BY <1>5 DEF StagingFails
<1>6. CASE ChargerFound(g) BY <1>6 DEF ChargerFound
<1>7. CASE DriveTimesOut(g) BY <1>7 DEF DriveTimesOut
<1>8. CASE Steer(g) BY <1>8 DEF Steer
<1>9. CASE StopVelocity(g) BY <1>9 DEF StopVelocity
<1>10. CASE Finish(g) BY <1>10 DEF Finish
<1>. QED BY <1>1, <1>2, <1>3, <1>4, <1>5, <1>6, <1>7, <1>8, <1>9, <1>10 DEF Worker

LEMMA ResultNext == TypeOK /\ ResultInv /\ [Next]_vars => ResultInv'
<1> SUFFICES ASSUME TypeOK, ResultInv, [Next]_vars PROVE ResultInv'
  OBVIOUS
<1>1. CASE status' = status /\ pc' = pc
  BY <1>1 DEF ResultInv, GoalInv
<1>2. ASSUME NEW g \in Goals, Worker(g) PROVE ResultInv'
  <2>1. GoalInv(g)'
    BY <1>2, WorkerResult DEF ResultInv
  <2>2. ASSUME NEW h \in Goals, h # g PROVE GoalInv(h)'
    <3>1. pc'[h] = pc[h] /\ status'[h] = status[h]
      BY <1>2, <2>2, WorkerFrame
    <3>. QED BY <3>1 DEF ResultInv, GoalInv
  <2>. QED BY <2>1, <2>2 DEF ResultInv
<1>3. ASSUME NEW g \in Goals, Request(g) PROVE ResultInv'
  BY <1>3 DEF Request, Goto, ResultInv, GoalInv, TypeOK, Active
<1>4. ASSUME NEW g \in Goals, Cancel(g) PROVE ResultInv'
  BY <1>4 DEF Cancel, ResultInv, GoalInv, TypeOK, Active
<1>5. ASSUME NEW s, ReceiveMap(s) PROVE ResultInv'
  BY <1>1, <1>5 DEF ReceiveMap
<1>6. ASSUME NEW present, ChargerStatus(present) PROVE ResultInv'
  BY <1>1, <1>6 DEF ChargerStatus
<1>7. CASE External
  BY <1>1, <1>7 DEF External, NavAccepts, NavEnds
<1>8. CASE UNCHANGED vars
  BY <1>1, <1>8 DEF vars
<1>. QED BY <1>2, <1>3, <1>4, <1>5, <1>6, <1>7, <1>8 DEF Next, Executor

LEMMA ResultInvariant == Spec => []ResultInv
<1>1. Init => ResultInv
  BY DEF Init, ResultInv, GoalInv, Active
<1>. QED BY <1>1, ResultNext, TypeCorrect, PTL DEF Spec

\* No goal of either action server is given a second result, which would end the process in
\* the middle of other goals' drives (executeDockingAction).
THEOREM ResultOnce == Spec => []ResultGivenOnce
<1>1. ResultInv => ResultGivenOnce
  BY DEF ResultInv, GoalInv, ResultGivenOnce
<1>. QED BY <1>1, ResultInvariant, PTL

-----------------------------------------------------------------------------
(* The mower is stopped.                                                    *)

LEMMA WorkerStops ==
  ASSUME TypeOK, NoRunaway, NEW g \in Goals, Worker(g) PROVE NoRunaway'
<1>1. CASE twist' = "stop"
  BY <1>1 DEF NoRunaway
<1>2. CASE pc'[g] \in Steering
  BY <1>2 DEF NoRunaway, Steering
<1>3. CASE twist' = twist /\ (pc[g] \in Steering => pc'[g] \in Steering)
  <2>1. \A h \in Goals : pc[h] \in Steering => pc'[h] \in Steering
    BY <1>3, WorkerFrame
  <2>. QED BY <1>3, <2>1 DEF NoRunaway, Steering
<1> USE DEF TypeOK, Step, Goto, Fail, End, Steering
<1>4. CASE FindStation(g)
  BY <1>3, <1>4 DEF FindStation
<1>5. CASE StageFails(g) \/ SendNavGoal(g) \/ StagingFails(g)
  BY <1>3, <1>5 DEF StageFails, SendNavGoal, StagingFails
<1>6. CASE Arrives(g) \/ ChargerFound(g) \/ DriveTimesOut(g) \/ Steer(g)
  BY <1>2, <1>6 DEF Arrives, ChargerFound, DriveTimesOut, Steer
<1>7. CASE StopVelocity(g)
  BY <1>1, <1>7 DEF StopVelocity
<1>8. CASE Finish(g)
  BY <1>3, <1>8 DEF Finish
<1>. QED BY <1>4, <1>5, <1>6, <1>7, <1>8 DEF Worker

LEMMA OthersStop ==
  ASSUME TypeOK, ResultInv, NoRunaway, Executor \/ External PROVE NoRunaway'
<1>1. twist' = twist
  BY DEF Executor, External, ReceiveMap, ChargerStatus, Request, Cancel, NavAccepts, NavEnds
<1>2. CASE pc' = pc
  BY <1>1, <1>2 DEF NoRunaway
<1>3. ASSUME NEW g \in Goals, Request(g) PROVE NoRunaway'
  <2>1. pc[g] \notin Steering
    BY <1>3 DEF Request, ResultInv, GoalInv, Steering
  <2>2. \A h \in Goals : h # g => pc'[h] = pc[h]
    BY <1>3 DEF Request, Goto, TypeOK
  <2>. QED BY <1>1, <2>1, <2>2 DEF NoRunaway, Steering
<1>4. ASSUME NEW g \in Goals, Cancel(g) PROVE NoRunaway'
  BY <1>2, <1>4 DEF Cancel
<1>5. ASSUME NEW s, ReceiveMap(s) PROVE NoRunaway'
  BY <1>2, <1>5 DEF ReceiveMap
<1>6. ASSUME NEW present, ChargerStatus(present) PROVE NoRunaway'
  BY <1>2, <1>6 DEF ChargerStatus
<1>7. CASE External
  BY <1>2, <1>7 DEF External, NavAccepts, NavEnds
<1>. QED BY <1>3, <1>4, <1>5, <1>6, <1>7 DEF Executor

\* However many goals steer at once, a velocity on cmd_vel_joy has a worker that will stop it
\* (driveDockingVectorUntilCharging, stopDockingVelocity).
THEOREM AlwaysStopped == Spec => []NoRunaway
<1>1. Init => NoRunaway
  BY DEF Init, NoRunaway
<1>2. TypeOK /\ ResultInv /\ NoRunaway /\ [Next]_vars => NoRunaway'
  <2>1. CASE UNCHANGED vars
    BY <2>1 DEF vars, NoRunaway
  <2>. QED BY <2>1, WorkerStops, OthersStop DEF Next
<1>. QED BY <1>1, <1>2, TypeCorrect, ResultInvariant, PTL DEF Spec

-----------------------------------------------------------------------------
(* From the approach pose only.                                             *)

\* SteersFromApproach strengthened by what a worker knows before it steers.
GoalApproach(g) ==
  /\ pc[g] \in {"stage", "arrive"} \union Steering => station[g] # None
  /\ pc[g] \in {"arrive"} \union Steering => station[g] \notin NoApproach
  /\ pc[g] \in Steering => nav[g] = "succeeded"

ApproachInv == \A g \in Goals : GoalApproach(g)

LEMMA WorkerApproach ==
  ASSUME TypeOK, NEW g \in Goals, GoalApproach(g), Worker(g) PROVE GoalApproach(g)'
<1> USE DEF TypeOK, Step, Goto, Fail, GoalApproach, Steering
<1>1. CASE FindStation(g) BY <1>1 DEF FindStation
<1>2. CASE StageFails(g) BY <1>2 DEF StageFails
<1>3. CASE SendNavGoal(g) BY <1>3 DEF SendNavGoal
<1>4. CASE Arrives(g) BY <1>4 DEF Arrives
<1>5. CASE StagingFails(g) BY <1>5 DEF StagingFails
<1>6. CASE ChargerFound(g) BY <1>6 DEF ChargerFound
<1>7. CASE DriveTimesOut(g) BY <1>7 DEF DriveTimesOut
<1>8. CASE Steer(g) BY <1>8 DEF Steer
<1>9. CASE StopVelocity(g) BY <1>9 DEF StopVelocity
<1>10. CASE Finish(g) BY <1>10 DEF Finish
<1>. QED BY <1>1, <1>2, <1>3, <1>4, <1>5, <1>6, <1>7, <1>8, <1>9, <1>10 DEF Worker

\* A navigation that has succeeded is never taken back by Nav2, for whatever goal it acts.
LEMMA SuccessStays ==
  ASSUME TypeOK, External, NEW h \in Goals, nav[h] = "succeeded" PROVE nav'[h] = "succeeded"
<1>1. ASSUME NEW g \in Goals, NavAccepts(g) PROVE nav'[h] = "succeeded"
  BY <1>1 DEF NavAccepts
<1>2. ASSUME NEW g \in Goals, NavEnds(g) PROVE nav'[h] = "succeeded"
  BY <1>2 DEF NavEnds, TypeOK
<1>. QED BY <1>1, <1>2 DEF External

LEMMA ApproachNext == TypeOK /\ ApproachInv /\ [Next]_vars => ApproachInv'
<1> SUFFICES ASSUME TypeOK, ApproachInv, [Next]_vars PROVE ApproachInv'
  OBVIOUS
<1>1. CASE pc' = pc /\ station' = station /\ nav' = nav
  BY <1>1 DEF ApproachInv, GoalApproach
<1>2. ASSUME NEW g \in Goals, Worker(g) PROVE ApproachInv'
  <2>1. GoalApproach(g)'
    BY <1>2, WorkerApproach DEF ApproachInv
  <2>2. ASSUME NEW h \in Goals, h # g PROVE GoalApproach(h)'
    <3>1. pc'[h] = pc[h] /\ station'[h] = station[h] /\ nav'[h] = nav[h]
      BY <1>2, <2>2, WorkerFrame
    <3>. QED BY <3>1 DEF ApproachInv, GoalApproach
  <2>. QED BY <2>1, <2>2 DEF ApproachInv
<1>3. ASSUME NEW g \in Goals, Request(g) PROVE ApproachInv'
  BY <1>3 DEF Request, Goto, ApproachInv, GoalApproach, Steering, TypeOK
<1>4. ASSUME NEW g \in Goals, Cancel(g) PROVE ApproachInv'
  BY <1>1, <1>4 DEF Cancel
<1>5. ASSUME NEW s, ReceiveMap(s) PROVE ApproachInv'
  BY <1>1, <1>5 DEF ReceiveMap
<1>6. ASSUME NEW present, ChargerStatus(present) PROVE ApproachInv'
  BY <1>1, <1>6 DEF ChargerStatus
<1>7. CASE External
  <2>1. pc' = pc /\ station' = station
    BY <1>7 DEF External, NavAccepts, NavEnds
  <2>. QED BY <1>7, <2>1, SuccessStays DEF ApproachInv, GoalApproach
<1>8. CASE UNCHANGED vars
  BY <1>1, <1>8 DEF vars
<1>. QED BY <1>2, <1>3, <1>4, <1>5, <1>6, <1>7, <1>8 DEF Next, Executor

\* A worker steers by dead reckoning only from an approach pose its station has and Nav2
\* reached for this very goal (executeDockingAction, navigateToApproachPose).
THEOREM ApproachFirst == Spec => []SteersFromApproach
<1>1. Init => ApproachInv
  BY DEF Init, ApproachInv, GoalApproach, Steering
<1>2. ApproachInv => SteersFromApproach
  BY DEF ApproachInv, GoalApproach, SteersFromApproach, Steering
<1>. QED BY <1>1, <1>2, ApproachNext, TypeCorrect, PTL DEF Spec
=============================================================================
