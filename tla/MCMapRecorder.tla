---------------------------- MODULE MCMapRecorder ---------------------------
(* Small instances of MapRecorder for TLC.  The configurations name the     *)
(* goals; MaxRequests bounds how many of them are asked for in one          *)
(* behaviour, so that every mix of area and docking goals is met without    *)
(* the cost of three at once.  No definition of the recorder is replaced.   *)
EXTENDS MapRecorder, FiniteSets

CONSTANT
  MaxRequests   \* bound: the goals that are asked for in one behaviour

Requested == Cardinality({g \in Goals : status[g] # "new"})

MCNext == Next /\ Requested' <= MaxRequests

MCSpec == Init /\ [][MCNext]_vars

(* The fairness of FairSpec, over the bounded next-state relation: the bound *)
(* refuses only a client's request, which nothing obliges to come.           *)
MCFairSpec ==
  /\ MCSpec
  /\ \A g \in Goals : WF_vars(Worker(g))
  /\ \A d \in DockGoals : SF_vars(EndWait(d))
=============================================================================
