--------------------------- MODULE MCDockingHelper --------------------------
(* Small instances of DockingHelper for TLC. *)
EXTENDS DockingHelper, TLC

CONSTANTS s1, s2, n1, t1

MCTarget == t1 :> s1
=============================================================================
