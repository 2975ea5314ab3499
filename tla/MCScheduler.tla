---------------------------- MODULE MCScheduler ----------------------------
(***************************************************************************)
(* Instances of Scheduler for TLC.  Symmetry is not used: one of the runs  *)
(* checks liveness.                                                        *)
(***************************************************************************)
EXTENDS Scheduler

CONSTANTS t1, t2, s1, c1, c2, manager

OneThen == [t \in Tasks |-> 1]

=============================================================================
