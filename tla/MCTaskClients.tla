---------------------------- MODULE MCTaskClients ----------------------------
(***************************************************************************)
(* Instances of TaskClients for TLC: two calls of Fetch that overlap, so   *)
(* that one session is read again, and one call of each other client.      *)
(***************************************************************************)
EXTENDS TaskClients

CONSTANTS f1, f2, q1, d1, t1, t2

=============================================================================
