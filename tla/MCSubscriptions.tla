--------------------------- MODULE MCSubscriptions ---------------------------
(***************************************************************************)
(* Instances of Subscriptions for TLC.  Symmetry is not used: the runs     *)
(* check liveness, and SetToSeq chooses an order of names.                 *)
(***************************************************************************)
EXTENDS Subscriptions

CONSTANTS a, b, c, ch1, ch2, pat

=============================================================================
