----------------------------- MODULE MCHubThread -----------------------------
(***************************************************************************)
(* Instances of HubThread for TLC.                                         *)
(***************************************************************************)
EXTENDS HubThread

CONSTANTS h1, h2, h3, t1, u1

=============================================================================
