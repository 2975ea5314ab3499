-------------------------- MODULE MCOneShotHandler --------------------------
(***************************************************************************)
(* Instances of OneShotHandler for TLC.                                    *)
(***************************************************************************)
EXTENDS OneShotHandler

CONSTANTS r1, r2, r3, r4, d1, d2, d3, d4

Addresses == Permutations(Devices)

AllPostgreSQL == [r \in Requests |-> "PostgreSQL"]
TwoRedis == [r \in Requests |-> IF r \in {r1, r2} THEN "Redis" ELSE "PostgreSQL"]
OneCURL ==
  [r \in Requests |-> CASE r = r3 -> "PostgreSQL" [] r = r4 -> "CURL" [] OTHER -> "Redis"]

OneEach == [t \in Targets |-> 1]
TwoEach == [t \in Targets |-> 2]

Unlimited == [t \in Targets |-> {-1}]
OneOrTwoQueries ==
  [t \in Targets |-> IF t = "PostgreSQL" THEN {1, 2} ELSE {-1}]

=============================================================================
