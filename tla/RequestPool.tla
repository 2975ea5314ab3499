---------------------------- MODULE RequestPool ----------------------------
(***************************************************************************)
(* What the hub promises to the main thread about one-shot requests,       *)
(* whatever devices it uses to keep the promise: a request pushed by the   *)
(* main thread is queued, perhaps run on a connection, finished, and its   *)
(* answer delivered on the main thread.  A request moves forward only, at  *)
(* most Limit[t] requests of a target run at a time, and the answer of a   *)
(* request is delivered once.                                              *)
(***************************************************************************)
EXTENDS Naturals, FiniteSets

CONSTANTS
  Requests,  \* the ev::Request objects handed to the hub
  Targets,   \* Redis, PostgreSQL, CURL
  Target,    \* Target[r]: the service request r is for
  Limit      \* Limit[t]: how many devices of target t may be in use

VARIABLE stage  \* how far each request is

Stages == {"unsent", "queued", "running", "finished", "answered"}

Running(t) == {r \in Requests : Target[r] = t /\ stage[r] = "running"}

Init == stage = [r \in Requests |-> "unsent"]

Move(r, from, to) ==
  /\ stage[r] \in from
  /\ stage' = [stage EXCEPT ![r] = to]

\* The main thread pushes a request through the datagram socket.
Submit(r) == Move(r, {"unsent"}, "queued")

\* A device was found for the request.
Start(r) ==
  /\ Cardinality(Running(Target[r])) < Limit[Target[r]]
  /\ Move(r, {"queued"}, "running")

\* Replied, failed, lost, or (from the queue) rejected or carried out by the
\* handler itself.
Finish(r) == Move(r, {"queued", "running"}, "finished")

\* The answer reaches the main thread.
Deliver(r) == Move(r, {"finished"}, "answered")

Next == \E r \in Requests : Submit(r) \/ Start(r) \/ Finish(r) \/ Deliver(r)

Spec == Init /\ [][Next]_stage

=============================================================================
