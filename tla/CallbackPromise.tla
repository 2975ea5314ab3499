--------------------------- MODULE CallbackPromise ---------------------------
(***************************************************************************)
(* What ev::Bridge promises to those that call CallOnMainThread            *)
(* (ev/bridge.h:47-48): the callback runs once, on the main thread and     *)
(* never inside another one, and its object is deleted afterwards.  A      *)
(* callback that throws, or that was handed to a bridge that was stopped,  *)
(* is lost.                                                                *)
(***************************************************************************)
CONSTANT Callbacks

VARIABLE stage

Stages == {"none", "due", "running", "done", "lost"}

Init == stage = [cb \in Callbacks |-> "none"]

Move(cb, from, to) ==
  /\ stage[cb] = from
  /\ stage' = [stage EXCEPT ![cb] = to]

Ask(cb) == Move(cb, "none", "due")

\* One callback at a time.
Begin(cb) ==
  /\ \A other \in Callbacks : stage[other] # "running"
  /\ Move(cb, "due", "running")

End(cb) == Move(cb, "running", "done")

Lose(cb) == Move(cb, "running", "lost") \/ Move(cb, "due", "lost")

Next == \E cb \in Callbacks : Ask(cb) \/ Begin(cb) \/ End(cb) \/ Lose(cb)

Spec == Init /\ [][Next]_stage

=============================================================================
