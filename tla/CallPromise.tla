----------------------------- MODULE CallPromise -----------------------------
(***************************************************************************)
(* What a task promises to whoever hangs its callbacks on it (Finally and  *)
(* Catch of ev::scheduler::Task): each call is told its outcome once.  It  *)
(* is told a failure on top of it only when the callback that was told the *)
(* outcome threw.  A call whose client went away is dropped.               *)
(***************************************************************************)
CONSTANT Calls

VARIABLE stage

\* "telling": the callback of Finally runs.  "failing": that of Catch.
Stages == {"none", "due", "telling", "failing", "settled", "lost"}

Init == stage = [c \in Calls |-> "none"]

Move(c, from, to) ==
  /\ stage[c] \in from
  /\ stage' = [stage EXCEPT ![c] = to]

Ask(c) == Move(c, {"none"}, "due")

\* The scheduler does not take the task.
Refuse(c) == Move(c, {"none"}, "failing")

Tell(c) == Move(c, {"due"}, "telling")

\* A step of the task fails, or the callback of Finally throws.
Fail(c) == Move(c, {"due", "telling"}, "failing")

End(c) == Move(c, {"telling", "failing"}, "settled")

\* All that a client waits for goes at once.
Lose(lost) ==
  /\ lost # {}
  /\ \A c \in lost : stage[c] = "due"
  /\ stage' = [c \in Calls |-> IF c \in lost THEN "lost" ELSE stage[c]]

Next ==
  \/ \E c \in Calls : Ask(c) \/ Refuse(c) \/ Tell(c) \/ Fail(c) \/ End(c)
  \/ \E lost \in SUBSET Calls : Lose(lost)

Spec == Init /\ [][Next]_stage

\* No call waits for ever.
Progress(c) ==
  Tell(c) \/ Fail(c) \/ End(c) \/ \E lost \in SUBSET Calls : c \in lost /\ Lose(lost)

FairSpec == Spec /\ \A c \in Calls : WF_stage(Progress(c))

=============================================================================
