----------------------------- MODULE FrameQueue -----------------------------
(***************************************************************************)
(* What the voice client expects of its send queue: frames leave in the    *)
(* order in which they were accepted, each once, and a frame is refused    *)
(* only when Capacity frames are waiting.                                  *)
(***************************************************************************)
EXTENDS Naturals, Sequences

CONSTANTS
  Frames,    \* everything that may be queued
  Capacity   \* how many frames may wait

VARIABLE waiting

Init == waiting = <<>>

Accept(f) == Len(waiting) < Capacity /\ waiting' = Append(waiting, f)
Deliver   == waiting # <<>> /\ waiting' = Tail(waiting)

Next == Deliver \/ \E f \in Frames : Accept(f)

Spec == Init /\ [][Next]_waiting
=============================================================================
