----------------------------- MODULE SendQueue -----------------------------
(***************************************************************************)
(* The ring of outgoing frames in src/voice_client.c: sq_push and sq_pop,  *)
(* each one step, since each holds the queue's mutex throughout. A slot's  *)
(* buffer is freed after it was popped, so the slot holds nothing then.    *)
(* malloc is taken to succeed.                                             *)
(***************************************************************************)
EXTENDS Naturals, Sequences

CONSTANTS
  Frames,    \* everything that may be queued
  Capacity,  \* SEND_QUEUE_CAPACITY
  NoFrame    \* an empty slot

ASSUME QueueAssumption == Capacity \in Nat \ {0} /\ NoFrame \notin Frames

VARIABLES items, head, tail, count

queue == <<items, head, tail, count>>

Slots == 0..(Capacity - 1)
After(slot) == (slot + 1) % Capacity

QueueInit ==
  /\ items = [s \in Slots |-> NoFrame]
  /\ head = 0 /\ tail = 0 /\ count = 0

QueueTypeOK ==
  /\ items \in [Slots -> Frames \union {NoFrame}]
  /\ head \in Slots /\ tail \in Slots /\ count \in 0..Capacity

Full == count >= Capacity

Push_Unchecked(f) ==   \* fault: no test for a full ring
  /\ items' = [items EXCEPT ![tail] = f]
  /\ tail' = After(tail) /\ count' = count + 1
  /\ UNCHANGED head

Push_InFront(f) ==   \* fault: the newest frame goes first
  \/ /\ ~Full
     /\ head' = (head + Capacity - 1) % Capacity
     /\ items' = [items EXCEPT ![head'] = f]
     /\ count' = count + 1
     /\ UNCHANGED tail
  \/ Full /\ UNCHANGED queue

(* A full queue refuses the frame (-1); few callers look at that.          *)
Push(f) ==
  \/ /\ ~Full
     /\ items' = [items EXCEPT ![tail] = f]
     /\ tail' = After(tail) /\ count' = count + 1
     /\ UNCHANGED head
  \/ Full /\ UNCHANGED queue

First == items[head]

Pop ==
  /\ count # 0
  /\ items' = [items EXCEPT ![head] = NoFrame]
  /\ head' = After(head) /\ count' = count - 1
  /\ UNCHANGED tail

QueueNext == Pop \/ \E f \in Frames : Push(f)
QueueSpec == QueueInit /\ [][QueueNext]_queue

-----------------------------------------------------------------------------
(* The slot the i-th waiting frame is in, and the frames waiting, in order.*)
Slot(i)  == IF head + i - 1 < Capacity THEN head + i - 1 ELSE head + i - 1 - Capacity
Contents == [i \in 1..count |-> items[Slot(i)]]

Fifo == INSTANCE FrameQueue WITH waiting <- Contents

(* The ring keeps the promise of a queue: nothing lost, duplicated or      *)
(* overtaken while head, tail and count wrap around (sq_push, sq_pop).     *)
RingIsFifo == Fifo!Spec
=============================================================================
