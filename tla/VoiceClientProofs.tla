------------------------- MODULE VoiceClientProofs -------------------------
(* Theorems about the ring of the voice client, for every capacity and     *)
(* every set of frames, and with them about the client, for any number of  *)
(* sessions, rounds and messages.                                          *)
EXTENDS VoiceClient, SequenceTheorems, TLAPS

-----------------------------------------------------------------------------
(* The ring: a bounded queue.                                              *)

(* The remainder in sq_push and sq_pop steps to the next slot, or back to  *)
(* the first.                                                              *)
LEMMA AfterSlot ==
  ASSUME NEW s \in Slots
  PROVE  After(s) = IF s + 1 = Capacity THEN 0 ELSE s + 1
<1>1. CASE s + 1 = Capacity
  <2>1. Capacity % Capacity = 0  BY QueueAssumption, SMT
  <2> QED  BY <1>1, <2>1 DEF After
<1>2. CASE s + 1 # Capacity
  <2>1. s + 1 \in 0..(Capacity - 1)  BY <1>2, QueueAssumption DEF Slots
  <2>2. \A n \in 0..(Capacity - 1) : n % Capacity = n  BY QueueAssumption, SMT
  <2> QED  BY <1>2, <2>1, <2>2 DEF After
<1> QED  BY <1>1, <1>2

(* The tail is count slots ahead of the head.                              *)
RingOK ==
  /\ QueueTypeOK
  /\ tail = IF head + count < Capacity THEN head + count ELSE head + count - Capacity

LEMMA RingInit == QueueInit => RingOK
  BY QueueAssumption DEF QueueInit, RingOK, QueueTypeOK, Slots

(* sq_push keeps the ring's shape, and so does sq_pop.                     *)
LEMMA PushKeepsRing ==
  ASSUME RingOK, NEW f \in Frames, Push(f)
  PROVE  RingOK'
<1>1. CASE Full
  BY <1>1 DEF Push, queue, Full, RingOK, QueueTypeOK
<1>2. CASE ~Full
  <2>1. /\ items' = [items EXCEPT ![tail] = f]
        /\ count' = count + 1 /\ head' = head
        /\ tail' = IF tail + 1 = Capacity THEN 0 ELSE tail + 1
    BY <1>2, AfterSlot DEF Push, RingOK, QueueTypeOK
  <2>2. items' \in [Slots -> Frames \union {NoFrame}]
    BY <2>1 DEF RingOK, QueueTypeOK
  <2>3. count' \in 0..Capacity /\ head' \in Slots /\ tail' \in Slots
    BY <1>2, <2>1, QueueAssumption DEF RingOK, QueueTypeOK, Full, Slots
  <2>4. tail' = IF head' + count' < Capacity THEN head' + count'
                                             ELSE head' + count' - Capacity
    BY <1>2, <2>1, QueueAssumption DEF RingOK, QueueTypeOK, Full, Slots
  <2> QED  BY <2>2, <2>3, <2>4 DEF RingOK, QueueTypeOK
<1> QED  BY <1>1, <1>2

LEMMA PopKeepsRing ==
  ASSUME RingOK, Pop
  PROVE  RingOK'
<1>1. /\ items' = [items EXCEPT ![head] = NoFrame]
      /\ count # 0 /\ count' = count - 1 /\ tail' = tail
      /\ head' = IF head + 1 = Capacity THEN 0 ELSE head + 1
  BY AfterSlot DEF Pop, RingOK, QueueTypeOK
<1>2. items' \in [Slots -> Frames \union {NoFrame}]
  BY <1>1 DEF RingOK, QueueTypeOK
<1>3. count' \in 0..Capacity /\ head' \in Slots /\ tail' \in Slots
  BY <1>1, QueueAssumption DEF RingOK, QueueTypeOK, Slots
<1>4. tail' = IF head' + count' < Capacity THEN head' + count'
                                           ELSE head' + count' - Capacity
  BY <1>1, QueueAssumption DEF RingOK, QueueTypeOK, Slots
<1> QED  BY <1>2, <1>3, <1>4 DEF RingOK, QueueTypeOK

(* Between two steps each waiting frame has a slot of its own.             *)
LEMMA WaitingSlots ==
  ASSUME RingOK
  PROVE  /\ \A i \in 1..count : Slot(i) \in Slots
         /\ \A i \in 1..count : count < Capacity => Slot(i) # tail
         /\ \A i \in 2..count : Slot(i) # head
         /\ count > 0 => Slot(1) = head
  BY QueueAssumption DEF RingOK, QueueTypeOK, Slots, Slot

LEMMA ContentsTyped ==
  ASSUME RingOK
  PROVE  Contents \in Seq(Frames \union {NoFrame}) /\ Len(Contents) = count
<1>1. \A i \in 1..count : items[Slot(i)] \in Frames \union {NoFrame}
  BY WaitingSlots DEF RingOK, QueueTypeOK
<1>2. count \in Nat
  BY QueueAssumption DEF RingOK, QueueTypeOK
<1> QED  BY <1>1, <1>2 DEF Contents

LEMMA TailShifts ==
  ASSUME NEW S, NEW s \in Seq(S), s # <<>>
  PROVE  Tail(s) = [i \in 1..(Len(s) - 1) |-> s[i + 1]]
<1> DEFINE shifted == [i \in 1..(Len(s) - 1) |-> s[i + 1]]
<1>1. Tail(s) \in Seq(S) /\ Len(Tail(s)) = Len(s) - 1
  OBVIOUS
<1>2. \A i \in 1..(Len(s) - 1) : Tail(s)[i] = s[i + 1]
  OBVIOUS
<1>3. shifted \in Seq(S) /\ Len(shifted) = Len(s) - 1
  OBVIOUS
<1> QED  BY <1>1, <1>2, <1>3, SeqEqual

(* An accepted frame joins the end of the queue.                           *)
LEMMA PushAppends ==
  ASSUME RingOK, NEW f \in Frames, Push(f)
  PROVE  /\ Full => Contents' = Contents
         /\ ~Full => Len(Contents) < Capacity /\ Contents' = Append(Contents, f)
<1>1. CASE Full
  BY <1>1 DEF Push, queue, Contents, Slot
<1>2. CASE ~Full
  <2>1. /\ items' = [items EXCEPT ![tail] = f]
        /\ count' = count + 1 /\ head' = head
    BY <1>2 DEF Push
  <2>2. count \in Nat /\ count < Capacity /\ tail \in Slots /\ head \in Slots
    BY <1>2, QueueAssumption DEF Full, RingOK, QueueTypeOK
  <2>3. \A i \in 1..count : Slot(i) \in Slots /\ Slot(i)' = Slot(i) /\ items'[Slot(i)] = items[Slot(i)]
    BY <2>1, <2>2, WaitingSlots DEF Slot, RingOK, QueueTypeOK
  <2>4. /\ (IF head' + count' - 1 < Capacity THEN head' + count' - 1
                                             ELSE head' + count' - 1 - Capacity) = tail
        /\ items'[tail] = f
    BY <2>1, <2>2, QueueAssumption DEF RingOK, QueueTypeOK, Slots
  <2>5. \A i \in 1..count : items'[Slot(i)'] = items[Slot(i)]
    BY <2>3
  <2>6. Contents' = [i \in 1..(count + 1) |-> IF i <= count THEN items[Slot(i)] ELSE f]
    <3>1. Contents' = [i \in 1..(count + 1) |-> items'[Slot(i)']]
      BY <2>1 DEF Contents
    <3>2. ASSUME NEW i \in 1..(count + 1)
          PROVE  items'[Slot(i)'] = IF i <= count THEN items[Slot(i)] ELSE f
      <4>1. CASE i \in 1..count
        BY <4>1, <2>5
      <4>2. CASE i = count'
        BY <4>2, <2>1, <2>2, <2>4 DEF Slot
      <4> QED  BY <4>1, <4>2, <2>1, <2>2
    <3> QED  BY <3>1, <3>2
  <2>7. Len(Contents) = count /\ Contents = [i \in 1..count |-> items[Slot(i)]]
    BY <2>2 DEF Contents
  <2>8. Append(Contents, f) = [i \in 1..(count + 1) |-> IF i <= count THEN items[Slot(i)] ELSE f]
    <3>1. Contents \in Seq(Frames \union {NoFrame})
      BY ContentsTyped
    <3> QED  BY <3>1, <2>2, <2>7
  <2> QED  BY <1>2, <2>2, <2>6, <2>7, <2>8
<1> QED  BY <1>1, <1>2

(* The frame taken is the one at the front.                                *)
LEMMA PopTakesFirst ==
  ASSUME RingOK, Pop
  PROVE  Contents # <<>> /\ First = Contents[1] /\ Contents' = Tail(Contents)
<1>1. /\ items' = [items EXCEPT ![head] = NoFrame]
      /\ count # 0 /\ count' = count - 1
      /\ head' = IF head + 1 = Capacity THEN 0 ELSE head + 1
  BY AfterSlot DEF Pop, RingOK, QueueTypeOK
<1>2. count \in Nat /\ head \in Slots
  BY QueueAssumption DEF RingOK, QueueTypeOK
<1>3. \A i \in 1..(count - 1) : Slot(i)' = Slot(i + 1) /\ items'[Slot(i + 1)] = items[Slot(i + 1)]
  <2>1. \A i \in 1..(count - 1) : Slot(i)' = Slot(i + 1)
    BY <1>1, <1>2, QueueAssumption DEF Slot, RingOK, QueueTypeOK, Slots
  <2>2. \A i \in 1..(count - 1) : Slot(i + 1) \in Slots /\ Slot(i + 1) # head
    BY <1>2, WaitingSlots
  <2> QED  BY <1>1, <2>1, <2>2 DEF RingOK, QueueTypeOK
<1>4. Contents' = [i \in 1..(count - 1) |-> items[Slot(i + 1)]]
  <2>1. Contents' = [i \in 1..(count - 1) |-> items'[Slot(i)']]
    BY <1>1 DEF Contents
  <2> QED  BY <2>1, <1>3
<1>5. Contents \in Seq(Frames \union {NoFrame}) /\ Len(Contents) = count /\ Contents # <<>>
  BY <1>1, <1>2, ContentsTyped
<1>6. Tail(Contents) = [i \in 1..(count - 1) |-> items[Slot(i + 1)]]
  <2>1. Tail(Contents) = [i \in 1..(count - 1) |-> Contents[i + 1]]
    BY <1>2, <1>5, TailShifts
  <2>2. \A i \in 1..(count - 1) : Contents[i + 1] = items[Slot(i + 1)]
    BY <1>2 DEF Contents
  <2> QED  BY <2>1, <2>2
<1>7. First = Contents[1]
  BY <1>1, <1>2, WaitingSlots DEF First, Contents
<1> QED  BY <1>4, <1>5, <1>6, <1>7

(* Every step of the ring is a step of the queue it promises to be, or     *)
(* leaves it alone.                                                        *)
THEOREM RingStep ==
  ASSUME RingOK, [QueueNext]_queue
  PROVE  RingOK' /\ [Fifo!Next]_Contents
<1>1. CASE UNCHANGED queue
  BY <1>1 DEF queue, RingOK, QueueTypeOK, Contents, Slot
<1>2. CASE Pop
  BY <1>2, PopKeepsRing, PopTakesFirst DEF Fifo!Next, Fifo!Deliver
<1>3. ASSUME NEW f \in Frames, Push(f)
      PROVE  RingOK' /\ [Fifo!Next]_Contents
  BY <1>3, PushKeepsRing, PushAppends DEF Fifo!Next, Fifo!Accept
<1> QED  BY <1>1, <1>2, <1>3 DEF QueueNext

(* What is waiting are frames: no slot is read before it is written or     *)
(* after it was emptied.                                                   *)
HoldsFrames == Contents \in Seq(Frames)

LEMMA RingHoldsFrames ==
  ASSUME RingOK, HoldsFrames, [QueueNext]_queue
  PROVE  HoldsFrames'
<1>1. CASE UNCHANGED queue
  BY <1>1 DEF queue, HoldsFrames, Contents, Slot
<1>2. CASE Pop
  BY <1>2, PopTakesFirst DEF HoldsFrames
<1>3. ASSUME NEW f \in Frames, Push(f)
      PROVE  HoldsFrames'
  BY <1>3, PushAppends DEF HoldsFrames
<1> QED  BY <1>1, <1>2, <1>3 DEF QueueNext

(* The ring implements a bounded first-in first-out queue: sq_push and     *)
(* sq_pop lose, duplicate and reorder nothing.                             *)
THEOREM RingImplementsFifo == QueueSpec => RingIsFifo
<1>1. QueueInit => RingOK /\ Fifo!Init
  <2>1. QueueInit => Contents = <<>>
    BY DEF QueueInit, Contents
  <2> QED  BY <2>1, RingInit DEF Fifo!Init
<1>2. RingOK /\ [QueueNext]_queue => RingOK' /\ [Fifo!Next]_Contents
  BY RingStep
<1> QED  BY <1>1, <1>2, PTL DEF QueueSpec, RingIsFifo, Fifo!Spec

-----------------------------------------------------------------------------
(* The client, whose steps on the ring are sq_push and sq_pop.             *)
LEMMA BuiltIsFrame ==
  ASSUME TypeOK, NEW type \in FrameTypes
  PROVE  Built(type) \in Frames
  BY VoiceAssumption DEF TypeOK, Built, Frame, Tasks

(* Nothing but sq_push and sq_pop touches the ring.                        *)
LEMMA RingOnly ==
  ASSUME TypeOK, [Next]_vars
  PROVE  [QueueNext]_queue
<1>1. \A type \in FrameTypes : Send(type) => QueueNext
  BY BuiltIsFrame DEF Send, QueueNext
<1>2. Pop => QueueNext  BY DEF QueueNext
<1>3. CASE AppNext
  BY <1>1, <1>3 DEF AppNext, StartService, Connect, ConnectFails, Initiate, HelloSettled,
     JoinService, Unwound, DestroyContext, Disconnect, Paused, Closed, Free, NewRound,
     StartListening, SendListen, StopListening, Abort, Wake, Aborted, AbortNewRound,
     FrameTypes
<1>4. CASE MicNext
  BY <1>1, <1>4 DEF MicNext, SendAudio, AudioWake, FrameTypes
<1>5. CASE SvcNext
  BY <1>1, <1>2, <1>5 DEF SvcNext, Established, ConnectionError, Hangup, Writeable,
     WaitCancelled, ReceiveFragment, Receive, ReceiveGarbled, ReceiveHello, ReceiveReply,
     ReceiveComplete, CompleteReturns, ServiceExit, FrameTypes
<1>6. CASE ServerNext
  BY <1>6 DEF ServerNext, Greet, Answer, Say, LinkDrops
<1>7. CASE UNCHANGED vars
  BY <1>7 DEF vars
<1> QED  BY <1>3, <1>4, <1>5, <1>6, <1>7 DEF Next

-----------------------------------------------------------------------------
(* Types: the pointers and flags apart from everything else.               *)
Flags == running \in BOOLEAN /\ ctx \in BOOLEAN /\ wsi \in BOOLEAN
         /\ wake \in BOOLEAN /\ writable \in BOOLEAN

NonFlags ==
  /\ appPc \in AppPcs /\ micPc \in {"idle", "wake"}
  /\ svcPc \in {"none", "loop", "callback", "exited"}
  /\ recording \in {"off", "manual", "auto"}
  /\ state \in States /\ hello \in {"pending", "ok", "failed"}
  /\ session \in Calls /\ rx \in Calls /\ calls \in Calls
  /\ task \in Tasks /\ rounds \in Tasks /\ conn \in Links
  /\ inbox \in Seq(Messages)
  /\ server \in [phase : Phases, task : Tasks, hello : Calls]

LEMMA TypeParts == TypeOK <=> QueueTypeOK /\ Flags /\ NonFlags
  BY DEF TypeOK, Flags, NonFlags

LEMMA FlagTypes ==
  ASSUME TypeOK, [Next]_vars
  PROVE  Flags'
<1> USE DEF Flags
<1>1. Flags  BY TypeParts
<1>2. CASE Connect
  BY <1>1, <1>2 DEF Connect, BeginConnect, StartService, net
<1>3. CASE ConnectFails
  BY <1>1, <1>3 DEF ConnectFails, BeginConnect, net
<1>4. CASE Initiate
  BY <1>1, <1>4 DEF Initiate, shared
<1>5. CASE HelloSettled
  BY <1>1, <1>5 DEF HelloSettled, shared, net
<1>6. CASE JoinService
  BY <1>1, <1>6 DEF JoinService, shared, net
<1>7. CASE Unwound
  BY <1>1, <1>7 DEF Unwound, DestroyContext
<1>8. CASE Closed
  BY <1>1, <1>8 DEF Closed, DestroyContext
<1>9. CASE Disconnect
  BY <1>1, <1>9 DEF Disconnect, StopRunning, CancelService, shared
<1>10. CASE Paused
  BY <1>1, <1>10 DEF Paused, StopRunning, CancelService, shared
<1>11. CASE Free
  BY <1>1, <1>11 DEF Free, shared, net
<1>12. CASE Abort
  BY <1>1, <1>12 DEF Abort, shared, net
<1>13. CASE StopListening
  BY <1>1, <1>13 DEF StopListening, net
<1>14. CASE StartListening
  BY <1>1, <1>14 DEF StartListening, NewRound, net
<1>15. CASE AbortNewRound
  BY <1>1, <1>15 DEF AbortNewRound, NewRound, CancelService
<1>16. CASE SendListen
  BY <1>1, <1>16 DEF SendListen, shared, net
<1>17. CASE Wake
  BY <1>1, <1>17 DEF Wake, CancelService, shared
<1>18. CASE Aborted
  BY <1>1, <1>18 DEF Aborted, net
<1>19. CASE Established
  BY <1>1, <1>19 DEF Established, CancelService, app
<1>20. CASE ConnectionError
  BY <1>1, <1>20 DEF ConnectionError, app
<1>21. CASE Hangup
  BY <1>1, <1>21 DEF Hangup, app
<1>22. CASE Writeable
  BY <1>1, <1>22 DEF Writeable, app, shared
<1>23. CASE WaitCancelled
  BY <1>1, <1>23 DEF WaitCancelled, app, shared
<1>24. CASE ReceiveFragment
  BY <1>1, <1>24 DEF ReceiveFragment, app, net
<1>25. CASE ReceiveGarbled \/ ReceiveHello
  BY <1>1, <1>25 DEF ReceiveGarbled, ReceiveHello, Receive, app
<1>26. CASE ReceiveReply \/ ReceiveComplete
  BY <1>1, <1>26 DEF ReceiveReply, ReceiveComplete, Receive, app
<1>27. CASE CompleteReturns \/ ServiceExit
  BY <1>1, <1>27 DEF CompleteReturns, ServiceExit, app, shared, net
<1>28. CASE MicNext
  BY <1>1, <1>28 DEF MicNext, SendAudio, AudioWake, CancelService, app, shared, net
<1>29. CASE ServerNext
  BY <1>1, <1>29 DEF ServerNext, Greet, Answer, Say, LinkDrops, app, shared
<1>30. CASE UNCHANGED vars
  BY <1>1, <1>30 DEF vars, app, shared, net
<1> QED
  BY <1>2, <1>3, <1>4, <1>5, <1>6, <1>7, <1>8, <1>9, <1>10, <1>11, <1>12, <1>13, <1>14, <1>15, <1>16, <1>17, <1>18, <1>19, <1>20, <1>21, <1>22, <1>23, <1>24, <1>25, <1>26, <1>27, <1>28, <1>29, <1>30
  DEF Next, AppNext, SvcNext

LEMMA AppTypes ==
  ASSUME TypeOK, AppNext
  PROVE  NonFlags'
<1> USE VoiceAssumption DEF NonFlags, AppPcs, States, Calls, Goto
<1>1. NonFlags  BY TypeParts
<1>2. CASE Connect
  BY <1>1, <1>2 DEF Connect, BeginConnect, StartService, net, Tasks, Links, Phases
<1>3. CASE ConnectFails
  BY <1>1, <1>3 DEF ConnectFails, BeginConnect, net, Tasks, Links, Phases
<1>4. CASE Initiate
  BY <1>1, <1>4 DEF Initiate, shared, Tasks, Links, Phases
<1>5. CASE HelloSettled
  BY <1>1, <1>5 DEF HelloSettled, shared, net, Tasks, Links, Phases
<1>6. CASE JoinService
  BY <1>1, <1>6 DEF JoinService, shared, net, Tasks, Links, Phases
<1>7. CASE Unwound
  BY <1>1, <1>7 DEF Unwound, DestroyContext, NewServer, Tasks, Links, Phases
<1>8. CASE Closed
  BY <1>1, <1>8 DEF Closed, DestroyContext, NewServer, Tasks, Links, Phases
<1>9. CASE Disconnect
  <2>1. appPc' \in AppPcs /\ recording' = "off"
    BY <1>9 DEF Disconnect, StopRunning
  <2>2. UNCHANGED <<micPc, svcPc, rounds, task, calls, shared, conn, inbox, server>>
    BY <1>9 DEF Disconnect
  <2> QED BY <1>1, <2>1, <2>2 DEF shared, Tasks, Links, Phases
<1>10. CASE Paused
  BY <1>1, <1>10 DEF Paused, StopRunning, CancelService, shared, Tasks, Links, Phases
<1>11. CASE Free
  BY <1>1, <1>11 DEF Free, shared, net, Tasks, Links, Phases
<1>12. CASE Abort
  BY <1>1, <1>12 DEF Abort, shared, net, Tasks, Links, Phases
<1>13. CASE StopListening
  BY <1>1, <1>13 DEF StopListening, net, Tasks, Links, Phases
<1>14. CASE StartListening
  BY <1>1, <1>14 DEF StartListening, NewRound, net, Tasks, Links, Phases
<1>15. CASE AbortNewRound
  BY <1>1, <1>15 DEF AbortNewRound, NewRound, CancelService, Tasks, Links, Phases
<1>16. CASE SendListen
  BY <1>1, <1>16 DEF SendListen, shared, net, Tasks, Links, Phases
<1>17. CASE Wake
  BY <1>1, <1>17 DEF Wake, CancelService, shared, Tasks, Links, Phases
<1>18. CASE Aborted
  BY <1>1, <1>18 DEF Aborted, net, Tasks, Links, Phases
<1> QED
  BY <1>2, <1>3, <1>4, <1>5, <1>6, <1>7, <1>8, <1>9, <1>10, <1>11, <1>12, <1>13, <1>14, <1>15, <1>16, <1>17, <1>18 DEF AppNext

LEMMA MicTypes ==
  ASSUME TypeOK, MicNext
  PROVE  NonFlags'
  BY TypeParts DEF MicNext, SendAudio, AudioWake, NonFlags, app, shared, net

LEMMA FirstIsFrame ==
  ASSUME RingOK, HoldsFrames, count # 0
  PROVE  First \in Frames /\ First = Contents[1] /\ count > 0
<1>1. count \in Nat /\ count > 0 /\ Len(Contents) = count
  BY ContentsTyped, QueueAssumption DEF RingOK, QueueTypeOK
<1>2. First = Contents[1]
  BY <1>1, WaitingSlots DEF First, Contents
<1> QED  BY <1>1, <1>2 DEF HoldsFrames

LEMMA HeardTyped ==
  ASSUME TypeOK, NEW f \in Frames
  PROVE  Heard(f) \in [phase : Phases, task : Tasks, hello : Calls]
<1> DEFINE Server == [phase : Phases, task : Tasks, hello : Calls]
<1>1. f \in Frame /\ server \in Server /\ 0 \in Tasks
  BY VoiceAssumption DEF TypeOK, Tasks
<1>2. CASE f.type = "hello"
  BY <1>1, <1>2 DEF Heard, Frame, Phases
<1>3. CASE f.type # "hello" /\ server.phase \in {"new", "greeted"}
  BY <1>1, <1>3 DEF Heard
<1>4. CASE f.type # "hello" /\ server.phase \notin {"new", "greeted"}
  BY <1>1, <1>4 DEF Heard, Frame, Phases
<1> QED  BY <1>2, <1>3, <1>4

LEMMA SvcTypes ==
  ASSUME TypeOK, RingOK, HoldsFrames, SvcNext
  PROVE  NonFlags'
<1> USE DEF NonFlags
<1>0. NonFlags  BY TypeParts
<1>1. CASE Established \/ ConnectionError \/ Hangup
  <2>1. server' \in [phase : Phases, task : Tasks, hello : Calls]
    BY <1>0, <1>1, VoiceAssumption DEF Established, ConnectionError, Hangup,
       NewServer, Phases, Tasks, Calls
  <2>2. hello' \in {"pending", "ok", "failed"} /\ conn' \in Links /\ state' \in States
    BY <1>0, <1>1 DEF Established, ConnectionError, Hangup, SettleFailed, Links, States
  <2>3. inbox' \in Seq(Messages)
    <3>1. CASE Established \/ ConnectionError
      BY <1>0, <3>1 DEF Established, ConnectionError
    <3>2. CASE Hangup
      BY <3>2 DEF Hangup
    <3> QED  BY <1>1, <3>1, <3>2
  <2> QED  BY <1>0, <1>1, <2>1, <2>2, <2>3 DEF Established, ConnectionError, Hangup, app
<1>2. CASE Writeable
  <2>1. server' \in [phase : Phases, task : Tasks, hello : Calls]
    BY <1>0, <1>2, FirstIsFrame, HeardTyped DEF Writeable
  <2> QED  BY <1>0, <1>2, <2>1 DEF Writeable, app, shared
<1>3. CASE WaitCancelled
  BY <1>0, <1>3 DEF WaitCancelled, app, shared
<1>4. CASE ReceiveFragment
  BY <1>0, <1>4 DEF ReceiveFragment, app, net
<1>5. ASSUME NEW m \in Messages, Receive(m)
      PROVE  inbox' \in Seq(Messages) /\ rx' \in Calls
  BY <1>0, <1>5, VoiceAssumption DEF Receive, Calls
<1>6. CASE ReceiveGarbled \/ ReceiveHello \/ ReceiveReply \/ ReceiveComplete
  BY <1>0, <1>5, <1>6 DEF ReceiveGarbled, ReceiveHello, ReceiveReply, ReceiveComplete, Receive,
     app, States
<1>7. CASE CompleteReturns \/ ServiceExit
  BY <1>0, <1>7 DEF CompleteReturns, ServiceExit, app, shared, net, States
<1> QED  BY <1>1, <1>2, <1>3, <1>4, <1>6, <1>7 DEF SvcNext

LEMMA ServerTypes ==
  ASSUME TypeOK, ServerNext
  PROVE  NonFlags'
<1> USE DEF NonFlags
<1>0. NonFlags  BY TypeParts
<1>1. \A type \in {"hello", "chunk", "reply", "complete"} :
        [type |-> type, task |-> server.task] \in Messages
  BY <1>0 DEF Messages
<1>2. CASE LinkDrops
  BY <1>0, <1>2 DEF LinkDrops, app, shared, Links
<1>3. ASSUME NEW type \in {"hello", "chunk", "reply", "complete"},
             NEW from, NEW to \in Phases, Say(type, from, to)
      PROVE  NonFlags'
  <2>1. inbox' \in Seq(Messages)
    BY <1>0, <1>1, <1>3 DEF Say
  <2>2. 0 \in Tasks  BY VoiceAssumption DEF Tasks
  <2>3. server' \in [phase : Phases, task : Tasks, hello : Calls]
    BY <1>0, <1>3, <2>2 DEF Say
  <2> QED  BY <1>0, <1>3, <2>1, <2>3 DEF Say, app, shared
<1> QED  BY <1>2, <1>3 DEF ServerNext, Greet, Answer, Phases

-----------------------------------------------------------------------------
VoiceTypeInv == TypeOK /\ RingOK /\ HoldsFrames

LEMMA VoiceTypeInit == Init => VoiceTypeInv
<1> SUFFICES ASSUME Init PROVE VoiceTypeInv
  OBVIOUS
<1>1. RingOK  BY RingInit DEF Init
<1>2. HoldsFrames
  BY DEF Init, QueueInit, HoldsFrames, Contents
<1>3. Flags  BY DEF Init, Flags
<1>4. NonFlags
  BY VoiceAssumption DEF Init, NonFlags, AppPcs, States, Links, Calls, Tasks, NewServer, Phases
<1> QED  BY <1>1, <1>2, <1>3, <1>4, TypeParts DEF VoiceTypeInv, RingOK

LEMMA VoiceTypeStep ==
  ASSUME VoiceTypeInv, [Next]_vars
  PROVE  VoiceTypeInv'
<1>1. RingOK' /\ HoldsFrames' /\ QueueTypeOK'
  BY RingOnly, RingStep, RingHoldsFrames DEF VoiceTypeInv, RingOK
<1>2. Flags'  BY FlagTypes DEF VoiceTypeInv
<1>3. NonFlags'
  <2>1. CASE UNCHANGED vars
    BY <2>1, TypeParts DEF vars, app, shared, net, VoiceTypeInv, NonFlags
  <2>2. CASE Next
    BY <2>2, AppTypes, MicTypes, SvcTypes, ServerTypes DEF Next, VoiceTypeInv
  <2> QED  BY <2>1, <2>2
<1> QED  BY <1>1, <1>2, <1>3 DEF VoiceTypeInv, TypeOK, Flags, NonFlags

(* Type correctness, with the ring well formed and holding frames only.    *)
THEOREM VoiceTypeCorrect == Spec => []TypeOK
<1>1. VoiceTypeInv => TypeOK  BY DEF VoiceTypeInv
<1> QED  BY VoiceTypeInit, VoiceTypeStep, <1>1, PTL DEF Spec

(* Whatever the client's threads do with it, the ring is a queue: frames   *)
(* reach the wire in the order in which they were accepted.                *)
THEOREM VoiceRingIsFifo == Spec => RingIsFifo
<1>1. Init => Fifo!Init
  BY DEF Init, QueueInit, Contents, Fifo!Init
<1>2. VoiceTypeInv /\ [Next]_vars => [Fifo!Next]_Contents
  BY RingOnly, RingStep DEF VoiceTypeInv
<1> QED  BY VoiceTypeInit, VoiceTypeStep, <1>1, <1>2, PTL DEF Spec, RingIsFifo, Fifo!Spec

-----------------------------------------------------------------------------
(* Who changes what.                                                       *)
LEMMA SvcOwns ==
  SvcNext => UNCHANGED <<app, micPc>> /\ svcPc # "none"
  BY DEF SvcNext, Serving, Established, ConnectionError, Hangup, Writeable, WaitCancelled,
     ReceiveFragment, Receive, ReceiveGarbled, ReceiveHello, ReceiveReply, ReceiveComplete,
     CompleteReturns, ServiceExit

LEMMA OthersOwn ==
  MicNext \/ ServerNext => UNCHANGED <<app, svcPc, shared>>
  BY DEF MicNext, SendAudio, AudioWake, ServerNext, Greet, Answer, Say, LinkDrops

(* The service thread is gone once it was joined, which is before its      *)
(* context goes.                                                           *)
VoiceThreadInv ==
  /\ ServiceThreadOwned
  /\ appPc \in {"destroy", "close"} => svcPc = "none"

LEMMA VoiceThreadStep ==
  ASSUME VoiceThreadInv, [Next]_vars
  PROVE  VoiceThreadInv'
<1> USE DEF VoiceThreadInv, ServiceThreadOwned, Goto
<1>1. CASE Connect \/ ConnectFails
  BY <1>1 DEF Connect, ConnectFails, BeginConnect, StartService
<1>2. CASE Initiate \/ HelloSettled
  BY <1>2 DEF Initiate, HelloSettled
<1>3. CASE JoinService
  BY <1>3 DEF JoinService
<1>4. CASE Unwound \/ Closed
  BY <1>4 DEF Unwound, Closed, DestroyContext
<1>5. CASE Disconnect \/ Paused
  BY <1>5 DEF Disconnect, Paused, StopRunning
<1>6. CASE Free \/ Abort \/ StopListening \/ SendListen \/ Wake \/ Aborted
  BY <1>6 DEF Free, Abort, StopListening, SendListen, Wake, Aborted
<1>7. CASE StartListening \/ AbortNewRound
  BY <1>7 DEF StartListening, AbortNewRound, NewRound
<1>8. CASE SvcNext
  BY <1>8, SvcOwns DEF app
<1>9. CASE MicNext \/ ServerNext
  BY <1>9, OthersOwn DEF app
<1>10. CASE UNCHANGED vars
  BY <1>10 DEF vars, app
<1> QED
  BY <1>1, <1>2, <1>3, <1>4, <1>5, <1>6, <1>7, <1>8, <1>9, <1>10 DEF Next, AppNext

(* The service thread never outlives its context and is never forgotten,   *)
(* on any path of connect and disconnect.                                  *)
THEOREM VoiceServiceThreadOwned == Spec => []ServiceThreadOwned
<1>1. Init => VoiceThreadInv
  BY DEF Init, VoiceThreadInv, ServiceThreadOwned
<1>2. VoiceThreadInv => ServiceThreadOwned
  BY DEF VoiceThreadInv
<1> QED  BY <1>1, <1>2, VoiceThreadStep, PTL DEF Spec

-----------------------------------------------------------------------------
(* The frames behind the hello of this connection are of this connection,  *)
(* and nothing is of a later one.                                          *)
Own(i) == Contents[i].call = calls

SessionInv ==
  /\ AfterHelloOwn
  /\ \A i, j \in 1..count : i < j /\ Contents[i].type = "hello" /\ Own(i) => Own(j)
  /\ \A i \in 1..count : Contents[i].call <= calls
  /\ server.hello <= calls

(* A step that pushes a frame of this connection, and one that leaves the  *)
(* queue, keep it.                                                         *)
LEMMA SessionQueueStep ==
  ASSUME VoiceTypeInv, SessionInv, calls' = calls,
         server' = server \/ server'.hello \in {0, server.hello},
         UNCHANGED queue \/ \E type \in FrameTypes : Send(type)
  PROVE  SessionInv'
<1>1. count \in Nat /\ Len(Contents) = count /\ calls \in Nat /\ server.hello \in Nat
  BY ContentsTyped, QueueAssumption, VoiceAssumption
  DEF VoiceTypeInv, RingOK, QueueTypeOK, TypeOK, Calls
<1>2. server'.hello \in {0, server.hello}
  OBVIOUS
<1>3. CASE UNCHANGED Contents /\ UNCHANGED count
  BY <1>1, <1>2, <1>3 DEF SessionInv, AfterHelloOwn, Own
<1>4. ASSUME NEW f \in Frames, f.call = calls, Contents' = Append(Contents, f), count' = count + 1
      PROVE  SessionInv'
  <2>1. /\ \A i \in 1..count : Contents'[i] = Contents[i]
        /\ Contents'[count + 1] = f
    BY <1>1, <1>4 DEF VoiceTypeInv, HoldsFrames
  <2>2. \A i \in 1..count' : i \in 1..count \/ i = count + 1
    BY <1>1, <1>4
  <2>3. AfterHelloOwn'
    BY <1>1, <1>2, <1>4, <2>1, <2>2 DEF SessionInv, AfterHelloOwn, Own
  <2>4. (\A i, j \in 1..count : i < j /\ Contents[i].type = "hello" /\ Own(i) => Own(j))'
    <3> SUFFICES ASSUME NEW i \in 1..count', NEW j \in 1..count', i < j,
                        Contents'[i].type = "hello", Contents'[i].call = calls
                 PROVE  Contents'[j].call = calls
      BY DEF Own
    <3>1. i \in 1..count
      BY <1>1, <1>4
    <3>2. CASE j = count + 1
      BY <1>4, <2>1, <3>2
    <3>3. CASE j \in 1..count
      BY <2>1, <3>1, <3>3 DEF SessionInv, Own
    <3> QED  BY <2>2, <3>2, <3>3
  <2>5. (\A i \in 1..count : Contents[i].call <= calls)' /\ (server.hello <= calls)'
    BY <1>1, <1>2, <1>4, <2>1, <2>2 DEF SessionInv
  <2> QED  BY <2>3, <2>4, <2>5 DEF SessionInv
<1>5. CASE UNCHANGED queue
  BY <1>3, <1>5 DEF queue, Contents, Slot
<1>6. ASSUME NEW type \in FrameTypes, Send(type)
      PROVE  SessionInv'
  <2>1. Built(type) \in Frames /\ Built(type).call = calls /\ Push(Built(type))
    BY <1>6, BuiltIsFrame DEF VoiceTypeInv, Send, Built
  <2>2. CASE Full
    BY <1>5, <2>1, <2>2 DEF Push
  <2>3. CASE ~Full
    <3>1. Contents' = Append(Contents, Built(type))
      BY <2>1, <2>3, PushAppends DEF VoiceTypeInv
    <3>2. count' = count + 1
      BY <2>1, <2>3 DEF Push
    <3> QED  BY <1>4, <2>1, <3>1, <3>2
  <2> QED  BY <2>2, <2>3
<1> QED  BY <1>5, <1>6

LEMMA HeardHello ==
  ASSUME TypeOK, NEW f \in Frames
  PROVE  Heard(f).hello = IF f.type = "hello" THEN f.call ELSE server.hello
<1>1. server \in [phase : Phases, task : Tasks, hello : Calls]
  BY DEF TypeOK
<1>2. CASE f.type = "hello"
  BY <1>2 DEF Heard
<1>3. CASE f.type # "hello" /\ server.phase \in {"new", "greeted"}
  BY <1>3 DEF Heard
<1>4. CASE f.type # "hello" /\ server.phase \notin {"new", "greeted"}
  BY <1>1, <1>4 DEF Heard
<1> QED  BY <1>2, <1>3, <1>4

(* A frame leaves: a hello of this connection leaves only own frames.      *)
LEMMA SessionWriteStep ==
  ASSUME VoiceTypeInv, SessionInv, Writeable
  PROVE  SessionInv'
<1>1. count \in Nat /\ Len(Contents) = count /\ calls \in Nat /\ calls' = calls
  BY ContentsTyped, QueueAssumption, VoiceAssumption
  DEF VoiceTypeInv, RingOK, QueueTypeOK, TypeOK, Calls, Writeable, app
<1>2. CASE count = 0
  BY <1>1, <1>2, SessionQueueStep DEF Writeable
<1>3. CASE count # 0
  <2>1. Pop /\ (server' = server \/ server' = Heard(First))
    BY <1>3 DEF Writeable
  <2>2. First = Contents[1] /\ Contents' = Tail(Contents) /\ count' = count - 1
    BY <2>1, PopTakesFirst DEF VoiceTypeInv, Pop
  <2>3. \A i \in 1..count' : i + 1 \in 1..count /\ Contents'[i] = Contents[i + 1]
    BY <1>1, <1>3, <2>2 DEF VoiceTypeInv, HoldsFrames
  <2>4. \/ server'.hello = server.hello
        \/ First.type = "hello" /\ server'.hello = First.call
    <3>1. First \in Frames  BY <1>3, FirstIsFrame DEF VoiceTypeInv
    <3> QED  BY <2>1, <3>1, HeardHello DEF VoiceTypeInv
  <2>5. 1 \in 1..count /\ First.call <= calls
    BY <1>1, <1>3, <2>2 DEF SessionInv
  <2>6. AfterHelloOwn'
    BY <1>1, <2>2, <2>3, <2>4, <2>5 DEF SessionInv, AfterHelloOwn, Own
  <2>7. (\A i, j \in 1..count : i < j /\ Contents[i].type = "hello" /\ Own(i) => Own(j))'
    BY <1>1, <2>2, <2>3 DEF SessionInv, Own
  <2>8. (\A i \in 1..count : Contents[i].call <= calls)' /\ (server.hello <= calls)'
    BY <1>1, <2>2, <2>3, <2>4, <2>5 DEF SessionInv
  <2> QED  BY <2>6, <2>7, <2>8 DEF SessionInv
<1> QED  BY <1>2, <1>3

LEMMA SessionConnectStep ==
  ASSUME VoiceTypeInv, SessionInv, Connect \/ ConnectFails
  PROVE  SessionInv'
<1>1. calls \in Nat /\ calls' = calls + 1 /\ server.hello \in Nat
  BY VoiceAssumption DEF VoiceTypeInv, TypeOK, Calls, Connect, ConnectFails, BeginConnect
<1>2. server' = server /\ Contents' = Contents /\ count' = count
  BY DEF Connect, ConnectFails, StartService, net, queue, Contents, Slot
<1>3. \A i \in 1..count : Contents[i].call \in Nat
  <2>1. Contents \in Seq(Frame) /\ Len(Contents) = count
    BY ContentsTyped, VoiceAssumption DEF VoiceTypeInv, HoldsFrames
  <2>2. \A i \in 1..count : Contents[i] \in Frame
    BY <2>1
  <2> QED  BY <2>2, VoiceAssumption DEF Frame, Calls
<1>4. \A i \in 1..count : Contents[i].call # calls'
  BY <1>1, <1>3 DEF SessionInv
<1>5. server.hello # calls'
  BY <1>1 DEF SessionInv
<1> QED  BY <1>1, <1>2, <1>3, <1>4, <1>5 DEF SessionInv, AfterHelloOwn, Own

LEMMA SessionStep ==
  ASSUME VoiceTypeInv, SessionInv, [Next]_vars
  PROVE  SessionInv'
<1> DEFINE Sends == UNCHANGED queue \/ \E type \in FrameTypes : Send(type)
           Hears == server' = server \/ server'.hello \in {0, server.hello}
<1> SUFFICES ASSUME ~(Connect \/ ConnectFails), ~Writeable
             PROVE  calls' = calls /\ Hears /\ Sends
  BY SessionConnectStep, SessionWriteStep, SessionQueueStep
<1>1. CASE Initiate \/ HelloSettled \/ JoinService \/ Paused \/ Free \/ Wake \/ Aborted
  BY <1>1 DEF Initiate, HelloSettled, JoinService, Paused, Free, Wake, Aborted, net
<1>2. CASE Unwound \/ Closed
  BY <1>2 DEF Unwound, Closed, DestroyContext, NewServer
<1>3. CASE Disconnect \/ SendListen \/ StopListening \/ Abort
  <2>1. calls' = calls /\ server' = server
    BY <1>3 DEF Disconnect, SendListen, StopListening, Abort, net
  <2>2. Sends
    BY <1>3 DEF Disconnect, SendListen, StopListening, Abort, FrameTypes
  <2> QED  BY <2>1, <2>2
<1>4. CASE StartListening \/ AbortNewRound
  BY <1>4 DEF StartListening, AbortNewRound, NewRound, net
<1>5. CASE MicNext
  BY <1>5 DEF MicNext, SendAudio, AudioWake, FrameTypes, app, net
<1>6. CASE Established
  BY <1>6 DEF Established, FrameTypes, app
<1>7. CASE Hangup \/ ConnectionError
  BY <1>7 DEF Hangup, ConnectionError, NewServer, app
<1>8. CASE WaitCancelled \/ ReceiveFragment \/ CompleteReturns \/ ServiceExit
  BY <1>8 DEF WaitCancelled, ReceiveFragment, CompleteReturns, ServiceExit, app, net
<1>9. CASE ReceiveGarbled \/ ReceiveHello \/ ReceiveReply \/ ReceiveComplete
  BY <1>9 DEF ReceiveGarbled, ReceiveHello, ReceiveReply, ReceiveComplete, Receive, app
<1>10. CASE ServerNext
  <2>1. server \in [phase : Phases, task : Tasks, hello : Calls]
    BY DEF VoiceTypeInv, TypeOK
  <2>2. \A type, from, to : Say(type, from, to) => calls' = calls /\ Hears /\ Sends
    BY <2>1 DEF Say, app
  <2> QED  BY <1>10, <2>2 DEF ServerNext, Greet, Answer, LinkDrops, app
<1>11. CASE UNCHANGED vars
  BY <1>11 DEF vars, app, net
<1> QED
  BY <1>1, <1>2, <1>3, <1>4, <1>5, <1>6, <1>7, <1>8, <1>9, <1>10, <1>11
  DEF Next, AppNext, SvcNext

(* Frames of an earlier session never follow the hello of this connection, *)
(* for any number of sessions that left frames behind.                     *)
THEOREM VoiceAfterHelloOwn == Spec => []AfterHelloOwn
<1>1. Init => SessionInv
  BY DEF Init, QueueInit, NewServer, SessionInv, AfterHelloOwn
<1>2. SessionInv => AfterHelloOwn
  BY DEF SessionInv
<1> QED  BY <1>1, <1>2, VoiceTypeInit, VoiceTypeStep, SessionStep, PTL DEF Spec

-----------------------------------------------------------------------------
(* Without a connection no callback sets a session's state. There is none  *)
(* after a failed handshake and while the client does not run.             *)
Stopped == appPc \in {"idle", "freed"} /\ ~running
Unwinding == appPc \in {"unwind", "destroy"}
AtRest == conn = "none" /\ svcPc # "callback" /\ state \in {"disconnected", "connecting"}

StopInv ==
  /\ wsi => conn \in {"open", "dropped"}
  /\ conn = "opening" \/ appPc = "initiate" =>
       /\ state = "connecting" /\ hello = "pending" /\ svcPc # "callback"
       /\ appPc \in {"initiate", "hello"}
  /\ appPc = "initiate" => conn = "none"
  /\ ~running => Unwinding \/ Stopped \/ appPc \in {"join", "close"}
  /\ Unwinding \/ appPc \in {"join", "close"} => ~running
  /\ recording # "off" => running /\ appPc \notin {"initiate", "hello", "bye", "pause"}
  /\ hello = "pending" => appPc \in {"initiate", "hello"} \/ Unwinding \/ Stopped
  /\ hello = "failed" => appPc = "hello" \/ Unwinding \/ Stopped
  /\ hello = "failed" \/ Unwinding \/ Stopped => AtRest

LEMMA StopStep ==
  ASSUME VoiceThreadInv, StopInv, [Next]_vars
  PROVE  StopInv'
<1> USE DEF StopInv, AtRest, Stopped, Unwinding, Goto
<1>1. CASE Connect \/ ConnectFails
  BY <1>1 DEF Connect, ConnectFails, BeginConnect, StartService, net
<1>2. CASE Initiate \/ HelloSettled
  BY <1>2 DEF Initiate, HelloSettled, shared, net
<1>3. CASE JoinService
  BY <1>3 DEF JoinService, shared, net
<1>4. CASE Unwound \/ Closed
  BY <1>4 DEF Unwound, Closed, DestroyContext, VoiceThreadInv
<1>5. CASE Disconnect \/ Paused
  BY <1>5 DEF Disconnect, Paused, StopRunning, shared
<1>6. CASE Free \/ Wake
  BY <1>6 DEF Free, Wake, shared, net
<1>7. CASE StartListening \/ AbortNewRound
  BY <1>7 DEF StartListening, AbortNewRound, NewRound, net
<1>8. CASE SendListen \/ StopListening \/ Abort \/ Aborted
  BY <1>8 DEF SendListen, StopListening, Abort, Aborted, shared, net
<1>9. CASE MicNext \/ ServerNext
  BY <1>9 DEF MicNext, SendAudio, AudioWake, ServerNext, Greet, Answer, Say, LinkDrops,
     app, shared, net
<1>10. CASE Established \/ ConnectionError \/ Hangup
  BY <1>10 DEF Established, ConnectionError, Hangup, SettleFailed, Serving, app
<1>11. CASE Writeable \/ WaitCancelled \/ ReceiveFragment
  BY <1>11 DEF Writeable, WaitCancelled, ReceiveFragment, app, shared, net
<1>12. CASE ReceiveGarbled \/ ReceiveHello \/ ReceiveReply \/ ReceiveComplete
  BY <1>12 DEF ReceiveGarbled, ReceiveHello, ReceiveReply, ReceiveComplete, Receive, app
<1>13. CASE CompleteReturns \/ ServiceExit
  BY <1>13 DEF CompleteReturns, ServiceExit, app, shared, net
<1>14. CASE UNCHANGED vars
  BY <1>14 DEF vars, app, shared, net
<1> QED
  BY <1>1, <1>2, <1>3, <1>4, <1>5, <1>6, <1>7, <1>8, <1>9, <1>10, <1>11, <1>12, <1>13, <1>14
  DEF Next, AppNext, SvcNext

(* A client that does not run never shows a session's state.               *)
THEOREM VoiceStoppedState == Spec => []StoppedState
<1>1. Init => VoiceThreadInv /\ StopInv
  BY DEF Init, VoiceThreadInv, ServiceThreadOwned, StopInv, AtRest, Stopped, Unwinding
<1>2. StopInv => StoppedState
  BY DEF StopInv, StoppedState, Stopped, AtRest
<1> QED  BY <1>1, <1>2, VoiceThreadStep, StopStep, PTL DEF Spec
-----------------------------------------------------------------------------
(* Wake-ups. A connection has its context, so lws_cancel_service is never  *)
(* skipped while there is one.                                             *)
WakeInv ==
  /\ NoLostWakeUp
  /\ wsi => ctx

LEMMA PushLeavesFrame ==
  ASSUME VoiceTypeInv, NEW type, Send(type)
  PROVE  count' \in Nat /\ (Full => UNCHANGED count)
  BY QueueAssumption DEF VoiceTypeInv, TypeOK, QueueTypeOK, Send, Push, Full, queue

LEMMA WakeStep ==
  ASSUME VoiceTypeInv, VoiceThreadInv, StopInv, WakeInv, [Next]_vars
  PROVE  WakeInv'
<1> USE DEF WakeInv, NoLostWakeUp, Goto, CancelService, queue
<1>1. CASE Connect \/ ConnectFails
  BY <1>1 DEF Connect, ConnectFails, BeginConnect
<1>2. CASE Initiate \/ HelloSettled \/ JoinService
  BY <1>2 DEF Initiate, HelloSettled, JoinService, shared, net
<1>3. CASE Unwound \/ Closed
  BY <1>3 DEF Unwound, Closed, StopInv, Unwinding, AtRest
<1>4. CASE Disconnect
  BY <1>4 DEF Disconnect, StopRunning, shared
<1>5. CASE Paused
  BY <1>5 DEF Paused, StopRunning, shared
<1>6. CASE Free
  BY <1>6 DEF Free, StopInv, Stopped, AtRest, shared, net
<1>7. CASE StartListening \/ AbortNewRound
  BY <1>7 DEF StartListening, AbortNewRound, NewRound, net
<1>8. CASE SendListen \/ StopListening \/ Abort
  BY <1>8 DEF SendListen, StopListening, Abort, shared, net
<1>9. CASE Wake \/ Aborted
  BY <1>9 DEF Wake, Aborted, shared, net
<1>10. CASE SendAudio
  BY <1>10, PushLeavesFrame DEF SendAudio, app, shared, net
<1>11. CASE AudioWake
  BY <1>11 DEF AudioWake, app, shared
<1>12. CASE ServerNext
  BY <1>12 DEF ServerNext, Greet, Answer, Say, LinkDrops, app, shared
<1>13. CASE Established
  BY <1>13 DEF Established, Serving, VoiceThreadInv, ServiceThreadOwned, app
<1>14. CASE ConnectionError \/ Hangup
  BY <1>14 DEF ConnectionError, Hangup, app
<1>15. CASE Writeable
  <2>1. count \in Nat
    BY QueueAssumption DEF VoiceTypeInv, TypeOK, QueueTypeOK
  <2>2. IF count = 0 THEN UNCHANGED count ELSE Pop
    BY <1>15 DEF Writeable
  <2>3. count' > 0 => count > 1
    BY <2>1, <2>2 DEF Pop
  <2>4. count > 1 => writable'
    BY <1>15, Zenon DEF Writeable
  <2> QED BY <1>15, <2>3, <2>4 DEF Writeable, app, shared
<1>16. CASE WaitCancelled
  BY <1>16 DEF WaitCancelled, app, shared
<1>17. CASE ReceiveFragment \/ CompleteReturns \/ ServiceExit
  BY <1>17 DEF ReceiveFragment, CompleteReturns, ServiceExit, app, shared, net
<1>18. CASE ReceiveGarbled \/ ReceiveHello \/ ReceiveReply \/ ReceiveComplete
  BY <1>18 DEF ReceiveGarbled, ReceiveHello, ReceiveReply, ReceiveComplete, Receive, app
<1>19. CASE UNCHANGED vars
  BY <1>19 DEF vars, app, shared, net
<1> QED
  BY <1>1, <1>2, <1>3, <1>4, <1>5, <1>6, <1>7, <1>8, <1>9, <1>10, <1>11, <1>12, <1>13, <1>14,
     <1>15, <1>16, <1>17, <1>18, <1>19
  DEF Next, AppNext, MicNext, SvcNext

(* No frame waits on a connection that nobody was told of: the flag set    *)
(* after the push (voice_client.c 173, 654) and the one frame per          *)
(* WRITEABLE (voice_client.c 364-385) never leave one behind.              *)
THEOREM VoiceNoLostWakeUp == Spec => []NoLostWakeUp
<1>1. Init => VoiceThreadInv /\ StopInv /\ WakeInv
  BY DEF Init, QueueInit, VoiceThreadInv, ServiceThreadOwned, StopInv, AtRest, Stopped,
     Unwinding, WakeInv, NoLostWakeUp
<1>2. WakeInv => NoLostWakeUp
  BY DEF WakeInv
<1> QED
  BY VoiceTypeInit, VoiceTypeStep, <1>1, <1>2, VoiceThreadStep, StopStep, WakeStep, PTL
  DEF Spec
=============================================================================
