-------------------------- MODULE AudioStreamsProofs --------------------------
(***************************************************************************)
(* Theorems about the audio streams, for any number of streams of each     *)
(* kind.  The counts come last: StreamInv says what each stream's call, its*)
(* object and PortAudio's stream have to do with one another, and with it  *)
(* every step takes or gives back exactly the reference it is counted for. *)
(***************************************************************************)
EXTENDS AudioStreams, FiniteSetTheorems, TLAPS

StreamInv(s) ==
  /\ call[s] \in OpenPcs \cup {"release"} => ~obj[s].open
  /\ call[s] \in {"start", "write", "closeStop", "closePa"} => obj[s].open
  /\ pa[s] # "none" => obj[s].open
  /\ pa[s] = "active" => obj[s].running \/ call[s] = "start"
  /\ busy[s] => pa[s] = "active" /\ obj[s].cb # "none"
  /\ obj[s].asym => s \in Duplexes /\ obj[s].open /\ obj[s].cb # "plain"

Used(c) == IF refs[c] > 0 THEN 1 ELSE 0
InitsInv == inits = Used("simplex") + Used("duplex")

-----------------------------------------------------------------------------
(* What a step does to PortAudio's counts.                                 *)
RefsSame == UNCHANGED <<refs, inits>>

LEMMA StepRefs ==
  ASSUME [Next]_vars
  PROVE  RefsSame \/ \E c \in Counters : Ensure(c) \/ Release(c)
<1> USE DEF RefsSame
<1>1. ASSUME NEW s \in Streams PROVE CounterOf(s) \in Counters
  BY DEF CounterOf, Counters
<1>2. ASSUME NEW s \in Streams, List(s) \/ Open(s)
      PROVE  RefsSame \/ Ensure(CounterOf(s))
  BY <1>2 DEF List, Open, EnsureFails
<1>3. ASSUME NEW s \in Streams, InputCalls(s) \/ OutputCalls(s) \/ DuplexCalls(s)
      PROVE  RefsSame \/ Ensure(CounterOf(s))
  <2>1. CASE List(s) \/ Open(s)
    BY <1>2, <2>1
  <2>2. CASE OpenTwice(s) \/ SetCallback(s) \/ SetDuplexCallback(s) \/ Recreate(s)
    BY <2>2 DEF OpenTwice, SetCallback, SetDuplexCallback, Recreate
  <2>3. CASE Start(s) \/ Stop(s) \/ Close(s) \/ Write(s)
    BY <2>3 DEF Start, Stop, Close, Write
  <2> QED BY <1>3, <2>1, <2>2, <2>3 DEF InputCalls, OutputCalls, DuplexCalls, AnyCall
<1>4. ASSUME NEW s \in Streams, CallStep(s)
      PROVE  RefsSame \/ Ensure(CounterOf(s)) \/ Release(CounterOf(s))
  <2>1. CASE OpenStep(s)
    BY <2>1 DEF OpenStep, Search, SearchReturns, NoSearch, GiveUp, OpenInput, OpenOutput,
       OpenDuplex, Opened
  <2>2. CASE StartReturns(s) \/ StopReturns(s) \/ WriteReturns(s) \/ CloseStops(s)
               \/ ClosePaStream(s)
    BY <2>2 DEF StartReturns, StopReturns, WriteReturns, CloseStops, ClosePaStream
  <2>3. CASE ListReturns(s) \/ CloseReturns(s)
    BY <2>3 DEF ListReturns, CloseReturns
  <2> QED BY <1>4, <2>1, <2>2, <2>3 DEF CallStep
<1>5. ASSUME NEW s \in Streams, CallbackRuns(s) \/ CallbackReturns(s)
      PROVE  RefsSame
  BY <1>5 DEF CallbackRuns, CallbackReturns, InputCallback, OutputCallback, DuplexCallback
<1>6. CASE UNCHANGED vars
  BY <1>6 DEF vars
<1> QED BY <1>1, <1>3, <1>4, <1>5, <1>6 DEF Next

LEMMA CountsStep ==
  ASSUME refs \in [Counters -> Nat], inits \in Nat, InitsInv, [Next]_vars
  PROVE  refs' \in [Counters -> Nat] /\ inits' \in Nat /\ InitsInv'
<1> USE DEF InitsInv, Used, Counters
<1>1. CASE RefsSame
  BY <1>1 DEF RefsSame
<1>2. ASSUME NEW c \in Counters, Ensure(c)
      PROVE  refs' \in [Counters -> Nat] /\ inits' \in Nat /\ InitsInv'
  BY <1>2 DEF Ensure
<1>3. ASSUME NEW c \in Counters, Release(c)
      PROVE  refs' \in [Counters -> Nat] /\ inits' \in Nat /\ InitsInv'
  BY <1>3 DEF Release
<1> QED BY <1>1, <1>2, <1>3, StepRefs

-----------------------------------------------------------------------------
(* The types of the streams.                                               *)
StreamsType ==
  /\ obj \in [Streams -> Object]
  /\ pa \in [Streams -> {"none", "stopped", "active", "finished"}]
  /\ busy \in [Streams -> BOOLEAN]
  /\ call \in [Streams -> Pcs]
  /\ ret \in [Streams -> BOOLEAN]

(* What Set and StopPaStream do to the objects.                            *)
LEMMA SetRunning ==
  ASSUME obj \in [Streams -> Object], NEW s \in Streams, NEW v \in BOOLEAN,
         Set(s, "running", v)
  PROVE  /\ obj' \in [Streams -> Object]
         /\ \A r \in Streams :
              /\ obj'[r].open = obj[r].open /\ obj'[r].cb = obj[r].cb
              /\ obj'[r].asym = obj[r].asym /\ obj'[r].mode = obj[r].mode
              /\ obj'[r].running = IF r = s THEN v ELSE obj[r].running
BY DEF Set, Object

LEMMA SetCb ==
  ASSUME obj \in [Streams -> Object], NEW s \in Streams, NEW v \in {"none", "plain", "ex"},
         Set(s, "cb", v)
  PROVE  \A r \in Streams :
           /\ obj'[r].open = obj[r].open /\ obj'[r].running = obj[r].running
           /\ obj'[r].asym = obj[r].asym /\ obj'[r].mode = obj[r].mode
           /\ obj'[r].cb = IF r = s THEN v ELSE obj[r].cb
BY DEF Set, Object

LEMMA StopEffect ==
  ASSUME StreamsType, NEW s \in Streams, StopPaStream(s)
  PROVE  /\ obj' \in [Streams -> Object]
         /\ pa' \in [Streams -> {"none", "stopped", "active", "finished"}]
<1>1. CASE UNCHANGED <<pa, obj>>
  BY <1>1 DEF StreamsType
<1>2. CASE pa' = [pa EXCEPT ![s] = "stopped"] /\ Set(s, "running", FALSE)
  BY <1>2, SetRunning DEF StreamsType
<1> QED BY <1>1, <1>2 DEF StopPaStream

LEMMA StreamsTypeStep ==
  ASSUME StreamsType, [Next]_vars
  PROVE  StreamsType'
<1> USE DEF StreamsType, Object, Goto, Returns, Set, Pcs, OpenPcs, NestedPcs, StopPcs
<1>1. ASSUME NEW s \in Streams, InputCalls(s) \/ OutputCalls(s) \/ DuplexCalls(s)
      PROVE  StreamsType'
  <2>1. CASE List(s) \/ Open(s) \/ OpenTwice(s)
    BY <2>1 DEF List, Open, OpenTwice
  <2>2. CASE SetCallback(s)
    BY <2>2 DEF SetCallback
  <2>3. CASE SetDuplexCallback(s)
    BY <2>3 DEF SetDuplexCallback
  <2>4. CASE Recreate(s)
    BY <2>4 DEF Recreate, Fresh
  <2>5. CASE Start(s)
    BY <2>5 DEF Start, StartPaStream
  <2>6. CASE Stop(s) \/ Close(s)
    BY <2>6 DEF Stop, Close
  <2>7. CASE Write(s)
    <3>1. pa' \in [Streams -> {"none", "stopped", "active", "finished"}]
      BY <2>7 DEF Write, StartPaStream
    <3>3. obj' = obj \/ Set(s, "running", TRUE)
      BY <2>7 DEF Write
    <3>4. obj' \in [Streams -> Object]
      BY <3>3, SetRunning
    <3>2. call' \in [Streams -> Pcs] /\ ret' \in [Streams -> BOOLEAN]
      BY <2>7 DEF Write
    <3> QED BY <2>7, <3>1, <3>2, <3>4 DEF Write
  <2> QED BY <1>1, <2>1, <2>2, <2>3, <2>4, <2>5, <2>6, <2>7
            DEF InputCalls, OutputCalls, DuplexCalls, AnyCall
<1>2. ASSUME NEW s \in Streams, CallStep(s)
      PROVE  StreamsType'
  <2>1. CASE Search(s) \/ NoSearch(s) \/ GiveUp(s)
    BY <2>1 DEF Search, NoSearch, GiveUp, AfterDevice
  <2>2. CASE SearchReturns(s)
    BY <2>2 DEF SearchReturns, AfterDevice
  <2>3. CASE OpenInput(s)
    BY <2>3 DEF OpenInput, Opened
  <2>4. CASE OpenOutput(s)
    BY <2>4 DEF OpenOutput, Opened
  <2>5. CASE OpenDuplex(s)
    BY <2>5 DEF OpenDuplex, Opened
  <2>6. CASE ListReturns(s) \/ CloseReturns(s)
    BY <2>6 DEF ListReturns, CloseReturns
  <2>11. CASE WriteReturns(s)
    <3>1. PICK ok \in BOOLEAN : Returns(s, "write", ok)
      BY <2>11 DEF WriteReturns
    <3> QED BY <2>11, <3>1 DEF WriteReturns
  <2>10. CASE StartReturns(s)
    BY <2>10 DEF StartReturns
  <2>7. CASE StopReturns(s)
    <3>1. StopPaStream(s)
      BY <2>7 DEF StopReturns
    <3>2. ret' \in [Streams -> BOOLEAN]
      BY <2>7 DEF StopReturns
    <3> QED BY <2>7, <3>1, <3>2, StopEffect DEF StopReturns
  <2>8. CASE CloseStops(s)
    BY <2>8, StopEffect DEF CloseStops
  <2>9. CASE ClosePaStream(s)
    BY <2>9 DEF ClosePaStream, Fresh
  <2> QED BY <1>2, <2>1, <2>2, <2>3, <2>4, <2>5, <2>6, <2>7, <2>8, <2>9, <2>10, <2>11
            DEF CallStep, OpenStep
<1>3. ASSUME NEW s \in Streams, CallbackRuns(s) \/ CallbackReturns(s)
      PROVE  StreamsType'
  BY <1>3 DEF CallbackRuns, CallbackReturns, InputCallback, OutputCallback, DuplexCallback,
     CallbackEnds
<1>4. CASE UNCHANGED vars
  BY <1>4 DEF vars
<1> QED BY <1>1, <1>2, <1>3, <1>4 DEF Next

(* Every variable keeps its type: no failure path gives PortAudio back     *)
(* more often than it was initialised.                                     *)
THEOREM StreamsTypeCorrect == Spec => [](TypeOK /\ InitsInv)
<1>1. Init => TypeOK /\ InitsInv
  BY DEF Init, TypeOK, InitsInv, Used, Counters, Object, Fresh, Pcs
<1>2. TypeOK /\ InitsInv /\ [Next]_vars => (TypeOK /\ InitsInv)'
  BY CountsStep, StreamsTypeStep DEF TypeOK, StreamsType
<1> QED BY <1>1, <1>2, PTL DEF Spec

-----------------------------------------------------------------------------
(* Each stream keeps StreamInv, whichever stream the step is of.           *)
LEMMA CallKeepsStream ==
  ASSUME StreamsType, NEW s \in Streams, NEW r \in Streams, StreamInv(s), StreamInv(r),
         InputCalls(s) \/ OutputCalls(s) \/ DuplexCalls(s)
  PROVE  StreamInv(r)'
<1> USE DEF StreamsType, Object, StreamInv, Goto, Returns, Pcs, OpenPcs, NestedPcs, StopPcs
<1>1. CASE List(s) \/ Open(s) \/ OpenTwice(s)
  BY <1>1 DEF List, Open, OpenTwice
<1>2. CASE SetCallback(s)
  <2>1. PICK cb \in {"none", "plain"} : Set(s, "cb", cb)
    BY <1>2 DEF SetCallback
  <2>2. /\ obj'[r].open = obj[r].open /\ obj'[r].running = obj[r].running
        /\ obj'[r].asym = obj[r].asym /\ obj'[r].mode = obj[r].mode
        /\ obj'[r].cb = IF r = s THEN cb ELSE obj[r].cb
    BY <2>1, SetCb
  <2>3. UNCHANGED <<pa, busy, call>> /\ ~Delivering(s) /\ s \notin Duplexes
    BY <1>2 DEF SetCallback
  <2>4. CASE r = s
    BY <2>2, <2>3, <2>4 DEF Delivering
  <2>5. CASE r # s
    BY <2>2, <2>3, <2>5
  <2> QED BY <2>4, <2>5
<1>3. CASE SetDuplexCallback(s)
  BY <1>3 DEF SetDuplexCallback, Set, Delivering
<1>4. CASE Recreate(s)
  BY <1>4 DEF Recreate, Fresh
<1>5. CASE Start(s)
  BY <1>5 DEF Start, StartPaStream
<1>6. CASE Stop(s) \/ Close(s)
  BY <1>6 DEF Stop, Close
<1>7. CASE Write(s)
  <2>1. CASE UNCHANGED obj
    BY <1>7, <2>1 DEF Write, StartPaStream, CanWrite, Set
  <2>2. CASE Set(s, "running", TRUE) /\ StartPaStream(s) /\ Goto(s, "idle", "write")
               /\ CanWrite(s) /\ UNCHANGED busy
    <3>1. /\ obj'[r].open = obj[r].open /\ obj'[r].cb = obj[r].cb
          /\ obj'[r].asym = obj[r].asym /\ obj'[r].mode = obj[r].mode
          /\ obj'[r].running = IF r = s THEN TRUE ELSE obj[r].running
      BY <2>2, SetRunning
    <3> QED BY <2>2, <3>1 DEF StartPaStream, CanWrite
  <2> QED BY <1>7, <2>1, <2>2 DEF Write
<1> QED BY <1>1, <1>2, <1>3, <1>4, <1>5, <1>6, <1>7
        DEF InputCalls, OutputCalls, DuplexCalls, AnyCall

LEMMA CallStepKeepsStream ==
  ASSUME StreamsType, NEW s \in Streams, NEW r \in Streams, StreamInv(s), StreamInv(r),
         CallStep(s)
  PROVE  StreamInv(r)'
<1> USE DEF StreamsType, Object, StreamInv, Goto, Returns, Pcs, OpenPcs, NestedPcs, StopPcs
<1>1. CASE Search(s) \/ NoSearch(s) \/ GiveUp(s)
  BY <1>1 DEF Search, NoSearch, GiveUp, AfterDevice
<1>2. CASE SearchReturns(s)
  BY <1>2 DEF SearchReturns, AfterDevice
<1>3. CASE OpenInput(s)
  BY <1>3 DEF OpenInput, Opened
<1>4. CASE OpenOutput(s)
  BY <1>4 DEF OpenOutput, Opened
<1>5. CASE OpenDuplex(s)
  BY <1>5 DEF OpenDuplex, Opened
<1>6. CASE ListReturns(s) \/ CloseReturns(s)
  BY <1>6 DEF ListReturns, CloseReturns
<1>7. CASE WriteReturns(s)
  <2>1. PICK ok \in BOOLEAN : Returns(s, "write", ok)
    BY <1>7 DEF WriteReturns
  <2> QED BY <1>7, <2>1 DEF WriteReturns
<1>8. CASE StartReturns(s)
  <2>1. /\ obj'[r].open = obj[r].open /\ obj'[r].cb = obj[r].cb
        /\ obj'[r].asym = obj[r].asym /\ obj'[r].mode = obj[r].mode
        /\ obj'[r].running = IF r = s THEN TRUE ELSE obj[r].running
    BY <1>8, SetRunning DEF StartReturns
  <2> QED BY <1>8, <2>1 DEF StartReturns
<1>9. CASE StopReturns(s) \/ CloseStops(s)
  <2>1. /\ StopPaStream(s) /\ UNCHANGED busy
        /\ Goto(s, "stop", "idle") \/ Goto(s, "closeStop", "closePa")
    BY <1>9 DEF StopReturns, CloseStops
  <2>2. CASE UNCHANGED <<pa, obj>>
    BY <2>1, <2>2
  <2>3. CASE /\ pa[s] \in {"active", "finished"} /\ ~busy[s]
             /\ pa' = [pa EXCEPT ![s] = "stopped"] /\ Set(s, "running", FALSE)
    <3>1. /\ obj'[r].open = obj[r].open /\ obj'[r].cb = obj[r].cb
          /\ obj'[r].asym = obj[r].asym /\ obj'[r].mode = obj[r].mode
          /\ r # s => obj'[r].running = obj[r].running
      <4>1. Set(s, "running", FALSE)
        BY <2>3
      <4> HIDE DEF StreamsType, Object, StreamInv, Goto, Returns, Pcs, OpenPcs,
         NestedPcs, StopPcs
      <4> QED BY <4>1, SetRunning DEF StreamsType
    <3> QED BY <2>1, <2>3, <3>1
  <2> QED BY <2>1, <2>2, <2>3 DEF StopPaStream
<1>10. CASE ClosePaStream(s)
  BY <1>10 DEF ClosePaStream, Fresh
<1> QED BY <1>1, <1>2, <1>3, <1>4, <1>5, <1>6, <1>7, <1>8, <1>9, <1>10 DEF CallStep,
   OpenStep

LEMMA CallbackKeepsStream ==
  ASSUME StreamsType, NEW s \in Streams, NEW r \in Streams, StreamInv(s), StreamInv(r),
         CallbackRuns(s) \/ CallbackReturns(s)
  PROVE  StreamInv(r)'
BY DEF StreamsType, Object, StreamInv, CallbackRuns, CallbackReturns, InputCallback,
       OutputCallback, DuplexCallback, CallbackEnds, StopPcs, OpenPcs, Pcs

LEMMA StreamInvStep ==
  ASSUME StreamsType, \A r \in Streams : StreamInv(r), [Next]_vars
  PROVE  \A r \in Streams : StreamInv(r)'
<1>1. SUFFICES ASSUME NEW r \in Streams PROVE StreamInv(r)'
  OBVIOUS
<1>2. CASE UNCHANGED vars
  BY <1>2 DEF vars, StreamInv
<1>3. CASE Next
  <2>1. PICK s \in Streams :
          InputCalls(s) \/ OutputCalls(s) \/ DuplexCalls(s) \/ CallStep(s)
            \/ CallbackRuns(s) \/ CallbackReturns(s)
    BY <1>3 DEF Next
  <2> QED BY <2>1, CallKeepsStream, CallStepKeepsStream, CallbackKeepsStream
<1> QED BY <1>2, <1>3

(* The invariant of the streams, which both theorems below rest on.        *)
ObjectsInv == StreamsType /\ \A s \in Streams : StreamInv(s)

LEMMA ObjectsInvariant == Spec => []ObjectsInv
<1>1. Init => ObjectsInv
  BY DEF Init, ObjectsInv, StreamsType, StreamInv, Object, Fresh, Pcs, OpenPcs
<1>2. ObjectsInv /\ [Next]_vars => ObjectsInv'
  <2> SUFFICES ASSUME ObjectsInv, [Next]_vars PROVE ObjectsInv'
    OBVIOUS
  <2>1. StreamsType'
    BY StreamsTypeStep DEF ObjectsInv
  <2>2. \A s \in Streams : StreamInv(s)'
    BY StreamInvStep DEF ObjectsInv
  <2> QED BY <2>1, <2>2 DEF ObjectsInv
<1> QED BY <1>1, <1>2, PTL DEF Spec

(* Once stop returned true or close returned, no callback runs, for any    *)
(* number of streams and callers.                                          *)
THEOREM StreamsQuietWhenStopped == Spec => []QuietWhenStopped
<1>1. ObjectsInv => QuietWhenStopped
  BY DEF ObjectsInv, StreamInv, QuietWhenStopped, Delivering
<1> QED BY <1>1, ObjectsInvariant, PTL

(* No legacy duplex callback runs on a stream with two channel counts.     *)
THEOREM StreamsLegacyChannels == Spec => []LegacyChannels
<1>1. ObjectsInv => LegacyChannels
  <2> SUFFICES ASSUME ObjectsInv, NEW s \in Duplexes, busy[s], obj[s].asym
               PROVE  obj[s].cb = "ex"
    BY DEF LegacyChannels
  <2>1. s \in Streams
    BY DEF Streams
  <2> QED BY <2>1 DEF ObjectsInv, StreamInv, StreamsType, Object
<1> QED BY <1>1, ObjectsInvariant, PTL

-----------------------------------------------------------------------------
(* Who holds a reference.  A step of s takes one and is counted, gives one *)
(* back and is counted, or does neither.                                   *)
StreamHeld(s) == obj[s].open \/ call[s] \in OpenPcs \cup {"release"}
NestedHeld(s) == call[s] \in NestedPcs

OthersSame(s) ==
  \A r \in Streams \ {s} : call'[r] = call[r] /\ obj'[r].open = obj[r].open

NoneTaken(s) ==
  RefsSame /\ StreamHeld(s)' = StreamHeld(s) /\ NestedHeld(s)' = NestedHeld(s)
StreamTaken(s) ==
  Ensure(CounterOf(s)) /\ ~StreamHeld(s) /\ StreamHeld(s)' /\ NestedHeld(s)' = NestedHeld(s)
NestedTaken(s) ==
  Ensure(CounterOf(s)) /\ ~NestedHeld(s) /\ NestedHeld(s)' /\ StreamHeld(s)' = StreamHeld(s)
StreamGiven(s) ==
  Release(CounterOf(s)) /\ StreamHeld(s) /\ ~StreamHeld(s)' /\ NestedHeld(s)' = NestedHeld(s)
NestedGiven(s) ==
  Release(CounterOf(s)) /\ NestedHeld(s) /\ ~NestedHeld(s)' /\ StreamHeld(s)' = StreamHeld(s)

Accounted(s) ==
  /\ OthersSame(s)
  /\ \/ NoneTaken(s) \/ StreamTaken(s) \/ NestedTaken(s)
     \/ StreamGiven(s) \/ NestedGiven(s)

LEMMA CallsAccounted ==
  ASSUME StreamsType, NEW s \in Streams, StreamInv(s),
         InputCalls(s) \/ OutputCalls(s) \/ DuplexCalls(s)
  PROVE  Accounted(s)
<1> USE DEF StreamsType, Object, Goto, Returns, Pcs, OpenPcs, NestedPcs, StopPcs
<1> USE DEF Accounted, OthersSame, StreamHeld, NestedHeld
<1>1. CASE List(s)
  BY <1>1 DEF List, EnsureFails, NoneTaken, NestedTaken, RefsSame
<1>2. CASE Open(s)
  BY <1>2 DEF Open, EnsureFails, NoneTaken, StreamTaken, RefsSame
<1>3. CASE OpenTwice(s) \/ Stop(s) \/ Close(s) \/ Start(s)
  BY <1>3 DEF OpenTwice, Stop, Close, Start, NoneTaken, RefsSame
<1>4. CASE SetCallback(s)
  <2>1. \E cb \in {"none", "plain", "ex"} : Set(s, "cb", cb)
    BY <1>4 DEF SetCallback
  <2>2. \A r \in Streams : obj'[r].open = obj[r].open
    BY <2>1, SetCb
  <2> QED BY <1>4, <2>2 DEF SetCallback, NoneTaken, RefsSame
<1>5. CASE SetDuplexCallback(s)
  <2>1. \E cb \in {"none", "plain", "ex"} : Set(s, "cb", cb)
    BY <1>5 DEF SetDuplexCallback
  <2>2. \A r \in Streams : obj'[r].open = obj[r].open
    BY <2>1, SetCb
  <2> QED BY <1>5, <2>2 DEF SetDuplexCallback, NoneTaken, RefsSame
<1>6. CASE Recreate(s)
  BY <1>6 DEF Recreate, Fresh, NoneTaken, RefsSame
<1>7. CASE Write(s)
  <2>1. obj' = obj \/ Set(s, "running", TRUE)
    BY <1>7 DEF Write
  <2>2. \A r \in Streams : obj'[r].open = obj[r].open
    BY <2>1, SetRunning
  <2>3. RefsSame /\ (Goto(s, "idle", "write") \/ Goto(s, "idle", "idle"))
    BY <1>7 DEF Write, RefsSame
  <2> QED BY <2>2, <2>3 DEF NoneTaken
<1> QED BY <1>1, <1>2, <1>3, <1>4, <1>5, <1>6, <1>7
        DEF InputCalls, OutputCalls, DuplexCalls, AnyCall

LEMMA CallStepsAccounted ==
  ASSUME StreamsType, NEW s \in Streams, StreamInv(s), CallStep(s)
  PROVE  Accounted(s)
<1> USE DEF StreamsType, Object, Goto, Returns, Pcs, OpenPcs, NestedPcs, StopPcs
<1> USE DEF Accounted, OthersSame, StreamHeld, NestedHeld, StreamInv
<1>1. CASE Search(s)
  BY <1>1 DEF Search, NestedTaken
<1>2. CASE SearchReturns(s)
  BY <1>2 DEF SearchReturns, AfterDevice, NestedGiven
<1>3. CASE NoSearch(s)
  BY <1>3 DEF NoSearch, AfterDevice, NoneTaken, RefsSame
<1>4. CASE GiveUp(s)
  BY <1>4 DEF GiveUp, StreamGiven
<1>5. CASE OpenInput(s)
  BY <1>5 DEF OpenInput, Opened, NoneTaken, RefsSame
<1>6. CASE OpenOutput(s)
  BY <1>6 DEF OpenOutput, Opened, NoneTaken, RefsSame
<1>7. CASE OpenDuplex(s)
  BY <1>7 DEF OpenDuplex, Opened, NoneTaken, RefsSame
<1>8. CASE StartReturns(s)
  <2>1. \A r \in Streams : obj'[r].open = obj[r].open
    BY <1>8, SetRunning DEF StartReturns
  <2> QED BY <1>8, <2>1 DEF StartReturns, NoneTaken, RefsSame
<1>9. CASE StopReturns(s) \/ CloseStops(s)
  <2>1. obj' = obj \/ Set(s, "running", FALSE)
    BY <1>9 DEF StopReturns, CloseStops, StopPaStream
  <2>2. \A r \in Streams : obj'[r].open = obj[r].open
    BY <2>1, SetRunning
  <2>3. RefsSame /\ (Goto(s, "stop", "idle") \/ Goto(s, "closeStop", "closePa"))
    BY <1>9 DEF StopReturns, CloseStops, RefsSame
  <2> QED BY <2>2, <2>3 DEF NoneTaken
<1>10. CASE WriteReturns(s)
  <2>1. Goto(s, "write", "idle") /\ RefsSame /\ UNCHANGED obj
    BY <1>10 DEF WriteReturns, RefsSame
  <2> QED BY <2>1 DEF NoneTaken
<1>11. CASE ListReturns(s)
  BY <1>11 DEF ListReturns, NestedGiven
<1>12. CASE ClosePaStream(s)
  BY <1>12 DEF ClosePaStream, Fresh, NoneTaken, RefsSame
<1>13. CASE CloseReturns(s)
  BY <1>13 DEF CloseReturns, StreamGiven
<1> QED BY <1>1, <1>2, <1>3, <1>4, <1>5, <1>6, <1>7, <1>8, <1>9, <1>10, <1>11, <1>12, <1>13
        DEF CallStep, OpenStep

LEMMA CallbacksAccounted ==
  ASSUME NEW s \in Streams, CallbackRuns(s) \/ CallbackReturns(s)
  PROVE  Accounted(s)
<1>1. UNCHANGED <<refs, inits, obj, call>>
  BY DEF CallbackRuns, CallbackReturns, InputCallback, OutputCallback, DuplexCallback
<1> QED BY <1>1 DEF Accounted, OthersSame, NoneTaken, RefsSame, StreamHeld, NestedHeld

-----------------------------------------------------------------------------
(* Counting the holders.                                                   *)
Tuples == Streams \X {"stream", "nested"}

LEMMA SameTuples ==
  ASSUME NEW S \in SUBSET Tuples, NEW T \in SUBSET Tuples,
         \A r \in Streams, k \in {"stream", "nested"} : <<r, k>> \in S <=> <<r, k>> \in T
  PROVE  S = T
<1>1. ASSUME NEW t \in Tuples PROVE t \in S <=> t \in T
  <2>1. PICK r \in Streams, k \in {"stream", "nested"} : t = <<r, k>>
    BY DEF Tuples
  <2> QED BY <2>1
<1> QED BY <1>1

LEMMA HoldersFinite ==
  ASSUME NEW c
  PROVE  IsFiniteSet(Holders(c)) /\ IsFiniteSet(Holders(c)')
<1>1. IsFiniteSet({"stream", "nested"})
  <2>1. IsFiniteSet({"stream"} \cup {"nested"})
    BY FS_Singleton, FS_AddElement
  <2>2. {"stream", "nested"} = {"stream"} \cup {"nested"}
    OBVIOUS
  <2> QED BY <2>1, <2>2
<1>2. IsFiniteSet(Tuples)
  BY <1>1, FS_Product, StreamsAssumption DEF Tuples
<1>3. Holders(c) \in SUBSET Tuples /\ Holders(c)' \in SUBSET Tuples
  BY DEF Holders, Tuples
<1> QED BY <1>2, <1>3, FS_Subset

(* The tuples of one stream, and the others'.                              *)
LEMMA HeldTuples ==
  ASSUME NEW s \in Streams, OthersSame(s), NEW c
  PROVE  /\ \A r \in Streams, k \in {"stream", "nested"} :
              <<r, k>> \in Holders(c) <=>
                CounterOf(r) = c /\ (IF k = "stream" THEN StreamHeld(r) ELSE NestedHeld(r))
         /\ \A r \in Streams, k \in {"stream", "nested"} :
              <<r, k>> \in Holders(c)' <=>
                CounterOf(r) = c /\ (IF k = "stream" THEN StreamHeld(r)' ELSE NestedHeld(r)')
         /\ \A r \in Streams \ {s}, k \in {"stream", "nested"} :
              <<r, k>> \in Holders(c)' <=> <<r, k>> \in Holders(c)
<1>1. \A r \in Streams, k \in {"stream", "nested"} :
        <<r, k>> \in Holders(c) <=>
          CounterOf(r) = c /\ (IF k = "stream" THEN StreamHeld(r) ELSE NestedHeld(r))
  BY DEF Holders, Held, StreamHeld, NestedHeld
<1>2. \A r \in Streams, k \in {"stream", "nested"} :
        <<r, k>> \in Holders(c)' <=>
          CounterOf(r) = c /\ (IF k = "stream" THEN StreamHeld(r)' ELSE NestedHeld(r)')
  BY DEF Holders, Held, StreamHeld, NestedHeld
<1>3. \A r \in Streams \ {s} : (StreamHeld(r)' <=> StreamHeld(r)) /\ (NestedHeld(r)' <=> NestedHeld(r))
  BY DEF OthersSame, StreamHeld, NestedHeld
<1> QED BY <1>1, <1>2, <1>3

LEMMA HoldersKept ==
  ASSUME NEW s \in Streams, OthersSame(s), NEW c,
         CounterOf(s) = c => StreamHeld(s)' = StreamHeld(s) /\ NestedHeld(s)' = NestedHeld(s)
  PROVE  Holders(c)' = Holders(c)
<1>1. Holders(c) \subseteq Tuples /\ Holders(c)' \subseteq Tuples
  BY DEF Holders, Tuples
<1>2. \A r \in Streams, k \in {"stream", "nested"} :
        <<r, k>> \in Holders(c)' <=> <<r, k>> \in Holders(c)
  BY HeldTuples
<1> QED BY <1>1, <1>2, SameTuples

LEMMA HolderAdded ==
  ASSUME NEW s \in Streams, OthersSame(s), StreamTaken(s) \/ NestedTaken(s)
  PROVE  Cardinality(Holders(CounterOf(s))') = Cardinality(Holders(CounterOf(s))) + 1
<1> DEFINE c == CounterOf(s)
<1>1. Holders(c) \subseteq Tuples /\ Holders(c)' \subseteq Tuples
  BY DEF Holders, Tuples
<1>2. ASSUME NEW k \in {"stream", "nested"},
             <<s, k>> \notin Holders(c), <<s, k>> \in Holders(c)',
             \A j \in {"stream", "nested"} \ {k} : <<s, j>> \in Holders(c)' <=> <<s, j>> \in Holders(c)
      PROVE  Cardinality(Holders(c)') = Cardinality(Holders(c)) + 1
  <2>1. \A r \in Streams, j \in {"stream", "nested"} :
          <<r, j>> \in Holders(c)' <=> <<r, j>> \in Holders(c) \cup {<<s, k>>}
    BY <1>2, HeldTuples
  <2>2. Holders(c)' = Holders(c) \cup {<<s, k>>}
    <3>1. Holders(c) \cup {<<s, k>>} \in SUBSET Tuples /\ Holders(c)' \in SUBSET Tuples
      BY <1>1 DEF Tuples
    <3> HIDE DEF c
    <3> QED BY <2>1, <3>1, SameTuples
  <2> QED BY <1>2, <2>2, HoldersFinite, FS_AddElement
<1>3. CASE StreamTaken(s)
  BY <1>2, <1>3, HeldTuples DEF StreamTaken
<1>4. CASE NestedTaken(s)
  BY <1>2, <1>4, HeldTuples DEF NestedTaken
<1> QED BY <1>3, <1>4

LEMMA HolderRemoved ==
  ASSUME NEW s \in Streams, OthersSame(s), StreamGiven(s) \/ NestedGiven(s)
  PROVE  /\ Holders(CounterOf(s)) # {}
         /\ Cardinality(Holders(CounterOf(s))') = Cardinality(Holders(CounterOf(s))) - 1
<1> DEFINE c == CounterOf(s)
<1>1. Holders(c) \subseteq Tuples /\ Holders(c)' \subseteq Tuples
  BY DEF Holders, Tuples
<1>2. ASSUME NEW k \in {"stream", "nested"},
             <<s, k>> \in Holders(c), <<s, k>> \notin Holders(c)',
             \A j \in {"stream", "nested"} \ {k} : <<s, j>> \in Holders(c)' <=> <<s, j>> \in Holders(c)
      PROVE  Holders(c) # {} /\ Cardinality(Holders(c)') = Cardinality(Holders(c)) - 1
  <2>1. \A r \in Streams, j \in {"stream", "nested"} :
          <<r, j>> \in Holders(c)' <=> <<r, j>> \in Holders(c) \ {<<s, k>>}
    BY <1>2, HeldTuples
  <2>2. Holders(c)' = Holders(c) \ {<<s, k>>}
    <3>1. Holders(c) \ {<<s, k>>} \in SUBSET Tuples /\ Holders(c)' \in SUBSET Tuples
      BY <1>1 DEF Tuples
    <3> HIDE DEF c
    <3> QED BY <2>1, <3>1, SameTuples
  <2> QED BY <1>2, <2>2, HoldersFinite, FS_RemoveElement
<1>3. CASE StreamGiven(s)
  BY <1>2, <1>3, HeldTuples DEF StreamGiven
<1>4. CASE NestedGiven(s)
  BY <1>2, <1>4, HeldTuples DEF NestedGiven
<1> QED BY <1>3, <1>4

CountsInv == \A c \in Counters : refs[c] = Cardinality(Holders(c))

LEMMA CountsInvStep ==
  ASSUME StreamsType, \A s \in Streams : StreamInv(s), CountsInv,
         refs \in [Counters -> Nat], [Next]_vars
  PROVE  CountsInv'
<1>1. CASE UNCHANGED vars
  BY <1>1 DEF vars, CountsInv, Holders, Held
<1>2. CASE Next
  <2>1. PICK s \in Streams :
          InputCalls(s) \/ OutputCalls(s) \/ DuplexCalls(s) \/ CallStep(s)
            \/ CallbackRuns(s) \/ CallbackReturns(s)
    BY <1>2 DEF Next
  <2>2. Accounted(s)
    BY <2>1, CallsAccounted, CallStepsAccounted, CallbacksAccounted
  <2>3. ASSUME NEW c \in Counters
        PROVE  refs'[c] = Cardinality(Holders(c)')
    <3>1. CASE NoneTaken(s)
      <4>1. Holders(c)' = Holders(c)
        BY <2>2, <3>1, HoldersKept DEF Accounted, NoneTaken
      <4> QED BY <3>1, <4>1 DEF NoneTaken, RefsSame, CountsInv
    <3>2. CASE ~NoneTaken(s) /\ c # CounterOf(s)
      <4>1. Holders(c)' = Holders(c)
        BY <2>2, <3>2, HoldersKept DEF Accounted
      <4>2. refs'[c] = refs[c]
        BY <2>2, <3>2 DEF Accounted, StreamTaken, NestedTaken, StreamGiven, NestedGiven,
           Ensure, Release
      <4> QED BY <4>1, <4>2 DEF CountsInv
    <3>3. CASE (StreamTaken(s) \/ NestedTaken(s)) /\ c = CounterOf(s)
      <4>1. Cardinality(Holders(c)') = Cardinality(Holders(c)) + 1
        BY <2>2, <3>3, HolderAdded DEF Accounted
      <4>2. refs'[c] = refs[c] + 1
        BY <3>3 DEF StreamTaken, NestedTaken, Ensure
      <4> QED BY <4>1, <4>2 DEF CountsInv
    <3>4. CASE (StreamGiven(s) \/ NestedGiven(s)) /\ c = CounterOf(s)
      <4>1. Holders(c) # {} /\ Cardinality(Holders(c)') = Cardinality(Holders(c)) - 1
        BY <2>2, <3>4, HolderRemoved DEF Accounted
      <4>2. refs[c] \in Nat /\ refs[c] # 0
        BY <4>1, HoldersFinite, FS_EmptySet DEF CountsInv
      <4>3. refs'[c] = refs[c] - 1
        BY <3>4, <4>2 DEF StreamGiven, NestedGiven, Release
      <4> QED BY <4>1, <4>3 DEF CountsInv
    <3> QED BY <2>2, <3>1, <3>2, <3>3, <3>4 DEF Accounted
  <2> QED BY <2>3 DEF CountsInv
<1> QED BY <1>1, <1>2

-----------------------------------------------------------------------------
(* Both theorems rest on the streams' invariant and the two counts.        *)
StreamsInv == ObjectsInv /\ TypeOK /\ InitsInv /\ CountsInv

LEMMA StreamsInvInit ==
  ASSUME Init
  PROVE  StreamsInv
<1>1. TypeOK /\ InitsInv /\ ObjectsInv
  BY DEF Init, TypeOK, InitsInv, Used, Counters, Object, Fresh, Pcs, OpenPcs, ObjectsInv,
     StreamsType, StreamInv
<1>2. ASSUME NEW c \in Counters PROVE refs[c] = Cardinality(Holders(c))
  <2>1. \A s \in Streams : ~obj[s].open /\ call[s] = "idle"
    BY DEF Init, Fresh
  <2>2. Holders(c) = {}
    BY <2>1 DEF Holders, Held, OpenPcs, NestedPcs
  <2> QED BY <2>2, FS_EmptySet DEF Init
<1> QED BY <1>1, <1>2 DEF StreamsInv, CountsInv

LEMMA StreamsInvStep ==
  ASSUME StreamsInv, [Next]_vars
  PROVE  StreamsInv'
<1>1. (TypeOK /\ InitsInv)'
  BY CountsStep, StreamsTypeStep DEF StreamsInv, TypeOK, StreamsType
<1>2. StreamsType' /\ \A s \in Streams : StreamInv(s)'
  BY StreamsTypeStep, StreamInvStep DEF StreamsInv, ObjectsInv
<1>3. CountsInv'
  BY CountsInvStep DEF StreamsInv, ObjectsInv, TypeOK
<1> QED BY <1>1, <1>2, <1>3 DEF StreamsInv, ObjectsInv

LEMMA StreamsInvariant == Spec => []StreamsInv
BY StreamsInvInit, StreamsInvStep, PTL DEF Spec

LEMMA InitsCounted ==
  ASSUME refs \in [Counters -> Nat], InitsInv
  PROVE  inits = Cardinality({c \in Counters : refs[c] > 0})
<1> DEFINE S == {c \in Counters : refs[c] > 0}
<1>1. IsFiniteSet({}) /\ Cardinality({}) = 0
  BY FS_EmptySet
<1>2. IsFiniteSet({"simplex"}) /\ Cardinality({"simplex"}) = 1
  BY FS_Singleton
<1>3. Cardinality({"duplex"}) = 1
  BY FS_Singleton
<1>4. Cardinality({"simplex"} \cup {"duplex"}) = 2
  <2>1. "duplex" \notin {"simplex"}
    OBVIOUS
  <2> QED BY <1>2, <2>1, FS_AddElement
<1>5. CASE refs["simplex"] > 0 /\ refs["duplex"] > 0
  <2>1. S = {"simplex"} \cup {"duplex"}
    BY <1>5 DEF Counters
  <2> QED BY <1>4, <1>5, <2>1 DEF InitsInv, Used
<1>6. CASE refs["simplex"] > 0 /\ ~(refs["duplex"] > 0)
  <2>1. S = {"simplex"}
    BY <1>6 DEF Counters
  <2> QED BY <1>2, <1>6, <2>1 DEF InitsInv, Used
<1>7. CASE ~(refs["simplex"] > 0) /\ refs["duplex"] > 0
  <2>1. S = {"duplex"}
    BY <1>7 DEF Counters
  <2> QED BY <1>3, <1>7, <2>1 DEF InitsInv, Used
<1>8. CASE ~(refs["simplex"] > 0) /\ ~(refs["duplex"] > 0)
  <2>1. S = {}
    BY <1>8 DEF Counters
  <2> QED BY <1>1, <1>8, <2>1 DEF InitsInv, Used
<1> QED BY <1>5, <1>6, <1>7, <1>8

LEMMA RefsCounted ==
  ASSUME StreamsInv
  PROVE  RefsMatchHolders
BY InitsCounted DEF StreamsInv, CountsInv, RefsMatchHolders, TypeOK

(* Who uses PortAudio holds a reference.                                   *)
LEMMA UsersHold ==
  ASSUME StreamsInv
  PROVE  InitializedWhileUsed
<1> SUFFICES ASSUME NEW s \in Streams,
                    pa[s] # "none" \/ call[s] \notin {"idle", "release", "stop"}
             PROVE  inits > 0
  BY DEF InitializedWhileUsed
<1> DEFINE c == CounterOf(s)
<1>1. c \in Counters
  BY DEF CounterOf, Counters
<1>2. StreamHeld(s) \/ NestedHeld(s)
  BY DEF StreamsInv, ObjectsInv, StreamsType, StreamInv, StreamHeld, NestedHeld, Pcs,
     OpenPcs, NestedPcs, StopPcs
<1>3. <<s, "stream">> \in Holders(c) \/ <<s, "nested">> \in Holders(c)
  BY <1>2 DEF StreamHeld, NestedHeld, Holders, Held
<1>4. Holders(c) # {}
  BY <1>3
<1>5. refs[c] # 0
  BY <1>1, <1>4, HoldersFinite, FS_EmptySet DEF StreamsInv, CountsInv
<1> QED BY <1>1, <1>5 DEF StreamsInv, TypeOK, InitsInv, Used, Counters

(* The counts of the two files say how often PortAudio is initialised, and *)
(* are those of the references held, for any number of streams: no path    *)
(* loses a reference or gives one back twice.                              *)
THEOREM StreamsRefsMatchHolders == Spec => []RefsMatchHolders
BY RefsCounted, StreamsInvariant, PTL

(* PortAudio is never terminated under a stream or a call that uses it.    *)
THEOREM StreamsInitializedWhileUsed == Spec => []InitializedWhileUsed
BY UsersHold, StreamsInvariant, PTL
=============================================================================
