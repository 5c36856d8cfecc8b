---------------------------- MODULE AudioStreams ----------------------------
(***************************************************************************)
(* The PortAudio streams of the audio driver: AudioInputStream and         *)
(* AudioOutputStream (audio_stream.cpp), AudioDuplexStream                 *)
(* (audio_duplex_stream.cpp), and PortAudio itself as they use it.         *)
(*                                                                         *)
(* Each stream has one caller, and the callers are threads of their own.   *)
(* What they share is PortAudio, initialised by the first user and         *)
(* terminated by the last: each of the two files keeps a count of its      *)
(* users under a mutex of its own. The third kind of thread is PortAudio's,*)
(* which runs the callback of an active stream.                            *)
(*                                                                         *)
(* A caller sets a callback only while the stream is not delivering, as    *)
(* the usage in audio_stream.hpp does: std::function is not atomic.        *)
(***************************************************************************)
EXTENDS Naturals, FiniteSets

CONSTANTS Inputs, Outputs, Duplexes   \* the stream objects

Streams == Inputs \cup Outputs \cup Duplexes

ASSUME StreamsAssumption ==
  /\ IsFiniteSet(Streams)
  /\ Inputs \cap Outputs = {} /\ Inputs \cap Duplexes = {} /\ Outputs \cap Duplexes = {}

(* Which file's g_pa_ref_count a stream uses.                              *)
Counters == {"simplex", "duplex"}
CounterOf(s) == IF s \in Duplexes THEN "duplex" ELSE "simplex"

VARIABLES
  refs,    \* g_pa_ref_count of each file
  inits,   \* PortAudio: Pa_Initialize less Pa_Terminate
  obj,     \* the members of each stream object
  pa,      \* PortAudio: the state of the stream it opened for the object
  busy,    \* PortAudio: the object's user callback is running
  call,    \* where the caller is in a call on the object
  ret      \* the last call returned true, or frames

vars == <<refs, inits, obj, pa, busy, call, ret>>

(* asym: actual_input_channels_ # actual_output_channels_ (read while open)*)
(* mode: whether Pa_OpenStream was given paCallback                        *)
Object == [open : BOOLEAN, running : BOOLEAN, cb : {"none", "plain", "ex"},
           asym : BOOLEAN, mode : {"callback", "blocking"}]
Fresh == [open |-> FALSE, running |-> FALSE, cb |-> "none", asym |-> FALSE, mode |-> "callback"]

OpenPcs   == {"device", "search", "device2", "search2", "params", "giveup"}
NestedPcs == {"search", "search2", "list"}
StopPcs   == {"stop", "closeStop", "closePa"}
Pcs == OpenPcs \cup NestedPcs \cup StopPcs \cup {"idle", "start", "write", "release"}

TypeOK ==
  /\ refs \in [Counters -> Nat] /\ inits \in Nat
  /\ obj \in [Streams -> Object]
  /\ pa \in [Streams -> {"none", "stopped", "active", "finished"}]
  /\ busy \in [Streams -> BOOLEAN]
  /\ call \in [Streams -> Pcs]
  /\ ret \in [Streams -> BOOLEAN]

Init ==
  /\ refs = [c \in Counters |-> 0] /\ inits = 0
  /\ obj = [s \in Streams |-> Fresh]
  /\ pa = [s \in Streams |-> "none"]
  /\ busy = [s \in Streams |-> FALSE]
  /\ call = [s \in Streams |-> "idle"]
  /\ ret = [s \in Streams |-> FALSE]

Goto(s, from, to) == call[s] = from /\ call' = [call EXCEPT ![s] = to]
Returns(s, from, value) == Goto(s, from, "idle") /\ ret' = [ret EXCEPT ![s] = value]
Set(s, field, value) == obj' = [obj EXCEPT ![s][field] = value]

-----------------------------------------------------------------------------
(* ensurePortAudioInitialized and releasePortAudio, each one critical      *)
(* section of its file's mutex.                                            *)
Ensure_OneCount(c) ==      \* fault: initialises only if neither file has
  /\ refs' = [refs EXCEPT ![c] = @ + 1]
  /\ inits' = IF \A d \in Counters : refs[d] = 0 THEN inits + 1 ELSE inits

Ensure(c) ==
  /\ refs' = [refs EXCEPT ![c] = @ + 1]
  /\ inits' = IF refs[c] = 0 THEN inits + 1 ELSE inits

EnsureFails(c) == refs[c] = 0 /\ UNCHANGED <<refs, inits>>

Release(c) ==
  /\ refs' = [refs EXCEPT ![c] = IF @ > 0 THEN @ - 1 ELSE 0]
  /\ inits' = IF refs[c] = 1 THEN inits - 1 ELSE inits

(* listDevices and findDeviceByName called on their own                    *)
List(s) ==
  /\ \/ Goto(s, "idle", "list") /\ Ensure(CounterOf(s)) /\ UNCHANGED ret
     \/ Returns(s, "idle", FALSE) /\ EnsureFails(CounterOf(s))
  /\ UNCHANGED <<obj, pa, busy>>

ListReturns(s) ==
  /\ Returns(s, "list", FALSE)
  /\ Release(CounterOf(s))
  /\ UNCHANGED <<obj, pa, busy>>

-----------------------------------------------------------------------------
(* A callback may run now, or from now on.                                 *)
Delivering(s) == busy[s] \/ (pa[s] = "active" /\ obj[s].mode = "callback")

(* setCallback; for a duplex stream also setCallbackEx, and the legacy     *)
(* callback is refused on an open asymmetric stream.                       *)
SetCallback(s) ==
  /\ call[s] = "idle"
  /\ ~Delivering(s)
  /\ s \notin Duplexes
  /\ \E cb \in {"none", "plain"} : Set(s, "cb", cb)
  /\ UNCHANGED <<refs, inits, pa, busy, call, ret>>

SetDuplexCallback_NoRefusal(s) ==   \* fault: takes the callback on any stream
  /\ call[s] = "idle"
  /\ ~Delivering(s)
  /\ s \in Duplexes
  /\ \E cb \in {"none", "plain", "ex"} : Set(s, "cb", cb)
  /\ UNCHANGED <<refs, inits, pa, busy, call, ret>>

SetDuplexCallback(s) ==
  /\ call[s] = "idle"
  /\ ~Delivering(s)
  /\ s \in Duplexes
  /\ \E cb \in {"none", "plain", "ex"} :
       LET legacyRefused == cb = "plain" /\ obj[s].open /\ obj[s].asym
       IN  Set(s, "cb", IF legacyRefused THEN "none" ELSE cb)
  /\ UNCHANGED <<refs, inits, pa, busy, call, ret>>

-----------------------------------------------------------------------------
(* open: initialise PortAudio, choose the device (a duplex stream: two of  *)
(* them), check it against the configuration, Pa_OpenStream. Every failure *)
(* after the first step gives the reference back.                          *)
Open(s) ==
  /\ ~obj[s].open
  /\ \/ Goto(s, "idle", "device") /\ Ensure(CounterOf(s)) /\ UNCHANGED ret
     \/ Returns(s, "idle", FALSE) /\ EnsureFails(CounterOf(s))
  /\ UNCHANGED <<obj, pa, busy>>

OpenTwice(s) ==
  /\ obj[s].open
  /\ Returns(s, "idle", FALSE)
  /\ UNCHANGED <<refs, inits, obj, pa, busy>>

(* findDeviceByName, inside open: it takes a reference of its own.         *)
Search(s) ==
  /\ \/ Goto(s, "device", "search")
     \/ Goto(s, "device2", "search2")
  /\ Ensure(CounterOf(s))
  /\ UNCHANGED <<obj, pa, busy, ret>>

AfterDevice(s) == IF s \in Duplexes THEN "device2" ELSE "params"

SearchReturns(s) ==
  /\ \/ Goto(s, "search", AfterDevice(s))
     \/ Goto(s, "search2", "params")
     \/ Goto(s, "search", "giveup")     \* no device of that name
     \/ Goto(s, "search2", "giveup")
  /\ Release(CounterOf(s))
  /\ UNCHANGED <<obj, pa, busy, ret>>

(* The configured or the default device.                                   *)
NoSearch(s) ==
  /\ \/ Goto(s, "device", AfterDevice(s))
     \/ Goto(s, "device2", "params")
  /\ UNCHANGED <<refs, inits, obj, pa, busy, ret>>

GiveUp_KeepsReference(s) ==   \* fault: the failed open stays counted
  /\ \E pc \in OpenPcs \ NestedPcs : Returns(s, pc, FALSE)
  /\ UNCHANGED <<refs, inits, obj, pa, busy>>

(* No such device, not enough channels, or Pa_OpenStream fails             *)
GiveUp(s) ==
  /\ \E pc \in OpenPcs \ NestedPcs : Returns(s, pc, FALSE)
  /\ Release(CounterOf(s))
  /\ UNCHANGED <<obj, pa, busy>>

Opened(s, mode, asym) ==
  /\ Returns(s, "params", TRUE)
  /\ obj' = [obj EXCEPT ![s] = [open |-> TRUE, running |-> @.running, cb |-> @.cb,
                               asym |-> asym, mode |-> mode]]
  /\ pa' = [pa EXCEPT ![s] = "stopped"]
  /\ UNCHANGED <<refs, inits, busy>>

OpenInput(s) == s \in Inputs /\ Opened(s, "callback", FALSE)

OpenOutput(s) ==
  /\ s \in Outputs
  /\ Opened(s, IF obj[s].cb = "none" THEN "blocking" ELSE "callback", FALSE)

OpenDuplex(s) ==
  /\ s \in Duplexes
  /\ \E asym \in BOOLEAN :
       /\ asym => obj[s].cb # "plain"
       /\ Opened(s, "callback", asym)

-----------------------------------------------------------------------------
(* start. Pa_StartStream takes a stopped stream; the callback may run      *)
(* before is_running_ is set.                                              *)
StartPaStream(s) == pa[s] = "stopped" /\ pa' = [pa EXCEPT ![s] = "active"]

Start(s) ==
  /\ \/ ~obj[s].open /\ Returns(s, "idle", FALSE) /\ UNCHANGED pa
     \/ obj[s].open /\ obj[s].running /\ Returns(s, "idle", TRUE) /\ UNCHANGED pa
     \/ /\ obj[s].open /\ ~obj[s].running
        /\ \/ Goto(s, "idle", "start") /\ StartPaStream(s) /\ UNCHANGED ret
           \/ Returns(s, "idle", FALSE) /\ UNCHANGED pa
  /\ UNCHANGED <<refs, inits, obj, busy>>

StartReturns(s) ==
  /\ Returns(s, "start", TRUE)
  /\ Set(s, "running", TRUE)
  /\ UNCHANGED <<refs, inits, pa, busy>>

StopPaStream_NoWait(s) ==  \* fault: returns while the callback runs
  \/ /\ pa[s] \in {"active", "finished"}
     /\ pa' = [pa EXCEPT ![s] = "stopped"]
     /\ Set(s, "running", FALSE)
  \/ UNCHANGED <<pa, obj>>

(* Pa_StopStream returns when the callback has; Pa_AbortStream, the        *)
(* abort() of an output stream, differs only in what is still played. It   *)
(* fails on a stream that is not started, and may fail on any.             *)
StopPaStream(s) ==
  \/ /\ pa[s] \in {"active", "finished"} /\ ~busy[s]
     /\ pa' = [pa EXCEPT ![s] = "stopped"]
     /\ Set(s, "running", FALSE)
  \/ UNCHANGED <<pa, obj>>

Stop(s) ==
  /\ \/ obj[s].running /\ Goto(s, "idle", "stop") /\ UNCHANGED ret
     \/ ~obj[s].running /\ Returns(s, "idle", TRUE)
  /\ UNCHANGED <<refs, inits, obj, pa, busy>>

StopReturns(s) ==
  /\ StopPaStream(s)
  /\ Returns(s, "stop", ~obj'[s].running)
  /\ UNCHANGED <<refs, inits, busy>>

(* close, also the destructor: what stop returns is ignored.               *)
Close(s) ==
  /\ obj[s].open
  /\ Goto(s, "idle", IF obj[s].running THEN "closeStop" ELSE "closePa")
  /\ UNCHANGED <<refs, inits, obj, pa, busy, ret>>

CloseStops(s) ==
  /\ Goto(s, "closeStop", "closePa")
  /\ StopPaStream(s)
  /\ UNCHANGED <<refs, inits, busy, ret>>

(* Pa_CloseStream aborts a stream that is still active.                    *)
ClosePaStream(s) ==
  /\ ~busy[s]
  /\ Goto(s, "closePa", "release")
  /\ pa' = [pa EXCEPT ![s] = "none"]
  /\ obj' = [obj EXCEPT ![s] = [Fresh EXCEPT !.running = obj[s].running, !.cb = obj[s].cb]]
  /\ UNCHANGED <<refs, inits, busy, ret>>

CloseReturns(s) ==
  /\ Returns(s, "release", FALSE)
  /\ Release(CounterOf(s))
  /\ UNCHANGED <<obj, pa, busy>>

(* The destroy and create calls of the C API, once the stream is closed.   *)
Recreate(s) ==
  /\ call[s] = "idle" /\ ~obj[s].open
  /\ obj' = [obj EXCEPT ![s] = Fresh] /\ ret' = [ret EXCEPT ![s] = FALSE]
  /\ UNCHANGED <<refs, inits, pa, busy, call>>

(* write and writeInt16: a stream without a callback, started if need be.  *)
CanWrite(s) == obj[s].open /\ obj[s].cb = "none"

Write(s) ==
  /\ s \in Outputs
  /\ \/ ~CanWrite(s) /\ Returns(s, "idle", FALSE) /\ UNCHANGED <<obj, pa>>
     \/ CanWrite(s) /\ obj[s].running /\ Goto(s, "idle", "write") /\ UNCHANGED <<obj, pa, ret>>
     \/ /\ CanWrite(s) /\ ~obj[s].running
        /\ \/ Goto(s, "idle", "write") /\ StartPaStream(s) /\ Set(s, "running", TRUE)
              /\ UNCHANGED ret
           \/ Returns(s, "idle", FALSE) /\ UNCHANGED <<obj, pa>>
  /\ UNCHANGED <<refs, inits, busy>>

(* Pa_WriteStream takes an active stream that was opened without a callback*)
WriteReturns(s) ==
  /\ \E ok \in BOOLEAN :
       /\ ok => pa[s] = "active" /\ obj[s].mode = "blocking"
       /\ Returns(s, "write", ok)
  /\ UNCHANGED <<refs, inits, obj, pa, busy>>

-----------------------------------------------------------------------------
CallbackRuns_Stopping(s) ==   \* fault: new callbacks while a stop waits
  /\ pa[s] = "active" /\ obj[s].mode = "callback" /\ obj[s].cb # "none"
  /\ ~busy[s]
  /\ busy' = [busy EXCEPT ![s] = TRUE]
  /\ UNCHANGED <<refs, inits, obj, pa, call, ret>>

(* paCallback of the three classes. Without a user callback it changes     *)
(* nothing; an output callback that returns no frames ends the playback,   *)
(* which is_running_ does not show.                                        *)
CallbackRuns(s) ==
  /\ pa[s] = "active" /\ obj[s].mode = "callback" /\ obj[s].cb # "none"
  /\ ~busy[s] /\ call[s] \notin StopPcs
  /\ busy' = [busy EXCEPT ![s] = TRUE]
  /\ UNCHANGED <<refs, inits, obj, pa, call, ret>>

CallbackEnds(s) == busy[s] /\ busy' = [busy EXCEPT ![s] = FALSE]

InputCallback(s) ==
  /\ s \in Inputs
  /\ CallbackEnds(s)
  /\ UNCHANGED <<refs, inits, obj, pa, call, ret>>

OutputCallback(s) ==
  /\ s \in Outputs
  /\ CallbackEnds(s)
  /\ \/ UNCHANGED pa
     \/ pa' = [pa EXCEPT ![s] = "finished"]
  /\ UNCHANGED <<refs, inits, obj, call, ret>>

DuplexCallback(s) ==
  /\ s \in Duplexes
  /\ CallbackEnds(s)
  /\ UNCHANGED <<refs, inits, obj, pa, call, ret>>

-----------------------------------------------------------------------------
(* The calls the C API and the C++ classes offer on a stream of each kind. *)
AnyCall(s) == Open(s) \/ OpenTwice(s) \/ Start(s) \/ Stop(s) \/ Close(s)

InputCalls(s)  == s \in Inputs /\ (AnyCall(s) \/ SetCallback(s) \/ List(s) \/ Recreate(s))
OutputCalls(s) == s \in Outputs /\ (AnyCall(s) \/ SetCallback(s) \/ List(s) \/ Recreate(s) \/ Write(s))
DuplexCalls(s) == s \in Duplexes /\ (AnyCall(s) \/ SetDuplexCallback(s) \/ List(s) \/ Recreate(s))

(* What a call under way does next.                                        *)
OpenStep(s) ==
  \/ Search(s) \/ SearchReturns(s) \/ NoSearch(s) \/ GiveUp(s)
  \/ OpenInput(s) \/ OpenOutput(s) \/ OpenDuplex(s)

CallStep(s) ==
  \/ OpenStep(s) \/ StartReturns(s) \/ StopReturns(s) \/ WriteReturns(s) \/ ListReturns(s)
  \/ CloseStops(s) \/ ClosePaStream(s) \/ CloseReturns(s)

CallbackReturns(s) == InputCallback(s) \/ OutputCallback(s) \/ DuplexCallback(s)

Next ==
  \E s \in Streams :
    InputCalls(s) \/ OutputCalls(s) \/ DuplexCalls(s) \/ CallStep(s)
      \/ CallbackRuns(s) \/ CallbackReturns(s)

(* Calls run, PortAudio's among them, and callbacks return, as             *)
(* audio_stream.hpp demands of them ("should be non-blocking").            *)
StreamFairness == \A s \in Streams : WF_vars(CallStep(s)) /\ WF_vars(CallbackReturns(s))

Spec == Init /\ [][Next]_vars /\ StreamFairness

-----------------------------------------------------------------------------
(* The references taken and not given back.                                *)
Held(t) ==
  \/ t[2] = "stream" /\ (obj[t[1]].open \/ call[t[1]] \in OpenPcs \cup {"release"})
  \/ t[2] = "nested" /\ call[t[1]] \in NestedPcs

Holders(c) == {t \in Streams \X {"stream", "nested"} : CounterOf(t[1]) = c /\ Held(t)}

(* The two counts together say how often PortAudio is initialised: no path *)
(* through open, with its searches and failures, through close or through  *)
(* a listing takes a reference it keeps or gives one back twice, whatever  *)
(* the callers of the other streams do meanwhile.                          *)
RefsMatchHolders ==
  /\ \A c \in Counters : refs[c] = Cardinality(Holders(c))
  /\ inits = Cardinality({c \in Counters : refs[c] > 0})

(* PortAudio is initialised whenever one of its streams exists or a caller *)
(* is about to use it: the caller that closes the last stream cannot       *)
(* terminate it under another one. (A stop after a close that could not    *)
(* stop hands PortAudio no stream, which it refuses.)                      *)
InitializedWhileUsed ==
  \A s \in Streams :
    (pa[s] # "none" \/ call[s] \notin {"idle", "release", "stop"}) => inits > 0

(* Once stop returned true, close returned, or the object is destroyed, no *)
(* callback runs: what the callback uses may go. A callback that is running*)
(* holds stop and close up.                                                *)
QuietWhenStopped ==
  \A s \in Streams :
    Delivering(s) => obj[s].open /\ (obj[s].running \/ call[s] = "start")

(* The legacy duplex callback, which is told one channel count, never runs *)
(* on a stream whose two differ, whichever of setCallback and open came    *)
(* first.                                                                  *)
LegacyChannels ==
  \A s \in Duplexes : busy[s] /\ obj[s].asym => obj[s].cb = "ex"

(* Every call returns, a stop that waits for the callback too.             *)
CallsReturn == \A s \in Streams : call[s] # "idle" ~> call[s] = "idle"
=============================================================================
