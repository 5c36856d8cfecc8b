--------------------------- MODULE VoiceChatProofs ---------------------------
(***************************************************************************)
(* Theorems about the voice chat program, on the invariant of its streams. *)
(* But for one action, which sets a callback without asking whether the    *)
(* stream delivers, what the program does to its streams is what any       *)
(* program does; ChatInv says where main is in its calls on the capture,   *)
(* and what is open, recorded and alive at each place.                     *)
(***************************************************************************)
EXTENDS VoiceChat, AudioStreamsProofs

LEMMA ChatStreamSet ==
  /\ capture \in Streams /\ player \in Streams /\ capture # player
  /\ capture \in Inputs /\ player \in Outputs /\ Streams = {capture, player}
  BY ChatAssumption, StreamsAssumption DEF Streams

-----------------------------------------------------------------------------
(* The program's steps as steps of AudioStreams.                           *)
LEMMA ChatStepsStreams ==
  ASSUME [ChatNext]_chatVars, ~ArmCapture
  PROVE  [Next]_vars
<1> USE ChatStreamSet
<1>1. ASSUME Open(capture) \/ OpenTwice(capture) \/ Start(capture) \/ Stop(capture)
               \/ Close(capture)
      PROVE  Next
  BY <1>1 DEF Next, InputCalls, AnyCall
<1>2. ASSUME Open(player) \/ Start(player) \/ Stop(player) \/ Close(player)
               \/ Write(player) \/ Recreate(player)
      PROVE  Next
  BY <1>2 DEF Next, OutputCalls, AnyCall
<1>3. CASE MainStep
  <2>1. CASE Setup \/ Connect \/ TestStop \/ StartListening \/ CaptureStarted \/ Abandon
               \/ CaptureStopped \/ StopListening \/ Cleanup \/ CaptureClosed \/ Free
               \/ Disconnect
    BY <2>1 DEF Setup, Connect, TestStop, StartListening, CaptureStarted, Abandon,
       CaptureStopped, StopListening, Cleanup, CaptureClosed, Free, Disconnect
  <2>2. CASE OpenCapture \/ StartCapture \/ StopCapture \/ CloseCapture
    BY <1>1, <2>2 DEF OpenCapture, StartCapture, StopCapture, CloseCapture
  <2> QED BY <1>3, <2>1, <2>2 DEF MainStep
<1>4. CASE Key \/ TtsAudio \/ TtsComplete \/ Disconnected \/ Signal \/ Exited
  BY <1>4 DEF Key, TtsAudio, TtsComplete, Disconnected, Signal, Exited, chatVars
<1>5. CASE MicRuns \/ MicStep
  <2>1. CASE MicRuns \/ MicReturns
    BY <2>1 DEF MicRuns, MicReturns, Next, CallbackReturns
  <2>2. CASE TestRecording \/ ResampleChunk \/ SendChunk
    BY <2>2 DEF TestRecording, ResampleChunk, SendChunk
  <2> QED BY <1>5, <2>1, <2>2 DEF MicStep
<1>6. CASE SvcStep
  <2>1. CASE PlayerStarted \/ ChunkPlayed \/ PlayerStopped \/ PlayerClosed
    BY <2>1 DEF PlayerStarted, ChunkPlayed, PlayerStopped, PlayerClosed
  <2>2. CASE OpenPlayer \/ StartPlayer \/ PlayChunk \/ StopPlayer \/ ClosePlayer
               \/ DestroyPlayer
    BY <1>2, <2>2 DEF OpenPlayer, StartPlayer, PlayChunk, StopPlayer, ClosePlayer,
       DestroyPlayer
  <2> QED BY <1>6, <2>1, <2>2 DEF SvcStep
<1>7. ASSUME NEW s \in Streams, StreamStep(s) PROVE Next
  BY <1>7 DEF StreamStep, Next
<1>8. CASE UNCHANGED chatVars
  BY <1>8 DEF chatVars
<1> QED BY <1>3, <1>4, <1>5, <1>6, <1>7, <1>8 DEF ChatNext

LEMMA ArmKeepsStreams ==
  ASSUME ObjectsInv, ArmCapture
  PROVE  ObjectsInv'
<1> USE ChatStreamSet
<1>1. /\ obj' = [obj EXCEPT ![capture].cb = "plain"]
      /\ UNCHANGED <<pa, busy, call, ret>>
  BY DEF ArmCapture, Set
<1>2. StreamsType'
  BY <1>1 DEF ObjectsInv, StreamsType, Object
<1>3. ASSUME NEW s \in Streams PROVE StreamInv(s)'
  <2>1. /\ obj'[s].open = obj[s].open /\ obj'[s].running = obj[s].running
        /\ obj'[s].asym = obj[s].asym
        /\ obj'[s].cb = IF s = capture THEN "plain" ELSE obj[s].cb
    BY <1>1 DEF ObjectsInv, StreamsType, Object
  <2>2. s \notin Duplexes
    BY ChatAssumption
  <2> QED BY <1>1, <2>1, <2>2 DEF ObjectsInv, StreamInv
<1> QED BY <1>2, <1>3 DEF ObjectsInv

(* The streams' invariant holds in the program.                            *)
LEMMA ChatObjectsStep ==
  ASSUME ObjectsInv, [ChatNext]_chatVars
  PROVE  ObjectsInv'
<1>1. CASE ArmCapture
  BY <1>1, ArmKeepsStreams
<1>2. CASE ~ArmCapture
  <2>1. [Next]_vars
    BY <1>2, ChatStepsStreams
  <2>2. StreamsType'
    BY <2>1, StreamsTypeStep DEF ObjectsInv
  <2>3. \A s \in Streams : StreamInv(s)'
    BY <2>1, StreamInvStep DEF ObjectsInv
  <2> QED BY <2>2, <2>3 DEF ObjectsInv
<1> QED BY <1>1, <1>2

-----------------------------------------------------------------------------
(* Where main is in its calls on the capture.                              *)
InCall  == {"opened", "started", "stopping", "lastStopping", "closing"}
Freeing == {"delete", "deleteResampler", "disconnect", "freeTts", "exit"}

CallInv ==
  /\ mainPc \notin InCall => call[capture] = "idle"
  /\ mainPc = "opened" => call[capture] \in OpenPcs \cup {"idle"}
  /\ mainPc = "started" => call[capture] \in {"start", "idle"}
  /\ mainPc \in {"stopping", "lastStopping"} => call[capture] \in {"stop", "idle"}
  /\ mainPc = "closing" => call[capture] \in {"closeStop", "closePa", "release", "idle"}
  /\ mainPc = "closing" /\ call[capture] = "idle" => ~obj[capture].open
  /\ mainPc \in Freeing => ~obj[capture].open

(* Where a round is open, and when the callback takes itself to be in one. *)
InRound == {"arm", "open", "opened", "started", "abandon", "unlisten", "stop", "stopping",
            "lastStop", "lastStopping"}

RoundInv ==
  /\ mainPc \in InRound => listening
  /\ recording => mainPc = "listen" \/ listening
  /\ mainPc \in {"listen", "arm", "open", "opened", "started"} => recording
  /\ mainPc \in {"stop", "stopping", "unlisten"} => ~recording

(* Where the capture may run although the last stop of it has not failed:  *)
(* inside a round, from the return of Start to that of Stop. And Stop      *)
(* returns true for none that runs.                                        *)
RunInv ==
  /\ obj[capture].running /\ ~stopFailed =>
       /\ listening
       /\ mainPc \notin {"init", "connect", "listen", "arm", "open", "opened", "abandon", "unlisten"}
       /\ mainPc \in {"loop", "read", "cleanup"} => recording
       /\ mainPc = "started" => call[capture] = "idle" /\ ret[capture]
  /\ mainPc \in {"stopping", "lastStopping"} /\ call[capture] = "idle" /\ ret[capture] =>
       ~obj[capture].running

(* What is freed where.                                                    *)
AliveInv ==
  /\ "capture" \in alive \/ mainPc \in Freeing \ {"delete"}
  /\ "resampler" \in alive \/ mainPc \in {"disconnect", "freeTts", "exit"}
  /\ "voice" \in alive \/ mainPc \in {"freeTts", "exit"}
  /\ "ttsBuf" \in alive \/ mainPc = "exit"
  /\ mainPc \in {"freeTts", "exit"} => svcPc = "none"
  /\ micPc # "done" => busy[capture]

ChatInv == ObjectsInv /\ CallInv /\ RoundInv /\ RunInv /\ AliveInv

-----------------------------------------------------------------------------
(* The steps of the other threads, as main sees them.                      *)
CaptureSame ==
  call'[capture] = call[capture] /\ obj'[capture] = obj[capture] /\ ret'[capture] = ret[capture]

(* What a call under way does to the call and to the stream being open.    *)
LEMMA CallStepMoves ==
  ASSUME StreamsType, NEW s \in Streams, CallStep(s)
  PROVE  /\ call[s] # "idle"
         /\ call[s] \in OpenPcs => call'[s] \in OpenPcs \cup {"idle"}
         /\ call[s] \in {"start", "stop", "release"} =>
              call'[s] = "idle" /\ obj'[s].open = obj[s].open
         /\ call[s] = "closeStop" => call'[s] = "closePa"
         /\ call[s] = "closePa" => call'[s] = "release"
         /\ UNCHANGED busy
<1> USE DEF StreamsType, Goto, Returns, Pcs, OpenPcs, NestedPcs, StopPcs
<1>1. CASE OpenStep(s)
  BY <1>1 DEF OpenStep, Search, SearchReturns, NoSearch, GiveUp, AfterDevice, OpenInput,
     OpenOutput, OpenDuplex, Opened
<1>2. CASE StartReturns(s)
  BY <1>2, SetRunning DEF StartReturns
<1>3. CASE StopReturns(s)
  <2>1. obj' = obj \/ Set(s, "running", FALSE)
    BY <1>3 DEF StopReturns, StopPaStream
  <2>2. obj'[s].open = obj[s].open
    BY <2>1, SetRunning
  <2> QED BY <1>3, <2>2 DEF StopReturns
<1>4. CASE WriteReturns(s) \/ ListReturns(s)
  BY <1>4 DEF WriteReturns, ListReturns
<1>5. CASE CloseStops(s) \/ ClosePaStream(s) \/ CloseReturns(s)
  BY <1>5 DEF CloseStops, ClosePaStream, CloseReturns
<1> QED BY <1>1, <1>2, <1>3, <1>4, <1>5 DEF CallStep

(* A call on one stream leaves the others alone.                           *)
LEMMA CallStepOthers ==
  ASSUME StreamsType, NEW s \in Streams, CallStep(s), NEW r \in Streams, r # s
  PROVE  call'[r] = call[r] /\ obj'[r] = obj[r] /\ ret'[r] = ret[r]
<1> USE DEF StreamsType, Goto, Returns, Set
<1>1. CASE OpenStep(s)
  BY <1>1 DEF OpenStep, Search, SearchReturns, NoSearch, GiveUp, OpenInput, OpenOutput,
     OpenDuplex, Opened
<1>2. CASE StartReturns(s) \/ StopReturns(s) \/ CloseStops(s)
  BY <1>2 DEF StartReturns, StopReturns, CloseStops, StopPaStream
<1>3. CASE WriteReturns(s) \/ ListReturns(s) \/ ClosePaStream(s) \/ CloseReturns(s)
  BY <1>3 DEF WriteReturns, ListReturns, ClosePaStream, CloseReturns
<1> QED BY <1>1, <1>2, <1>3 DEF CallStep

LEMMA ServiceSteps ==
  ASSUME StreamsType, SvcStep \/ TtsAudio \/ TtsComplete \/ Disconnected
  PROVE  /\ CaptureSame /\ UNCHANGED <<busy, mainPc, micPc, recording, listening, alive, stopFailed>>
         /\ svcPc # "none"
<1> USE ChatStreamSet DEF CaptureSame, StreamsType, SvcGoto, SvcOnly
<1>1. CASE TtsAudio \/ TtsComplete \/ Disconnected
  BY <1>1 DEF TtsAudio, TtsComplete, Disconnected, vars
<1>2. CASE PlayerStarted \/ ChunkPlayed \/ PlayerStopped \/ PlayerClosed
  BY <1>2 DEF PlayerStarted, ChunkPlayed, PlayerStopped, PlayerClosed, SvcWaits, vars
<1>3. CASE OpenPlayer
  BY <1>3 DEF OpenPlayer, Open, Goto, Returns
<1>4. CASE StartPlayer
  BY <1>4 DEF StartPlayer, Start, Goto, Returns, vars
<1>5. CASE PlayChunk
  BY <1>5 DEF PlayChunk, Write, Set, Goto, Returns, vars
<1>6. CASE StopPlayer \/ ClosePlayer
  BY <1>6 DEF StopPlayer, ClosePlayer, Stop, Close, Goto, Returns
<1>7. CASE DestroyPlayer
  BY <1>7 DEF DestroyPlayer, Recreate
<1> QED BY <1>1, <1>2, <1>3, <1>4, <1>5, <1>6, <1>7 DEF SvcStep

LEMMA MicSteps ==
  ASSUME StreamsType, MicRuns \/ MicStep
  PROVE  /\ UNCHANGED <<call, obj, ret, mainPc, svcPc, recording, listening, alive, stopFailed>>
         /\ (micPc # "done" => busy[capture]) => (micPc' # "done" => busy'[capture])
<1> USE ChatStreamSet DEF StreamsType, MicGoto, MicOnly
<1>1. CASE MicRuns
  BY <1>1 DEF MicRuns, CallbackRuns
<1>2. CASE MicReturns
  BY <1>2 DEF MicReturns, InputCallback, CallbackEnds
<1>3. CASE TestRecording \/ ResampleChunk \/ SendChunk
  BY <1>3 DEF TestRecording, ResampleChunk, SendChunk, vars
<1> QED BY <1>1, <1>2, <1>3 DEF MicStep

-----------------------------------------------------------------------------
(* main's own steps.                                                       *)
LEMMA MainStepCalls ==
  ASSUME ObjectsInv, CallInv, MainStep \/ Key \/ Signal
  PROVE  CallInv'
<1> USE ChatStreamSet
<1> USE DEF CallInv, InCall, Freeing, OpenPcs, ObjectsInv, StreamsType, MainGoto, MainOnly, vars
<1>1. CASE Key \/ Signal
  BY <1>1 DEF Key, Signal
<1>2. CASE Setup \/ Connect \/ TestStop \/ StartListening \/ Abandon \/ StopListening
             \/ Cleanup
  BY <1>2 DEF Setup, Connect, TestStop, StartListening, Abandon, StopListening, Cleanup
<1>3. CASE ArmCapture
  BY <1>3 DEF ArmCapture, Set
<1>4. CASE OpenCapture
  BY <1>4 DEF OpenCapture, Open, OpenTwice, Goto, Returns
<1>5. CASE StartCapture
  BY <1>5 DEF StartCapture, MainWaits, Start, Goto, Returns
<1>6. CASE CaptureStarted \/ CaptureStopped \/ CaptureClosed
  BY <1>6 DEF CaptureStarted, CaptureStopped, CaptureClosed, MainWaits
<1>7. CASE StopCapture
  BY <1>7 DEF StopCapture, Stop, Goto, Returns
<1>8. CASE CloseCapture
  BY <1>8 DEF CloseCapture, Close, Goto
<1>9. CASE Free \/ Disconnect
  BY <1>9 DEF Free, Disconnect
<1> QED BY <1>1, <1>2, <1>3, <1>4, <1>5, <1>6, <1>7, <1>8, <1>9 DEF MainStep

LEMMA CallInvStep ==
  ASSUME ObjectsInv, CallInv, [ChatNext]_chatVars
  PROVE  CallInv'
<1> USE ChatStreamSet
<1>1. CASE MainStep \/ Key \/ Signal
  BY <1>1, MainStepCalls
<1>2. CASE SvcStep \/ TtsAudio \/ TtsComplete \/ Disconnected
  BY <1>2, ServiceSteps DEF ObjectsInv, CaptureSame, CallInv
<1>3. CASE MicRuns \/ MicStep
  BY <1>3, MicSteps DEF ObjectsInv, CallInv
<1>4. CASE StreamStep(capture)
  <2>1. UNCHANGED mainPc /\ CallStep(capture)
    BY <1>4 DEF StreamStep, chat
  <2>2. call[capture] = "release" => ~obj[capture].open
    BY DEF ObjectsInv, StreamInv
  <2> QED BY <2>1, <2>2, CallStepMoves DEF ObjectsInv, CallInv, InCall, Freeing, OpenPcs
<1>5. CASE StreamStep(player)
  <2>1. UNCHANGED mainPc /\ call'[capture] = call[capture] /\ obj'[capture] = obj[capture]
    BY <1>5, CallStepOthers DEF StreamStep, chat, ObjectsInv
  <2> QED BY <2>1 DEF CallInv
<1>6. CASE Exited \/ UNCHANGED chatVars
  BY <1>6 DEF Exited, chatVars, chat, vars, CallInv
<1> QED BY <1>1, <1>2, <1>3, <1>4, <1>5, <1>6 DEF ChatNext

LEMMA RoundInvStep ==
  ASSUME ObjectsInv, RoundInv, [ChatNext]_chatVars
  PROVE  RoundInv'
<1> USE DEF RoundInv, InRound
<1>1. CASE MainStep
  <2> USE DEF MainGoto, MainOnly
  <2>1. CASE Setup \/ Connect \/ TestStop \/ StartListening \/ ArmCapture \/ OpenCapture
    BY <2>1 DEF Setup, Connect, TestStop, StartListening, ArmCapture, OpenCapture
  <2>2. CASE StartCapture \/ CaptureStarted \/ Abandon \/ StopCapture \/ CaptureStopped
    BY <2>2 DEF StartCapture, CaptureStarted, Abandon, StopCapture, CaptureStopped
  <2>3. CASE StopListening \/ Cleanup \/ CloseCapture \/ CaptureClosed \/ Free \/ Disconnect
    BY <2>3 DEF StopListening, Cleanup, CloseCapture, CaptureClosed, Free, Disconnect
  <2> QED BY <1>1, <2>1, <2>2, <2>3 DEF MainStep
<1>2. CASE Key \/ Signal
  BY <1>2 DEF Key, Signal, MainGoto
<1>3. CASE SvcStep \/ TtsAudio \/ TtsComplete \/ Disconnected
  BY <1>3, ServiceSteps DEF ObjectsInv
<1>4. CASE MicRuns \/ MicStep
  BY <1>4, MicSteps DEF ObjectsInv
<1>5. ASSUME NEW s \in Streams, StreamStep(s) PROVE RoundInv'
  BY <1>5 DEF StreamStep, chat
<1>6. CASE Exited \/ UNCHANGED chatVars
  BY <1>6 DEF Exited, chatVars, chat
<1> QED BY <1>1, <1>2, <1>3, <1>4, <1>5, <1>6 DEF ChatNext

(* What a call under way does to the stream being marked as running.       *)
LEMMA CallStepRuns ==
  ASSUME StreamsType, NEW s \in Streams, CallStep(s)
  PROVE  /\ call[s] # "start" /\ obj'[s].running => obj[s].running
         /\ call[s] = "start" => call'[s] = "idle" /\ ret'[s]
         /\ call[s] = "stop" /\ obj'[s].running => ~ret'[s]
<1> USE DEF StreamsType, Goto, Returns, Pcs, OpenPcs, NestedPcs, StopPcs
<1>1. CASE OpenStep(s)
  BY <1>1 DEF OpenStep, Search, SearchReturns, NoSearch, GiveUp, AfterDevice, OpenInput,
     OpenOutput, OpenDuplex, Opened
<1>2. CASE StartReturns(s)
  BY <1>2 DEF StartReturns
<1>3. CASE StopReturns(s) \/ CloseStops(s)
  <2>1. obj' = obj \/ Set(s, "running", FALSE)
    BY <1>3 DEF StopReturns, CloseStops, StopPaStream
  <2>2. obj'[s].running => obj[s].running
    BY <2>1, SetRunning
  <2> QED BY <1>3, <2>2 DEF StopReturns, CloseStops
<1>4. CASE WriteReturns(s) \/ ListReturns(s) \/ CloseReturns(s)
  BY <1>4 DEF WriteReturns, ListReturns, CloseReturns
<1>5. CASE ClosePaStream(s)
  BY <1>5 DEF ClosePaStream, Fresh
<1> QED BY <1>1, <1>2, <1>3, <1>4, <1>5 DEF CallStep

LEMMA MainStepRuns ==
  ASSUME ObjectsInv, CallInv, RoundInv, RunInv, MainStep
  PROVE  RunInv'
<1> USE ChatStreamSet
<1> USE DEF RunInv, ObjectsInv, StreamsType, MainGoto, MainOnly, vars
<1>1. CASE Setup \/ Connect \/ TestStop \/ StartListening \/ Abandon \/ StopListening
  BY <1>1 DEF Setup, Connect, TestStop, StartListening, Abandon, StopListening
<1>2. CASE ArmCapture
  BY <1>2, SetCb DEF ArmCapture
<1>3. CASE OpenCapture
  BY <1>3 DEF OpenCapture, Open, OpenTwice, Goto, Returns
<1>4. CASE StartCapture
  BY <1>4 DEF StartCapture, MainWaits, Start, Goto, Returns
<1>5. CASE CaptureStarted \/ CaptureClosed \/ Free \/ Disconnect
  BY <1>5 DEF CaptureStarted, CaptureClosed, Free, Disconnect, MainWaits, RoundInv
<1>6. CASE StopCapture
  BY <1>6 DEF StopCapture, Stop, Goto, Returns, RoundInv, InRound
<1>7. CASE CaptureStopped
  BY <1>7 DEF CaptureStopped
<1>8. CASE Cleanup
  BY <1>8 DEF Cleanup
<1>9. CASE CloseCapture
  BY <1>9 DEF CloseCapture, Close, Goto
<1> QED BY <1>1, <1>2, <1>3, <1>4, <1>5, <1>6, <1>7, <1>8, <1>9 DEF MainStep

LEMMA RunInvStep ==
  ASSUME ObjectsInv, CallInv, RoundInv, RunInv, [ChatNext]_chatVars
  PROVE  RunInv'
<1> USE ChatStreamSet
<1>1. CASE MainStep
  BY <1>1, MainStepRuns
<1>2. CASE Key \/ Signal
  BY <1>2 DEF Key, Signal, MainGoto, MainOnly, vars, RunInv
<1>3. CASE SvcStep \/ TtsAudio \/ TtsComplete \/ Disconnected
  BY <1>3, ServiceSteps DEF ObjectsInv, CaptureSame, RunInv
<1>4. CASE MicRuns \/ MicStep
  BY <1>4, MicSteps DEF ObjectsInv, RunInv
<1>5. CASE StreamStep(capture)
  <2>1. UNCHANGED <<mainPc, listening, recording, stopFailed>> /\ CallStep(capture)
    BY <1>5 DEF StreamStep, chat
  <2>2. CASE call[capture] = "start"
    <3>1. mainPc = "started" /\ listening
      BY <2>2 DEF CallInv, InCall, OpenPcs, RoundInv, InRound
    <3> QED BY <2>1, <2>2, <3>1, CallStepRuns DEF ObjectsInv, RunInv
  <2>3. CASE call[capture] # "start"
    <3>1. /\ call[capture] # "idle" /\ mainPc # "started"
          /\ obj'[capture].running => obj[capture].running
      BY <2>1, <2>3, CallStepRuns, CallStepMoves DEF ObjectsInv, CallInv
    <3>2. mainPc \in {"stopping", "lastStopping"} => call[capture] = "stop"
      BY <3>1 DEF CallInv
    <3> QED BY <2>1, <3>1, <3>2, CallStepRuns DEF ObjectsInv, RunInv
  <2> QED BY <2>2, <2>3
<1>6. CASE StreamStep(player)
  <2>1. /\ UNCHANGED <<mainPc, listening, recording, stopFailed>>
        /\ call'[capture] = call[capture] /\ obj'[capture] = obj[capture]
        /\ ret'[capture] = ret[capture]
    BY <1>6, CallStepOthers DEF StreamStep, chat, ObjectsInv
  <2> QED BY <2>1 DEF RunInv
<1>7. CASE Exited \/ UNCHANGED chatVars
  BY <1>7 DEF Exited, chatVars, chat, vars, RunInv
<1> QED BY <1>1, <1>2, <1>3, <1>4, <1>5, <1>6, <1>7 DEF ChatNext

LEMMA AliveInvStep ==
  ASSUME ObjectsInv, AliveInv, [ChatNext]_chatVars
  PROVE  AliveInv'
<1> USE DEF AliveInv, Freeing
<1>1. CASE MainStep
  <2> USE DEF MainGoto, SvcGoto, MainOnly, vars
  <2>1. CASE Setup \/ Connect \/ TestStop \/ StartListening \/ ArmCapture
    BY <2>1 DEF Setup, Connect, TestStop, StartListening, ArmCapture
  <2>2. CASE OpenCapture \/ StartCapture \/ StopCapture \/ CloseCapture
    <3>1. UNCHANGED busy
      BY <2>2 DEF OpenCapture, StartCapture, StopCapture, CloseCapture, Open, OpenTwice, Start,
         Stop, Close
    <3> QED BY <2>2, <3>1 DEF OpenCapture, StartCapture, StopCapture, CloseCapture
  <2>3. CASE CaptureStarted \/ Abandon \/ CaptureStopped \/ StopListening \/ Cleanup
               \/ CaptureClosed
    BY <2>3 DEF CaptureStarted, Abandon, CaptureStopped, StopListening, Cleanup, CaptureClosed
  <2>4. CASE Free
    BY <2>4 DEF Free
  <2>5. CASE Disconnect
    BY <2>5 DEF Disconnect
  <2> QED BY <1>1, <2>1, <2>2, <2>3, <2>4, <2>5 DEF MainStep
<1>2. CASE Key \/ Signal
  BY <1>2 DEF Key, Signal, MainGoto, MainOnly, vars
<1>3. CASE SvcStep \/ TtsAudio \/ TtsComplete \/ Disconnected
  BY <1>3, ServiceSteps DEF ObjectsInv
<1>4. CASE MicRuns \/ MicStep
  BY <1>4, MicSteps DEF ObjectsInv
<1>5. ASSUME NEW s \in Streams, StreamStep(s) PROVE AliveInv'
  BY <1>5, CallStepMoves DEF StreamStep, chat, ObjectsInv
<1>6. CASE Exited \/ UNCHANGED chatVars
  BY <1>6 DEF Exited, chatVars, chat, vars
<1> QED BY <1>1, <1>2, <1>3, <1>4, <1>5, <1>6 DEF ChatNext

-----------------------------------------------------------------------------
LEMMA ChatInvariant == ChatSpec => []ChatInv
<1>1. ChatInit => ChatInv
  <2> SUFFICES ASSUME ChatInit PROVE ChatInv
    OBVIOUS
  <2>1. ObjectsInv
    BY DEF ChatInit, Init, ObjectsInv, StreamsType, StreamInv, Object, Fresh, Pcs, OpenPcs
  <2>2. CallInv /\ RoundInv /\ RunInv /\ AliveInv
    BY ChatStreamSet DEF ChatInit, Init, Fresh, CallInv, InCall, Freeing, RoundInv, InRound,
       RunInv, AliveInv, Resources
  <2> QED BY <2>1, <2>2 DEF ChatInv
<1>2. ChatInv /\ [ChatNext]_chatVars => ChatInv'
  BY ChatObjectsStep, CallInvStep, RoundInvStep, RunInvStep, AliveInvStep DEF ChatInv
<1> QED BY <1>1, <1>2, PTL DEF ChatSpec

(* The capture delivers only while it runs or is being started.            *)
LEMMA CaptureDelivers ==
  ASSUME ChatInv, Delivering(capture)
  PROVE  obj[capture].open /\ (obj[capture].running \/ call[capture] = "start")
  BY ChatStreamSet DEF ChatInv, ObjectsInv, StreamInv, Delivering

(* What a callback uses exists until it has returned, whatever the order in*)
(* which the four threads take their steps.                                *)
THEOREM ChatResourcesOutliveUsers == ChatSpec => []ResourcesOutliveUsers
<1>1. ChatInv => ResourcesOutliveUsers
  <2> SUFFICES ASSUME ChatInv PROVE ResourcesOutliveUsers
    OBVIOUS
  <2>1. ASSUME busy[capture] PROVE mainPc \notin Freeing
    BY <2>1, CaptureDelivers DEF Delivering, ChatInv, CallInv
  <2> QED BY <2>1 DEF ChatInv, AliveInv, Freeing, ResourcesOutliveUsers
<1> QED BY <1>1, ChatInvariant, PTL

(* Captured audio is sent only inside a round, but for a stream that       *)
(* Pa_StopStream failed to stop: a running stream, while no round is open, *)
(* is one of these, and a stream that is being started or stopped is in a  *)
(* round.                                                                  *)
THEOREM ChatAudioInsideRound == ChatSpec => AudioInsideRound
<1>1. ChatInv /\ [ChatNext]_chatVars => [SendChunk => listening \/ stopFailed]_chatVars
  <2> SUFFICES ASSUME ChatInv, SendChunk, ~stopFailed PROVE listening
    OBVIOUS
  <2>1. busy[capture]
    BY DEF SendChunk, MicGoto, ChatInv, AliveInv
  <2>2. CASE obj[capture].running
    BY <2>2 DEF ChatInv, RunInv
  <2>3. CASE call[capture] = "start"
    BY <2>3 DEF ChatInv, CallInv, InCall, OpenPcs, RoundInv, InRound
  <2> QED BY <2>1, <2>2, <2>3, CaptureDelivers DEF Delivering
<1> QED BY <1>1, ChatInvariant, PTL DEF ChatSpec, AudioInsideRound

(* AudioCapture::Start replaces the callback of a stream that delivers     *)
(* nothing, with the same exception: main has stopped the capture at the   *)
(* end of the round before, or never started it.                           *)
THEOREM ChatArmsQuietCapture == ChatSpec => ArmsQuietCapture
<1>1. ChatInv /\ [ChatNext]_chatVars => [ArmCapture => ~Delivering(capture) \/ stopFailed]_chatVars
  <2> SUFFICES ASSUME ChatInv, ArmCapture, Delivering(capture) PROVE stopFailed
    OBVIOUS
  <2>1. mainPc = "arm" /\ call[capture] = "idle"
    BY DEF ArmCapture, MainGoto, ChatInv, CallInv, InCall
  <2>2. obj[capture].running
    BY <2>1, CaptureDelivers
  <2> QED BY <2>1, <2>2 DEF ChatInv, RunInv
<1> QED BY <1>1, ChatInvariant, PTL DEF ChatSpec, ArmsQuietCapture

-----------------------------------------------------------------------------
(* What the streams promise their users they keep in this program, which   *)
(* sets a callback without asking whether the stream delivers.             *)
LEMMA ArmKeepsCounts ==
  ASSUME StreamsInv, ArmCapture
  PROVE  StreamsInv'
<1> USE ChatStreamSet
<1>1. /\ obj' = [obj EXCEPT ![capture].cb = "plain"]
      /\ UNCHANGED <<refs, inits, pa, busy, call, ret>>
  BY DEF ArmCapture, Set
<1>2. ObjectsInv' /\ (TypeOK /\ InitsInv)'
  BY <1>1, ArmKeepsStreams DEF StreamsInv, TypeOK, Object, InitsInv, Used
<1>3. \A s \in Streams : obj'[s].open = obj[s].open
  BY <1>1 DEF StreamsInv, TypeOK
<1>4. ASSUME NEW c PROVE Holders(c)' = Holders(c)
  BY <1>1, <1>3 DEF Holders, Held
<1> QED BY <1>1, <1>2, <1>4 DEF StreamsInv, CountsInv

LEMMA ChatStreamsInvariant == ChatSpec => []StreamsInv
<1>1. ChatInit => StreamsInv
  BY StreamsInvInit DEF ChatInit
<1>2. StreamsInv /\ [ChatNext]_chatVars => StreamsInv'
  BY ArmKeepsCounts, ChatStepsStreams, StreamsInvStep
<1> QED BY <1>1, <1>2, PTL DEF ChatSpec

(* In the program too the count of each file is that of the references     *)
(* held, on every path of a round, a playback and cleanup.                 *)
THEOREM ChatRefsMatchHolders == ChatSpec => []RefsMatchHolders
BY RefsCounted, ChatStreamsInvariant, PTL

(* The service thread's player, closed and destroyed at the end of every   *)
(* answer, never terminates PortAudio under the capture, nor main's        *)
(* cleanup under a playback.                                               *)
THEOREM ChatInitializedWhileUsed == ChatSpec => []InitializedWhileUsed
BY UsersHold, ChatStreamsInvariant, PTL

(* Once a Stop has returned true, or a Close has, no callback of that      *)
(* stream runs.                                                            *)
THEOREM ChatQuietWhenStopped == ChatSpec => []QuietWhenStopped
<1>1. ObjectsInv => QuietWhenStopped
  BY DEF ObjectsInv, StreamInv, QuietWhenStopped, Delivering
<1>2. StreamsInv => ObjectsInv
  BY DEF StreamsInv
<1> QED BY <1>1, <1>2, ChatStreamsInvariant, PTL

(* Types.                                                                  *)
TtsInv ==
  /\ mainPc \in MainPcs /\ svcPc \in SvcPcs /\ micPc \in MicPcs
  /\ tts \in Nat /\ play \in Nat /\ arrived \in 0..MaxTts
  /\ tts + play <= arrived
  /\ svcPc = "written" => play > 0

FlagInv ==
  /\ recording \in BOOLEAN /\ stop \in BOOLEAN /\ listening \in BOOLEAN
  /\ alive \subseteq Resources /\ stopFailed \in BOOLEAN

LEMMA TtsInvStep ==
  ASSUME TtsInv, [ChatNext]_chatVars
  PROVE  TtsInv'
<1>0. MaxTts \in Nat
  BY ChatAssumption DEF ChatAssumption
<1> USE <1>0 DEF TtsInv, MainPcs, SvcPcs, MicPcs
<1>1. CASE MainStep
  <2> USE DEF MainGoto, SvcGoto, MainOnly
  <2>1. CASE Setup \/ Connect \/ TestStop \/ StartListening \/ ArmCapture \/ OpenCapture
    BY <2>1 DEF Setup, Connect, TestStop, StartListening, ArmCapture, OpenCapture
  <2>2. CASE StartCapture \/ CaptureStarted \/ Abandon \/ StopCapture \/ CaptureStopped
    BY <2>2 DEF StartCapture, CaptureStarted, Abandon, StopCapture, CaptureStopped
  <2>3. CASE StopListening \/ Cleanup \/ CloseCapture \/ CaptureClosed \/ Free \/ Disconnect
    BY <2>3 DEF StopListening, Cleanup, CloseCapture, CaptureClosed, Free, Disconnect
  <2> QED BY <1>1, <2>1, <2>2, <2>3 DEF MainStep
<1>2. CASE Key \/ Signal
  BY <1>2 DEF Key, Signal, MainGoto, MainOnly
<1>3. CASE MicRuns \/ MicStep
  BY <1>3 DEF MicStep, MicRuns, TestRecording, ResampleChunk, SendChunk, MicReturns, MicGoto,
     MicOnly
<1>4. CASE SvcStep
  <2> USE DEF SvcGoto, SvcOnly
  <2>1. CASE OpenPlayer \/ StartPlayer \/ PlayerStarted \/ PlayChunk \/ ChunkPlayed
    BY <2>1 DEF OpenPlayer, StartPlayer, PlayerStarted, PlayChunk, ChunkPlayed
  <2>2. CASE StopPlayer \/ PlayerStopped \/ ClosePlayer \/ PlayerClosed \/ DestroyPlayer
    BY <2>2 DEF StopPlayer, PlayerStopped, ClosePlayer, PlayerClosed, DestroyPlayer
  <2> QED BY <1>4, <2>1, <2>2 DEF SvcStep
<1>5. CASE TtsAudio \/ TtsComplete \/ Disconnected
  BY <1>5 DEF TtsAudio, TtsComplete, Disconnected, SvcGoto, SvcOnly
<1>6. CASE (\E s \in Streams : StreamStep(s)) \/ Exited \/ UNCHANGED chatVars
  BY <1>6 DEF StreamStep, Exited, chatVars, chat
<1> QED BY <1>1, <1>2, <1>3, <1>4, <1>5, <1>6 DEF ChatNext

LEMMA FlagInvStep ==
  ASSUME FlagInv, [ChatNext]_chatVars
  PROVE  FlagInv'
<1> USE DEF FlagInv
<1>1. CASE MainStep
  <2>1. CASE Setup \/ Connect \/ TestStop \/ StartListening \/ ArmCapture \/ OpenCapture
    BY <2>1, Zenon DEF MainOnly, Setup, Connect, TestStop, StartListening, ArmCapture, OpenCapture
  <2>2. CASE StartCapture \/ CaptureStarted \/ Abandon \/ StopCapture
    BY <2>2, Zenon DEF MainOnly, StartCapture, CaptureStarted, Abandon, StopCapture
  <2>3. CASE StopListening \/ Cleanup \/ CloseCapture \/ CaptureClosed
    BY <2>3, Zenon DEF MainOnly, StopListening, Cleanup, CloseCapture, CaptureClosed
  <2>4. CASE Free \/ Disconnect
    <3>1. \E freed : alive' = alive \ freed
      BY <2>4, Zenon DEF Free, Disconnect
    <3>2. alive' \subseteq Resources
      BY <3>1
    <3> QED BY <2>4, <3>2, Zenon DEF MainOnly, Free, Disconnect
  <2>5. CASE CaptureStopped
    <3>1. stopFailed' \in BOOLEAN
      BY <2>5 DEF CaptureStopped
    <3> QED BY <2>5, <3>1, Zenon DEF CaptureStopped
  <2> QED BY <1>1, <2>1, <2>2, <2>3, <2>4, <2>5, Zenon DEF MainStep
<1>2. CASE Key \/ Signal
  BY <1>2, Zenon DEF MainOnly, Key, Signal
<1>3. CASE MicRuns \/ MicStep
  BY <1>3, Zenon DEF MicStep, MicRuns, TestRecording, ResampleChunk, SendChunk, MicReturns,
     MicOnly
<1>4. CASE SvcStep
  BY <1>4, Zenon DEF SvcStep, SvcOnly, OpenPlayer, StartPlayer, PlayerStarted, PlayChunk,
     ChunkPlayed, StopPlayer, PlayerStopped, ClosePlayer, PlayerClosed, DestroyPlayer
<1>5. CASE TtsAudio \/ TtsComplete \/ Disconnected
  BY <1>5, Zenon DEF TtsAudio, TtsComplete, Disconnected, SvcOnly
<1>6. CASE (\E s \in Streams : StreamStep(s)) \/ Exited \/ UNCHANGED chatVars
  BY <1>6, Zenon DEF StreamStep, Exited, chatVars, chat
<1> QED BY <1>1, <1>2, <1>3, <1>4, <1>5, <1>6, Zenon DEF ChatNext

(* Every variable keeps its type: the chunks left to play never fall below *)
(* none and, with those collected, never exceed the ones that arrived.     *)
THEOREM ChatTypeCorrect == ChatSpec => []ChatTypeOK
<1>1. ChatInit => TtsInv
  <2>1. MaxTts \in Nat
    BY ChatAssumption DEF ChatAssumption
  <2> QED BY <2>1 DEF ChatInit, TtsInv, MainPcs, SvcPcs, MicPcs
<1>2. ChatInit => FlagInv
  BY Zenon DEF ChatInit, FlagInv
<1>3. TtsInv /\ FlagInv /\ [ChatNext]_chatVars => (TtsInv /\ FlagInv)'
  BY TtsInvStep, FlagInvStep
<1>4. StreamsInv /\ TtsInv /\ FlagInv => ChatTypeOK
  <2> SUFFICES ASSUME StreamsInv, TtsInv, FlagInv
               PROVE  ChatTypeOK
    OBVIOUS
  <2>1. tts \in 0..MaxTts /\ play \in 0..MaxTts
    BY ChatAssumption DEF ChatAssumption, TtsInv
  <2> QED BY <2>1, Zenon DEF StreamsInv, TtsInv, FlagInv, ChatTypeOK
<1> QED BY <1>1, <1>2, <1>3, <1>4, ChatStreamsInvariant, PTL DEF ChatSpec
=============================================================================
