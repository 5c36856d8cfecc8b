------------------------------ MODULE VoiceChat ------------------------------
(***************************************************************************)
(* The push-to-talk program (examples/voice_chat.cpp) with the capture and *)
(* player classes of spacemit_audio.cpp, on top of AudioStreams. Four      *)
(* threads: main, which reads the keyboard; PortAudio's, which calls       *)
(* send_capture_chunk; the voice client's service thread, which calls      *)
(* on_tts_audio and on_tts_complete and plays the answer inside it.        *)
(*                                                                         *)
(* The voice client (module VoiceClient) appears as the calls made on it:  *)
(* between start_listening and stop_listening a round is open. Samples are *)
(* left out; of an answer the number of its chunks is kept.                *)
(***************************************************************************)
EXTENDS AudioStreams

CONSTANTS
  capture,   \* the stream of g_capture
  player,    \* the stream of the AudioPlayer in play_tts_buffer
  MaxTts     \* bound: chunks of speech the server sends

ASSUME ChatAssumption ==
  Inputs = {capture} /\ Outputs = {player} /\ Duplexes = {} /\ MaxTts \in Nat

Resources == {"capture", "resampler", "voice", "ttsBuf"}

VARIABLES
  mainPc, svcPc, micPc,
  recording,   \* g_recording
  stop,        \* g_stop
  listening,   \* a round is open at the voice client
  tts,         \* chunks in g_tts_buf
  play,        \* chunks play_tts_buffer has still to write
  arrived,     \* chunks of speech received so far
  alive,       \* what cleanup has not freed
  stopFailed   \* history, read by properties only: Pa_StopStream failed when
               \* main last stopped the capture

chat == <<mainPc, svcPc, micPc, recording, stop, listening, tts, play, arrived, alive,
          stopFailed>>
chatVars == <<vars, chat>>

MainPcs == {"init", "connect", "loop", "read", "listen", "arm", "open", "opened", "started",
            "abandon", "stop", "stopping", "unlisten", "cleanup", "lastStop", "lastStopping",
            "close", "closing", "delete", "deleteResampler", "disconnect", "freeTts", "exit"}
SvcPcs == {"none", "loop", "gone", "open", "opened", "started", "write", "written",
           "stop", "stopping", "close", "closing", "destroy"}
MicPcs == {"done", "test", "resample", "send"}

ChatTypeOK ==
  /\ TypeOK
  /\ mainPc \in MainPcs /\ svcPc \in SvcPcs /\ micPc \in MicPcs
  /\ recording \in BOOLEAN /\ stop \in BOOLEAN /\ listening \in BOOLEAN
  /\ tts \in 0..MaxTts /\ play \in 0..MaxTts /\ arrived \in 0..MaxTts
  /\ alive \subseteq Resources /\ stopFailed \in BOOLEAN

ChatInit ==
  /\ Init
  /\ mainPc = "init" /\ svcPc = "none" /\ micPc = "done"
  /\ recording = FALSE /\ stop = FALSE /\ listening = FALSE
  /\ tts = 0 /\ play = 0 /\ arrived = 0
  /\ alive = Resources /\ stopFailed = FALSE

(* A thread's own step, beside which the rest of the program stands still. *)
MainGoto(from, to) == mainPc = from /\ mainPc' = to
SvcGoto(from, to) == svcPc = from /\ svcPc' = to
MainOnly == UNCHANGED <<svcPc, micPc, tts, play, arrived, stopFailed>>
SvcOnly  == UNCHANGED <<mainPc, micPc, recording, listening, alive, stopFailed>>
MainWaits(pc) == mainPc = pc /\ call[capture] = "idle"
SvcWaits(pc) == svcPc = pc /\ call[player] = "idle"

-----------------------------------------------------------------------------
(* main: the capture resampler, the connection, the keyboard loop.         *)
Setup ==
  /\ MainGoto("init", "connect") \/ MainGoto("init", "cleanup")
  /\ MainOnly /\ UNCHANGED <<vars, recording, stop, listening, alive>>

Connect ==
  /\ \/ MainGoto("connect", "loop") /\ SvcGoto("none", "loop")
     \/ MainGoto("connect", "cleanup") /\ UNCHANGED svcPc
  /\ UNCHANGED <<vars, micPc, recording, stop, listening, tts, play, arrived, alive, stopFailed>>

TestStop ==
  /\ MainGoto("loop", IF stop THEN "cleanup" ELSE "read")
  /\ MainOnly /\ UNCHANGED <<vars, recording, stop, listening, alive>>

(* The keyboard, in read(): q or the end of the input; a key that does     *)
(* nothing; Enter.                                                         *)
Key_Restarts ==            \* fault: Enter during a round starts another
  /\ \/ MainGoto("read", "cleanup") /\ UNCHANGED recording
     \/ MainGoto("read", "loop") /\ UNCHANGED recording
     \/ MainGoto("read", "listen") /\ recording' = TRUE
     \/ recording /\ MainGoto("read", "stop") /\ recording' = FALSE
  /\ MainOnly /\ UNCHANGED <<vars, stop, listening, alive>>

Key ==
  /\ \/ MainGoto("read", "cleanup") /\ UNCHANGED recording
     \/ MainGoto("read", "loop") /\ UNCHANGED recording
     \/ ~recording /\ MainGoto("read", "listen") /\ recording' = TRUE
     \/ recording /\ MainGoto("read", "stop") /\ recording' = FALSE
  /\ MainOnly /\ UNCHANGED <<vars, stop, listening, alive>>

(* start_recording_round: reset the resampler, start_listening, then       *)
(* AudioCapture::Start: set the callback, open, start.                     *)
StartListening ==
  /\ MainGoto("listen", "arm")
  /\ listening' = TRUE
  /\ MainOnly /\ UNCHANGED <<vars, recording, stop, alive>>

ArmCapture ==
  /\ MainGoto("arm", "open")
  /\ Set(capture, "cb", "plain")
  /\ MainOnly /\ UNCHANGED <<refs, inits, pa, busy, call, ret, recording, stop, listening, alive>>

OpenCapture ==
  /\ MainGoto("open", "opened")
  /\ Open(capture) \/ OpenTwice(capture)
  /\ MainOnly /\ UNCHANGED <<recording, stop, listening, alive>>

StartCapture ==
  /\ MainWaits("opened")
  /\ \/ ret[capture] /\ MainGoto("opened", "started") /\ Start(capture)
     \/ ~ret[capture] /\ MainGoto("opened", "abandon") /\ UNCHANGED vars
  /\ MainOnly /\ UNCHANGED <<recording, stop, listening, alive>>

CaptureStarted ==
  /\ MainWaits("started")
  /\ MainGoto("started", IF ret[capture] THEN "loop" ELSE "abandon")
  /\ MainOnly /\ UNCHANGED <<vars, recording, stop, listening, alive>>

Abandon ==
  /\ MainGoto("abandon", "unlisten")
  /\ recording' = FALSE
  /\ MainOnly /\ UNCHANGED <<vars, stop, listening, alive>>

(* stop_recording_round: AudioCapture::Stop, which does not close and says *)
(* nothing of a Pa_StopStream that failed.                                 *)
StopCapture_Forgotten ==   \* fault: the round ends without Stop
  /\ MainGoto("stop", "unlisten") \/ MainGoto("lastStop", "close")
  /\ MainOnly /\ UNCHANGED <<vars, recording, stop, listening, alive>>

StopCapture ==
  /\ MainGoto("stop", "stopping") \/ MainGoto("lastStop", "lastStopping")
  /\ Stop(capture)
  /\ MainOnly /\ UNCHANGED <<recording, stop, listening, alive>>

CaptureStopped ==
  /\ call[capture] = "idle"
  /\ MainGoto("stopping", "unlisten") \/ MainGoto("lastStopping", "close")
  /\ stopFailed' = ~ret[capture]
  /\ UNCHANGED <<vars, svcPc, micPc, recording, stop, listening, tts, play, arrived, alive>>

StopListening ==
  /\ MainGoto("unlisten", "loop")
  /\ listening' = FALSE
  /\ MainOnly /\ UNCHANGED <<vars, recording, stop, alive>>

(* cleanup. da_voice_client_disconnect joins the service thread, which     *)
(* finishes the answer it is playing.                                      *)
Cleanup ==
  /\ MainGoto("cleanup", IF recording THEN "lastStop" ELSE "close")
  /\ recording' = FALSE
  /\ MainOnly /\ UNCHANGED <<vars, stop, listening, alive>>

CloseCapture ==
  /\ \/ Close(capture) /\ MainGoto("close", "closing")
     \/ ~obj[capture].open /\ MainGoto("close", "closing") /\ UNCHANGED vars
  /\ MainOnly /\ UNCHANGED <<recording, stop, listening, alive>>

CaptureClosed ==
  /\ MainWaits("closing")
  /\ MainGoto("closing", "delete")
  /\ MainOnly /\ UNCHANGED <<vars, recording, stop, listening, alive>>

Free ==
  /\ \/ MainGoto("delete", "deleteResampler") /\ alive' = alive \ {"capture"}
     \/ MainGoto("deleteResampler", "disconnect") /\ alive' = alive \ {"resampler"}
     \/ MainGoto("freeTts", "exit") /\ alive' = alive \ {"ttsBuf"}
  /\ MainOnly /\ UNCHANGED <<vars, recording, stop, listening>>

Disconnect_NoJoin ==       \* fault: the service thread is not waited for
  /\ MainGoto("disconnect", "freeTts")
  /\ alive' = alive \ {"voice"}
  /\ UNCHANGED <<vars, svcPc, micPc, recording, stop, listening, tts, play, arrived, stopFailed>>

Disconnect ==
  /\ svcPc \in {"none", "loop", "gone"}
  /\ MainGoto("disconnect", "freeTts")
  /\ svcPc' = "none"
  /\ alive' = alive \ {"voice"}
  /\ UNCHANGED <<vars, micPc, recording, stop, listening, tts, play, arrived, stopFailed>>

-----------------------------------------------------------------------------
(* PortAudio's thread: onAudioData collects samples and calls              *)
(* send_capture_chunk for a full chunk, of which a call brings at most one:*)
(* the stream delivers chunk_size bytes at a time.                         *)
MicOnly ==
  UNCHANGED <<mainPc, svcPc, recording, stop, listening, tts, play, arrived, alive, stopFailed>>
MicGoto(from, to) == micPc = from /\ micPc' = to

MicRuns ==
  /\ CallbackRuns(capture)
  /\ MicGoto("done", "test") \/ MicGoto("done", "done")
  /\ MicOnly

TestRecording ==
  /\ MicGoto("test", IF recording THEN "resample" ELSE "done")
  /\ MicOnly /\ UNCHANGED vars

ResampleChunk ==
  /\ MicGoto("resample", "send") \/ MicGoto("resample", "done")
  /\ MicOnly /\ UNCHANGED vars

SendChunk ==
  /\ MicGoto("send", "done")
  /\ MicOnly /\ UNCHANGED vars

MicReturns ==
  /\ MicGoto("done", "done")
  /\ InputCallback(capture)
  /\ MicOnly

-----------------------------------------------------------------------------
(* The service thread. tts_buf_append drops a chunk when memory runs out.  *)
TtsAudio ==
  /\ svcPc = "loop" /\ arrived < MaxTts
  /\ arrived' = arrived + 1
  /\ tts' \in {tts, tts + 1}
  /\ SvcOnly /\ UNCHANGED <<vars, svcPc, stop, play>>

(* play_tts_buffer: take the samples and play them on a player of its own. *)
TtsComplete ==
  /\ tts > 0
  /\ SvcGoto("loop", "open")
  /\ play' = tts /\ tts' = 0
  /\ SvcOnly /\ UNCHANGED <<vars, stop, arrived>>

OpenPlayer ==
  /\ SvcGoto("open", "opened")
  /\ Open(player)
  /\ SvcOnly /\ UNCHANGED <<stop, tts, play, arrived>>

StartPlayer ==
  /\ SvcWaits("opened")
  /\ \/ ret[player] /\ SvcGoto("opened", "started") /\ Start(player)
     \/ ~ret[player] /\ SvcGoto("opened", "destroy") /\ UNCHANGED vars
  /\ SvcOnly /\ UNCHANGED <<stop, tts, play, arrived>>

PlayerStarted ==
  /\ SvcWaits("started")
  /\ SvcGoto("started", IF ret[player] THEN "write" ELSE "close")
  /\ SvcOnly /\ UNCHANGED <<vars, stop, tts, play, arrived>>

PlayChunk ==
  /\ \/ play > 0 /\ SvcGoto("write", "written") /\ Write(player)
     \/ play = 0 /\ SvcGoto("write", "stop") /\ UNCHANGED vars
  /\ SvcOnly /\ UNCHANGED <<stop, tts, play, arrived>>

ChunkPlayed_Retries ==     \* fault: a failed write is tried again
  /\ SvcWaits("written")
  /\ SvcGoto("written", "write")
  /\ play' = IF ret[player] THEN play - 1 ELSE play
  /\ SvcOnly /\ UNCHANGED <<vars, stop, tts, arrived>>

ChunkPlayed ==
  /\ SvcWaits("written")
  /\ \/ ret[player] /\ SvcGoto("written", "write") /\ play' = play - 1
     \/ ~ret[player] /\ SvcGoto("written", "stop") /\ UNCHANGED play
  /\ SvcOnly /\ UNCHANGED <<vars, stop, tts, arrived>>

StopPlayer ==
  /\ SvcGoto("stop", "stopping")
  /\ Stop(player)
  /\ SvcOnly /\ UNCHANGED <<stop, tts, play, arrived>>

PlayerStopped ==
  /\ SvcWaits("stopping")
  /\ SvcGoto("stopping", "close")
  /\ SvcOnly /\ UNCHANGED <<vars, stop, tts, play, arrived>>

ClosePlayer ==
  /\ SvcGoto("close", "closing")
  /\ Close(player)
  /\ SvcOnly /\ UNCHANGED <<stop, tts, play, arrived>>

PlayerClosed ==
  /\ SvcWaits("closing")
  /\ SvcGoto("closing", "destroy")
  /\ SvcOnly /\ UNCHANGED <<vars, stop, tts, play, arrived>>

DestroyPlayer ==
  /\ SvcGoto("destroy", "loop")
  /\ Recreate(player)
  /\ play' = 0
  /\ SvcOnly /\ UNCHANGED <<stop, tts, arrived>>

(* on_disconnected; nothing reconnects.                                    *)
Disconnected ==
  /\ SvcGoto("loop", "gone")
  /\ stop' = TRUE
  /\ SvcOnly /\ UNCHANGED <<vars, tts, play, arrived>>

(* handle_signal                                                           *)
Signal ==
  /\ mainPc \notin {"init", "exit"} /\ ~stop
  /\ stop' = TRUE
  /\ MainOnly /\ UNCHANGED <<vars, mainPc, recording, listening, alive>>

-----------------------------------------------------------------------------
(* A stream call under way. The program names no device.                   *)
StreamStep(s) == CallStep(s) /\ call'[s] \notin NestedPcs /\ UNCHANGED chat

MainStep ==
  \/ Setup \/ Connect \/ TestStop \/ StartListening \/ ArmCapture \/ OpenCapture
  \/ StartCapture \/ CaptureStarted \/ Abandon \/ StopCapture \/ CaptureStopped
  \/ StopListening \/ Cleanup \/ CloseCapture \/ CaptureClosed \/ Free \/ Disconnect

MicStep == TestRecording \/ ResampleChunk \/ SendChunk \/ MicReturns

SvcStep ==
  \/ OpenPlayer \/ StartPlayer \/ PlayerStarted \/ PlayChunk \/ ChunkPlayed
  \/ StopPlayer \/ PlayerStopped \/ ClosePlayer \/ PlayerClosed \/ DestroyPlayer

Exited == mainPc = "exit" /\ UNCHANGED chatVars

ChatNext ==
  \/ MainStep \/ Key \/ MicRuns \/ MicStep
  \/ SvcStep \/ TtsAudio \/ TtsComplete \/ Disconnected \/ Signal
  \/ \E s \in Streams : StreamStep(s)
  \/ Exited

(* The threads run and PortAudio's calls return; nobody has to press a key *)
(* and the server has to send nothing.                                     *)
ChatFairness ==
  /\ WF_chatVars(MainStep) /\ WF_chatVars(SvcStep) /\ WF_chatVars(MicStep)
  /\ \A s \in Streams : WF_chatVars(StreamStep(s))

ChatSpec == ChatInit /\ [][ChatNext]_chatVars /\ ChatFairness

-----------------------------------------------------------------------------
(* Captured audio is sent only between start_listening and stop_listening, *)
(* although send_capture_chunk reads g_recording long before it sends:     *)
(* stop_listening comes after Stop, and Stop waits for the callback. The   *)
(* exception is a capture that Pa_StopStream has failed to stop.           *)
AudioInsideRound == [][SendChunk => listening \/ stopFailed]_chatVars

(* What a callback uses exists until the callback has returned: cleanup    *)
(* frees the capture, the resampler, the voice client and the speech       *)
(* buffer in an order that stops each user before its resource goes.       *)
ResourcesOutliveUsers ==
  /\ busy[capture] => "capture" \in alive
  /\ micPc = "resample" => "resampler" \in alive
  /\ micPc = "send" => "voice" \in alive
  /\ svcPc \notin {"none", "gone"} => {"voice", "ttsBuf"} \subseteq alive

(* AudioCapture::Start replaces the std::function of the stream before it  *)
(* finds out that the stream is open already: never while PortAudio's      *)
(* thread may be calling it. What prevents it is that main starts no round *)
(* before it has stopped the last; the exception is the same.              *)
ArmsQuietCapture == [][ArmCapture => ~Delivering(capture) \/ stopFailed]_chatVars

(* cleanup ends, a playback under way included.                            *)
QuitEnds == mainPc = "cleanup" ~> mainPc = "exit"

(* "[Enter]  Start / stop recording" (voice_chat.cpp:20): a round is given *)
(* up because the microphone cannot be opened only if it is not open. It   *)
(* does not hold: Stop leaves the stream open, and every later Start finds *)
(* it "already open".                                                      *)
RoundsRecord ==
  [][mainPc = "opened" /\ mainPc' = "abandon" => ~obj[capture].open]_chatVars
=============================================================================
