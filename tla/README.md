# Digital pet: TLA+ models and proofs

This directory keeps the formal models of the digital pet firmware and its SDK
beside the code. Paths below are relative to the repository root.

## 1. The system

| component | source | state | operations |
|---|---|---|---|
| MQTT device client | `src/client.c`, `include/device_agent/client.h` | heartbeat flag and thread, libmosquitto handle, callbacks | new, connect, disconnect, free, send_status / telemetry / event; callbacks on connect, message, disconnect |
| pet firmware | `src/main.c` | `g_state`, `g_resp_payload`, `g_stop` | one handler per command, `report_state`, `emit_part_event`, `on_connect`, `main` |
| pet motors | `src/pet_motors.c` | three steppers, one fan | init, deinit, move, oscillate, reset, fan_set |
| motor core | `motor_pwm/src/motor_core.c` | driver registry | alloc, init, set_cmds, free |
| fan driver | `motor_pwm/src/drivers/drv_pwm_generic.c` | `run_flag`, duty cycle, a detached PWM thread | init, set_cmd, free |
| stepper driver | `motor_pwm/src/drivers/drv_pwm_RoHS.c` | two files per motor, GPIO lines | init, calibrate, move, free |
| voice client | `src/voice_client.c` | session state, 64-slot send queue, receive buffer, service thread | connect, disconnect, start / stop listening, send_audio, abort, websocket callbacks |
| vision client | `src/vision_client.c` | none between calls | one blocking HTTP upload |
| audio streams | `audio/src/audio_stream.cpp`, `audio_duplex_stream.cpp` | PortAudio reference count, stream, callback | open, start, stop, close, write |
| audio facade | `audio/src/spacemit_audio*.cpp` | wrapped streams | Start, Stop, Close |
| resampler | `audio/src/resampler*.cpp` | none | linear up- and downsampling |
| voice chat example | `examples/voice_chat.cpp` | recording round, playback buffer | key handling, playback |

How they interact. The platform publishes a command; the libmosquitto thread
runs `on_message_cb`, which calls the firmware's `handle_command`, which
*blocks in that thread* until the motors are done, reports, and returns; then
`on_message_cb` publishes the response. A second thread sends heartbeats. The
main thread only waits for Ctrl-C and then takes the rest apart. The fan has
PWM threads of its own; a stepper is moved step by step by the calling thread.

The voice chat program stands beside the firmware. Its main thread reads the
keyboard and starts and stops rounds; PortAudio's thread calls
`send_capture_chunk`, which resamples and pushes frames into the voice client's
queue; the client's service thread calls back with speech and plays it when the
answer is complete; `cleanup` stops all of them.

What is hard here:

* three threads share the client, and its teardown must be safe from every
  stage of a failed or interrupted connect;
* connections are lost and come back in the middle of a command, and QoS 0
  messages go missing;
* what the platform is told, what `g_state` says and where the motors are must
  agree although they change one after the other;
* the fan's threads are told to end by a flag their successor raises again;
* the steppers are counted, not measured: the files under `/root` are their
  only memory, over crashes too;
* (motors) four devices are initialised one after the other, each init may fail
  in two ways, and one deinit must undo whatever there is;
* (voice) a bounded queue between the microphone's thread and the service
  thread, and sessions that leave state to the next one;
* (audio) a reference count shared by several streams, two files with a count
  each, callbacks on PortAudio's thread while the stream is being stopped;
* (voice chat) four threads, one of which plays the answer inside a callback of
  the voice client while another may be taking the program apart.

`PROJECT.json` lists every component with its status, and every hazard at its
line.

## 2. Modules

| module | models | extends |
|---|---|---|
| `DaClient` | `client.c` with its three threads, the broker and the link; the application is arbitrary | |
| `PetCommands` | pure: what a command requires, does to `g_state`, and to which angles it sends a motor | |
| `PetDevice` | `main.c` as the application of `DaClient`, with the motors as `pet_motors.c` shows them | `DaClient`, `PetCommands` |
| `PetService` | abstract: what the pet promises the platform, without threads, connections or motors; `ServiceSpec` relates `PetDevice` to it | `PetCommands` |
| `FanDriver` | the PWM threads of `drv_pwm_generic.c` | |
| `PetMotors` | `pet_motors_init`, `pet_fan_set` and `pet_motors_deinit` over `motor_core.c` | `FanDriver` |
| `StepperDriver` | calibration, moves and files of `drv_pwm_RoHS.c` | |
| `FrameQueue` | abstract: what the voice client expects of its send queue | |
| `SendQueue` | the ring of `voice_client.c`; `RingIsFifo` relates it to `FrameQueue` | |
| `VoiceClient` | `voice_client.c` with its application, microphone and service threads, libwebsockets and the server | `SendQueue` |
| `AudioStreams` | `audio_stream.cpp`, `audio_duplex_stream.cpp` and PortAudio as they use it | |
| `VoiceChat` | `voice_chat.cpp` with `AudioCapture` and `AudioPlayer` | `AudioStreams` |
| `Pcm` | chunks and the linear resampler: what becomes of the samples | |
| `MCPetDevice`, `MCPetMotors`, `MCStepperDriver`, `MCVoiceClient`, `MCAudioStreams`, `MCVoiceChat` | the constants of the finite instances | |
| `DaClientProofs`, `PetDeviceProofs`, `PetMotorsProofs`, `StepperDriverProofs`, `VoiceClientProofs`, `AudioStreamsProofs`, `VoiceChatProofs`, `PcmProofs` | theorems | |

Operators named `X_SomeFault` stand beside an action `X`: they are `X` with a
plausible bug, and each property is shown to notice at least one of them. No
specification uses them.

### DaClient

Every thread has a program counter: `mainPc`, `loopPc` (libmosquitto's thread),
`hbPc`. `da_client_connect` and `da_client_disconnect` are one action per call
they make, since the other threads run between them; a callback is one action
per publish. `caller` remembers who called `da_client_disconnect`, because
`da_client_free` calls it again. The link to the broker is `down`,
`connecting` (CONNECT sent), `up`, `broken` (dead, the client has not noticed)
or `closing` (a DISCONNECT is queued). What the platform received last is
`platform`: one field each for status, the state embedded in it, telemetry,
event and response. JSON documents are opaque values; `None` is a NULL pointer.
A response records where its strings live, because `on_message_cb` reads them
after the handler has returned.

External parts (libmosquitto, broker, link): packets are written in order; a
publish is lost on a link that is broken, closing or down, and may be lost
while connecting; the thread reconnects until `mosquitto_disconnect`, reports
the end of a connection through `on_disconnect_cb`, and then ends. A new
connection has a clean session: no subscription and no queued commands.

### PetDevice

`handle_command` is: check, then the motor calls one by one (`MotorStep` is one
blocking `stepper_goto`), then `g_state` (`UpdateState`), status, telemetry
with the copy into `g_resp_payload`, event, return. `pose` and `fan` are what
the motors were made to do; they are separate from `gState`, and
`PoseMatchesState` relates them. `fan` may become `FanDead`, when
`pthread_create` fails in the driver, which nobody above it hears of.

### PetService

The abstract specification of the pet: it takes commands in the order of their
ids, carries each accepted one out in one step (`CarryOut`), tells the platform
only what it is (`Tell`), and answers with the verdict and, when it accepted,
with the state after having told it (`Answer`). A command may be lost before it
is taken (`Lose`), an answer with its connection (`LoseAnswer`); a command that
was taken is carried out. `PetDevice` implements it under this mapping: the
command in hand is `cur` from the call of the handler to the response (`Hand`),
it is carried out when `g_state` changes (`CarriedOut`), what the platform was
told is `platform` (`Told`), and the ids up to the one before the head of the
inbox can no longer be taken (`Last`). Reconnects, heartbeats, the steps of a
motion and the shutdown are stutters.

### FanDriver

The calling thread (`pc`) and every PWM thread ever created (`threads`), each
between "test the flag", "line high" and "line low". `usleep(1000)` is a step
that waits for nothing: a cycle takes 100 ms, so the old thread may or may not
have looked at the flag by then. After `pwm_gpio_free` a thread that goes on
uses freed memory; it may carry on or the process may die (`Fault`).

### PetMotors

`mem` is what each of the four motor pointers stands for. A driver's `init`
fails in one of two ways: it leaves its private data to `free` (`kept`), or it
frees them and leaves the pointer (`dangling`). `misuse` records the motors
whose released memory was used. `FanDriver` goes on inside: `FanSet` starts a
command as `pet_fan_set` does, `FanWasSet` is the last command of the deinit,
and the fan's threads run beside both.

### StepperDriver

`RunStepTimes` computes what one `run_step_times` does to the axis: where it
ends, how many steps were made, how many it returns. The axis between its
switches and mechanical stops is the environment. The constants of the code
keep their values (250 blind steps, a check every 11th, 2500 at most, 900 by
default). Writing a file is two steps, truncate and write. The process can die
between any two steps or inside a run, and the files can be deleted, as
`README.md:249` suggests. The `MOTOR_MODE_IDLE` branch of `set_cmd` is left
out: the pet never uses it on a stepper. A failed `fopen` is left out as well.

### SendQueue and VoiceClient

`items`, `head`, `tail` and `count` are the ring's fields; `Push` and `Pop` are
one step each, as the queue's mutex makes them. `VoiceClient` gives every thread
a program counter: an API call is a change of state, a frame and a wake-up
(`Wake`), between which the service thread runs; each case of `lws_protocol_cb`
is one action, except that `on_tts_complete` may take its time
(`ReceiveComplete`, `CompleteReturns`). `hello` stands for `hello_settled` and
`hello_rc`, a pointer for whether it is NULL, `session` and the `call` of a
frame for the connect they belong to. `rx` says in which connect the unfinished
message in `rx_buf` began. The application obeys the header: it calls the
session functions after a successful connect, and the microphone is silent
outside a round. Nothing is assumed of the order of its calls beyond that.

External: libwebsockets has two flags, `wake` (`lws_cancel_service` was called)
and `writable` (`lws_callback_on_writable` was). Frames reach the server when
they are written; its messages take time and are lost when the connection ends.
The server answers a hello, and rounds it heard of; it ignores what it hears
before.

### AudioStreams

One record per stream object (`obj`), PortAudio's stream for it (`pa`), whether
its callback is running (`busy`), and where its caller is inside a call
(`call`); `refs` are the two `g_pa_ref_count`s, `inits` is what PortAudio has
seen of them. The three classes differ in their `open` (`OpenInput`,
`OpenOutput`, `OpenDuplex`: devices to look up, conditions, blocking mode) and
in the calls their C API has; what they share is modelled once. A device name is
searched with a nested reference, which every way out gives back. Each
PortAudio function may fail, `Pa_StopStream` too; `stop` waits for a callback
under way. A callback decides how the stream goes on (`InputCallback`,
`OutputCallback`: no frames left ends the stream; `DuplexCallback`).

### VoiceChat and Pcm

`VoiceChat` has one program counter per thread and calls the operations of
`AudioStreams` for its two streams; the player's object is recreated for each
answer. The voice client appears as the calls made on it (`listening` is a round
open at it), since its own threads are the subject of `VoiceClient`; that
`da_voice_client_disconnect` joins the service thread is used here and proved
there (`ServiceThreadOwned`). `alive` is what `cleanup` has not freed.
`stopFailed` is a history variable, which no action reads: `Pa_StopStream` failed
when `main` last stopped the capture. `AudioCapture::Stop` drops that result, and
the properties about the capture make an exception for it and for nothing else.

`Pcm` follows the number of samples: on the capture path through the
accumulation buffer, the chunks and their downmix into the resampler, on the
playback path from the speech buffer through the resampler into the chunks
written. For an output frame it keeps the position it is interpolated at and
the input frames it reads. The resampler's ratio is a `double`. Where the exact
product or quotient is a whole number, the rounded one may lie beside it, and
`ceil` or the cast to an index then gives a frame more or the pair before:
`OutputFrames` and `Sources` are sets with both outcomes. From 44100 to 48000 Hz,
147 frames become 161 and not 160. Everywhere else the distance to the next
whole number (at least one over a rate) is far larger than the rounding. When
the output rate is a multiple of the input rate the ratio is exact and there is
no choice.

## 3. What is checked

| run | question | bounds | states |
|---|---|---|---|
| `device` | the firmware's safety properties, and that it implements `PetService` | 2 commands out of 6 kinds: a move, an oscillation of one round, a reset, the fan, bad parameters, garbage | 740 000 |
| `device_live` | shutdown ends, commands are answered | 2 commands of one kind, a move; fair threads | 48 000 |
| `motors` | init, fan commands and deinit of the four motors | 3 fan commands, so up to 3 threads alive at once | 11 000 |
| `stepper` | one axis with its files | 1 crash; 900 steps of travel, 20 behind each switch; 4 angles; 2 starting places; any switch fault at each start | 227 000 |
| `voice` | the voice client's threads, queue and sessions | 2 connects, 1 round (manual or auto), a ring of 2 slots, 1 message on its way | 130 000 |
| `audio` | streams, reference counts and callbacks | one stream of each kind, two of the three in use | 106 000 |
| `chat` | the voice chat program | one microphone, one player, 2 chunks of speech | 57 000 |
| `samples` | chunks and resampling | 4 rates, 3 channel counts, 2 chunk sizes, rounds and answers of up to 9 frames | 7 000 |

Two commands are enough for the order properties, which relate a response to
the next one, and for state left over from the previous command. Reconnects
are not bounded. One kind of command is enough for `device_live`: a move is the
longest of them, and the rest differ in what they set. Three fan calls let two
threads left behind meet a third. In
the stepper run moves, restarts and deletions are not bounded; the axis'
position is an integer, and the run covers every position any sequence of
moves between these angles can reach. `CHECK_DEADLOCK FALSE` stands where the
program ends (`mainPc = "exit"`, `mpc` gone or crashed, `appPc = "freed"`); the
other models never stop, and `chat` stutters at its exit (`Exited`).

`audio` has the constraint `TwoInUse`: two of the three streams are used in a
behaviour, and every pair of them, so both the pair that shares a count and the
pairs that do not; the theorems hold for any number. Only a call that begins to
use the third stream leaves the constraint, no step that fairness is assumed of,
so the constraint hides no counterexample to `CallsReturn`. `chat` bounds the
speech the server sends, not the rounds. The rates of `samples` include both
directions, whole and fractional ratios and equal rates; 9 frames make chunks
that end inside a frame, several chunks of one callback and a chunk that waits
for the next callback.

Two connects show what one session leaves to the next. A ring of two slots
wraps around and is full as soon as two frames wait, which is what matters of
64; three slots (360 000 states) and three connects (300 000) hold as well but
add nothing the theorems do not say for all values.

The properties, with the code they are about, are stated in comments beside
their definitions. The main ones:

* `ThreadsOutlived`, `MotorsOutliveCommands`: nothing is released that a thread
  may still use.
* `ServiceSpec`: all the platform sees of the firmware is one service taking one
  command after the other.
* `CommandAnswered`, `RepliesInOrder`, `ReplyFollowsReports`: one response per
  command, in order, after the reports it must agree with.
* `PoseMatchesState`, `PlatformUpToDate`: motors, `g_state` and the platform's
  picture agree, after lost connections too.
* `HeartbeatSilentAfterOffline`: no heartbeat contradicts "offline".
* `ShutdownCompletes`, `CommandsHandled`: liveness.
* `FanRuns`, `NoOldPulse`, `Stops`: replacing the PWM thread works although
  nobody waits for the old one.
* `AllOrNothing`: at whichever motor and in whichever way an init fails, no motor
  is left allocated.
* `TracksAngle`: after a calibration, the axis is within one degree of the
  angle in the file, after any number of moves and although the result of a run
  is ignored; a run that a switch ends early brings the axis back in line. It is
  stated for motions no crash cut short and for a switch that works; after a
  cut motion the file is wrong, and after a crash between writing `max_steps`
  and centring no later start calibrates again.
* `StallBounded`, `CoilsOffWhenIdle`: from any position and with any angle
  file, the motor never presses against its stop for long with a working
  switch, and the coils are off while waiting.
* `RingIsFifo`, `FramesMoveOn`: what was accepted leaves in order, and leaves
  while there is a connection: no wake-up is lost.
* `ServiceThreadOwned`, `StoppedState`, `DisconnectReturns`: the service thread
  is joined before its context goes, on failure paths too, and changes nothing
  afterwards.
* `AfterHelloOwn`: the queue is not emptied between sessions; what is left
  over goes out before the new hello, never after it.
* `ConnectReturns`: the wait without a timeout ends, if connect begins with room
  in the queue and an empty receive buffer.
* `RefsMatchHolders`, `InitializedWhileUsed`: each path of `open`, `close` and the
  device lists gives back what it took, and PortAudio is not terminated under a
  stream.
* `QuietWhenStopped`, `CallsReturn`, `LegacyChannels`: what a callback may rely
  on, and that the call that waits for it returns.
* `AudioInsideRound`, `ArmsQuietCapture`, `ResourcesOutliveUsers`, `QuitEnds`: the
  program tests `g_recording` long before it sends, replaces a callback before
  it knows whether the stream is open, and frees in `cleanup` what three other
  threads use; the order of its calls makes up for it. A program that closes the
  round without stopping the capture violates the first, one that starts a round
  while another is recording the second. Both except a capture that
  `Pa_StopStream` has failed to stop (`stopFailed`): it delivers on, outside a
  round and through the next `Start`.
* `ResampleFollowsReference`, `SamplesAddUp`: each resampled frame stands where it
  should, chunks neither lose nor double samples, and a chunk or an answer lasts
  at most one frame longer than what it was made of, whichever way the doubles
  are rounded.

Fairness is assumed in `device_live`, `motors`, `voice`, `voice_handshake`,
`audio` and `chat` only: each of the program's threads runs on, its sleeps and
motions end, and libmosquitto notices the end of a connection (its keepalive).
`lws_service` attends to whatever is due each time round its loop, and a
connection attempt ends with the library's timeout; the voice server answers a
hello it heard. PortAudio's calls return, and so do callbacks, which
`audio_stream.hpp` asks to be non-blocking. Nothing else is assumed of the user,
of the platform, of the server or of the network.

### Disagreements with the documentation

Four runs state what a comment or a document says and end in a counterexample:

| run | says | does |
|---|---|---|
| `heartbeat` | `client.h:77-81`: a heartbeat every interval | none after the first lost connection |
| `voice_handshake` | `voice_client.h:156`: connect blocks until the handshake completes or fails | the server's answer is appended to an unfinished message of the last session and dropped; connect waits on |
| `chat_rounds` | `voice_chat.cpp:20`: Enter starts and stops recording | a round stops the capture without closing it; the next one fails because the stream is already open |
| `motors_init` | `pet_motors.h:54-55`: on failure no motor is left allocated | a motor whose init failed after freeing its own data is commanded and freed again |

More were met while modelling and need no run to be seen.

* MQTT client. `README.md:185` and `client.h:173` let the device say "offline" last,
  but a command under way at `client.c:587` reports "online" after it.
  `client.h:102-103` says that response strings are copied before the callback
  returns; `on_message_cb` reads them afterwards (`client.c:320`), so strings on
  the handler's stack may hold anything by then. The result of a command handler
  is ignored, where `client.h:121` says that non-zero triggers an error response.
* Motors. `drv_pwm_generic.c:211,264` wait to "ensure" that the thread has
  exited; one that has not goes on after `free` with freed memory. A fan that
  could not start is answered with `code:0`, which `README.md:53` reserves for
  success, since `motor_core.c:104` drops its result. `run_step_times` returns
  one step less than it made when a switch ends the run, where
  `drv_pwm_RoHS.c:171` says "actual steps run" (`RunStepTimes` keeps `taken` and
  `returned` apart for that reason), and the direction line is driven to the
  opposite of the `dir_gpio_left_level` that `drv_pwm_RoHS.c:30` describes.
* Voice client. A manual round ends "when the caller stops it"
  (`voice_client.h:172`), but a late answer to an earlier round sets PLAYING or
  CONNECTED. A hello that finds the queue full of the last session's frames is
  dropped, and connect waits as in `voice_handshake`. A failed connect leaves
  the state CONNECTING.
* Audio. `start` returns true without an active stream when a callback ended the
  last one, or when `close` could not stop it and `is_running_` stayed set. The
  linear upsampler reads outside its input when it is given a single frame
  (`resampler.cpp:218`). `audio_stream.cpp:25` counts "across all streams", but
  the duplex file has a count and a mutex of its own.
* Voice chat. A lost connection and a signal set `g_stop`, which main tests when
  `read()` returns, after the next key. With a `VOICE_CAPTURE_CHANNELS` that does
  not divide the 1600 samples of a chunk, each chunk loses a part of a frame and
  the next begins at another channel. What the accumulation buffer holds when a
  round is stopped, less than a chunk, is never sent.

## 4. What is proved

The theorems hold for all values of the constants: any number of commands and
calls, any messages, documents and duties.

* `DaClientProofs`: `ClientTypeOK`; `ThreadInv` (a living heartbeat thread is
  one `main` knows it must join; the network thread is gone after the first
  disconnect) and from it `ThreadsOutlived` and `HeartbeatSilentAfterOffline`;
  `JoinsEnd`, the safety half of `ShutdownCompletes` (what a disconnect joins has
  been told to end and cannot go on); `OrderInv` (request ids grow from answered
  over in hand and waiting to sent)
  and from it `RepliesInOrder`; `AnswerInv` (a command in hand belongs to this
  connection) for `CommandAnswered`.
* `PetDeviceProofs`: `TypeOK` with `CallbackInv` (application code runs only
  inside a callback); `DeviceImplementsClient`, every step of the firmware is a
  step of `DaClient` or a stutter, which carries the client's theorems over;
  `MotorsInv` for `MotorsOutliveCommands`; `PoseInv` for `PoseMatchesState`,
  which adds that the last angle of a motion under way is the one its command
  stands for; `ReportInv` for `PlatformUpToDate`, which says at which point of a
  callback the platform has been told; `ReplyInv` for `ReplyFollowsReports`.
  `DeviceImplementsService` proves `ServiceSpec`: every step of the firmware is a
  step of `PetService` or a stutter. It needs most of the invariants above:
  `OrderInv` for the order in which commands are taken and for what the end of a
  connection loses, `CallbackInv` for a command being carried out once, and
  `ReportInv` and `ReplyInv` for the answer, whose code is the verdict of the
  command in hand.
* `VoiceClientProofs`: of the ring, `RingOK` (the tail is `count` slots ahead of the
  head), with which every push and pop is a step of `FrameQueue` or a stutter;
  of the client, `TypeOK` and `RingIsFifo` for the whole client;
  `VoiceThreadInv` for `ServiceThreadOwned`; `SessionInv` for `AfterHelloOwn`,
  which adds that nothing behind the present hello in the queue is older than
  it; `StopInv` for `StoppedState`, which says when there is no connection and
  hence no callback that could set the state; `WakeInv` for `NoLostWakeUp`, the
  safety half of `FramesMoveOn`: while a frame waits on a connection the service
  thread has been told, or whoever queued it is about to.
* `PetMotorsProofs`: of the fan driver alone, `TypeOK`, `FanInv` for `FanRuns`,
  which adds that the flag is up from the creation of a thread to the next call,
  and `NoOldPulse` as a step property; of all four motors, `AllInv` for `MotorsTypeOK`, `AllOrNothing`, `FanRuns` and
  `NoOldPulse`. It says for each place of init and deinit which motors are held,
  and ties it to the fan driver, whose invariant holds in the life cycle too,
  although its commands and its release come from two callers there.
* `StepperDriverProofs`: `StepperInv` for `TypeOK`, `CoilsOffWhenIdle` and
  `StallBounded`, for any travel, slack, angles and crashes. The heart is about
  one run: the step at which a switch ends it is a least number (`LeastNat`), the
  steps made are bounded by it (`RunFacts`), and those pressing on a stop by the
  blind steps and one interval between checks (`StallOfRun`). `TrackInv` is for
  `TracksAngle`: a trusted axis stands near its file's angle (`Calibrated`, with
  `MoveKeepsNear` for one move), and a calibration with a working switch gets there
  from anywhere (`Calibrating`: `LeftEnd`, `RightEnd`, `Centred`). This theorem has a
  hypothesis, `AxisFits`: the travel is at least 30 times the slack behind a
  switch plus ten, and a calibration's longest run crosses it. On an axis that
  does not fit, a calibration that finds too few steps falls back to 900, which
  need not be the axis' length. TLC evaluates `AxisFits` on the checked instance
  (`MCAxisFits`).
* `AudioStreamsProofs`: for any number of streams, `ObjectsInv` (what each object's
  fields, PortAudio's stream and the caller's place have to do with each other)
  for `QuietWhenStopped` and `LegacyChannels`; with it `RefsMatchHolders`, where a
  step adds or removes at most one element of the set of holders, hence one of
  its cardinality; and from both `InitializedWhileUsed`. Their initial and step
  lemmas are separate, so that a program built on the streams can cite them.
* `VoiceChatProofs`: `ChatInv` for `ResourcesOutliveUsers`, `AudioInsideRound` and
  `ArmsQuietCapture`. `ObjectsInv` holds in the program too: its steps on the
  streams are steps of `AudioStreams`, but for `ArmCapture`, which sets a callback
  without asking whether the stream delivers. `CallInv` adds where main is in its
  calls on the capture, `RoundInv` where a round is open, `RunInv` where the capture
  may run when its last stop has not failed, `AliveInv` what is freed at each
  place of cleanup. A callback under way means that the stream runs or is being
  started, before the first free and, by `RunInv`, inside a round and not where
  `Start` arms the capture, unless `stopFailed` holds. The
  theorems about the streams carry over to the program (`ChatRefsMatchHolders`,
  `ChatInitializedWhileUsed`, `ChatQuietWhenStopped`), and with them its types
  (`ChatTypeOK`, from `TtsInv` and `FlagInv`).
* `PcmProofs`: `PcmInv` for `SamplesAddUp` and `ResampleFollowsReference`, for any
  rates, channel counts, chunk sizes and lengths, and for either rounding. They
  rest on two lemmas: the frames made last as long as the input and at most one
  frame longer (`OutputFramesBounds`), and a frame's place is that of its time
  however it is split into index and fraction (`SourcesOfTime`). The rest is
  division, which the provers find from the bounds on the quotient.

None of the invariants is inductive as stated: each strengthening relates it to
the program counters of the other threads. The strengthenings were
model-checked before they were proved. The assumptions on the constants are the
named `ASSUME`s of the modules, and `AxisFits` in `StepperTracksAngle` alone.

Only model-checked: liveness (`ShutdownCompletes`, `CommandsHandled`, `Stops`,
`FramesMoveOn`, `ConnectReturns`, `DisconnectReturns`, `CallsReturn`, `QuitEnds`),
which is beyond the prover. Every invariant and every step property of the
passing runs is a theorem. `JoinsEnd`, `NoLostWakeUp` and `ChatTypeOK` are theorems
that no run lists.

## 5. Not modelled

* `client.c`: URL parsing, topic rendering and JSON formatting.
* `main.c`: the camera command, which no name reaches (`g_vision_command_names` is
  empty), and with it `vision_client.c`, one blocking HTTP request.
* Motors: GPIO bookkeeping; the CAN, UART and EtherCAT factories of
  `motor_core.c`, for which there is no driver.
* `voice_client.c`: URL parsing and JSON text; its audio samples, and with them the
  task id they are reported under; the 16-bit length of an audio frame, which
  the program's chunks never reach; the order of `on_state` callbacks made by two
  threads at once.
* Audio: moving an open stream object; setting a callback while one may run; the
  device name hints; `PlayFile` and the duplex facade, wrappers of operations
  that are modelled; PortAudio's functions are atomic.
* Resampler: the RVV kernels and libsamplerate, the values of samples, and with
  them the error of a fraction; lengths at which a product is no longer exact to
  within one over a rate (days of audio at once).
* Python bindings, the SDK example (an application `DaClient` allows), demos, tests.

## 6. Plan

1. Done: the modules and proofs above.
2. Done: the abstract `PetService` and the proof that `PetDevice` implements it.
3. Speech samples and their task ids in `VoiceClient`; `VoiceChat` composed with
   it in place of the calls made on it.
