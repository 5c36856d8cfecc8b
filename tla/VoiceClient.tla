---------------------------- MODULE VoiceClient ----------------------------
(***************************************************************************)
(* The websocket voice client (src/voice_client.c): the application's      *)
(* thread, which calls the API; the microphone's thread, which only calls  *)
(* da_voice_client_send_audio; the service thread, which runs lws_service  *)
(* and with it lws_protocol_cb; and, external, libwebsockets with the      *)
(* server behind it.                                                       *)
(*                                                                         *)
(* set_state is one step although it takes no lock: of two racing calls    *)
(* the state is what the later write says, which is one of their orders.   *)
(* Only the order of the on_state callbacks is lost by that.               *)
(*                                                                         *)
(* What a message says is left out, and with it the messages that change   *)
(* nothing in the client: ASR text and TTS samples.                        *)
(*                                                                         *)
(* The application (examples/voice_chat.cpp): one thread for control; the  *)
(* microphone runs from the return of start_listening until the            *)
(* application stops it, which waits for a send_audio under way.           *)
(***************************************************************************)
EXTENDS SendQueue

CONSTANTS
  MaxCalls,   \* bound: calls of da_voice_client_connect
  MaxTasks,   \* bound: listening rounds
  MaxInbox    \* bound: server messages on their way

Calls == 0..MaxCalls    \* 0: before the first connect
Tasks == 0..MaxTasks    \* 0: no current task

FrameTypes == {"hello", "listen", "listenAuto", "audio", "stop", "abort", "goodbye"}
Frame == [type : FrameTypes, task : Tasks, call : Calls]

ASSUME VoiceAssumption ==
  MaxCalls \in Nat \ {0} /\ MaxTasks \in Nat /\ MaxInbox \in Nat \ {0} /\ Frames = Frame

VARIABLES
  appPc,       \* where the application's thread is
  micPc,       \* where the microphone's thread is
  svcPc,       \* where the service thread is
  recording,   \* the microphone is on, for a manual or an auto round
  running, ctx, wsi,   \* as in the code; a pointer is whether it is not NULL
  state,       \* da_voice_state_t
  session,     \* session_id: the connect it was given in, 0 is ""
  hello,       \* hello_settled and hello_rc
  task,        \* current_task_id
  rounds,      \* task_counter
  rx,          \* the connect in which the unfinished message in rx_buf began, 0: none
  calls,       \* connects so far
  wake,        \* libwebsockets: a WAIT_CANCELLED is due
  writable,    \* libwebsockets: a WRITEABLE is due
  conn,        \* the connection
  inbox,       \* messages of the server on their way
  server       \* what the server is at

app    == <<appPc, recording, running, ctx, rounds, task, calls>>
shared == <<wsi, state, session, hello, rx>>
net    == <<wake, writable, conn, inbox, server>>
vars   == <<queue, app, micPc, svcPc, shared, net>>

AppPcs == {"idle", "initiate", "hello", "unwind", "destroy", "listen", "listenAuto",
           "wake", "abort", "abortNew", "aborted", "bye", "pause", "join", "close", "freed"}
States == {"disconnected", "connecting", "connected", "listening", "processing", "playing"}
Links  == {"none", "opening", "open", "dropped"}
Messages == [type : {"hello", "chunk", "reply", "complete"}, task : Tasks]
Phases == {"new", "greeted", "ready", "listening", "auto", "thinking", "speaking"}

(* The server's side of a connection: its round, and whose hello it heard.  *)
NewServer == [phase |-> "new", task |-> 0, hello |-> 0]

TypeOK ==
  /\ QueueTypeOK
  /\ appPc \in AppPcs /\ micPc \in {"idle", "wake"}
  /\ svcPc \in {"none", "loop", "callback", "exited"}
  /\ recording \in {"off", "manual", "auto"}
  /\ running \in BOOLEAN /\ ctx \in BOOLEAN /\ wsi \in BOOLEAN
  /\ state \in States /\ hello \in {"pending", "ok", "failed"}
  /\ session \in Calls /\ rx \in Calls /\ calls \in Calls
  /\ task \in Tasks /\ rounds \in Tasks
  /\ wake \in BOOLEAN /\ writable \in BOOLEAN /\ conn \in Links
  /\ inbox \in Seq(Messages)
  /\ server \in [phase : Phases, task : Tasks, hello : Calls]

Init ==
  /\ QueueInit
  /\ appPc = "idle" /\ micPc = "idle" /\ svcPc = "none" /\ recording = "off"
  /\ running = FALSE /\ ctx = FALSE /\ wsi = FALSE
  /\ state = "disconnected" /\ session = 0 /\ hello = "pending"
  /\ task = 0 /\ rounds = 0 /\ rx = 0 /\ calls = 0
  /\ wake = FALSE /\ writable = FALSE /\ conn = "none" /\ inbox = <<>>
  /\ server = NewServer

Goto(from, to) == appPc = from /\ appPc' = to

(* The frame a call builds. `call` tells sessions apart, as the session id *)
(* in a goodbye does.                                                      *)
Built(type) ==
  [type |-> type, call |-> calls,
   task |-> IF type \in {"listen", "listenAuto", "stop", "abort"} THEN task ELSE 0]
Send(type) == Push(Built(type))
CancelService == wake' = ctx

-----------------------------------------------------------------------------
(* da_voice_client_connect. Without `running` a server that hangs up would *)
(* be followed by a new connect; with it the call returns -1 until         *)
(* da_voice_client_disconnect was called. Neither the send queue nor the   *)
(* receive buffer is emptied.                                              *)
BeginConnect ==
  /\ calls < MaxCalls
  /\ calls' = calls + 1
  /\ hello' = "pending" /\ session' = 0 /\ wsi' = FALSE /\ state' = "connecting"

StartService ==
  /\ ctx' = TRUE /\ running' = TRUE /\ svcPc' = "loop"
  /\ UNCHANGED <<queue, micPc, recording, rounds, task, rx, net>>

Connect ==
  /\ ~running
  /\ Goto("idle", "initiate")
  /\ BeginConnect
  /\ StartService

(* No context, or no thread.                                               *)
ConnectFails ==
  /\ ~running
  /\ Goto("idle", "idle")
  /\ BeginConnect
  /\ UNCHANGED <<queue, micPc, svcPc, recording, running, ctx, rounds, task, rx, net>>

(* lws_client_connect_via_info                                             *)
Initiate ==
  /\ \/ Goto("initiate", "hello") /\ conn' = "opening" /\ UNCHANGED running
     \/ Goto("initiate", "unwind") /\ running' = FALSE /\ UNCHANGED conn
  /\ UNCHANGED <<queue, micPc, svcPc, recording, ctx, rounds, task, calls, shared,
                 wake, writable, inbox, server>>

HelloSettled ==
  /\ hello # "pending"
  /\ \/ hello = "ok" /\ Goto("hello", "idle") /\ UNCHANGED running
     \/ hello = "failed" /\ Goto("hello", "unwind") /\ running' = FALSE
  /\ UNCHANGED <<queue, micPc, svcPc, recording, ctx, rounds, task, calls, shared, net>>

JoinService_NoWait ==   \* fault: the context is destroyed under the thread
  /\ Goto("unwind", "destroy") \/ Goto("join", "close")
  /\ UNCHANGED <<queue, micPc, svcPc, recording, running, ctx, rounds, task, calls, shared, net>>

JoinService ==
  /\ Goto("unwind", "destroy") \/ Goto("join", "close")
  /\ svcPc = "exited" /\ svcPc' = "none"
  /\ UNCHANGED <<queue, micPc, recording, running, ctx, rounds, task, calls, shared, net>>

DestroyContext ==
  /\ ctx' = FALSE /\ wake' = FALSE /\ writable' = FALSE
  /\ conn' = "none" /\ inbox' = <<>> /\ server' = NewServer
  /\ UNCHANGED <<queue, micPc, svcPc, recording, running, rounds, task, calls, session, hello, rx>>

(* A failed connect stays CONNECTING.                                      *)
Unwound == Goto("destroy", "idle") /\ DestroyContext /\ UNCHANGED <<wsi, state>>

-----------------------------------------------------------------------------
(* da_voice_client_disconnect                                              *)
StopRunning_FlagKept(from) ==   \* fault: the service thread is not told to end
  /\ Goto(from, "join")
  /\ CancelService /\ UNCHANGED running

StopRunning(from) ==
  /\ Goto(from, "join")
  /\ running' = FALSE /\ CancelService

Disconnect ==
  /\ running /\ micPc = "idle"
  /\ recording' = "off"
  /\ IF wsi /\ session # 0
     THEN Goto("idle", "bye") /\ Send("goodbye") /\ UNCHANGED <<running, wake>>
     ELSE StopRunning("idle") /\ UNCHANGED queue
  /\ UNCHANGED <<micPc, svcPc, ctx, rounds, task, calls, shared, writable, conn, inbox, server>>

Paused ==   \* the 100 ms are over, whatever is still queued
  /\ StopRunning("pause")
  /\ UNCHANGED <<queue, micPc, svcPc, recording, ctx, rounds, task, calls, shared,
                 writable, conn, inbox, server>>

(* lws_context_destroy runs the CLOSED callback if the connection is open. *)
Closed ==
  /\ Goto("close", "idle") /\ DestroyContext
  /\ wsi' = FALSE /\ state' = "disconnected"

Free ==
  /\ ~running /\ Goto("idle", "freed")
  /\ UNCHANGED <<queue, micPc, svcPc, recording, running, ctx, rounds, task, calls, shared, net>>

-----------------------------------------------------------------------------
(* The calls of a session: a change of state, a frame, and the wake-up of  *)
(* the service thread, in the order of each call.                          *)
NewRound(from, mode) ==
  /\ Goto(from, mode) /\ rounds < MaxTasks
  /\ rounds' = rounds + 1 /\ task' = rounds'
  /\ state' = "listening"
  /\ UNCHANGED <<queue, micPc, svcPc, recording, running, ctx, calls, wsi, session, hello, rx>>

StartListening ==
  /\ running /\ recording = "off"
  /\ \E mode \in {"listen", "listenAuto"} : NewRound("idle", mode)
  /\ UNCHANGED net

SendListen ==
  /\ \/ /\ Goto("listen", "wake") /\ recording' = "manual" /\ Send("listen")
     \/ /\ Goto("listenAuto", "wake") /\ recording' = "auto" /\ Send("listenAuto")
  /\ UNCHANGED <<micPc, svcPc, running, ctx, rounds, task, calls, shared, net>>

StopListening ==
  /\ recording # "off" /\ micPc = "idle"
  /\ Goto("idle", "wake") /\ recording' = "off"
  /\ state' = "processing"
  /\ Send("stop")
  /\ UNCHANGED <<micPc, svcPc, running, ctx, rounds, task, calls, wsi, session, hello, rx, net>>

Abort ==
  /\ running /\ micPc = "idle"
  /\ \/ Goto("idle", "abort")
     \/ rounds < MaxTasks /\ Goto("idle", "abortNew")
  /\ recording' = "off"
  /\ Send("abort")
  /\ UNCHANGED <<micPc, svcPc, running, ctx, rounds, task, calls, shared, net>>

Wake_Never ==   \* fault: the service thread is not woken
  /\ Goto("wake", "idle") \/ Goto("abort", "aborted") \/ Goto("bye", "pause")
  /\ UNCHANGED <<queue, micPc, svcPc, recording, running, ctx, rounds, task, calls, shared, net>>

Wake ==
  /\ Goto("wake", "idle") \/ Goto("abort", "aborted") \/ Goto("bye", "pause")
  /\ CancelService
  /\ UNCHANGED <<queue, micPc, svcPc, recording, running, ctx, rounds, task, calls, shared,
                 writable, conn, inbox, server>>

Aborted ==
  /\ Goto("aborted", "idle")
  /\ task' = 0 /\ state' = "connected"
  /\ UNCHANGED <<queue, micPc, svcPc, recording, running, ctx, rounds, calls, wsi, session,
                 hello, rx, net>>

AbortNewRound ==
  /\ NewRound("abortNew", "listen") /\ CancelService
  /\ UNCHANGED <<writable, conn, inbox, server>>

AppNext == Connect \/ ConnectFails \/ Initiate \/ HelloSettled \/ JoinService \/ Unwound
           \/ Disconnect \/ Paused \/ Closed \/ Free \/ StartListening \/ SendListen
           \/ StopListening \/ Abort \/ Wake \/ Aborted \/ AbortNewRound

-----------------------------------------------------------------------------
(* da_voice_client_send_audio                                              *)
SendAudio ==
  /\ recording # "off" /\ micPc = "idle"
  /\ micPc' = IF Full THEN "idle" ELSE "wake"
  /\ Send("audio")
  /\ UNCHANGED <<app, svcPc, shared, net>>

AudioWake ==
  /\ micPc = "wake" /\ micPc' = "idle"
  /\ CancelService
  /\ UNCHANGED <<queue, app, svcPc, shared, writable, conn, inbox, server>>

MicNext == SendAudio \/ AudioWake

-----------------------------------------------------------------------------
(* lws_protocol_cb                                                         *)
Serving == svcPc = "loop"

Established ==
  /\ Serving /\ conn = "opening"
  /\ conn' = "open" /\ wsi' = TRUE
  /\ Send("hello") /\ CancelService /\ writable' = TRUE
  /\ UNCHANGED <<app, micPc, svcPc, state, session, hello, rx, inbox, server>>

SettleFailed == hello' = IF hello = "pending" THEN "failed" ELSE hello

ConnectionError ==
  /\ Serving /\ conn = "opening"
  /\ conn' = "none" /\ wsi' = FALSE /\ SettleFailed
  /\ UNCHANGED <<queue, app, micPc, svcPc, state, session, rx, wake, writable, inbox, server>>

Hangup_Silent ==   \* fault: a connection that ends before the hello is not reported
  /\ Serving /\ conn = "dropped"
  /\ conn' = "none" /\ wsi' = FALSE /\ state' = "disconnected"
  /\ inbox' = <<>> /\ writable' = FALSE /\ server' = NewServer
  /\ UNCHANGED <<queue, app, micPc, svcPc, session, hello, rx, wake>>

Hangup ==   \* CLIENT_CLOSED; what was still on its way may be lost
  /\ Serving /\ conn = "dropped"
  /\ conn' = "none" /\ wsi' = FALSE /\ state' = "disconnected" /\ SettleFailed
  /\ inbox' = <<>> /\ writable' = FALSE /\ server' = NewServer
  /\ UNCHANGED <<queue, app, micPc, svcPc, session, rx, wake>>

(* The server's side of a frame: before its answer to a hello it attends   *)
(* to nothing else.                                                        *)
Heard(f) ==
  IF f.type = "hello"
    THEN [phase |-> "greeted", task |-> 0, hello |-> f.call]
  ELSE IF server.phase \in {"new", "greeted"}
    THEN server
  ELSE CASE f.type = "listen" -> [server EXCEPT !.phase = "listening", !.task = f.task]
         [] f.type = "listenAuto" -> [server EXCEPT !.phase = "auto", !.task = f.task]
         [] f.type = "stop" /\ server.phase = "listening" -> [server EXCEPT !.phase = "thinking"]
         [] f.type = "abort" -> [server EXCEPT !.phase = "ready", !.task = 0]
         [] OTHER -> server

Writeable_Once ==   \* fault: no further WRITEABLE is asked for
  /\ Serving /\ writable /\ wsi
  /\ writable' = FALSE
  /\ IF count = 0 THEN UNCHANGED <<queue, server>>
                  ELSE Pop /\ server' = IF conn = "open" THEN Heard(First) ELSE server
  /\ UNCHANGED <<app, micPc, svcPc, shared, wake, conn, inbox>>

Writeable ==   \* one frame per callback
  /\ Serving /\ writable /\ wsi
  /\ writable' = (count > 1)
  /\ IF count = 0 THEN UNCHANGED <<queue, server>>
                  ELSE Pop /\ server' = IF conn = "open" THEN Heard(First) ELSE server
  /\ UNCHANGED <<app, micPc, svcPc, shared, wake, conn, inbox>>

WaitCancelled ==
  /\ Serving /\ wake
  /\ wake' = FALSE /\ writable' = (writable \/ (wsi /\ count > 0))
  /\ UNCHANGED <<queue, app, micPc, svcPc, shared, conn, inbox, server>>

(* The first fragment of a message: it is appended to what rx_buf holds.   *)
ReceiveFragment ==
  /\ Serving /\ wsi /\ inbox # <<>> /\ rx = 0
  /\ rx' = calls
  /\ UNCHANGED <<queue, app, micPc, svcPc, wsi, state, session, hello, net>>

(* Its last fragment. A message put together with the remains of an older  *)
(* connection's is no JSON, and is dropped.                                *)
Garbled == rx \notin {0, calls}

Receive(m) ==
  /\ Serving /\ wsi /\ inbox # <<>> /\ m = Head(inbox)
  /\ inbox' = Tail(inbox) /\ rx' = 0
  /\ UNCHANGED <<queue, app, micPc, wsi, wake, writable, conn, server>>

ReceiveGarbled ==
  /\ Garbled /\ \E m \in Messages : Receive(m)
  /\ UNCHANGED <<svcPc, state, session, hello>>

ReceiveHello ==
  /\ ~Garbled /\ \E m \in Messages : m.type = "hello" /\ Receive(m)
  /\ IF hello = "pending"
     THEN session' = calls /\ state' = "connected" /\ hello' = "ok"
     ELSE UNCHANGED <<session, state, hello>>
  /\ UNCHANGED svcPc

ReceiveReply ==
  /\ ~Garbled
  /\ \/ /\ \E m \in Messages : m.type = "chunk" /\ Receive(m)
        /\ UNCHANGED state
     \/ /\ \E m \in Messages : m.type = "reply" /\ Receive(m)
        /\ state' = "playing"
  /\ UNCHANGED <<svcPc, session, hello>>

(* on_tts_complete may take its time: voice_chat.cpp plays the reply in it.*)
ReceiveComplete ==
  /\ ~Garbled /\ \E m \in Messages : m.type = "complete" /\ Receive(m)
  /\ svcPc' = "callback"
  /\ UNCHANGED <<state, session, hello>>

CompleteReturns ==
  /\ svcPc = "callback" /\ svcPc' = "loop"
  /\ state' = "connected"
  /\ UNCHANGED <<queue, app, micPc, wsi, session, hello, rx, net>>

ServiceExit ==
  /\ Serving /\ ~running /\ svcPc' = "exited"
  /\ UNCHANGED <<queue, app, micPc, shared, net>>

SvcNext == Established \/ ConnectionError \/ Hangup \/ Writeable \/ WaitCancelled
           \/ ReceiveFragment \/ ReceiveGarbled \/ ReceiveHello \/ ReceiveReply
           \/ ReceiveComplete \/ CompleteReturns \/ ServiceExit

-----------------------------------------------------------------------------
(* The server: greets once per hello, then answers rounds; it may hang up  *)
(* at any time, as the network may.                                        *)
Say(type, from, to) ==
  /\ conn = "open" /\ Len(inbox) < MaxInbox
  /\ server.phase = from
  /\ server' = [server EXCEPT !.phase = to, !.task = IF to = "ready" THEN 0 ELSE @]
  /\ inbox' = Append(inbox, [type |-> type, task |-> server.task])
  /\ UNCHANGED <<queue, app, micPc, svcPc, shared, wake, writable, conn>>

Greet == Say("hello", "greeted", "ready")

Answer ==
  \/ Say("chunk", "thinking", "thinking") \/ Say("reply", "thinking", "speaking")
  \/ Say("reply", "auto", "speaking") \/ Say("complete", "speaking", "ready")

LinkDrops ==
  /\ conn = "open" /\ conn' = "dropped"
  /\ UNCHANGED <<queue, app, micPc, svcPc, shared, wake, writable, inbox, server>>

ServerNext == Greet \/ Answer \/ LinkDrops

-----------------------------------------------------------------------------
Next == AppNext \/ MicNext \/ SvcNext \/ ServerNext

(* A call of the API goes on by itself, and so do the 100 ms of its pause. *)
CallContinues == Initiate \/ HelloSettled \/ JoinService \/ Unwound \/ Paused \/ Closed
                 \/ SendListen \/ Wake \/ Aborted \/ AbortNewRound

(* lws_service attends to whatever is due each time round its loop; a      *)
(* callback of the application returns; a connection attempt ends (the     *)
(* library's timeout), and a server that hears a hello answers it.         *)
Fairness ==
  /\ WF_vars(CallContinues) /\ WF_vars(AudioWake)
  /\ WF_vars(Established \/ ConnectionError \/ Hangup)
  /\ SF_vars(Writeable) /\ WF_vars(WaitCancelled)
  /\ WF_vars(ReceiveGarbled \/ ReceiveHello \/ ReceiveReply \/ ReceiveComplete)
  /\ WF_vars(CompleteReturns \/ ServiceExit)
  /\ WF_vars(Greet)

Spec == Init /\ [][Next]_vars
FairSpec == Spec /\ Fairness

-----------------------------------------------------------------------------
(* The service thread never uses a context that is gone, and no thread is  *)
(* forgotten: whenever it lives the context does, and the application has  *)
(* either not stopped it yet or is waiting for it (da_voice_client_connect *)
(* on its failure paths, da_voice_client_disconnect).                      *)
ServiceThreadOwned ==
  svcPc # "none" => ctx /\ (running \/ appPc \in {"unwind", "join"})

(* What an earlier session left in the queue goes out before the hello of  *)
(* a new one, never after it: once the server has heard the hello of this  *)
(* connection, only frames of its own are waiting. The queue is not        *)
(* emptied between sessions, so this rests on its order and on connect     *)
(* accepting no frame before the handshake (lws_protocol_cb, ESTABLISHED). *)
AfterHelloOwn ==
  server.hello # 0 /\ server.hello = calls => \A i \in 1..count : Contents[i].call = calls

(* A client that is not running says so: no callback of the service thread *)
(* sets a session's state after da_voice_client_disconnect has returned.   *)
(* (A failed connect leaves CONNECTING.)                                   *)
StoppedState ==
  appPc \in {"idle", "freed"} /\ ~running => state \in {"disconnected", "connecting"}

(* No lost wake-up: with a connection, the frame at the head of the queue  *)
(* goes out or the connection ends, although the thread that queues it     *)
(* only sets a flag and the service thread sends one frame per callback.   *)
FramesMoveOn ==
  \A s \in Slots : (wsi /\ count > 0 /\ head = s) ~> (head # s \/ ~wsi)

(* The part of it that no fairness is needed for: while a frame waits on a *)
(* connection, the service thread has been told, or the thread that queued *)
(* the frame is on its way to tell it.                                     *)
NoLostWakeUp ==
  wsi /\ count > 0 =>
    writable \/ wake \/ micPc = "wake" \/ appPc \in {"wake", "abort", "abortNew", "bye"}

(* da_voice_client_connect waits without a timeout and returns whatever    *)
(* the network does, provided it begins with room for the hello in the     *)
(* queue and no unfinished message in rx_buf. Otherwise it may not: see    *)
(* Established and Garbled.                                                *)
ConnectReturns ==
  (appPc = "initiate" /\ ~Full /\ rx = 0) ~> (appPc = "idle")

(* da_voice_client_disconnect returns, also while the service thread is in *)
(* a callback or the connection just ended.                                *)
DisconnectReturns == (appPc \in {"bye", "join"}) ~> (appPc = "idle")

(* voice_client.h:156 says that connect blocks "until the handshake         *)
(* completes or fails": it returns when the server has answered, and when  *)
(* the connection ended.                                                   *)
HandshakeEnds == (appPc = "hello") ~> (appPc # "hello")
=============================================================================
