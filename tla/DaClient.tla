------------------------------ MODULE DaClient ------------------------------
(***************************************************************************)
(* The MQTT client of the Device Agent SDK (src/src/client.c) with the     *)
(* three threads that share it:                                            *)
(*                                                                         *)
(*   main       the application thread: new, connect, wait, disconnect,    *)
(*              free (the order of src/src/main.c and of the example);     *)
(*   loop       the libmosquitto network thread, which runs every          *)
(*              callback: connect, message and disconnect;                 *)
(*   heartbeat  the thread da_client_connect creates.                      *)
(*                                                                         *)
(* The application is arbitrary here: inside its callbacks it publishes    *)
(* whatever it likes and returns whatever it likes.  PetDevice extends     *)
(* this module with the application of src/src/main.c.                     *)
(*                                                                         *)
(* The broker and the TCP connection are the environment.  libmosquitto    *)
(* queues QoS 0 packets and its thread writes them in order, so a publish  *)
(* reaches the platform unless the connection is already dead ("broken",   *)
(* the client has not noticed), already closed, or a DISCONNECT packet is  *)
(* ahead of it ("closing").                                                *)
(***************************************************************************)
EXTENDS Integers, Sequences

CONSTANTS
  Messages,    \* what the platform publishes on the commands topic
  WellFormed,  \* the messages on_message_cb can parse
  Payloads,    \* JSON documents the application publishes
  None,        \* no document (a NULL pointer)
  MaxSent,     \* bound: messages the platform sends
  Heartbeat    \* heartbeat_interval_ms > 0

ASSUME DaClientAssumption ==
  /\ WellFormed \subseteq Messages
  /\ None \notin Payloads
  /\ MaxSent \in Nat
  /\ Heartbeat \in BOOLEAN

VARIABLES
  mainPc,      \* where the application thread is
  caller,      \* who called da_client_disconnect: "app" or "free"
  gStop,       \* g_stop, set by the signal handler
  loopPc,      \* where the libmosquitto thread is
  hbPc,        \* where the heartbeat thread is
  hbRunning,   \* heartbeat_running
  hbStarted,   \* heartbeat_thread_started
  stopReq,     \* mosquitto_disconnect was called: do not reconnect
  link,        \* the TCP connection
  subscribed,  \* the broker holds the subscription of this session
  inbox,       \* messages on this connection the client has not read
  cur,         \* the command handled last on this connection
  resp,        \* what the command handler handed back for cur
  platform,    \* what the platform has received last
  sent         \* messages the platform sent so far

mainVars   == <<mainPc, caller, gStop>>
hbVars     == <<hbPc, hbRunning, hbStarted>>
netVars    == <<link, subscribed, inbox, sent>>
cmdVars    == <<cur, resp>>
clientVars == <<mainVars, loopPc, hbVars, stopReq, netVars, cmdVars, platform>>

-----------------------------------------------------------------------------
Document == Payloads \cup {None}
Command  == [id : 1..MaxSent, msg : Messages]
NoCommand == [id |-> 0, msg |-> None]

(* da_response_t plus the handler's return value; "where" is the storage   *)
(* of the strings: static data, or the stack of the handler.               *)
Response == [ret : {0, -1}, code : Int, data : Document,
             where : {"static", "stack"}]
DefaultResponse ==
  [ret |-> 0, code |-> 500, data |-> None, where |-> "static"]

Reply   == [id : 0..MaxSent, code : Int, data : Document]
NoReply == [id |-> 0, code |-> 0, data |-> None]

(* What arrived last: status ("shown" is the state embedded in it),        *)
(* telemetry, event and response.                                          *)
Statuses == {"none", "online", "offline"}
Platform == [status : Statuses, shown : Document, view : Document,
             event : Document, reply : Reply]

MainPcs == {"new", "setup", "connect", "loopStart", "hbFlag", "hbCreate",
            "run", "dcFlag", "dcJoin", "dcOffline", "dcFlush", "dcLoopStop",
            "teardown", "destroy", "exit"}
AppCode == {"onConnect", "handler"}   \* the loop thread is in a callback
LoopPcs == {"none", "idle", "subscribe", "hello", "respond", "exited"}
             \cup AppCode
HbPcs   == {"none", "check", "tick", "send", "done"}
Links   == {"down", "connecting", "up", "broken", "closing"}

ClientTypeOK ==
  /\ mainPc \in MainPcs
  /\ caller \in {"app", "free"}
  /\ loopPc \in LoopPcs
  /\ hbPc \in HbPcs
  /\ link \in Links
  /\ gStop \in BOOLEAN /\ stopReq \in BOOLEAN /\ subscribed \in BOOLEAN
  /\ hbRunning \in BOOLEAN /\ hbStarted \in BOOLEAN
  /\ inbox \in Seq(Command)
  /\ cur \in Command \cup {NoCommand}
  /\ resp \in Response
  /\ platform \in Platform
  /\ sent \in 0..MaxSent

ClientInit ==
  /\ mainPc = "new" /\ caller = "app" /\ gStop = FALSE
  /\ loopPc = "none"
  /\ hbPc = "none" /\ hbRunning = FALSE /\ hbStarted = FALSE
  /\ stopReq = FALSE
  /\ link = "down" /\ subscribed = FALSE /\ inbox = <<>> /\ sent = 0
  /\ cur = NoCommand /\ resp = DefaultResponse
  /\ platform = [status |-> "none", shown |-> None, view |-> None,
                 event |-> None, reply |-> NoReply]

-----------------------------------------------------------------------------
(* publish_json: QoS 0, the result reaches nobody.  Before the CONNACK the *)
(* packet follows the CONNECT packet and counts if the broker accepts.     *)
Publish(p) ==
  CASE link = "up"         -> platform' = p
    [] link = "connecting" -> platform' \in {platform, p}
    [] OTHER               -> UNCHANGED platform

SendStatus(s, doc) ==
  Publish([platform EXCEPT !.status = s,
                           !.shown = IF doc = None THEN @ ELSE doc])
SendTelemetry(doc) == Publish([platform EXCEPT !.view = doc])
SendEvent(doc)     == Publish([platform EXCEPT !.event = doc])

-----------------------------------------------------------------------------
(* The application thread.                                                 *)

MainGoto(from, to) == mainPc = from /\ mainPc' = to

New ==
  /\ mainPc = "new" /\ mainPc' \in {"setup", "exit"}
  /\ UNCHANGED <<caller, gStop, loopPc, hbVars, stopReq, netVars, cmdVars, platform>>

(* The application prepares itself and registers its callbacks; when that  *)
(* fails it frees the client it never connected.                           *)
Setup(ok) ==
  /\ MainGoto("setup", IF ok THEN "connect" ELSE "dcFlag")
  /\ caller' = IF ok THEN caller ELSE "free"
  /\ UNCHANGED <<gStop, loopPc, hbVars, stopReq, netVars, cmdVars, platform>>

(* da_client_connect in four steps: mosquitto_connect, mosquitto_loop_start,*)
(* heartbeat_running := true, pthread_create.  The loop thread runs from    *)
(* the second on.                                                           *)
Connect ==
  /\ \/ MainGoto("connect", "loopStart") /\ link' = "connecting"
     \/ MainGoto("connect", "teardown") /\ UNCHANGED link
  /\ UNCHANGED <<caller, gStop, loopPc, hbVars, stopReq, subscribed, inbox, sent,
                 cmdVars, platform>>

LoopStart ==
  /\ \/ MainGoto("loopStart", IF Heartbeat THEN "hbFlag" ELSE "run")
        /\ loopPc' = "idle"
     \/ MainGoto("loopStart", "teardown") /\ UNCHANGED loopPc
  /\ UNCHANGED <<caller, gStop, hbVars, stopReq, netVars, cmdVars, platform>>

HeartbeatFlag ==
  /\ MainGoto("hbFlag", "hbCreate")
  /\ hbRunning' = TRUE
  /\ UNCHANGED <<caller, gStop, loopPc, hbPc, hbStarted, stopReq, netVars, cmdVars,
                 platform>>

HeartbeatCreate_Unrecorded ==   \* fault: heartbeat_thread_started never set
  /\ MainGoto("hbCreate", "run")
  /\ hbPc' \in {hbPc, "check"}
  /\ UNCHANGED <<caller, gStop, loopPc, hbRunning, hbStarted, stopReq, netVars, cmdVars,
                 platform>>

HeartbeatCreate ==
  /\ MainGoto("hbCreate", "run")
  /\ \/ hbPc' = "check" /\ hbStarted' = TRUE
     \/ UNCHANGED <<hbPc, hbStarted>>
  /\ UNCHANGED <<caller, gStop, loopPc, hbRunning, stopReq, netVars, cmdVars, platform>>

Signal ==
  /\ mainPc \notin {"new", "setup", "exit"} /\ ~gStop
  /\ gStop' = TRUE
  /\ UNCHANGED <<mainPc, caller, loopPc, hbVars, stopReq, netVars, cmdVars, platform>>

Stop_ReleasesFirst ==           \* fault: resources released before the disconnect
  /\ MainGoto("run", "teardown") /\ gStop
  /\ UNCHANGED <<caller, gStop, loopPc, hbVars, stopReq, netVars, cmdVars, platform>>

Stop ==
  /\ MainGoto("run", "dcFlag") /\ gStop
  /\ caller' = "app"
  /\ UNCHANGED <<gStop, loopPc, hbVars, stopReq, netVars, cmdVars, platform>>

DisconnectFlag_Kept ==          \* fault: heartbeat_running stays set
  /\ MainGoto("dcFlag", "dcJoin")
  /\ UNCHANGED <<caller, gStop, loopPc, hbVars, stopReq, netVars, cmdVars, platform>>

(* da_client_disconnect: stop and join the heartbeat, publish "offline",   *)
(* wait 200 ms, mosquitto_disconnect, mosquitto_loop_stop.                 *)
DisconnectFlag ==
  /\ MainGoto("dcFlag", "dcJoin")
  /\ hbRunning' = FALSE
  /\ UNCHANGED <<caller, gStop, loopPc, hbPc, hbStarted, stopReq, netVars, cmdVars,
                 platform>>

DisconnectJoin_Skipped ==       \* fault: the heartbeat thread is not joined
  /\ MainGoto("dcJoin", "dcOffline")
  /\ hbStarted' = FALSE
  /\ UNCHANGED <<caller, gStop, loopPc, hbPc, hbRunning, stopReq, netVars, cmdVars,
                 platform>>

DisconnectJoin ==
  /\ MainGoto("dcJoin", "dcOffline")
  /\ hbStarted => hbPc = "done"
  /\ hbStarted' = FALSE
  /\ UNCHANGED <<caller, gStop, loopPc, hbPc, hbRunning, stopReq, netVars, cmdVars,
                 platform>>

DisconnectOffline ==
  /\ MainGoto("dcOffline", "dcFlush")
  /\ SendStatus("offline", None)
  /\ UNCHANGED <<caller, gStop, loopPc, hbVars, stopReq, netVars, cmdVars>>

(* Without a loop thread the DISCONNECT packet is written, and the socket  *)
(* closed, by this call; otherwise the loop thread does both.              *)
DisconnectMosquitto ==
  /\ MainGoto("dcFlush", "dcLoopStop")
  /\ stopReq' = TRUE
  /\ link' = CASE loopPc = "none" -> "down"
               [] link \in {"up", "connecting"} /\ loopPc # "none" -> "closing"
               [] OTHER -> link
  /\ UNCHANGED <<caller, gStop, loopPc, hbVars, subscribed, inbox, sent, cmdVars,
                 platform>>

DisconnectLoopStop_Skipped ==   \* fault: the network thread is not joined
  /\ MainGoto("dcLoopStop", IF caller = "app" THEN "teardown" ELSE "destroy")
  /\ UNCHANGED <<caller, gStop, loopPc, hbVars, stopReq, netVars, cmdVars, platform>>

DisconnectLoopStop ==
  /\ MainGoto("dcLoopStop", IF caller = "app" THEN "teardown" ELSE "destroy")
  /\ loopPc \in {"none", "exited"}
  /\ UNCHANGED <<caller, gStop, loopPc, hbVars, stopReq, netVars, cmdVars, platform>>

(* The application releases its own resources, then calls da_client_free,  *)
(* which disconnects once more before it destroys the client.              *)
Teardown ==
  /\ MainGoto("teardown", "dcFlag")
  /\ caller' = "free"
  /\ UNCHANGED <<gStop, loopPc, hbVars, stopReq, netVars, cmdVars, platform>>

Destroy ==
  /\ MainGoto("destroy", "exit")
  /\ UNCHANGED <<caller, gStop, loopPc, hbVars, stopReq, netVars, cmdVars, platform>>

-----------------------------------------------------------------------------
(* The libmosquitto thread and the callbacks it runs.                      *)

LoopGoto(from, to) == loopPc = from /\ loopPc' = to

(* CONNACK: on_connect_cb starts; a refusal only reaches on_error and the  *)
(* broker closes the connection.                                           *)
ConnAck ==
  /\ link = "connecting"
  /\ \/ LoopGoto("idle", "subscribe") /\ link' = "up"
     \/ LoopGoto("idle", "idle") /\ link' = "broken"
  /\ UNCHANGED <<mainVars, hbVars, stopReq, subscribed, inbox, sent, cmdVars, platform>>

Subscribe ==
  /\ \/ LoopGoto("subscribe", "hello") /\ subscribed' = (link = "up")
     \/ LoopGoto("subscribe", "idle") /\ UNCHANGED subscribed
  /\ UNCHANGED <<mainVars, hbVars, stopReq, link, inbox, sent, cmdVars, platform>>

Hello ==
  /\ LoopGoto("hello", "onConnect")
  /\ SendStatus("online", None)
  /\ UNCHANGED <<mainVars, hbVars, stopReq, netVars, cmdVars>>

(* What application code may do inside a callback.                         *)
AppStatus(doc) ==
  /\ loopPc \in AppCode
  /\ SendStatus("online", doc)
  /\ UNCHANGED <<mainVars, loopPc, hbVars, stopReq, netVars, cmdVars>>

AppTelemetry(doc) ==
  /\ loopPc \in AppCode
  /\ SendTelemetry(doc)
  /\ UNCHANGED <<mainVars, loopPc, hbVars, stopReq, netVars, cmdVars>>

AppEvent(doc) ==
  /\ loopPc = "handler"
  /\ SendEvent(doc)
  /\ UNCHANGED <<mainVars, loopPc, hbVars, stopReq, netVars, cmdVars>>

OnConnectReturn ==
  /\ LoopGoto("onConnect", "idle")
  /\ UNCHANGED <<mainVars, hbVars, stopReq, netVars, cmdVars, platform>>

ReadMessage_Newest ==           \* fault: takes the newest message
  /\ loopPc = "idle" /\ link \in {"up", "broken", "closing"} /\ inbox # <<>>
  /\ inbox' = SubSeq(inbox, 1, Len(inbox) - 1)
  /\ LET last == inbox[Len(inbox)] IN
     IF last.msg \in WellFormed
       THEN cur' = last /\ resp' = DefaultResponse /\ loopPc' = "handler"
       ELSE UNCHANGED <<cur, resp, loopPc>>
  /\ UNCHANGED <<mainVars, hbVars, stopReq, link, subscribed, sent, platform>>

ReadMessage_Alone ==            \* fault: what waits behind it is dropped
  /\ loopPc = "idle" /\ link \in {"up", "broken", "closing"} /\ inbox # <<>>
  /\ inbox' = <<>>
  /\ IF Head(inbox).msg \in WellFormed
       THEN cur' = Head(inbox) /\ resp' = DefaultResponse /\ loopPc' = "handler"
       ELSE UNCHANGED <<cur, resp, loopPc>>
  /\ UNCHANGED <<mainVars, hbVars, stopReq, link, subscribed, sent, platform>>

(* on_message_cb up to the call of the handler: an empty or unparsable     *)
(* message is dropped without a response.                                  *)
ReadMessage ==
  /\ loopPc = "idle" /\ link \in {"up", "broken", "closing"} /\ inbox # <<>>
  /\ inbox' = Tail(inbox)
  /\ IF Head(inbox).msg \in WellFormed
       THEN cur' = Head(inbox) /\ resp' = DefaultResponse /\ loopPc' = "handler"
       ELSE UNCHANGED <<cur, resp, loopPc>>
  /\ UNCHANGED <<mainVars, hbVars, stopReq, link, subscribed, sent, platform>>

HandlerReturn(r) ==
  /\ LoopGoto("handler", "respond")
  /\ resp' = r
  /\ UNCHANGED <<mainVars, hbVars, stopReq, netVars, cur, platform>>

Respond_OnlyOk ==               \* fault: errors are not answered
  /\ LoopGoto("respond", "idle")
  /\ IF resp.code = 0
       THEN Publish([platform EXCEPT !.reply =
                       [id |-> cur.id, code |-> 0, data |-> resp.data]])
       ELSE UNCHANGED platform
  /\ UNCHANGED <<mainVars, hbVars, stopReq, netVars, cmdVars>>

Respond_WrongId ==              \* fault: answers under the next request's id
  /\ LoopGoto("respond", "idle")
  /\ Publish([platform EXCEPT !.reply =
                [id |-> cur.id + 1, code |-> resp.code, data |-> resp.data]])
  /\ UNCHANGED <<mainVars, hbVars, stopReq, netVars, cmdVars>>

(* The rest of on_message_cb.  The strings are read after the handler has  *)
(* returned: what was on its stack may hold anything by now.               *)
Respond ==
  /\ LoopGoto("respond", "idle")
  /\ \E doc \in IF resp.where = "static" THEN {resp.data} ELSE Document :
       Publish([platform EXCEPT !.reply =
                  [id |-> cur.id, code |-> resp.code, data |-> doc]])
  /\ UNCHANGED <<mainVars, hbVars, stopReq, netVars, cmdVars>>

(* The thread notices the end of the connection: on_disconnect_cb.         *)
OnDisconnect ==
  /\ loopPc = "idle" /\ link \in {"broken", "closing"}
  /\ link' = "down" /\ subscribed' = FALSE /\ inbox' = <<>>
  /\ cur' = NoCommand /\ resp' = DefaultResponse
  /\ hbRunning' = FALSE
  /\ UNCHANGED <<mainVars, loopPc, hbPc, hbStarted, stopReq, sent, platform>>

Reconnect ==
  /\ loopPc = "idle" /\ link = "down" /\ ~stopReq
  /\ link' = "connecting"
  /\ UNCHANGED <<mainVars, loopPc, hbVars, stopReq, subscribed, inbox, sent, cmdVars,
                 platform>>

LoopExit ==
  /\ LoopGoto("idle", "exited") /\ link = "down" /\ stopReq
  /\ UNCHANGED <<mainVars, hbVars, stopReq, netVars, cmdVars, platform>>

-----------------------------------------------------------------------------
(* heartbeat_fn: test the flag, sleep a tick, test it again, and publish   *)
(* when the interval has passed.                                           *)

HeartbeatCheck ==
  /\ hbPc = "check"
  /\ hbPc' = IF hbRunning THEN "tick" ELSE "done"
  /\ UNCHANGED <<mainVars, loopPc, hbRunning, hbStarted, stopReq, netVars, cmdVars,
                 platform>>

HeartbeatTick ==
  /\ hbPc = "tick"
  /\ hbPc' \in IF hbRunning THEN {"check", "send"} ELSE {"done"}
  /\ UNCHANGED <<mainVars, loopPc, hbRunning, hbStarted, stopReq, netVars, cmdVars,
                 platform>>

HeartbeatSend ==
  /\ hbPc = "send" /\ hbPc' = "check"
  /\ SendStatus("online", None)
  /\ UNCHANGED <<mainVars, loopPc, hbRunning, hbStarted, stopReq, netVars, cmdVars>>

-----------------------------------------------------------------------------
(* The network and the platform.                                           *)

LinkBreaks ==
  /\ link \in {"up", "connecting"}
  /\ link' = "broken"
  /\ UNCHANGED <<mainVars, loopPc, hbVars, stopReq, subscribed, inbox, sent, cmdVars,
                 platform>>

PlatformSend(m) ==
  /\ link = "up" /\ subscribed /\ sent < MaxSent
  /\ sent' = sent + 1
  /\ inbox' = Append(inbox, [id |-> sent + 1, msg |-> m])
  /\ UNCHANGED <<mainVars, loopPc, hbVars, stopReq, link, subscribed, cmdVars, platform>>

-----------------------------------------------------------------------------
(* Steps that do not depend on the application, by thread.                 *)
MainStep ==
  \/ New \/ Connect \/ LoopStart \/ HeartbeatFlag \/ HeartbeatCreate \/ Stop
  \/ DisconnectFlag \/ DisconnectJoin \/ DisconnectOffline
  \/ DisconnectMosquitto \/ DisconnectLoopStop \/ Destroy

LoopStep ==
  \/ ConnAck \/ Subscribe \/ Hello \/ ReadMessage \/ Respond
  \/ OnDisconnect \/ Reconnect \/ LoopExit

HeartbeatStep == HeartbeatCheck \/ HeartbeatTick \/ HeartbeatSend

EnvStep == Signal \/ LinkBreaks \/ \E m \in Messages : PlatformSend(m)

(* An arbitrary application.                                               *)
AppStep ==
  \/ \E ok \in BOOLEAN : Setup(ok)
  \/ Teardown
  \/ \E doc \in Document : AppStatus(doc) \/ AppTelemetry(doc) \/ AppEvent(doc)
  \/ OnConnectReturn
  \/ \E r \in [ret : {0, -1}, code : {0, 400, 404, 500}, data : Document,
               where : {"static", "stack"}] : HandlerReturn(r)

ClientNext == MainStep \/ LoopStep \/ HeartbeatStep \/ EnvStep \/ AppStep

ClientSpec == ClientInit /\ [][ClientNext]_clientVars

-----------------------------------------------------------------------------
(* Properties of the client, whatever the application does.                *)

(* Before the application releases what its callbacks use, and before the  *)
(* client itself is freed, both background threads have ended: they are    *)
(* joined on every path through connect, disconnect and free (client.c     *)
(* 532-595), whichever step of connect failed and whatever the network did.*)
ThreadsOutlived ==
  mainPc \in {"teardown", "destroy", "exit"} =>
    loopPc \in {"none", "exited"} /\ hbPc \in {"none", "done"}

(* Once da_client_disconnect has published "offline" (client.c 586) the    *)
(* heartbeat can no longer contradict it with an "online".                 *)
HeartbeatSilentAfterOffline ==
  mainPc \in {"dcFlush", "dcLoopStop", "teardown", "destroy", "exit"} =>
    hbPc \in {"none", "done"}

(* What da_client_disconnect joins has been told to end and can only end:  *)
(* the heartbeat finds its flag down at its next test, and the network     *)
(* thread has no connection to read from and none to make (client.c        *)
(* 576-593). on_disconnect_cb lowers the same flag and a reconnect may be  *)
(* under way meanwhile.                                                    *)
JoinsEnd ==
  /\ mainPc = "dcJoin" => ~hbRunning
  /\ mainPc = "dcLoopStop" => stopReq /\ link \notin {"up", "connecting"}

(* Responses reach the platform in the order of the commands and at most   *)
(* once each (on_message_cb), across lost connections too.                 *)
RepliesInOrder ==
  [][platform'.reply # platform.reply => platform'.reply.id > platform.reply.id]_platform

(* Whenever the loop thread is back in the network loop on a connection    *)
(* that lives, the last command it took from that connection has its       *)
(* response at the platform: no path through on_message_cb forgets one.    *)
CommandAnswered ==
  loopPc = "idle" /\ link = "up" /\ cur # NoCommand =>
    platform.reply.id = cur.id /\ platform.reply.code = resp.code

(* client.h:77-81: heartbeats are sent every interval unless disabled; so  *)
(* while the application runs and its session is established, the thread   *)
(* that sends them has not ended.                                          *)
HeartbeatWhileConnected ==
  mainPc = "run" /\ hbStarted /\ loopPc = "idle" /\ link = "up" => hbPc # "done"

-----------------------------------------------------------------------------
(* Inductive strengthenings.                                               *)

BeforeLoop      == {"new", "setup", "connect", "loopStart"}
BeforeHeartbeat == BeforeLoop \cup {"hbFlag", "hbCreate"}
AfterJoin       == {"dcOffline", "dcFlush", "dcLoopStop", "teardown", "destroy", "exit"}

(* A heartbeat thread that lives is one main knows to join, and it is      *)
(* joined on the way to "offline"; the loop thread is gone once main is    *)
(* past the first disconnect, or never started.                            *)
ThreadInv ==
  /\ hbPc \in {"check", "tick", "send"} => hbStarted
  /\ mainPc \in BeforeHeartbeat => hbPc = "none" /\ ~hbStarted
  /\ mainPc \in BeforeLoop => loopPc = "none"
  /\ mainPc \in BeforeHeartbeat \cup {"run"} => caller = "app"
  /\ mainPc \in AfterJoin => ~hbStarted
  /\ caller = "free" => ~hbStarted
  /\ caller = "free" \/ mainPc \in {"teardown", "exit"} => loopPc \in {"none", "exited"}
  /\ mainPc = "destroy" => caller = "free"

(* Request ids only grow along: answered, in hand, waiting, sent.          *)
OrderInv ==
  /\ platform.reply.id <= sent /\ cur.id <= sent
  /\ loopPc \in {"handler", "respond"} => platform.reply.id < cur.id
  /\ \A i \in 1..Len(inbox) :
       platform.reply.id < inbox[i].id /\ cur.id < inbox[i].id /\ inbox[i].id <= sent
  /\ \A i, j \in 1..Len(inbox) : i < j => inbox[i].id < inbox[j].id

(* A command in hand belongs to this connection, and there is none before  *)
(* the thread that reads it.                                               *)
AnswerInv ==
  /\ CommandAnswered
  /\ mainPc \in {"new", "setup", "connect", "loopStart"} => loopPc = "none"
  /\ loopPc \in {"none", "subscribe", "hello", "onConnect"} \/ link \in {"down", "connecting"}
       => cur = NoCommand
  /\ loopPc \in {"handler", "respond"} => link \notin {"down", "connecting"}
=============================================================================
