--------------------------- MODULE DaClientProofs ---------------------------
(***************************************************************************)
(* Theorems about the SDK client, for every application, vocabulary and    *)
(* bound: types, and the life time of its threads.                         *)
(***************************************************************************)
EXTENDS DaClient, TLAPS

-----------------------------------------------------------------------------
(* What publishing does to the platform's picture: only the named field    *)
(* moves, to the published value or not at all.                            *)

(* A publish changes nothing but the platform, whose type it keeps.        *)
LEMMA PublishType ==
  ASSUME ClientTypeOK, NEW p \in Platform,
         Publish(p)
  PROVE  platform' \in Platform
BY DEF ClientTypeOK, Publish

LEMMA StatusType ==
  ASSUME ClientTypeOK, NEW s \in Statuses, NEW doc \in Document,
         SendStatus(s, doc)
  PROVE  platform' \in Platform
BY PublishType DEF ClientTypeOK, SendStatus, Statuses, Platform

(* No step breaks a type, whatever the application does in its callbacks.  *)
LEMMA ClientTypeStep ==
  ASSUME ClientTypeOK, [ClientNext]_clientVars
  PROVE  ClientTypeOK'
<1> USE DEF mainVars, hbVars, netVars, cmdVars
<1>1. CASE MainStep
  <2>1. CASE DisconnectOffline
    <3>1. platform' \in Platform
      BY <2>1, StatusType DEF DisconnectOffline, Document, Statuses
    <3>2. QED
      BY <2>1, <3>1 DEF DisconnectOffline, MainGoto, ClientTypeOK, MainPcs
  <2>2. CASE New \/ Connect \/ LoopStart
    BY <2>2 DEF New, Connect, LoopStart, MainGoto, ClientTypeOK, MainPcs, LoopPcs,
       Links
  <2>3. CASE HeartbeatFlag \/ HeartbeatCreate \/ Stop
    BY <2>3 DEF HeartbeatFlag, HeartbeatCreate, Stop, MainGoto, ClientTypeOK, MainPcs,
       HbPcs
  <2>4. CASE DisconnectFlag \/ DisconnectJoin
    BY <2>4 DEF DisconnectFlag, DisconnectJoin, MainGoto, ClientTypeOK, MainPcs
  <2>5. CASE DisconnectMosquitto
    <3>1. link' \in Links
      BY <2>5 DEF DisconnectMosquitto, ClientTypeOK, Links
    <3>2. QED BY <2>5, <3>1 DEF DisconnectMosquitto, MainGoto, ClientTypeOK, MainPcs
  <2>6. CASE DisconnectLoopStop \/ Destroy
    BY <2>6 DEF DisconnectLoopStop, Destroy, MainGoto, ClientTypeOK, MainPcs
  <2> QED BY <1>1, <2>1, <2>2, <2>3, <2>4, <2>5, <2>6 DEF MainStep
<1>2. CASE LoopStep
  <2>1. CASE ConnAck \/ Subscribe \/ Reconnect \/ LoopExit
    BY <2>1 DEF ConnAck, Subscribe, Reconnect, LoopExit, LoopGoto,
       ClientTypeOK, LoopPcs, AppCode, Links
  <2>2. CASE Hello
    <3>1. platform' \in Platform
      BY <2>2, StatusType DEF Hello, Document, Statuses
    <3>2. QED BY <2>2, <3>1 DEF Hello, LoopGoto, ClientTypeOK, LoopPcs, AppCode
  <2>3. CASE ReadMessage
    <3>1. Head(inbox) \in Command /\ Tail(inbox) \in Seq(Command)
      BY <2>3 DEF ReadMessage, ClientTypeOK
    <3>2. DefaultResponse \in Response
      BY DEF DefaultResponse, Response, Document
    <3>3. QED
      BY <2>3, <3>1, <3>2 DEF ReadMessage, ClientTypeOK, LoopPcs, AppCode
  <2>4. CASE Respond
    <3>1. PICK doc \in Document :
            Publish([platform EXCEPT !.reply =
                       [id |-> cur.id, code |-> resp.code, data |-> doc]])
      BY <2>4 DEF Respond, ClientTypeOK, Response
    <3>2. [id |-> cur.id, code |-> resp.code, data |-> doc] \in Reply
      BY DaClientAssumption DEF DaClientAssumption, ClientTypeOK, Command, NoCommand, Response, Reply
    <3>3. platform' \in Platform
      BY <3>1, <3>2, PublishType DEF ClientTypeOK, Platform
    <3>4. QED BY <2>4, <3>3 DEF Respond, LoopGoto, ClientTypeOK, LoopPcs, AppCode
  <2>5. CASE OnDisconnect
    <3>1. DefaultResponse \in Response
      BY DEF DefaultResponse, Response, Document
    <3>2. inbox' \in Seq(Command)
      BY <2>5 DEF OnDisconnect
    <3>3. QED BY <2>5, <3>1, <3>2 DEF OnDisconnect, ClientTypeOK, Links
  <2> QED BY <1>2, <2>1, <2>2, <2>3, <2>4, <2>5 DEF LoopStep
<1>3. CASE HeartbeatStep
  <2>1. CASE HeartbeatCheck \/ HeartbeatTick
    BY <2>1 DEF HeartbeatCheck, HeartbeatTick, ClientTypeOK, HbPcs
  <2>2. CASE HeartbeatSend
    <3>1. platform' \in Platform
      BY <2>2, StatusType DEF HeartbeatSend, Document, Statuses
    <3>2. QED BY <2>2, <3>1 DEF HeartbeatSend, ClientTypeOK, HbPcs
  <2> QED BY <1>3, <2>1, <2>2 DEF HeartbeatStep
<1>4. CASE EnvStep
  <2>1. CASE Signal \/ LinkBreaks
    BY <2>1 DEF Signal, LinkBreaks, ClientTypeOK, Links
  <2>2. ASSUME NEW m \in Messages, PlatformSend(m) PROVE ClientTypeOK'
    <3>1. sent + 1 \in 1..MaxSent
      BY <2>2, DaClientAssumption DEF DaClientAssumption, PlatformSend, ClientTypeOK
    <3>2. [id |-> sent + 1, msg |-> m] \in Command
      BY <3>1 DEF Command
    <3>3. inbox' \in Seq(Command)
      BY <2>2, <3>2 DEF PlatformSend, ClientTypeOK
    <3>4. QED BY <2>2, <3>1, <3>3 DEF PlatformSend, ClientTypeOK
  <2> QED BY <1>4, <2>1, <2>2 DEF EnvStep
<1>5. CASE AppStep
  <2>1. ASSUME NEW ok \in BOOLEAN, Setup(ok) PROVE ClientTypeOK'
    BY <2>1 DEF Setup, MainGoto, ClientTypeOK, MainPcs
  <2>2. CASE Teardown \/ OnConnectReturn
    BY <2>2 DEF Teardown, OnConnectReturn, MainGoto, LoopGoto, ClientTypeOK,
       MainPcs, LoopPcs
  <2>3. ASSUME NEW doc \in Document, AppStatus(doc) PROVE ClientTypeOK'
    <3>1. platform' \in Platform
      BY <2>3, StatusType DEF AppStatus, Statuses
    <3>2. QED BY <2>3, <3>1 DEF AppStatus, ClientTypeOK
  <2>4. ASSUME NEW doc \in Document, AppTelemetry(doc) \/ AppEvent(doc)
        PROVE  ClientTypeOK'
    <3>1. platform' \in Platform
      BY <2>4, PublishType DEF AppTelemetry, AppEvent, SendTelemetry, SendEvent,
         ClientTypeOK, Platform
    <3>2. QED BY <2>4, <3>1 DEF AppTelemetry, AppEvent, ClientTypeOK
  <2>5. ASSUME NEW r \in [ret : {0, -1}, code : {0, 400, 404, 500},
                          data : Document, where : {"static", "stack"}],
               HandlerReturn(r)
        PROVE  ClientTypeOK'
    <3>1. r \in Response
      BY DEF Response
    <3>2. QED BY <2>5, <3>1 DEF HandlerReturn, LoopGoto, ClientTypeOK, LoopPcs
  <2> QED BY <1>5, <2>1, <2>2, <2>3, <2>4, <2>5 DEF AppStep
<1>6. CASE UNCHANGED clientVars
  BY <1>6 DEF clientVars, ClientTypeOK
<1> QED BY <1>1, <1>2, <1>3, <1>4, <1>5, <1>6 DEF ClientNext

(* A program that starts is well typed and has no threads.                 *)
LEMMA ClientInitOK ==
  ASSUME ClientInit
  PROVE  ClientTypeOK /\ ThreadInv
<1>1. platform \in Platform
  BY DaClientAssumption
     DEF DaClientAssumption, ClientInit, Platform, Statuses, Document, Reply, NoReply
<1>2. resp \in Response
  BY DEF ClientInit, Response, DefaultResponse, Document
<1>3. inbox \in Seq(Command)
  BY DEF ClientInit
<1>4. sent \in 0..MaxSent
  BY DaClientAssumption DEF DaClientAssumption, ClientInit
<1>5. ThreadInv
  BY DEF ClientInit, ThreadInv, BeforeLoop, BeforeHeartbeat, AfterJoin
<1> QED
  BY <1>1, <1>2, <1>3, <1>4, <1>5 DEF ClientInit, ClientTypeOK, MainPcs, LoopPcs, HbPcs, Links

(* Every variable of the client keeps its type (client.c 54-92).           *)
THEOREM ClientTypeCorrect == ClientSpec => []ClientTypeOK
<1>1. ClientInit => ClientTypeOK
  BY ClientInitOK
<1>2. ClientTypeOK /\ [ClientNext]_clientVars => ClientTypeOK'
  BY ClientTypeStep
<1> QED BY <1>1, <1>2, PTL DEF ClientSpec

-----------------------------------------------------------------------------
(* The life time of the threads.                                           *)

(* The bookkeeping of the threads is inductive.  The steps of the loop     *)
(* thread matter only by where that thread is, those of the environment    *)
(* and of the application's publishes not at all.                          *)
LEMMA ThreadInvStep ==
  ASSUME ClientTypeOK, ThreadInv, [ClientNext]_clientVars
  PROVE  ThreadInv'
<1> USE DEF BeforeLoop, BeforeHeartbeat, AfterJoin, mainVars, hbVars, MainGoto, LoopGoto
<1>1. CASE MainStep
  <2>1. CASE New \/ Connect \/ LoopStart
    BY <2>1 DEF New, Connect, LoopStart, ThreadInv
  <2>2. CASE HeartbeatFlag \/ HeartbeatCreate \/ Stop
    BY <2>2 DEF HeartbeatFlag, HeartbeatCreate, Stop, ThreadInv
  <2>3. CASE DisconnectFlag \/ DisconnectJoin
    BY <2>3 DEF DisconnectFlag, DisconnectJoin, ThreadInv
  <2>4. CASE DisconnectOffline \/ DisconnectMosquitto
    BY <2>4 DEF DisconnectOffline, DisconnectMosquitto, ThreadInv
  <2>5. CASE DisconnectLoopStop \/ Destroy
    BY <2>5 DEF DisconnectLoopStop, Destroy, ThreadInv, ClientTypeOK
  <2> QED BY <1>1, <2>1, <2>2, <2>3, <2>4, <2>5 DEF MainStep
<1>2. CASE LoopStep
  <2>1. CASE ConnAck \/ Subscribe \/ Hello
    BY <2>1 DEF ConnAck, Subscribe, Hello, ThreadInv
  <2>2. CASE ReadMessage \/ Respond
    BY <2>2 DEF ReadMessage, Respond, ThreadInv
  <2>3. CASE OnDisconnect \/ Reconnect \/ LoopExit
    BY <2>3 DEF OnDisconnect, Reconnect, LoopExit, ThreadInv
  <2> QED BY <1>2, <2>1, <2>2, <2>3 DEF LoopStep
<1>3. CASE HeartbeatStep
  <2>1. hbPc \in {"check", "tick", "send"} /\ hbPc' \in {"check", "tick", "send", "done"}
    BY <1>3 DEF HeartbeatStep, HeartbeatCheck, HeartbeatTick, HeartbeatSend
  <2>2. UNCHANGED <<mainPc, caller, loopPc, hbStarted>>
    BY <1>3 DEF HeartbeatStep, HeartbeatCheck, HeartbeatTick, HeartbeatSend
  <2> QED BY <2>1, <2>2 DEF ThreadInv
<1>4. CASE EnvStep
  <2>1. UNCHANGED <<mainPc, caller, loopPc, hbPc, hbStarted>>
    BY <1>4 DEF EnvStep, Signal, LinkBreaks, PlatformSend
  <2> QED BY <2>1 DEF ThreadInv
<1>5. CASE AppStep
  <2>1. ASSUME NEW ok \in BOOLEAN, Setup(ok) PROVE ThreadInv'
    BY <2>1 DEF Setup, ThreadInv
  <2>2. CASE Teardown \/ OnConnectReturn
    BY <2>2 DEF Teardown, OnConnectReturn, ThreadInv
  <2>3. ASSUME NEW doc \in Document, AppStatus(doc) \/ AppTelemetry(doc) \/ AppEvent(doc)
        PROVE  ThreadInv'
    BY <2>3 DEF AppStatus, AppTelemetry, AppEvent, ThreadInv
  <2>4. ASSUME NEW r, HandlerReturn(r) PROVE ThreadInv'
    BY <2>4 DEF HandlerReturn, ThreadInv
  <2> QED BY <1>5, <2>1, <2>2, <2>3, <2>4 DEF AppStep
<1>6. CASE UNCHANGED clientVars
  BY <1>6 DEF clientVars, ThreadInv
<1> QED BY <1>1, <1>2, <1>3, <1>4, <1>5, <1>6 DEF ClientNext

LEMMA ThreadInvariance == ClientSpec => []ThreadInv
<1>1. ClientInit => ThreadInv
  BY ClientInitOK
<1>2. ClientTypeOK /\ ThreadInv /\ [ClientNext]_clientVars => ThreadInv'
  BY ThreadInvStep
<1> QED BY <1>1, <1>2, ClientTypeCorrect, PTL DEF ClientSpec

(* Both background threads have ended before the application releases its  *)
(* resources and before the client is destroyed (client.c 532-595).        *)
THEOREM ClientThreadsOutlived == ClientSpec => []ThreadsOutlived
<1>1. ClientTypeOK /\ ThreadInv => ThreadsOutlived
  BY DEF ClientTypeOK, HbPcs, ThreadInv, ThreadsOutlived, AfterJoin
<1> QED BY <1>1, ClientTypeCorrect, ThreadInvariance, PTL

(* From the "offline" of da_client_disconnect on, the heartbeat is silent. *)
THEOREM ClientHeartbeatSilent == ClientSpec => []HeartbeatSilentAfterOffline
<1>1. ClientTypeOK /\ ThreadInv => HeartbeatSilentAfterOffline
  BY DEF ClientTypeOK, HbPcs, ThreadInv, HeartbeatSilentAfterOffline, AfterJoin
<1> QED BY <1>1, ClientTypeCorrect, ThreadInvariance, PTL

-----------------------------------------------------------------------------
(* Nothing that main waits for is started anew: both halves of JoinsEnd    *)
(* hold from the step before the join on.                                  *)
LEMMA JoinsEndStep ==
  ASSUME ClientTypeOK, ThreadInv, JoinsEnd, [ClientNext]_clientVars
  PROVE  JoinsEnd'
<1> USE DEF JoinsEnd, mainVars, hbVars, netVars, MainGoto, LoopGoto
<1>1. CASE MainStep
  <2>1. CASE DisconnectFlag \/ DisconnectJoin \/ DisconnectOffline
    BY <2>1 DEF DisconnectFlag, DisconnectJoin, DisconnectOffline
  <2>2. CASE DisconnectMosquitto
    BY <2>2 DEF DisconnectMosquitto
  <2>3. CASE ~(DisconnectFlag \/ DisconnectJoin \/ DisconnectOffline \/ DisconnectMosquitto)
    BY <1>1, <2>3 DEF MainStep, New, Connect, LoopStart, HeartbeatFlag, HeartbeatCreate,
       Stop, DisconnectLoopStop, Destroy
  <2> QED BY <2>1, <2>2, <2>3
<1>2. CASE LoopStep
  BY <1>2 DEF LoopStep, ConnAck, Subscribe, Hello, ReadMessage, Respond, OnDisconnect,
     Reconnect, LoopExit
<1>3. CASE HeartbeatStep
  BY <1>3 DEF HeartbeatStep, HeartbeatCheck, HeartbeatTick, HeartbeatSend
<1>4. CASE EnvStep
  <2>1. UNCHANGED <<mainPc, hbRunning, stopReq>>
    BY <1>4 DEF EnvStep, Signal, LinkBreaks, PlatformSend
  <2>2. link' = link \/ link' = "broken"
    BY <1>4 DEF EnvStep, Signal, LinkBreaks, PlatformSend
  <2> QED BY <2>1, <2>2
<1>5. CASE AppStep
  BY <1>5 DEF AppStep, Setup, Teardown, AppStatus, AppTelemetry, AppEvent, OnConnectReturn,
     HandlerReturn
<1>6. CASE UNCHANGED clientVars
  BY <1>6 DEF clientVars
<1> QED BY <1>1, <1>2, <1>3, <1>4, <1>5, <1>6 DEF ClientNext

(* Neither join of a disconnect waits for a thread that could go on, for   *)
(* any application and whatever the network does.                          *)
THEOREM ClientJoinsEnd == ClientSpec => []JoinsEnd
<1>1. ClientInit => JoinsEnd
  BY DEF ClientInit, JoinsEnd
<1>2. ClientTypeOK /\ ThreadInv /\ JoinsEnd /\ [ClientNext]_clientVars => JoinsEnd'
  BY JoinsEndStep
<1> QED BY <1>1, <1>2, ClientTypeCorrect, ThreadInvariance, PTL DEF ClientSpec

-----------------------------------------------------------------------------
(* The order of the responses.                                             *)

(* Only Respond delivers a response.                                       *)
LEMMA OtherPublishKeepsReply ==
  ASSUME ClientTypeOK, NEW s, NEW doc,
         SendStatus(s, doc) \/ SendTelemetry(doc) \/ SendEvent(doc)
  PROVE  platform'.reply = platform.reply
BY DEF ClientTypeOK, Platform, SendStatus, SendTelemetry, SendEvent, Publish

(* The ids of a queue that grows at its end and shrinks at its head.       *)
LEMMA TailIds ==
  ASSUME NEW q \in Seq(Command), q # <<>>
  PROVE  /\ Len(Tail(q)) = Len(q) - 1
         /\ \A i \in 1..Len(Tail(q)) : i + 1 \in 1..Len(q) /\ Tail(q)[i] = q[i + 1]
         /\ 1 \in 1..Len(q) /\ Head(q) = q[1]
OBVIOUS

LEMMA ReplyIsNumbered ==
  ASSUME ClientTypeOK
  PROVE  platform.reply.id \in Nat /\ cur.id \in Nat /\ sent \in Nat
         /\ \A i \in 1..Len(inbox) : inbox[i].id \in Nat
<1>1. \A i \in 1..Len(inbox) : inbox[i] \in Command
  BY DEF ClientTypeOK
<1> QED
  BY <1>1, DaClientAssumption
     DEF DaClientAssumption, ClientTypeOK, Platform, Reply, Command, NoCommand

(* Ids in the order answered, in hand, waiting, sent: inductive.           *)
LEMMA OrderInvStep ==
  ASSUME ClientTypeOK, OrderInv, [ClientNext]_clientVars
  PROVE  OrderInv'
<1> USE ReplyIsNumbered DEF mainVars, hbVars, netVars, cmdVars, MainGoto, LoopGoto
<1> DEFINE Kept == UNCHANGED <<inbox, cur, sent>> /\ platform'.reply = platform.reply
<1>0. ASSUME Kept, loopPc' \in {"handler", "respond"} => loopPc \in {"handler", "respond"}
      PROVE  OrderInv'
  BY <1>0 DEF OrderInv
<1>1. CASE MainStep
  <2>1. CASE DisconnectOffline
    <3>1. platform'.reply = platform.reply
      BY <2>1, OtherPublishKeepsReply DEF DisconnectOffline
    <3>2. QED BY <1>0, <2>1, <3>1 DEF DisconnectOffline
  <2>2. CASE UNCHANGED <<inbox, cur, sent, platform>> /\ loopPc' \in {loopPc, "idle"}
    BY <1>0, <2>2
  <2> QED
    BY <1>1, <2>1, <2>2 DEF MainStep, New, Connect, LoopStart, HeartbeatFlag,
       HeartbeatCreate, Stop, DisconnectFlag, DisconnectJoin, DisconnectMosquitto,
       DisconnectLoopStop, Destroy
<1>2. CASE LoopStep
  <2>1. CASE ConnAck \/ Subscribe \/ Reconnect \/ LoopExit
    <3>1. UNCHANGED <<inbox, cur, sent, platform>>
      BY <2>1 DEF ConnAck, Subscribe, Reconnect, LoopExit
    <3>2. loopPc' \in {"idle", "subscribe", "hello", "exited"}
      BY <2>1 DEF ConnAck, Subscribe, Reconnect, LoopExit
    <3> QED BY <1>0, <3>1, <3>2
  <2>2. CASE Hello
    <3>1. platform'.reply = platform.reply
      BY <2>2, OtherPublishKeepsReply DEF Hello
    <3> QED BY <1>0, <2>2, <3>1 DEF Hello
  <2>3. CASE ReadMessage
    <3>1. UNCHANGED <<sent, platform>> /\ inbox # <<>> /\ inbox' = Tail(inbox)
          /\ cur' \in {cur, Head(inbox)}
          /\ (loopPc' \in {"handler", "respond"} => cur' = Head(inbox))
      BY <2>3 DEF ReadMessage
    <3>2. inbox \in Seq(Command)
      BY DEF ClientTypeOK
    <3>3. Head(inbox).id > platform.reply.id /\ Head(inbox).id > cur.id
          /\ Head(inbox).id <= sent
      BY <3>1, <3>2, TailIds DEF OrderInv
    <3>4. \A i \in 1..Len(inbox') : /\ i + 1 \in 1..Len(inbox)
                                    /\ inbox'[i] = inbox[i + 1]
      BY <3>1, <3>2, TailIds
    <3>5. \A i \in 1..Len(inbox') :
            inbox'[i].id > Head(inbox).id /\ inbox'[i].id <= sent
      <4> SUFFICES ASSUME NEW i \in 1..Len(inbox')
                   PROVE  inbox'[i].id > Head(inbox).id /\ inbox'[i].id <= sent
        OBVIOUS
      <4>1. i + 1 \in 1..Len(inbox) /\ 1 \in 1..Len(inbox) /\ 1 < i + 1
            /\ Head(inbox) = inbox[1]
        BY <3>1, <3>2, <3>4, TailIds
      <4> QED BY <3>4, <4>1 DEF OrderInv
    <3>6. \A i, j \in 1..Len(inbox') : i < j => inbox'[i].id < inbox'[j].id
      <4> SUFFICES ASSUME NEW i \in 1..Len(inbox'), NEW j \in 1..Len(inbox'), i < j
                   PROVE  inbox'[i].id < inbox'[j].id
        OBVIOUS
      <4>1. i + 1 \in 1..Len(inbox) /\ j + 1 \in 1..Len(inbox) /\ i + 1 < j + 1
        BY <3>4
      <4> QED BY <3>4, <4>1 DEF OrderInv
    <3>7. platform'.reply.id <= sent' /\ cur'.id <= sent'
      BY <3>1, <3>3 DEF OrderInv
    <3>8. loopPc' \in {"handler", "respond"} => platform'.reply.id < cur'.id
      BY <3>1, <3>3
    <3>9. \A i \in 1..Len(inbox') :
            platform'.reply.id < inbox'[i].id /\ cur'.id < inbox'[i].id
              /\ inbox'[i].id <= sent'
      <4> SUFFICES ASSUME NEW i \in 1..Len(inbox')
                   PROVE  platform'.reply.id < inbox'[i].id /\ cur'.id < inbox'[i].id
                            /\ inbox'[i].id <= sent'
        OBVIOUS
      <4>1. inbox'[i].id \in Nat /\ Head(inbox).id \in Nat
        BY <3>1, <3>2, <3>4, TailIds
      <4> QED BY <3>1, <3>3, <3>5, <4>1
    <3> QED BY <3>6, <3>7, <3>8, <3>9 DEF OrderInv
  <2>4. CASE Respond
    <3>1. UNCHANGED <<inbox, cur, sent>> /\ loopPc' = "idle" /\ loopPc = "respond"
      BY <2>4 DEF Respond
    <3>2. platform'.reply.id \in {platform.reply.id, cur.id}
      BY <2>4 DEF Respond, Publish, ClientTypeOK, Platform
    <3> QED BY <3>1, <3>2 DEF OrderInv
  <2>5. CASE OnDisconnect
    BY <2>5 DEF OnDisconnect, OrderInv, NoCommand
  <2> QED BY <1>2, <2>1, <2>2, <2>3, <2>4, <2>5 DEF LoopStep
<1>3. CASE HeartbeatStep
  <2>1. platform'.reply = platform.reply
    BY <1>3, OtherPublishKeepsReply
       DEF HeartbeatStep, HeartbeatCheck, HeartbeatTick, HeartbeatSend
  <2>2. UNCHANGED <<inbox, cur, sent, loopPc>>
    BY <1>3 DEF HeartbeatStep, HeartbeatCheck, HeartbeatTick, HeartbeatSend
  <2> QED BY <1>0, <2>1, <2>2
<1>4. CASE EnvStep
  <2>1. CASE Signal \/ LinkBreaks
    <3>1. UNCHANGED <<inbox, cur, sent, loopPc, platform>>
      BY <2>1 DEF Signal, LinkBreaks
    <3> QED BY <1>0, <3>1
  <2>2. ASSUME NEW m \in Messages, PlatformSend(m) PROVE OrderInv'
    <3> DEFINE new == [id |-> sent + 1, msg |-> m]
    <3>1. UNCHANGED <<cur, loopPc, platform>> /\ sent' = sent + 1
          /\ inbox' = Append(inbox, new)
      BY <2>2 DEF PlatformSend
    <3>2. /\ Len(inbox') = Len(inbox) + 1
          /\ \A i \in 1..Len(inbox) : inbox'[i] = inbox[i]
          /\ inbox'[Len(inbox) + 1].id = sent + 1
          /\ Len(inbox) \in Nat
      BY <3>1 DEF ClientTypeOK
    <3>3. \A i \in 1..Len(inbox') :
            \/ i \in 1..Len(inbox) /\ inbox'[i] = inbox[i]
            \/ i = Len(inbox) + 1 /\ inbox'[i].id = sent + 1
      BY <3>2
    <3> HIDE DEF new
    <3>4. platform'.reply.id <= sent' /\ cur'.id <= sent'
      BY <3>1 DEF OrderInv
    <3>5. loopPc' \in {"handler", "respond"} => platform'.reply.id < cur'.id
      BY <3>1 DEF OrderInv
    <3>6. \A i \in 1..Len(inbox') :
            platform'.reply.id < inbox'[i].id /\ cur'.id < inbox'[i].id
              /\ inbox'[i].id <= sent'
      BY <3>1, <3>3 DEF OrderInv
    <3>7. \A i, j \in 1..Len(inbox') : i < j => inbox'[i].id < inbox'[j].id
      BY <3>2, <3>3 DEF OrderInv
    <3> QED BY <3>4, <3>5, <3>6, <3>7 DEF OrderInv
  <2> QED BY <1>4, <2>1, <2>2 DEF EnvStep
<1>5. CASE AppStep
  <2>1. ASSUME NEW ok \in BOOLEAN, Setup(ok) PROVE OrderInv'
    BY <1>0, <2>1 DEF Setup
  <2>2. CASE Teardown \/ OnConnectReturn
    BY <1>0, <2>2 DEF Teardown, OnConnectReturn
  <2>3. ASSUME NEW doc \in Document, AppStatus(doc) \/ AppTelemetry(doc) \/ AppEvent(doc)
        PROVE  OrderInv'
    <3>1. platform'.reply = platform.reply
      BY <2>3, OtherPublishKeepsReply DEF AppStatus, AppTelemetry, AppEvent
    <3> QED BY <1>0, <2>3, <3>1 DEF AppStatus, AppTelemetry, AppEvent
  <2>4. ASSUME NEW r, HandlerReturn(r) PROVE OrderInv'
    BY <1>0, <2>4 DEF HandlerReturn
  <2> QED BY <1>5, <2>1, <2>2, <2>3, <2>4 DEF AppStep
<1>6. CASE UNCHANGED clientVars
  BY <1>0, <1>6 DEF clientVars
<1> QED BY <1>1, <1>2, <1>3, <1>4, <1>5, <1>6 DEF ClientNext

LEMMA OrderInvariance == ClientSpec => []OrderInv
<1>1. ClientInit => OrderInv
  BY DEF ClientInit, OrderInv, NoCommand, NoReply
<1>2. ClientTypeOK /\ OrderInv /\ [ClientNext]_clientVars => OrderInv'
  BY OrderInvStep
<1> QED BY <1>1, <1>2, ClientTypeCorrect, PTL DEF ClientSpec

(* Every step but Respond leaves the response the platform got last.       *)
LEMMA OnlyRespondReplies ==
  ASSUME ClientTypeOK, [ClientNext]_clientVars, ~Respond
  PROVE  platform'.reply = platform.reply
<1> USE OtherPublishKeepsReply
<1>1. CASE MainStep
  BY <1>1 DEF MainStep, New, Connect, LoopStart, HeartbeatFlag, HeartbeatCreate, Stop,
     DisconnectFlag, DisconnectJoin, DisconnectOffline, DisconnectMosquitto,
     DisconnectLoopStop, Destroy
<1>2. CASE LoopStep
  BY <1>2 DEF LoopStep, ConnAck, Subscribe, Hello, ReadMessage, OnDisconnect, Reconnect,
     LoopExit
<1>3. CASE HeartbeatStep
  BY <1>3 DEF HeartbeatStep, HeartbeatCheck, HeartbeatTick, HeartbeatSend
<1>4. CASE EnvStep
  BY <1>4 DEF EnvStep, Signal, LinkBreaks, PlatformSend
<1>5. CASE AppStep
  BY <1>5 DEF AppStep, Setup, Teardown, OnConnectReturn, AppStatus, AppTelemetry,
     AppEvent, HandlerReturn
<1>6. CASE UNCHANGED clientVars
  BY <1>6 DEF clientVars
<1> QED BY <1>1, <1>2, <1>3, <1>4, <1>5, <1>6 DEF ClientNext

(* The platform gets at most one response per command, in the order of the *)
(* commands, over any number of lost connections (on_message_cb).          *)
THEOREM ClientRepliesInOrder == ClientSpec => RepliesInOrder
<1>1. ClientTypeOK /\ OrderInv /\ [ClientNext]_clientVars
        => [platform'.reply # platform.reply
              => platform'.reply.id > platform.reply.id]_platform
  <2> SUFFICES ASSUME ClientTypeOK, OrderInv, [ClientNext]_clientVars,
                      platform'.reply # platform.reply
               PROVE  platform'.reply.id > platform.reply.id
    OBVIOUS
  <2>1. Respond
    BY OnlyRespondReplies
  <2>2. loopPc = "respond" /\ platform'.reply.id \in {platform.reply.id, cur.id}
        /\ (platform'.reply.id = cur.id \/ platform'.reply = platform.reply)
    BY <2>1 DEF Respond, LoopGoto, Publish, ClientTypeOK, Platform
  <2> QED BY <2>2, ReplyIsNumbered DEF OrderInv
<1> QED BY <1>1, ClientTypeCorrect, OrderInvariance, PTL DEF ClientSpec, RepliesInOrder

-----------------------------------------------------------------------------
(* The answer to a command.                                                *)

LEMMA AnswerInvStep ==
  ASSUME ClientTypeOK, AnswerInv, [ClientNext]_clientVars
  PROVE  AnswerInv'
<1> USE DEF mainVars, hbVars, netVars, cmdVars, MainGoto, LoopGoto, AnswerInv, CommandAnswered, NoCommand
<1> DEFINE Early == {"new", "setup", "connect", "loopStart"}
<1> DEFINE Kept == /\ UNCHANGED <<cur, resp, loopPc, link>>
                   /\ platform'.reply = platform.reply
                   /\ mainPc' \in Early => mainPc \in Early
<1>0. ASSUME Kept PROVE AnswerInv'
  <2>1. cur' = cur /\ resp' = resp /\ loopPc' = loopPc /\ link' = link
        /\ platform'.reply = platform.reply
        /\ (mainPc' \in Early => mainPc \in Early)
    BY <1>0
  <2> HIDE DEF Kept
  <2> QED BY <2>1
<1>1. CASE MainStep
  <2>1. UNCHANGED <<cur, resp>> /\ platform'.reply = platform.reply
    BY <1>1, OnlyRespondReplies
       DEF MainStep, New, Connect, LoopStart, HeartbeatFlag, HeartbeatCreate, Stop,
           DisconnectFlag, DisconnectJoin, DisconnectOffline, DisconnectMosquitto,
           DisconnectLoopStop, Destroy, Respond, MainPcs
  <2> QED
    BY <1>0, <1>1, <2>1
       DEF MainStep, New, Connect, LoopStart, HeartbeatFlag, HeartbeatCreate, Stop,
           DisconnectFlag, DisconnectJoin, DisconnectOffline, DisconnectMosquitto,
           DisconnectLoopStop, Destroy
<1>2. CASE LoopStep
  <2>1. CASE Respond
    <3>1. link = "up" =>
            platform'.reply.id = cur.id /\ platform'.reply.code = resp.code
      BY <2>1 DEF Respond, Publish, ClientTypeOK, Platform
    <3> QED BY <2>1, <3>1 DEF Respond
  <2>2. CASE ~Respond
    <3>1. platform'.reply = platform.reply
      BY <2>2, OnlyRespondReplies
    <3> QED
      BY <1>2, <2>2, <3>1
         DEF LoopStep, ConnAck, Subscribe, Hello, ReadMessage, OnDisconnect, Reconnect,
             LoopExit
  <2> QED BY <2>1, <2>2
<1>3. CASE HeartbeatStep
  <2>1. platform'.reply = platform.reply
    BY <1>3, OtherPublishKeepsReply
       DEF HeartbeatStep, HeartbeatCheck, HeartbeatTick, HeartbeatSend
  <2> QED
    BY <1>0, <1>3, <2>1 DEF HeartbeatStep, HeartbeatCheck, HeartbeatTick, HeartbeatSend
<1>4. CASE EnvStep
  BY <1>4 DEF EnvStep, Signal, LinkBreaks, PlatformSend
<1>5. CASE AppStep
  <2>1. ASSUME NEW doc \in Document, AppStatus(doc) \/ AppTelemetry(doc) \/ AppEvent(doc)
        PROVE  AnswerInv'
    <3>1. platform'.reply = platform.reply
      BY <2>1, OtherPublishKeepsReply DEF AppStatus, AppTelemetry, AppEvent
    <3> QED BY <1>0, <2>1, <3>1 DEF AppStatus, AppTelemetry, AppEvent
  <2>2. ASSUME NEW ok \in BOOLEAN, Setup(ok) PROVE AnswerInv'
    BY <1>0, <2>2 DEF Setup
  <2>3. CASE Teardown
    BY <1>0, <2>3 DEF Teardown
  <2>4. CASE OnConnectReturn
    BY <2>4 DEF OnConnectReturn
  <2>5. ASSUME NEW r, HandlerReturn(r) PROVE AnswerInv'
    BY <2>5 DEF HandlerReturn
  <2> QED BY <1>5, <2>1, <2>2, <2>3, <2>4, <2>5 DEF AppStep
<1>6. CASE UNCHANGED clientVars
  BY <1>0, <1>6 DEF clientVars
<1> QED BY <1>1, <1>2, <1>3, <1>4, <1>5, <1>6 DEF ClientNext

(* When the thread is idle again and the connection did not break, the     *)
(* command it read last has its response, with the handler's code: for     *)
(* any application, any commands and any number of lost connections.       *)
THEOREM ClientCommandAnswered == ClientSpec => []CommandAnswered
<1>1. ClientInit => AnswerInv
  BY DEF ClientInit, AnswerInv, CommandAnswered
<1>2. ClientTypeOK /\ AnswerInv /\ [ClientNext]_clientVars => AnswerInv'
  BY AnswerInvStep
<1>3. AnswerInv => CommandAnswered
  BY DEF AnswerInv
<1> QED BY <1>1, <1>2, <1>3, ClientTypeCorrect, PTL DEF ClientSpec
=============================================================================
