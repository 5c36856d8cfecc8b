--------------------------- MODULE PetDeviceProofs ---------------------------
(***************************************************************************)
(* Theorems about the firmware, for every vocabulary of commands and every *)
(* bound: its types, that it is an application of the SDK client (so that  *)
(* the client's theorems hold of it), and what it promises on its own.     *)
(***************************************************************************)
EXTENDS PetDevice, DaClientProofs

-----------------------------------------------------------------------------
(* The command language.                                                   *)

MessageType == [name : STRING, direction : STRING, amplitude : STRING,
                speed : STRING, count : Seq(Int)]

(* An accepted command turns a state of the pet into a state of the pet.   *)
LEMMA ApplyType ==
  ASSUME NEW m, Verdict(m) = 0, NEW s \in PetState
  PROVE  Apply(m, s) \in PetState
<1>1. Known(m) /\ ValidParams(m)
  BY DEF Verdict
<1>2. CASE IsFan(m)
  BY <1>1, <1>2 DEF ValidParams, Apply, PetState
<1>3. CASE ~IsFan(m)
  <2>1. PartOf(m) \in Parts /\ IsMove(m) \in BOOLEAN
    BY DEF PartOf, Parts, IsMove
  <2>2. IsMove(m) => m.direction \in Directions
    BY <1>1 DEF ValidParams
  <2>3. ~IsReset(m) => m.amplitude \in Amplitudes
    BY <1>1, <1>3 DEF ValidParams, Known
  <2> QED BY <1>3, <2>1, <2>2, <2>3 DEF Apply, PetState
<1> QED BY <1>2, <1>3

(* The event of a command is one of the device model's events.             *)
LEMMA EventOfType ==
  ASSUME NEW m, Known(m), NEW s \in PetState
  PROVE  EventOf(m, s) \in PetEvent
<1>1. CASE IsFan(m)
  BY <1>1 DEF EventOf, PetEvent, PetState
<1>2. CASE ~IsFan(m)
  <2>1. PartOf(m) \in Parts
    BY DEF PartOf, Parts
  <2> QED BY <1>2, <2>1 DEF EventOf, PetEvent, PetState
<1> QED BY <1>1, <1>2

(* The angles of a motion are integers, and the last one is the pose the   *)
(* state will tell: the centre, unless the command is a move.              *)
LEMMA TargetsType ==
  ASSUME NEW m \in MessageType, Verdict(m) = 0, ~IsFan(m)
  PROVE  /\ Targets(m) \in Seq(Int)
         /\ Targets(m) # <<>>
         /\ Targets(m)[Len(Targets(m))] =
              IF IsMove(m) THEN PoseAngle(m.direction, m.amplitude) ELSE CenterAngle
<1>1. Known(m) /\ ValidParams(m)
  BY DEF Verdict
<1>2. ASSUME NEW d, NEW a \in Amplitudes PROVE PoseAngle(d, a) \in Int
  BY <1>2 DEF PoseAngle, CenterAngle, AmpOffset, Amplitudes
<1>3. CASE IsMove(m)
  <2>1. m.amplitude \in Amplitudes
    BY <1>1, <1>3 DEF ValidParams
  <2> QED BY <1>2, <1>3, <2>1 DEF Targets
<1>4. CASE IsOscillate(m) /\ ~IsMove(m)
  <2>1. m.amplitude \in Amplitudes /\ m.count # <<>>
    BY <1>1, <1>4 DEF ValidParams
  <2>2. m.count[1] \in Int
    BY <2>1 DEF MessageType
  <2>3. Rounds(m) \in Nat
    BY <2>2 DEF Rounds
  <2> DEFINE n == 2 * Rounds(m) + 1
             t == [i \in 1..n |-> IF i = n THEN CenterAngle
                     ELSE PoseAngle(IF i % 2 = 1 THEN "left" ELSE "right", m.amplitude)]
  <2>4. n \in Nat \ {0}
    BY <2>3
  <2>5. Targets(m) = t
    BY <1>4 DEF Targets, Swings
  <2> HIDE DEF n
  <2>6. \A i \in 1..n : t[i] \in Int
    BY <1>2, <2>1 DEF CenterAngle
  <2>7. t \in Seq(Int) /\ Len(t) = n /\ t[n] = CenterAngle
    BY <2>4, <2>6
  <2> QED BY <1>4, <2>4, <2>5, <2>7
<1>5. CASE IsReset(m) /\ ~IsMove(m) /\ ~IsOscillate(m)
  BY <1>5 DEF Targets, CenterAngle
<1> QED BY <1>1, <1>3, <1>4, <1>5 DEF Known

-----------------------------------------------------------------------------
(* The firmware is an application of the client.                           *)

LEMMA StateIsDocument ==
  ASSUME TypeOK
  PROVE  gState \in Document /\ payload \in Document
BY PetDeviceAssumption DEF PetDeviceAssumption, TypeOK, PetTypeOK, Document

LEMMA AcceptedCommand ==
  ASSUME CallbackInv, loopPc = "handler"
  PROVE  cur.msg \in MessageType
BY PetDeviceAssumption DEF PetDeviceAssumption, CallbackInv, MessageType

(* Each step of the firmware is a step of the client or none of its        *)
(* business.                                                               *)
LEMMA DeviceStep ==
  ASSUME TypeOK, CallbackInv, [Next]_vars
  PROVE  [ClientNext]_clientVars
<1>1. CASE Main
  BY <1>1 DEF Main, PetSetup, PetTeardown, ClientNext, AppStep
<1>2. CASE Loop
  <2>1. CASE LoopStep /\ UNCHANGED appVars
    BY <2>1 DEF ClientNext
  <2>2. CASE Callback
    <3>1. CASE Reject
      <4> DEFINE r == [ret |-> 0, code |-> Verdict(cur.msg), data |-> None,
                       where |-> "static"]
      <4>1. HandlerReturn(r)
        BY <3>1 DEF Reject
      <4>2. Verdict(cur.msg) \in {0, 400, 404}
        BY DEF Verdict
      <4>3. r \in [ret : {0, -1}, code : {0, 400, 404, 500}, data : Document,
                   where : {"static", "stack"}]
        BY <4>2 DEF Document
      <4> HIDE DEF r
      <4> QED BY <4>1, <4>3 DEF ClientNext, AppStep
    <3>2. CASE StartCommand \/ MotorStep \/ UpdateState
      BY <3>2 DEF StartCommand, MotorStep, UpdateState
    <3>3. CASE ReportStatus \/ AnnounceStatus
      BY <3>3, StateIsDocument DEF ReportStatus, AnnounceStatus, ClientNext, AppStep
    <3>4. CASE ReportTelemetry \/ AnnounceTelemetry
      BY <3>4, StateIsDocument DEF ReportTelemetry, AnnounceTelemetry, ClientNext, AppStep
    <3>5. CASE EmitEvent
      <4>1. Known(cur.msg)
        BY <3>5 DEF EmitEvent, AppEvent, AppGoto, CallbackInv, Verdict
      <4>2. EventOf(cur.msg, gState) \in Document
        BY <4>1, EventOfType, PetDeviceAssumption
           DEF PetDeviceAssumption, TypeOK, PetTypeOK, Document
      <4> QED BY <3>5, <4>2 DEF EmitEvent, ClientNext, AppStep
    <3>6. CASE ReplyOk
      <4> DEFINE r == [ret |-> 0, code |-> 0, data |-> payload, where |-> "static"]
      <4>1. HandlerReturn(r)
        BY <3>6 DEF ReplyOk
      <4>2. r \in [ret : {0, -1}, code : {0, 400, 404, 500}, data : Document,
                   where : {"static", "stack"}]
        BY StateIsDocument
      <4> HIDE DEF r
      <4> QED BY <4>1, <4>2 DEF ClientNext, AppStep
    <3>7. CASE Announced
      BY <3>7 DEF Announced, ClientNext, AppStep
    <3> QED BY <2>2, <3>1, <3>2, <3>3, <3>4, <3>5, <3>6, <3>7 DEF Callback
  <2> QED BY <1>2, <2>1, <2>2 DEF Loop
<1>3. CASE Beat \/ Environment
  BY <1>3 DEF Beat, Environment, ClientNext
<1>4. CASE UNCHANGED vars
  BY <1>4 DEF vars
<1> QED BY <1>1, <1>2, <1>3, <1>4 DEF Next

(* No step of the firmware breaks a type.                                  *)
LEMMA TypeStep ==
  ASSUME TypeOK, CallbackInv, [Next]_vars
  PROVE  TypeOK'
<1>1. ClientTypeOK'
  BY DeviceStep, ClientTypeStep DEF TypeOK
<1>2. PetTypeOK'
  <2> USE DEF TypeOK, PetTypeOK, AppPcs, AppGoto
  <2>1. CASE UNCHANGED appVars
    BY <2>1 DEF appVars
  <2>2. CASE PetSetup \/ PetTeardown
    <3>1. 0 \in {FanDuty[s] : s \in FanSpeeds}
      BY DEF FanDuty, FanSpeeds
    <3> QED BY <2>2, <3>1 DEF PetSetup, PetTeardown
  <2>3. CASE Reject \/ ReportStatus \/ EmitEvent \/ ReplyOk
    BY <2>3 DEF Reject, ReportStatus, EmitEvent, ReplyOk
  <2>4. CASE StartCommand
    <3>1. Targets(cur.msg) \in Seq(Int)
      <4>1. CASE IsFan(cur.msg)
        BY <4>1 DEF IsFan, IsMove, IsOscillate, IsReset, Targets
      <4>2. CASE ~IsFan(cur.msg)
        BY <2>4, <4>2, AcceptedCommand, TargetsType DEF StartCommand
      <4> QED BY <4>1, <4>2
    <3> QED BY <2>4, <3>1 DEF StartCommand
  <2>5. CASE MotorStep
    <3>1. Head(todo) \in Int /\ Tail(todo) \in Seq(Int)
      BY <2>5 DEF MotorStep
    <3>2. pose' \in [Parts -> Int]
      BY <2>5, <3>1 DEF MotorStep
    <3> QED BY <2>5, <3>1, <3>2 DEF MotorStep
  <2>6. CASE UpdateState
    <3>1. Verdict(cur.msg) = 0
      BY <2>6 DEF UpdateState, CallbackInv, AppCode
    <3>2. gState' \in PetState
      BY <2>6, <3>1, ApplyType DEF UpdateState
    <3>3. fan' \in {FanDuty[s] : s \in FanSpeeds} \cup {FanDead}
      BY <2>6, <3>1 DEF UpdateState, Verdict, ValidParams
    <3> QED BY <2>6, <3>2, <3>3 DEF UpdateState
  <2>7. CASE ReportTelemetry \/ AnnounceStatus \/ AnnounceTelemetry \/ Announced
    BY <2>7 DEF ReportTelemetry, AnnounceStatus, AnnounceTelemetry, Announced
  <2>8. CASE Callback
    BY <2>3, <2>4, <2>5, <2>6, <2>7, <2>8 DEF Callback
  <2>9. Next => Callback \/ PetSetup \/ PetTeardown \/ UNCHANGED appVars
    BY DEF Next, Main, Loop, Beat, Environment
  <2>10. UNCHANGED vars => UNCHANGED appVars
    BY DEF vars
  <2> HIDE DEF PetTypeOK
  <2> QED BY <2>1, <2>2, <2>8, <2>9, <2>10
<1> QED BY <1>1, <1>2 DEF TypeOK

-----------------------------------------------------------------------------
(* Callbacks.                                                              *)

(* Outside the application's own code, the network thread enters a         *)
(* callback only by Hello and ReadMessage.                                 *)
LEMMA EntersCallback ==
  ASSUME ThreadInv, [Next]_vars, ~Callback
  PROVE  \/ UNCHANGED <<loopPc, cur>>
         \/ loopPc \notin AppCode /\ loopPc' \notin AppCode
         \/ Hello \/ ReadMessage
<1> USE DEF mainVars, hbVars, netVars, cmdVars, MainGoto, LoopGoto
<1>1. CASE MainStep
  <2>1. CASE LoopStart
    BY <2>1 DEF LoopStart, ThreadInv, BeforeLoop, AppCode
  <2>2. CASE ~LoopStart
    BY <1>1, <2>2 DEF MainStep, New, Connect, HeartbeatFlag, HeartbeatCreate, Stop,
       DisconnectFlag, DisconnectJoin, DisconnectOffline, DisconnectMosquitto,
       DisconnectLoopStop, Destroy
  <2> QED BY <2>1, <2>2
<1>2. CASE PetSetup \/ PetTeardown
  BY <1>2 DEF PetSetup, PetTeardown, Setup, Teardown
<1>3. CASE LoopStep
  BY <1>3 DEF LoopStep, ConnAck, Subscribe, Respond, OnDisconnect, Reconnect, LoopExit,
     AppCode
<1>4. CASE HeartbeatStep
  BY <1>4 DEF HeartbeatStep, HeartbeatCheck, HeartbeatTick, HeartbeatSend
<1>5. CASE EnvStep
  BY <1>5 DEF EnvStep, Signal, LinkBreaks, PlatformSend
<1>6. CASE UNCHANGED vars
  BY <1>6 DEF vars, clientVars
<1> QED
  BY <1>1, <1>2, <1>3, <1>4, <1>5, <1>6 DEF Next, Main, Loop, Beat, Environment

(* The application's variables move in its callbacks and in main only.     *)
LEMMA AppVarsMove ==
  ASSUME [Next]_vars, ~Callback
  PROVE  UNCHANGED <<pose, gState, payload, appPc, todo>>
BY DEF Next, Main, Loop, Beat, Environment, PetSetup, PetTeardown, vars, appVars

LEMMA CallbackInvStep ==
  ASSUME TypeOK, ThreadInv, CallbackInv, [Next]_vars
  PROVE  CallbackInv'
<1> USE DEF LoopGoto, AppGoto, AppCode, cmdVars
<1>1. CASE ~Callback
  <2>1. UNCHANGED <<appPc, todo>>
    BY <1>1, AppVarsMove
  <2>2. CASE UNCHANGED <<loopPc, cur>>
    BY <2>1, <2>2 DEF CallbackInv
  <2>3. CASE loopPc \notin AppCode /\ loopPc' \notin AppCode
    BY <2>1, <2>3 DEF CallbackInv
  <2>4. CASE Hello
    BY <2>1, <2>4 DEF Hello, CallbackInv
  <2>5. CASE ReadMessage
    BY <2>1, <2>5 DEF ReadMessage, CallbackInv
  <2> QED BY <1>1, <2>2, <2>3, <2>4, <2>5, EntersCallback
<1>2. CASE Reject \/ ReplyOk
  BY <1>2 DEF Reject, ReplyOk, HandlerReturn, CallbackInv
<1>3. CASE StartCommand
  <2>1. todo' # <<>> => ~IsFan(cur.msg)
    BY <1>3 DEF StartCommand, Targets, IsMove, IsOscillate, IsReset, IsFan
  <2> QED BY <1>3, <2>1 DEF StartCommand, CallbackInv, clientVars
<1>4. CASE MotorStep
  BY <1>4 DEF MotorStep, CallbackInv, clientVars
<1>5. CASE UpdateState
  BY <1>5 DEF UpdateState, CallbackInv, clientVars
<1>6. CASE ReportStatus \/ ReportTelemetry \/ EmitEvent
  BY <1>6 DEF ReportStatus, ReportTelemetry, EmitEvent, AppStatus, AppTelemetry, AppEvent,
     CallbackInv
<1>7. CASE AnnounceStatus \/ AnnounceTelemetry \/ Announced
  BY <1>7 DEF AnnounceStatus, AnnounceTelemetry, Announced, AppStatus, AppTelemetry,
     OnConnectReturn, CallbackInv
<1> QED BY <1>1, <1>2, <1>3, <1>4, <1>5, <1>6, <1>7 DEF Callback

(* The joint invariant of types, threads and callbacks.                    *)
LEMMA DeviceInvariance == Spec => [](TypeOK /\ ThreadInv /\ CallbackInv)
<1>1. Init => TypeOK /\ ThreadInv /\ CallbackInv
  <2> SUFFICES ASSUME Init PROVE TypeOK /\ ThreadInv /\ CallbackInv
    OBVIOUS
  <2>1. ClientTypeOK /\ ThreadInv
    BY ClientInitOK DEF Init
  <2>2. PetTypeOK
    <3>1. 0 \in {FanDuty[s] : s \in FanSpeeds}
      BY DEF FanDuty, FanSpeeds
    <3>2. gState \in PetState
      BY DEF Init, InitialPetState, PetState, Directions, Amplitudes, FanSpeeds
    <3>3. pose \in [Parts -> Int]
      BY DEF Init, CenterAngle
    <3> QED BY <3>1, <3>2, <3>3 DEF Init, PetTypeOK, AppPcs
  <2>3. CallbackInv
    BY DEF Init, ClientInit, CallbackInv, AppCode
  <2> QED BY <2>1, <2>2, <2>3 DEF TypeOK
<1>2. TypeOK /\ ThreadInv /\ CallbackInv /\ [Next]_vars
        => (TypeOK /\ ThreadInv /\ CallbackInv)'
  BY TypeStep, CallbackInvStep, DeviceStep, ThreadInvStep DEF TypeOK
<1> QED BY <1>1, <1>2, PTL DEF Spec

(* Every variable of the firmware keeps its type (main.c 56-82).           *)
THEOREM DeviceTypeCorrect == Spec => []TypeOK
BY DeviceInvariance, PTL

(* The firmware is one of the applications the client's theorems are about: *)
(* each of its steps is a client step or leaves the client alone.          *)
THEOREM DeviceImplementsClient == Spec => ClientSpec
<1>1. Init => ClientInit
  BY DEF Init
<1>2. TypeOK /\ CallbackInv /\ [Next]_vars => [ClientNext]_clientVars
  BY DeviceStep
<1> QED BY <1>1, <1>2, DeviceInvariance, PTL DEF Spec, ClientSpec

(* So the firmware's threads are joined before main frees what they use,   *)
(* its heartbeat is silent after "offline", its joins end, and its         *)
(* responses are ordered and complete.                                     *)
THEOREM DeviceThreadsOutlived ==
  /\ Spec => [](ThreadsOutlived /\ HeartbeatSilentAfterOffline /\ CommandAnswered)
  /\ Spec => RepliesInOrder /\ []JoinsEnd
BY DeviceImplementsClient, ClientThreadsOutlived, ClientHeartbeatSilent,
   ClientCommandAnswered, ClientRepliesInOrder, ClientJoinsEnd, PTL

-----------------------------------------------------------------------------
(* Motors.                                                                 *)

LEMMA MotorsInvStep ==
  ASSUME TypeOK, ThreadInv, MotorsInv, [Next]_vars
  PROVE  MotorsInv'
<1> USE DEF mainVars, hbVars, netVars, cmdVars, MainGoto, LoopGoto, MotorsInv
<1>1. CASE MainStep /\ UNCHANGED appVars
  <2>1. UNCHANGED motors
    BY <1>1 DEF appVars
  <2>2. CASE New \/ Connect \/ LoopStart \/ HeartbeatFlag \/ HeartbeatCreate
    BY <2>1, <2>2 DEF New, Connect, LoopStart, HeartbeatFlag, HeartbeatCreate
  <2>3. CASE Stop
    BY <2>1, <2>3 DEF Stop, ThreadInv, BeforeHeartbeat
  <2>4. CASE DisconnectFlag \/ DisconnectJoin \/ DisconnectOffline
    BY <2>1, <2>4 DEF DisconnectFlag, DisconnectJoin, DisconnectOffline
  <2>5. CASE DisconnectMosquitto \/ DisconnectLoopStop \/ Destroy
    BY <2>1, <2>5 DEF DisconnectMosquitto, DisconnectLoopStop, Destroy
  <2> QED BY <1>1, <2>2, <2>3, <2>4, <2>5 DEF MainStep
<1>2. CASE PetSetup
  BY <1>2 DEF PetSetup, Setup
<1>3. CASE PetTeardown
  BY <1>3 DEF PetTeardown, Teardown
<1>4. CASE UNCHANGED <<mainPc, caller, motors>>
  BY <1>4
<1>5. Loop => UNCHANGED <<mainPc, caller, motors>>
  <2>1. LoopStep => UNCHANGED <<mainPc, caller>>
    BY DEF LoopStep, ConnAck, Subscribe, Hello, ReadMessage, Respond, OnDisconnect,
       Reconnect, LoopExit
  <2>2. Callback => UNCHANGED <<mainPc, caller, motors>>
    BY DEF Callback, Reject, StartCommand, MotorStep, UpdateState, ReportStatus,
       ReportTelemetry, EmitEvent, ReplyOk, AnnounceStatus, AnnounceTelemetry, Announced,
       HandlerReturn, AppStatus, AppTelemetry, AppEvent, OnConnectReturn, clientVars
  <2> QED BY <2>1, <2>2 DEF Loop, appVars
<1>6. Beat => UNCHANGED <<mainPc, caller, motors>>
  BY DEF Beat, HeartbeatStep, HeartbeatCheck, HeartbeatTick, HeartbeatSend, appVars
<1>7. Environment => UNCHANGED <<mainPc, caller, motors>>
  BY DEF Environment, EnvStep, Signal, LinkBreaks, PlatformSend, appVars
<1>8. UNCHANGED vars => UNCHANGED <<mainPc, caller, motors>>
  BY DEF vars, clientVars, appVars
<1> QED
  BY <1>1, <1>2, <1>3, <1>4, <1>5, <1>6, <1>7, <1>8 DEF Next, Main

(* No stepper is driven unless pet_motors_init succeeded and               *)
(* pet_motors_deinit has not begun (main.c 537-570): the thread that       *)
(* drives them is joined before.                                           *)
THEOREM DeviceMotorsOutliveCommands == Spec => []MotorsOutliveCommands
<1>1. Init => MotorsInv
  BY DEF Init, ClientInit, MotorsInv
<1>2. TypeOK /\ ThreadInv /\ CallbackInv /\ MotorsInv => MotorsOutliveCommands
  BY DEF TypeOK, ClientTypeOK, ThreadInv, CallbackInv, MotorsInv, MotorsOutliveCommands,
     AppCode, BeforeLoop
<1>3. TypeOK /\ ThreadInv /\ MotorsInv /\ [Next]_vars => MotorsInv'
  BY MotorsInvStep
<1> QED BY <1>1, <1>2, <1>3, DeviceInvariance, PTL DEF Spec

-----------------------------------------------------------------------------
(* Poses.                                                                  *)

(* While a command is under way the network thread stays in its callback   *)
(* and keeps its command.                                                  *)
LEMMA MotionKeepsCommand ==
  ASSUME ThreadInv, CallbackInv, [Next]_vars, ~Callback, appPc = "motor"
  PROVE  cur' = cur
BY EntersCallback DEF CallbackInv, AppCode, Hello, ReadMessage, LoopGoto, cmdVars

LEMMA PoseInvStep ==
  ASSUME TypeOK, ThreadInv, CallbackInv, MotorsInv, PoseInv, [Next]_vars
  PROVE  PoseInv'
<1> USE DEF AppGoto
<1> DEFINE Snapshot(p) == IF gState.active[p]
                            THEN PoseAngle(gState.direction[p], gState.amplitude[p])
                            ELSE CenterAngle
           Ahead == IF todo = <<>> THEN pose[PartOf(cur.msg)] ELSE todo[Len(todo)]
           Spinning == fan \in {FanDuty[gState.fan_speed], FanDead}
<1>0. /\ \A p \in Parts : ~Moving(p) => pose[p] = Snapshot(p)
      /\ \A p \in Parts : Moving(p) => Goal(cur.msg) = Ahead
      /\ motors # "freed" => Spinning
  BY DEF PoseInv, Moving
<1> SUFFICES /\ \A p \in Parts : ~Moving(p)' => (pose[p] = Snapshot(p))'
             /\ \A p \in Parts : Moving(p)' => (Goal(cur.msg) = Ahead)'
             /\ motors' # "freed" => Spinning'
  BY DEF PoseInv, Moving
<1> HIDE DEF PoseInv
<1>1. CASE ~Callback
  <2>1. UNCHANGED <<pose, gState, appPc, todo>>
    BY <1>1, AppVarsMove
  <2>2. appPc = "motor" => cur' = cur
    BY <1>1, MotionKeepsCommand
  <2>3. motors' # "freed" => fan' = fan /\ motors # "freed"
    BY <1>1 DEF Next, Main, Loop, Beat, Environment, PetSetup, PetTeardown, vars, appVars,
       Setup, MainGoto, MotorsInv
  <2> QED
    BY <1>0, <2>1, <2>2, <2>3 DEF Moving, Goal
<1>2. CASE Reject \/ ReplyOk \/ ReportStatus \/ ReportTelemetry \/ EmitEvent
           \/ AnnounceStatus \/ AnnounceTelemetry \/ Announced
  <2>1. UNCHANGED <<pose, fan, motors, gState>>
    BY <1>2 DEF Reject, ReplyOk, ReportStatus, ReportTelemetry, EmitEvent,
       AnnounceStatus, AnnounceTelemetry, Announced
  <2>2. appPc # "motor" /\ appPc' # "motor"
    BY <1>2 DEF Reject, ReplyOk, ReportStatus, ReportTelemetry, EmitEvent,
       AnnounceStatus, AnnounceTelemetry, Announced
  <2> QED BY <1>0, <2>1, <2>2 DEF Moving
<1>3. CASE StartCommand
  <2>1. UNCHANGED <<pose, fan, motors, gState, cur>>
    BY <1>3 DEF StartCommand, clientVars, cmdVars
  <2>2. appPc # "motor" /\ todo' = Targets(cur.msg)
    BY <1>3 DEF StartCommand
  <2>3. ~IsFan(cur.msg) => Goal(cur.msg) = todo'[Len(todo')] /\ todo' # <<>>
    BY <1>3, <2>2, AcceptedCommand, TargetsType DEF StartCommand, Goal
  <2> QED BY <1>0, <2>1, <2>2, <2>3 DEF Moving, Goal
<1>4. CASE MotorStep
  <2>1. UNCHANGED <<fan, motors, gState, cur, appPc>> /\ appPc = "motor"
    BY <1>4 DEF MotorStep, clientVars, cmdVars
  <2>2. ~IsFan(cur.msg)
    BY <1>4 DEF MotorStep, CallbackInv
  <2>3. PartOf(cur.msg) \in Parts
    BY DEF PartOf, Parts
  <2>4. pose' = [pose EXCEPT ![PartOf(cur.msg)] = Head(todo)] /\ pose \in [Parts -> Int]
    BY <1>4 DEF MotorStep, TypeOK, PetTypeOK
  <2>5. todo \in Seq(Int) /\ todo # <<>> /\ todo' = Tail(todo)
    BY <1>4 DEF MotorStep, TypeOK, PetTypeOK
  <2>6. IF todo' = <<>> THEN Head(todo) = todo[Len(todo)]
                        ELSE todo'[Len(todo')] = todo[Len(todo)]
    BY <2>5
  <2>7. Ahead' = todo[Len(todo)]
    BY <2>1, <2>3, <2>4, <2>6
  <2> QED BY <1>0, <2>1, <2>2, <2>3, <2>4, <2>5, <2>7 DEF Moving, Goal
<1>5. CASE UpdateState
  <2> DEFINE m == cur.msg
  <2>1. UNCHANGED <<motors, pose, todo, cur>> /\ todo = <<>>
        /\ appPc = "motor" /\ appPc' # "motor"
    BY <1>5 DEF UpdateState, clientVars, cmdVars
  <2>2. gState' = Apply(m, gState) /\ gState \in PetState
    BY <1>5 DEF UpdateState, TypeOK, PetTypeOK
  <2>3. CASE IsFan(m)
    <3>1. gState' = [gState EXCEPT !.fan_speed = m.speed]
      BY <2>2, <2>3 DEF Apply
    <3>2. \A p \in Parts : Snapshot(p)' = Snapshot(p)
      BY <2>2, <3>1 DEF PetState
    <3>3. fan' \in {FanDuty[m.speed], FanDead}
      BY <1>5, <2>3 DEF UpdateState
    <3>4. gState'.fan_speed = m.speed
      BY <2>2, <3>1 DEF PetState
    <3> QED BY <1>0, <2>1, <2>3, <3>2, <3>3, <3>4 DEF Moving
  <2>4. CASE ~IsFan(m)
    <3>1. PartOf(m) \in Parts
      BY DEF PartOf, Parts
    <3>2. gState' = [gState EXCEPT
                       !.active[PartOf(m)]    = IsMove(m),
                       !.direction[PartOf(m)] = IF IsMove(m) THEN m.direction ELSE @,
                       !.amplitude[PartOf(m)] = IF IsReset(m) THEN @ ELSE m.amplitude]
      BY <2>2, <2>4 DEF Apply
    <3>3. fan' = fan /\ gState'.fan_speed = gState.fan_speed
      BY <1>5, <2>2, <2>4, <3>2 DEF UpdateState, PetState
    <3>4. ASSUME NEW p \in Parts, p # PartOf(m) PROVE Snapshot(p)' = Snapshot(p)
      BY <2>2, <3>1, <3>2, <3>4 DEF PetState
    <3>5. Snapshot(PartOf(m))' = Goal(m)
      <4>1. gState'.active[PartOf(m)] = IsMove(m)
        BY <2>2, <3>1, <3>2 DEF PetState
      <4>2. CASE IsMove(m)
        <5>1. ~IsReset(m)
          BY <4>2 DEF IsMove, IsReset
        <5>2. gState'.direction[PartOf(m)] = m.direction
              /\ gState'.amplitude[PartOf(m)] = m.amplitude
          BY <2>2, <3>1, <3>2, <4>2, <5>1 DEF PetState
        <5> QED BY <2>1, <4>1, <4>2, <5>2 DEF Goal
      <4>3. CASE ~IsMove(m)
        BY <2>1, <4>1, <4>3 DEF Goal
      <4> QED BY <4>2, <4>3
    <3>6. pose[PartOf(m)] = Goal(m)
      BY <1>0, <2>1, <2>4, <3>1 DEF Moving
    <3> QED BY <1>0, <2>1, <2>4, <3>3, <3>4, <3>5, <3>6 DEF Moving
  <2> QED BY <2>3, <2>4
<1> QED BY <1>1, <1>2, <1>3, <1>4, <1>5 DEF Callback

(* Whenever no motion is under way for a part, the snapshot's angle of     *)
(* that part is where pet_motors.c sent its stepper (main.c 361-411).      *)
THEOREM DevicePoseMatchesState == Spec => []PoseMatchesState
<1>1. Init => MotorsInv /\ PoseInv
  <2> SUFFICES ASSUME Init PROVE MotorsInv /\ PoseInv
    OBVIOUS
  <2>1. MotorsInv
    BY DEF Init, ClientInit, MotorsInv
  <2>2. \A p \in Parts : pose[p] = CenterAngle /\ gState.active[p] = FALSE
    BY DEF Init, InitialPetState
  <2>3. fan = FanDuty[gState.fan_speed] /\ appPc # "motor"
    BY DEF Init, InitialPetState, FanDuty
  <2> QED BY <2>1, <2>2, <2>3 DEF PoseInv, Moving
<1>2. PoseInv => PoseMatchesState
  BY DEF PoseInv, Moving, PoseMatchesState
<1>3. TypeOK /\ ThreadInv /\ CallbackInv /\ MotorsInv /\ PoseInv /\ [Next]_vars
        => MotorsInv' /\ PoseInv'
  BY MotorsInvStep, PoseInvStep
<1> QED BY <1>1, <1>2, <1>3, DeviceInvariance, PTL DEF Spec

-----------------------------------------------------------------------------
(* What the platform is told.                                              *)

(* A publish on an established connection arrives; none on another one     *)
(* that is not connecting does; the other fields stay.                     *)
LEMMA StatusArrives ==
  ASSUME TypeOK, NEW s, NEW doc, SendStatus(s, doc)
  PROVE  /\ platform'.view = platform.view /\ platform'.event = platform.event
         /\ doc = None => platform'.shown = platform.shown
         /\ doc # None /\ link = "up" => platform'.shown = doc
BY DEF TypeOK, ClientTypeOK, Platform, SendStatus, Publish

LEMMA TelemetryArrives ==
  ASSUME TypeOK, NEW doc, SendTelemetry(doc)
  PROVE  /\ platform'.shown = platform.shown /\ platform'.event = platform.event
         /\ link = "up" => platform'.view = doc
BY DEF TypeOK, ClientTypeOK, Platform, SendTelemetry, Publish

LEMMA EventArrives ==
  ASSUME TypeOK, NEW doc, SendEvent(doc)
  PROVE  /\ platform'.shown = platform.shown /\ platform'.view = platform.view
         /\ link = "up" => platform'.event = doc
BY DEF TypeOK, ClientTypeOK, Platform, SendEvent, Publish

LEMMA RespondKeepsView ==
  ASSUME TypeOK, Respond
  PROVE  /\ platform'.shown = platform.shown /\ platform'.view = platform.view
         /\ platform'.event = platform.event
BY DEF TypeOK, ClientTypeOK, Platform, Respond, Publish

(* A state of the pet is a document.                                       *)
LEMMA StateIsNotNone ==
  ASSUME TypeOK
  PROVE  gState # None
BY DaClientAssumption, PetDeviceAssumption
   DEF DaClientAssumption, PetDeviceAssumption, TypeOK, PetTypeOK

(* Main, heartbeat and environment publish a bare status or nothing.       *)
LEMMA OthersPublish ==
  ASSUME [Next]_vars, ~Loop
  PROVE  UNCHANGED platform \/ SendStatus("online", None) \/ SendStatus("offline", None)
BY DEF Next, Main, MainStep, New, Connect, LoopStart, HeartbeatFlag, HeartbeatCreate,
   Stop, DisconnectFlag, DisconnectJoin, DisconnectOffline, DisconnectMosquitto,
   DisconnectLoopStop, Destroy, PetSetup, PetTeardown, Setup, Teardown, Beat,
   HeartbeatStep, HeartbeatCheck, HeartbeatTick, HeartbeatSend, Environment, EnvStep,
   Signal, LinkBreaks, PlatformSend, vars, clientVars

(* They leave the command in hand and the state alone.                     *)
LEMMA OthersKeepCommand ==
  ASSUME [Next]_vars, ~Loop
  PROVE  UNCHANGED <<gState, payload, appPc, cur, resp>>
BY DEF Next, Main, MainStep, New, Connect, LoopStart, HeartbeatFlag, HeartbeatCreate,
   Stop, DisconnectFlag, DisconnectJoin, DisconnectOffline, DisconnectMosquitto,
   DisconnectLoopStop, Destroy, PetSetup, PetTeardown, Setup, Teardown, Beat,
   HeartbeatStep, HeartbeatCheck, HeartbeatTick, HeartbeatSend, Environment, EnvStep,
   Signal, LinkBreaks, PlatformSend, vars, clientVars, cmdVars, appVars

(* They start the network thread and take the connection down, and that is *)
(* all they do to the session.                                             *)
LEMMA OthersKeepSession ==
  ASSUME TypeOK, ThreadInv, [Next]_vars, ~Loop
  PROVE  /\ subscribed' = subscribed
         /\ loopPc' # loopPc => loopPc = "none" /\ loopPc' = "idle" /\ link' = link
         /\ link' # link => link' # "up" /\ (link' = "connecting" \/ link' = "down" => loopPc = "none")
         /\ inbox' # inbox => subscribed
<1> USE DEF mainVars, hbVars, netVars, cmdVars, MainGoto
<1>1. CASE UNCHANGED <<loopPc, link, subscribed, inbox>>
  BY <1>1
<1>2. CASE Connect
  BY <1>2 DEF Connect, ThreadInv, BeforeLoop
<1>3. CASE LoopStart
  BY <1>3 DEF LoopStart, ThreadInv, BeforeLoop
<1>4. CASE DisconnectMosquitto
  BY <1>4 DEF DisconnectMosquitto, TypeOK, ClientTypeOK, Links
<1>5. CASE LinkBreaks
  BY <1>5 DEF LinkBreaks
<1>6. CASE \E m \in Messages : PlatformSend(m)
  BY <1>6 DEF PlatformSend
<1>7. New \/ HeartbeatFlag \/ HeartbeatCreate \/ Stop \/ DisconnectFlag \/ DisconnectJoin
        \/ DisconnectOffline \/ DisconnectLoopStop \/ Destroy \/ PetSetup \/ PetTeardown
        \/ Beat \/ Signal \/ UNCHANGED vars
      => UNCHANGED <<loopPc, link, subscribed, inbox>>
  BY DEF New, HeartbeatFlag, HeartbeatCreate, Stop, DisconnectFlag, DisconnectJoin,
     DisconnectOffline, DisconnectLoopStop, Destroy, PetSetup, PetTeardown, Setup,
     Teardown, Beat, HeartbeatStep, HeartbeatCheck, HeartbeatTick, HeartbeatSend, Signal,
     vars, clientVars
<1> QED
  BY <1>1, <1>2, <1>3, <1>4, <1>5, <1>6, <1>7
     DEF Next, Main, MainStep, Environment, EnvStep

LEMMA ReportInvStep ==
  ASSUME TypeOK, ThreadInv, CallbackInv, ReportInv, [Next]_vars
  PROVE  ReportInv'
<1> USE DEF ReportInv, ToldByStatus, ToldByTelemetry, mainVars, hbVars, netVars, cmdVars,
            LoopGoto, AppGoto, AppCode
<1>1. CASE ~Loop
  <2>1. UNCHANGED <<gState, appPc>>
    BY <1>1, OthersKeepCommand
  <2>2. platform'.shown = platform.shown /\ platform'.view = platform.view
    BY <1>1, OthersPublish, StatusArrives
  <2> QED BY <1>1, <2>1, <2>2, OthersKeepSession
<1>2. CASE LoopStep /\ UNCHANGED appVars
  <2> USE <1>2 DEF appVars
  <2>1. CASE ConnAck \/ Reconnect \/ LoopExit
    BY <2>1 DEF ConnAck, Reconnect, LoopExit
  <2>6. CASE Subscribe
    <3>1. UNCHANGED <<link, inbox, platform>> /\ loopPc = "subscribe"
      BY <2>6 DEF Subscribe
    <3>2. CASE loopPc' = "hello" /\ subscribed' = (link = "up")
      BY <3>1, <3>2
    <3>3. CASE loopPc' = "idle" /\ UNCHANGED subscribed
      BY <3>1, <3>3
    <3> QED BY <2>6, <3>2, <3>3 DEF Subscribe
  <2>2. CASE Hello
    BY <2>2, StatusArrives DEF Hello, CallbackInv
  <2>3. CASE ReadMessage
    BY <2>3 DEF ReadMessage, CallbackInv
  <2>4. CASE Respond
    BY <2>4, RespondKeepsView DEF Respond
  <2>5. CASE OnDisconnect
    BY <2>5 DEF OnDisconnect
  <2> QED BY <1>2, <2>1, <2>2, <2>3, <2>4, <2>5, <2>6 DEF LoopStep
<1>3. CASE Callback
  <2>1. CASE Reject \/ ReplyOk
    BY <2>1 DEF Reject, ReplyOk, HandlerReturn
  <2>2. CASE StartCommand \/ MotorStep
    BY <2>2 DEF StartCommand, MotorStep, clientVars
  <2>3. CASE UpdateState
    BY <2>3 DEF UpdateState, clientVars, CallbackInv
  <2>4. CASE ReportStatus \/ AnnounceStatus
    BY <2>4, StatusArrives, StateIsNotNone
       DEF ReportStatus, AnnounceStatus, AppStatus, CallbackInv
  <2>5. CASE ReportTelemetry \/ AnnounceTelemetry
    BY <2>5, TelemetryArrives DEF ReportTelemetry, AnnounceTelemetry, AppTelemetry
  <2>6. CASE EmitEvent
    BY <2>6, EventArrives DEF EmitEvent, AppEvent
  <2>7. CASE Announced
    BY <2>7 DEF Announced, OnConnectReturn
  <2> QED BY <1>3, <2>1, <2>2, <2>3, <2>4, <2>5, <2>6, <2>7 DEF Callback
<1> QED BY <1>1, <1>2, <1>3 DEF Loop

LEMMA ReportInvariance == Spec => []ReportInv
<1>1. Init => ReportInv
  BY DEF Init, ClientInit, ReportInv, ToldByStatus, ToldByTelemetry
<1>2. TypeOK /\ ThreadInv /\ CallbackInv /\ ReportInv /\ [Next]_vars => ReportInv'
  BY ReportInvStep
<1> QED BY <1>1, <1>2, DeviceInvariance, PTL DEF Spec

(* At rest on an established session the platform's status and telemetry   *)
(* tell the device's state, whatever was lost before (main.c 469-477).     *)
THEOREM DevicePlatformUpToDate == Spec => []PlatformUpToDate
<1>1. ReportInv => PlatformUpToDate
  BY DEF ReportInv, ToldByStatus, ToldByTelemetry, PlatformUpToDate
<1> QED BY <1>1, ReportInvariance, PTL

LEMMA ReplyInvStep ==
  ASSUME TypeOK, ThreadInv, CallbackInv, ReplyInv, [Next]_vars
  PROVE  ReplyInv'
<1> USE DEF ReplyInv, mainVars, hbVars, netVars, cmdVars, LoopGoto, AppGoto, AppCode
<1>1. CASE ~Loop
  <2>1. UNCHANGED <<gState, payload, appPc, cur, resp>>
    BY <1>1, OthersKeepCommand
  <2>2. platform'.event = platform.event
    BY <1>1, OthersPublish, StatusArrives
  <2> QED BY <1>1, <2>1, <2>2, OthersKeepSession
<1>2. CASE LoopStep /\ UNCHANGED appVars
  <2> USE <1>2 DEF appVars
  <2>1. CASE ConnAck \/ Subscribe \/ Reconnect \/ LoopExit
    BY <2>1 DEF ConnAck, Subscribe, Reconnect, LoopExit
  <2>2. CASE Hello
    BY <2>2 DEF Hello
  <2>3. CASE ReadMessage
    BY <2>3 DEF ReadMessage, CallbackInv
  <2>4. CASE Respond \/ OnDisconnect
    BY <2>4 DEF Respond, OnDisconnect
  <2> QED BY <1>2, <2>1, <2>2, <2>3, <2>4 DEF LoopStep
<1>3. CASE Callback
  <2>1. CASE Reject
    <3>1. Verdict(cur.msg) # 0 /\ resp' = [ret |-> 0, code |-> Verdict(cur.msg),
                                           data |-> None, where |-> "static"]
      BY <2>1 DEF Reject, HandlerReturn
    <3> QED BY <2>1, <3>1 DEF Reject, HandlerReturn
  <2>2. CASE ReplyOk
    BY <2>2 DEF ReplyOk, HandlerReturn, CallbackInv
  <2>3. CASE StartCommand \/ MotorStep \/ UpdateState
    BY <2>3 DEF StartCommand, MotorStep, UpdateState, clientVars, CallbackInv
  <2>4. CASE ReportStatus \/ AnnounceStatus
    BY <2>4 DEF ReportStatus, AnnounceStatus, AppStatus
  <2>5. CASE ReportTelemetry \/ AnnounceTelemetry
    BY <2>5 DEF ReportTelemetry, AnnounceTelemetry, AppTelemetry
  <2>6. CASE EmitEvent
    BY <2>6, EventArrives DEF EmitEvent, AppEvent
  <2>7. CASE Announced
    BY <2>7 DEF Announced, OnConnectReturn
  <2> QED BY <1>3, <2>1, <2>2, <2>3, <2>4, <2>5, <2>6, <2>7 DEF Callback
<1> QED BY <1>1, <1>2, <1>3 DEF Loop

LEMMA ReplyInvariance == Spec => []ReplyInv
<1>1. Init => ReplyInv
  BY DEF Init, ClientInit, ReplyInv
<1>2. TypeOK /\ ThreadInv /\ CallbackInv /\ ReplyInv /\ [Next]_vars => ReplyInv'
  BY ReplyInvStep
<1> QED BY <1>1, <1>2, DeviceInvariance, PTL DEF Spec

(* A response of code 0 follows the status, the telemetry and the event of *)
(* its command, and all of them tell one state (main.c 346-465, client.c   *)
(* 317-337); an error response carries none.                               *)
THEOREM DeviceReplyFollowsReports == Spec => ReplyFollowsReports
<1> DEFINE r == platform'.reply
           Follows == r # platform.reply =>
             IF r.code = 0
               THEN /\ r.data = gState
                    /\ platform.shown = gState /\ platform.view = gState
                    /\ platform.event = EventOf(cur.msg, gState)
               ELSE r.data = None
<1>1. TypeOK /\ CallbackInv /\ ReportInv /\ ReplyInv /\ [Next]_vars => [Follows]_platform
  <2> SUFFICES ASSUME TypeOK, CallbackInv, ReportInv, ReplyInv, [Next]_vars,
                      r # platform.reply
               PROVE  Follows
    OBVIOUS
  <2>1. Respond
    BY DeviceStep, OnlyRespondReplies DEF TypeOK
  <2>2. loopPc = "respond" /\ resp.where = "static"
    BY <2>1 DEF Respond, LoopGoto, ReplyInv
  <2>3. Publish([platform EXCEPT !.reply =
                  [id |-> cur.id, code |-> resp.code, data |-> resp.data]])
    BY <2>1, <2>2 DEF Respond
  <2>4. link = "up" /\ r.code = resp.code /\ r.data = resp.data
    BY <2>2, <2>3 DEF Publish, ReplyInv, TypeOK, ClientTypeOK, Platform
  <2> QED BY <2>2, <2>4 DEF ReplyInv, ReportInv, ToldByStatus, ToldByTelemetry
<1> QED
  BY <1>1, DeviceInvariance, ReportInvariance, ReplyInvariance, PTL
     DEF Spec, ReplyFollowsReports
-----------------------------------------------------------------------------
(* The firmware as the service of PetService.                              *)

(* The service speaks the command language of the firmware.                *)
LEMMA ServiceLanguage ==
  /\ Service!InitialPetState = InitialPetState
  /\ \A m : Service!Verdict(m) = Verdict(m)
  /\ \A m, s : Service!Apply(m, s) = Apply(m, s) /\ Service!EventOf(m, s) = EventOf(m, s)
  /\ Service!Idle = NoCommand
<1>1. Service!InitialPetState = InitialPetState
  BY DEF Service!InitialPetState, InitialPetState, Service!Parts, Parts
<1>2. ASSUME NEW m
      PROVE  /\ Service!IsFan(m) = IsFan(m) /\ Service!IsMove(m) = IsMove(m)
             /\ Service!IsOscillate(m) = IsOscillate(m) /\ Service!IsReset(m) = IsReset(m)
             /\ Service!PartOf(m) = PartOf(m)
  BY DEF Service!IsFan, IsFan, Service!IsMove, IsMove, Service!IsOscillate, IsOscillate,
     Service!IsReset, IsReset, Service!PartOf, PartOf, Service!HeadCommands, HeadCommands,
     Service!BodyCommands, BodyCommands
<1>3. ASSUME NEW m PROVE Service!Verdict(m) = Verdict(m)
  BY <1>2 DEF Service!Verdict, Verdict, Service!Known, Known, Service!ValidParams,
     ValidParams, Service!Directions, Directions, Service!Amplitudes, Amplitudes,
     Service!Speeds, Speeds, Service!FanSpeeds, FanSpeeds
<1>4. ASSUME NEW m, NEW s PROVE Service!Apply(m, s) = Apply(m, s)
  BY DEF Service!Apply, Apply, Service!IsFan, IsFan, Service!IsMove, IsMove,
     Service!IsReset, IsReset, Service!PartOf, PartOf, Service!HeadCommands, HeadCommands,
     Service!BodyCommands, BodyCommands
<1>5. ASSUME NEW m, NEW s PROVE Service!EventOf(m, s) = EventOf(m, s)
  BY <1>2, Zenon DEF Service!EventOf, EventOf
<1> QED BY <1>1, <1>3, <1>4, <1>5 DEF Service!Idle, NoCommand

(* What the service sees of the firmware.                                  *)
LEMMA ServiceStutters ==
  ASSUME UNCHANGED <<gState, Told, Last, Hand, CarriedOut, platform.reply>>
  PROVE  UNCHANGED Service!vars
BY DEF Service!vars

(* A report tells the state or, lost with its connection, nothing.         *)
LEMMA ReportTells ==
  ASSUME TypeOK, UNCHANGED <<gState, Last, Hand, CarriedOut>>,
         \/ SendStatus("online", gState)
         \/ SendTelemetry(gState)
         \/ InHand /\ CarriedOut /\ SendEvent(EventOf(cur.msg, gState))
  PROVE  [Service!Next]_(Service!vars)
<1>1. platform'.reply = platform.reply
  BY OtherPublishKeepsReply DEF TypeOK
<1>2. CASE SendStatus("online", gState)
  <2> DEFINE p == [platform EXCEPT !.status = "online", !.shown = gState]
  <2>1. platform' = p \/ UNCHANGED platform
    BY <1>2, StateIsNotNone DEF SendStatus, Publish
  <2>2. p.shown = gState /\ p.view = platform.view /\ p.event = platform.event
    BY DEF TypeOK, ClientTypeOK, Platform
  <2> HIDE DEF p
  <2>3. Told' = [Told EXCEPT !.status = gState] \/ UNCHANGED Told
    BY <2>1, <2>2 DEF Told
  <2> QED BY <1>1, <2>3, ServiceStutters DEF Service!Next, Service!Tell
<1>3. CASE SendTelemetry(gState)
  <2>1. Told' = [Told EXCEPT !.telemetry = gState] \/ UNCHANGED Told
    BY <1>3 DEF SendTelemetry, Publish, Told, TypeOK, ClientTypeOK, Platform
  <2> QED BY <1>1, <2>1, ServiceStutters DEF Service!Next, Service!Tell
<1>4. CASE InHand /\ CarriedOut /\ SendEvent(EventOf(cur.msg, gState))
  <2>1. Told' = [Told EXCEPT !.event = EventOf(cur.msg, gState)] \/ UNCHANGED Told
    BY <1>4 DEF SendEvent, Publish, Told, TypeOK, ClientTypeOK, Platform
  <2>2. Hand.msg = cur.msg
    BY <1>4 DEF Hand
  <2> QED
    BY <1>1, <1>4, <2>1, <2>2, ServiceStutters, ServiceLanguage
       DEF Service!Next, Service!Tell
<1> QED BY <1>2, <1>3, <1>4

(* A command in hand is one.                                               *)
LEMMA HandIsCommand ==
  ASSUME TypeOK, OrderInv, InHand
  PROVE  Hand = cur /\ Hand # Service!Idle
BY ReplyIsNumbered, ServiceLanguage
   DEF InHand, Hand, OrderInv, TypeOK, NoCommand

(* Reading a message takes the command or, if it cannot be parsed, loses   *)
(* it; so does the end of the connection with all that waited.             *)
LEMMA ReadTakes ==
  ASSUME TypeOK, CallbackInv, OrderInv, ReadMessage, UNCHANGED appVars
  PROVE  [Service!Next]_(Service!vars)
<1> DEFINE first == Head(inbox)
<1>1. inbox \in Seq(Command) /\ inbox # <<>> /\ inbox' = Tail(inbox)
  BY DEF ReadMessage, TypeOK, ClientTypeOK
<1>2. first \in Command /\ first.id \in 1..MaxSent /\ first.msg \in Messages
  <2>1. first \in Command
    BY <1>1
  <2> QED BY <2>1 DEF Command
<1>3. Last = first.id - 1 /\ Last' \in Int /\ Last' >= first.id
  <2>1. CASE Tail(inbox) = <<>>
    BY <1>1, <1>2, <2>1, TailIds, ReplyIsNumbered
       DEF Last, OrderInv, ReadMessage, TypeOK
  <2>2. CASE Tail(inbox) # <<>>
    <3>1. Head(Tail(inbox)) = inbox[2] /\ 1 \in 1..Len(inbox) /\ 2 \in 1..Len(inbox)
          /\ first = inbox[1]
      BY <1>1, <2>2
    <3>2. inbox[2].id > inbox[1].id /\ inbox[2].id \in Nat
      BY <3>1, ReplyIsNumbered DEF OrderInv, TypeOK
    <3> QED BY <1>1, <1>2, <2>2, <3>1, <3>2 DEF Last
  <2> QED BY <2>1, <2>2
<1>4. ~InHand /\ ~CarriedOut /\ Hand = Service!Idle /\ appPc = "start"
  BY ServiceLanguage DEF ReadMessage, InHand, CarriedOut, Hand, CallbackInv, AppCode
<1>5. UNCHANGED <<gState, Told, platform.reply>>
  BY DEF ReadMessage, appVars, Told
<1>6. CASE first.msg \in WellFormed
  <2>1. Hand' = first /\ ~CarriedOut'
    BY <1>4, <1>6 DEF ReadMessage, Hand, InHand, CarriedOut, appVars
  <2>2. first = [id |-> first.id, msg |-> first.msg]
    BY <1>2 DEF Command
  <2>3. Service!Take(first.id, first.msg)
    BY <1>2, <1>3, <1>4, <1>5, <2>1, <2>2 DEF Service!Take
  <2> QED BY <1>2, <2>3 DEF Service!Next
<1>7. CASE first.msg \notin WellFormed
  <2>1. UNCHANGED <<Hand, CarriedOut>>
    BY <1>7 DEF ReadMessage, Hand, InHand, CarriedOut, appVars, NoCommand
  <2>2. Last' > Last
    BY <1>2, <1>3
  <2>3. Service!Lose
    BY <1>4, <1>5, <2>1, <2>2 DEF Service!Lose
  <2> QED BY <2>3 DEF Service!Next
<1> QED BY <1>6, <1>7

LEMMA DisconnectLoses ==
  ASSUME TypeOK, OrderInv, OnDisconnect, UNCHANGED appVars
  PROVE  [Service!Next]_(Service!vars)
<1>1. ~InHand /\ ~CarriedOut /\ Hand = Service!Idle
  BY ServiceLanguage DEF OnDisconnect, InHand, CarriedOut, Hand
<1>2. UNCHANGED <<gState, Told, Hand, CarriedOut, platform.reply>>
  BY <1>1 DEF OnDisconnect, appVars, Told, InHand, CarriedOut, Hand, NoCommand
<1>3. Last' = sent
  BY DEF OnDisconnect, Last
<1>4. CASE inbox = <<>>
  BY <1>2, <1>3, <1>4, ServiceStutters DEF Last
<1>5. CASE inbox # <<>>
  <2>1. Head(inbox) = inbox[1] /\ 1 \in 1..Len(inbox)
    BY <1>5, TailIds DEF TypeOK, ClientTypeOK
  <2>2. Last = inbox[1].id - 1 /\ inbox[1].id <= sent /\ inbox[1].id \in Nat /\ sent \in Nat
    BY <1>5, <2>1, ReplyIsNumbered DEF Last, OrderInv, TypeOK
  <2> QED BY <1>1, <1>2, <1>3, <2>2 DEF Service!Next, Service!Lose
<1> QED BY <1>4, <1>5

(* The response answers, or is lost with its connection.                   *)
LEMMA RespondAnswers ==
  ASSUME TypeOK, CallbackInv, OrderInv, ReportInv, ReplyInv, Respond, UNCHANGED appVars
  PROVE  [Service!Next]_(Service!vars)
<1> DEFINE reply == [id |-> cur.id, code |-> resp.code, data |-> resp.data]
<1>1. loopPc = "respond" /\ loopPc' = "idle" /\ resp.where = "static"
  BY DEF Respond, LoopGoto, ReplyInv
<1>2. Hand = cur /\ Hand # Service!Idle
  BY <1>1, HandIsCommand DEF InHand
<1>3. CarriedOut <=> Verdict(cur.msg) = 0
  BY <1>1 DEF CarriedOut, ReplyInv
<1>4. Service!Finished
  BY <1>2, <1>3, ServiceLanguage DEF Service!Finished
<1>5. Hand' = Service!Idle /\ ~CarriedOut'
  BY <1>1, ServiceLanguage DEF Hand, InHand, CarriedOut
<1>6. UNCHANGED <<gState, Last, Told>>
  BY RespondKeepsView DEF Respond, netVars, appVars, Last, Told
<1>7. Publish([platform EXCEPT !.reply = reply])
  BY <1>1 DEF Respond
<1>8. link # "connecting"
  BY <1>1 DEF ReplyInv
<1>9. CASE link = "up"
  <2>1. platform'.reply = reply
    BY <1>7, <1>9 DEF Publish, TypeOK, ClientTypeOK, Platform
  <2>2. CarriedOut => /\ resp.data = gState
                      /\ Told = [status |-> gState, telemetry |-> gState,
                                 event |-> EventOf(cur.msg, gState)]
    BY <1>1, <1>9 DEF CarriedOut, ReplyInv, ReportInv, ToldByStatus, ToldByTelemetry, Told
  <2>3. resp.code = Verdict(cur.msg) /\ (~CarriedOut => resp.data = None)
    BY <1>1 DEF CarriedOut, ReplyInv
  <2>4. platform'.reply = [id   |-> Hand.id, code |-> Service!Verdict(Hand.msg),
                           data |-> IF CarriedOut THEN gState ELSE None]
    BY <1>2, <2>1, <2>2, <2>3, ServiceLanguage
  <2>5. Service!Answer
    BY <1>2, <1>4, <1>5, <1>6, <2>2, <2>4, ServiceLanguage DEF Service!Answer
  <2> QED BY <2>5 DEF Service!Next
<1>10. CASE link # "up"
  <2>1. UNCHANGED platform.reply
    BY <1>7, <1>8, <1>10 DEF Publish
  <2> QED BY <1>4, <1>5, <1>6, <2>1 DEF Service!Next, Service!LoseAnswer
<1> QED BY <1>9, <1>10

(* The threads that serve no command stutter, the platform's sends too:    *)
(* what waits is taken from its head.                                      *)
LEMMA OthersStutter ==
  ASSUME TypeOK, ThreadInv, CallbackInv, OrderInv, [Next]_vars, ~Loop
  PROVE  UNCHANGED Service!vars
<1>1. UNCHANGED <<gState, appPc, cur, resp>>
  BY OthersKeepCommand
<1>2. UNCHANGED Told /\ platform'.reply = platform.reply
  BY OthersPublish, StatusArrives, OtherPublishKeepsReply DEF Told, TypeOK
<1>3. loopPc' # loopPc => loopPc = "none" /\ loopPc' = "idle"
  BY OthersKeepSession
<1>4. UNCHANGED <<Hand, CarriedOut>>
  BY <1>1, <1>3 DEF Hand, InHand, CarriedOut, NoCommand
<1>5. UNCHANGED <<inbox, sent>> \/ \E m \in Messages : PlatformSend(m)
  BY DEF Next, Main, MainStep, New, Connect, LoopStart, HeartbeatFlag, HeartbeatCreate,
     Stop, DisconnectFlag, DisconnectJoin, DisconnectOffline, DisconnectMosquitto,
     DisconnectLoopStop, Destroy, PetSetup, PetTeardown, Setup, Teardown, Beat,
     HeartbeatStep, HeartbeatCheck, HeartbeatTick, HeartbeatSend, Environment, EnvStep,
     Signal, LinkBreaks, vars, clientVars, netVars
<1>6. ASSUME NEW m \in Messages, PlatformSend(m) PROVE UNCHANGED Last
  <2>1. inbox \in Seq(Command) /\ sent \in Nat
    BY ReplyIsNumbered DEF TypeOK, ClientTypeOK
  <2>2. sent' = sent + 1 /\ inbox' = Append(inbox, [id |-> sent + 1, msg |-> m])
    BY <1>6 DEF PlatformSend
  <2>3. inbox' # <<>> /\ Head(inbox') = IF inbox = <<>> THEN [id |-> sent + 1, msg |-> m]
                                                       ELSE Head(inbox)
    BY <2>1, <2>2
  <2> QED BY <2>1, <2>3 DEF Last
<1> QED BY <1>1, <1>2, <1>4, <1>5, <1>6, ServiceStutters DEF Last

(* A step inside a callback serves the command in hand.                    *)
LEMMA CallbackServes ==
  ASSUME TypeOK, CallbackInv, OrderInv, ReplyInv, Callback
  PROVE  [Service!Next]_(Service!vars)
<1> USE DEF AppGoto, LoopGoto
<1>1. UNCHANGED Last
  BY DEF Callback, Reject, StartCommand, MotorStep, UpdateState, ReportStatus,
     ReportTelemetry, EmitEvent, ReplyOk, AnnounceStatus, AnnounceTelemetry, Announced,
     HandlerReturn, AppStatus, AppTelemetry, AppEvent, OnConnectReturn, clientVars,
     netVars, Last
<1>2. CASE Reject \/ ReplyOk
  <2>1. UNCHANGED <<platform, gState, cur>>
    BY <1>2 DEF Reject, ReplyOk, HandlerReturn
  <2>2. UNCHANGED Hand
    BY <1>2, <2>1 DEF Reject, ReplyOk, HandlerReturn, Hand, InHand
  <2>3. UNCHANGED CarriedOut
    <3>1. CASE Reject
      BY <3>1 DEF Reject, HandlerReturn, CarriedOut
    <3>2. CASE ReplyOk
      BY <3>2 DEF ReplyOk, HandlerReturn, CarriedOut
    <3> QED BY <1>2, <3>1, <3>2
  <2> QED BY <1>1, <2>1, <2>2, <2>3, ServiceStutters DEF Told
<1>3. CASE StartCommand \/ MotorStep
  <2>1. UNCHANGED <<platform, gState, cur, loopPc, resp>>
    BY <1>3 DEF StartCommand, MotorStep, clientVars, cmdVars
  <2>2. appPc \in {"start", "motor"} /\ appPc' = "motor"
    BY <1>3 DEF StartCommand, MotorStep
  <2>3. UNCHANGED <<Hand, CarriedOut>>
    BY <2>1, <2>2 DEF Hand, InHand, CarriedOut, NoCommand
  <2> QED BY <1>1, <2>1, <2>3, ServiceStutters DEF Told
<1>4. CASE UpdateState
  <2>1. UNCHANGED <<platform, cur, loopPc, resp>> /\ gState' = Apply(cur.msg, gState)
    BY <1>4 DEF UpdateState, clientVars, cmdVars
  <2>2. loopPc = "handler" /\ Verdict(cur.msg) = 0 /\ ~CarriedOut /\ CarriedOut'
    BY <1>4, <2>1 DEF UpdateState, CallbackInv, AppCode, CarriedOut
  <2>3. Hand = cur /\ Hand # Service!Idle /\ Hand' = Hand
    BY <2>1, <2>2, HandIsCommand DEF InHand, Hand
  <2>4. UNCHANGED Told
    BY <2>1 DEF Told
  <2> QED
    BY <1>1, <2>1, <2>2, <2>3, <2>4, ServiceLanguage DEF Service!Next, Service!CarryOut
<1>5. CASE ReportStatus \/ AnnounceStatus \/ ReportTelemetry \/ AnnounceTelemetry
  <2>1. UNCHANGED <<gState, loopPc, cur, resp>>
    BY <1>5 DEF ReportStatus, AnnounceStatus, ReportTelemetry, AnnounceTelemetry,
       AppStatus, AppTelemetry, cmdVars
  <2>2. UNCHANGED <<Hand, CarriedOut>>
    BY <1>5, <2>1 DEF ReportStatus, AnnounceStatus, ReportTelemetry, AnnounceTelemetry,
       AppCode, CallbackInv, Hand, InHand, CarriedOut, NoCommand
  <2>3. SendStatus("online", gState) \/ SendTelemetry(gState)
    BY <1>5 DEF ReportStatus, AnnounceStatus, ReportTelemetry, AnnounceTelemetry,
       AppStatus, AppTelemetry
  <2> QED BY <1>1, <2>1, <2>2, <2>3, ReportTells
<1>6. CASE EmitEvent
  <2>1. UNCHANGED <<gState, loopPc, cur, resp>> /\ loopPc = "handler"
        /\ SendEvent(EventOf(cur.msg, gState))
    BY <1>6 DEF EmitEvent, AppEvent, cmdVars
  <2>2. CarriedOut /\ CarriedOut' /\ InHand /\ UNCHANGED Hand
    BY <1>6, <2>1 DEF EmitEvent, CarriedOut, InHand, Hand, NoCommand
  <2>3. UNCHANGED CarriedOut
    BY <2>2 DEF CarriedOut
  <2> QED BY <1>1, <2>1, <2>2, <2>3, ReportTells
<1>7. CASE Announced
  <2>1. UNCHANGED <<gState, platform>> /\ ~InHand /\ ~InHand'
    BY <1>7 DEF Announced, OnConnectReturn, InHand
  <2>2. ~CarriedOut /\ ~CarriedOut'
    BY <2>1 DEF InHand, CarriedOut
  <2>3. UNCHANGED Hand /\ UNCHANGED CarriedOut
    BY <2>1, <2>2 DEF Hand, NoCommand, CarriedOut
  <2> QED BY <1>1, <2>1, <2>3, ServiceStutters DEF Told
<1> QED BY <1>2, <1>3, <1>4, <1>5, <1>6, <1>7 DEF Callback

(* Every step of the firmware is a step of the service or a stutter.       *)
LEMMA ServiceStep ==
  ASSUME TypeOK, ThreadInv, CallbackInv, OrderInv, ReportInv, ReplyInv, [Next]_vars
  PROVE  [Service!Next]_(Service!vars)
<1>1. CASE ~Loop
  BY <1>1, OthersStutter
<1>2. CASE Callback
  BY <1>2, CallbackServes
<1>3. CASE LoopStep /\ UNCHANGED appVars
  <2>1. CASE ReadMessage
    BY <1>3, <2>1, ReadTakes
  <2>2. CASE Respond
    BY <1>3, <2>2, RespondAnswers
  <2>3. CASE OnDisconnect
    BY <1>3, <2>3, DisconnectLoses
  <2>4. CASE ConnAck \/ Subscribe \/ Hello \/ Reconnect \/ LoopExit
    <3>1. UNCHANGED <<gState, appPc, inbox, sent, cur, resp>>
      BY <1>3, <2>4 DEF appVars, ConnAck, Subscribe, Hello, Reconnect, LoopExit, netVars,
         cmdVars
    <3>2. ~InHand /\ ~InHand'
      BY <2>4 DEF ConnAck, Subscribe, Hello, Reconnect, LoopExit, LoopGoto, InHand
    <3>3. UNCHANGED platform \/ SendStatus("online", None)
      BY <2>4 DEF ConnAck, Subscribe, Hello, Reconnect, LoopExit
    <3>4. UNCHANGED Told /\ platform'.reply = platform.reply
      BY <3>3, StatusArrives, OtherPublishKeepsReply DEF Told, TypeOK
    <3>5. UNCHANGED <<Last, Hand, CarriedOut>>
      BY <3>1, <3>2 DEF Last, Hand, InHand, CarriedOut, NoCommand
    <3> QED BY <3>1, <3>4, <3>5, ServiceStutters
  <2> QED BY <1>3, <2>1, <2>2, <2>3, <2>4 DEF LoopStep
<1> QED BY <1>1, <1>2, <1>3 DEF Loop

(* The device, with its three threads, its connections and its motors, is  *)
(* the service: a command taken from the topic is carried out once, in one *)
(* step, in the order of the ids, and what the platform is told and        *)
(* answered is what the service tells and answers (main.c 346-477,         *)
(* client.c 255-337).                                                      *)
THEOREM DeviceImplementsService == Spec => ServiceSpec
<1>1. Init => Service!Init
  BY ServiceLanguage
     DEF Init, ClientInit, Service!Init, Told, Last, Hand, InHand, CarriedOut, NoReply
<1>2. TypeOK /\ ThreadInv /\ CallbackInv /\ OrderInv /\ ReportInv /\ ReplyInv /\ [Next]_vars
        => [Service!Next]_(Service!vars)
  BY ServiceStep
<1>3. Spec => []OrderInv
  BY DeviceImplementsClient, OrderInvariance, PTL
<1> QED
  BY <1>1, <1>2, <1>3, DeviceInvariance, ReportInvariance, ReplyInvariance, PTL
     DEF Spec, ServiceSpec, Service!Spec
=============================================================================
