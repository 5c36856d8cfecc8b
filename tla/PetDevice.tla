------------------------------ MODULE PetDevice ------------------------------
(***************************************************************************)
(* The pet firmware: the application of src/src/main.c on top of the SDK   *)
(* client of DaClient.  Commands run in the libmosquitto thread, motion    *)
(* included; the main thread only starts and stops the whole.  g_state is  *)
(* what the device believes of its motors, pose and fan are what it made   *)
(* the motors do, and platform (in DaClient) is what the platform was      *)
(* told.                                                                   *)
(***************************************************************************)
EXTENDS DaClient, PetCommands

CONSTANT FanMayFail   \* pthread_create of the fan's PWM thread may fail

ASSUME PetDeviceAssumption ==
  /\ PetState \cup PetEvent \subseteq Payloads
  /\ FanMayFail \in BOOLEAN
  /\ WellFormed \subseteq [name : STRING, direction : STRING, amplitude : STRING,
                           speed : STRING, count : Seq(Int)]

VARIABLES
  motors,   \* "none", "ready" or "freed": pet_motors_init, pet_motors_deinit
  pose,     \* the angle each stepper was last sent to
  fan,      \* the duty cycle the fan runs at, or FanDead
  gState,   \* g_state
  payload,  \* g_resp_payload, "" (None) until the first report_state
  appPc,    \* where the application code is inside a callback
  todo      \* angles of the running motion still to be reached

appVars == <<motors, pose, fan, gState, payload, appPc, todo>>
vars    == <<clientVars, appVars>>

AppPcs == {"start", "motor", "status", "telemetry", "event", "reply", "return"}

PetTypeOK ==
  /\ motors \in {"none", "ready", "freed"}
  /\ pose \in [Parts -> Int]
  /\ fan \in {FanDuty[s] : s \in FanSpeeds} \cup {FanDead}
  /\ gState \in PetState
  /\ payload \in PetState \cup {None}
  /\ appPc \in AppPcs
  /\ todo \in Seq(Int)

TypeOK == ClientTypeOK /\ PetTypeOK

Init ==
  /\ ClientInit
  /\ motors = "none" /\ pose = [p \in Parts |-> CenterAngle] /\ fan = 0
  /\ gState = InitialPetState /\ payload = None
  /\ appPc = "start" /\ todo = <<>>

-----------------------------------------------------------------------------
(* The main thread: pet_motors_init centres every stepper; a failure       *)
(* releases what was allocated.  pet_motors_deinit stops the fan.          *)
PetSetup ==
  /\ \/ Setup(TRUE)  /\ motors' = "ready"
     \/ Setup(FALSE) /\ UNCHANGED motors
  /\ UNCHANGED <<pose, fan, gState, payload, appPc, todo>>

PetTeardown ==
  /\ Teardown
  /\ motors' = "freed" /\ fan' = 0
  /\ UNCHANGED <<pose, gState, payload, appPc, todo>>

-----------------------------------------------------------------------------
(* handle_command, in the libmosquitto thread.                             *)

AppGoto(from, to) == appPc = from /\ appPc' = to

Reject_NoCode ==                \* fault: the response keeps the code it came with
  /\ loopPc = "handler" /\ AppGoto("start", "start")
  /\ Verdict(cur.msg) # 0
  /\ HandlerReturn(DefaultResponse)
  /\ UNCHANGED <<motors, pose, fan, gState, payload, todo>>

(* Unknown commands and bad parameters return at once.                     *)
Reject ==
  /\ loopPc = "handler" /\ AppGoto("start", "start")
  /\ Verdict(cur.msg) # 0
  /\ HandlerReturn([ret |-> 0, code |-> Verdict(cur.msg), data |-> None,
                    where |-> "static"])
  /\ UNCHANGED <<motors, pose, fan, gState, payload, todo>>

StartCommand ==
  /\ loopPc = "handler" /\ AppGoto("start", "motor")
  /\ Verdict(cur.msg) = 0
  /\ todo' = Targets(cur.msg)
  /\ UNCHANGED <<clientVars, motors, pose, fan, gState, payload>>

(* One blocking stepper_goto.                                              *)
MotorStep ==
  /\ appPc = "motor" /\ todo # <<>>
  /\ pose' = [pose EXCEPT ![PartOf(cur.msg)] = Head(todo)]
  /\ todo' = Tail(todo)
  /\ UNCHANGED <<clientVars, motors, fan, gState, payload, appPc>>

(* The motor is done (the fan takes one call, whose result is dropped):    *)
(* g_state follows.                                                        *)
UpdateState ==
  /\ AppGoto("motor", "status") /\ todo = <<>>
  /\ IF IsFan(cur.msg)
       THEN fan' \in {FanDuty[cur.msg.speed]}
                       \cup (IF FanMayFail THEN {FanDead} ELSE {})
       ELSE UNCHANGED fan
  /\ gState' = Apply(cur.msg, gState)
  /\ UNCHANGED <<clientVars, motors, pose, payload, todo>>

(* report_state: status, telemetry, and the copy kept for the response.    *)
ReportStatus ==
  /\ AppGoto("status", "telemetry")
  /\ AppStatus(gState)
  /\ UNCHANGED <<motors, pose, fan, gState, payload, todo>>

ReportTelemetry_NoCopy ==       \* fault: g_resp_payload is not refreshed
  /\ AppGoto("telemetry", "event") /\ loopPc = "handler"
  /\ AppTelemetry(gState)
  /\ UNCHANGED <<motors, pose, fan, gState, payload, todo>>

ReportTelemetry ==
  /\ AppGoto("telemetry", "event") /\ loopPc = "handler"
  /\ AppTelemetry(gState)
  /\ payload' = gState
  /\ UNCHANGED <<motors, pose, fan, gState, todo>>

EmitEvent ==
  /\ AppGoto("event", "reply")
  /\ AppEvent(EventOf(cur.msg, gState))
  /\ UNCHANGED <<motors, pose, fan, gState, payload, todo>>

ReplyOk ==
  /\ AppGoto("reply", "start")
  /\ HandlerReturn([ret |-> 0, code |-> 0, data |-> payload, where |-> "static"])
  /\ UNCHANGED <<motors, pose, fan, gState, payload, todo>>

-----------------------------------------------------------------------------
AnnounceStatus_Silent ==        \* fault: on_connect reports nothing
  /\ loopPc = "onConnect" /\ AppGoto("start", "return")
  /\ UNCHANGED <<clientVars, motors, pose, fan, gState, payload, todo>>

(* on_connect: announce the state to a platform that may have missed it.   *)
AnnounceStatus ==
  /\ loopPc = "onConnect" /\ AppGoto("start", "telemetry")
  /\ AppStatus(gState)
  /\ UNCHANGED <<motors, pose, fan, gState, payload, todo>>

AnnounceTelemetry ==
  /\ loopPc = "onConnect" /\ AppGoto("telemetry", "return")
  /\ AppTelemetry(gState)
  /\ UNCHANGED <<motors, pose, fan, gState, payload, todo>>

Announced ==
  /\ AppGoto("return", "start")
  /\ OnConnectReturn
  /\ UNCHANGED <<motors, pose, fan, gState, payload, todo>>

-----------------------------------------------------------------------------
Callback ==
  \/ Reject \/ StartCommand \/ MotorStep \/ UpdateState
  \/ ReportStatus \/ ReportTelemetry \/ EmitEvent \/ ReplyOk
  \/ AnnounceStatus \/ AnnounceTelemetry \/ Announced

Main      == (MainStep /\ UNCHANGED appVars) \/ PetSetup \/ PetTeardown
Loop      == (LoopStep /\ UNCHANGED appVars) \/ Callback
Beat      == HeartbeatStep /\ UNCHANGED appVars
Environment == EnvStep /\ UNCHANGED appVars

Next == Main \/ Loop \/ Beat \/ Environment

Spec == Init /\ [][Next]_vars

(* Every thread keeps running (the three threads are scheduled, every      *)
(* motion ends, and libmosquitto hears of the end of a connection); the    *)
(* user and the network owe nothing.                                       *)
Fairness == WF_vars(Main) /\ WF_vars(Loop) /\ WF_vars(Beat)

FairSpec == Spec /\ Fairness

-----------------------------------------------------------------------------
(* The firmware as an implementation of PetService. A command is served    *)
(* from the call of the handler to the response; the commands that cannot  *)
(* be taken any more are those before the first one waiting.               *)
InHand == loopPc \in {"handler", "respond"}

CarriedOut ==
  \/ loopPc = "handler" /\ appPc \in {"status", "telemetry", "event", "reply"}
  \/ loopPc = "respond" /\ resp.code = 0

Told == [status |-> platform.shown, telemetry |-> platform.view,
         event |-> platform.event]

Last == IF inbox = <<>> THEN sent ELSE Head(inbox).id - 1

Hand == IF InHand THEN cur ELSE NoCommand

Service == INSTANCE PetService WITH
  state <- gState, told <- Told, last <- Last, hand <- Hand, done <- CarriedOut,
  answer <- platform.reply

(* The three threads, the reconnects and the motions together are that     *)
(* service: each command that handle_command accepts changes g_state once, *)
(* between two others and whatever happens to the connection, and the      *)
(* response that on_message_cb sends has the verdict of its own command.   *)
ServiceSpec == Service!Spec

-----------------------------------------------------------------------------
(* No stepper is driven before pet_motors_init has succeeded or after      *)
(* pet_motors_deinit has freed it, although main deinitialises while a     *)
(* command may still be in motion in the other thread: main.c 566-570 has  *)
(* da_client_disconnect join that thread first.                            *)
MotorsOutliveCommands == appPc = "motor" => motors = "ready"

(* g_state, which every snapshot is made from, agrees with where the       *)
(* motors were sent, except for the part whose motion is under way: each   *)
(* cmd_* sets flag, direction and amplitude to match the pose pet_motors   *)
(* computes on its own from the same parameters.                           *)
PoseMatchesState ==
  motors = "ready" =>
    /\ \A p \in Parts : (appPc = "motor" => IsFan(cur.msg) \/ p # PartOf(cur.msg)) =>
         pose[p] = IF gState.active[p]
                     THEN PoseAngle(gState.direction[p], gState.amplitude[p])
                     ELSE CenterAngle
    /\ fan \in {FanDuty[gState.fan_speed], FanDead}

(* Whenever the device is at rest on an established session, the platform's *)
(* picture (status and telemetry) is the device's state, also after motions *)
(* whose reports were lost with the previous connection (on_connect).       *)
PlatformUpToDate ==
  loopPc = "idle" /\ link = "up" /\ subscribed =>
    platform.view = gState /\ platform.shown = gState

(* README.md:215: a response of code 0 arrives after the status, telemetry  *)
(* and event of the same command, and all four tell the state the command   *)
(* produced; an error response carries no state.                            *)
ReplyFollowsReports ==
  [][LET r == platform'.reply IN
     r # platform.reply =>
       IF r.code = 0
         THEN /\ r.data = gState
              /\ platform.shown = gState /\ platform.view = gState
              /\ platform.event = EventOf(cur.msg, gState)
         ELSE r.data = None]_platform

(* Ctrl-C ends the program: every join of the shutdown (heartbeat thread,  *)
(* network thread, with a motion possibly under way) comes back.           *)
ShutdownCompletes == gStop ~> mainPc = "exit"

(* A command the platform sent on a connection that stays up is answered.  *)
CommandsHandled ==
  \A n \in 1..MaxSent :
    (\E i \in 1..Len(inbox) : inbox[i].id = n /\ inbox[i].msg \in WellFormed)
      ~> (platform.reply.id >= n \/ link # "up")

-----------------------------------------------------------------------------
(* Inductive strengthenings.                                               *)

(* Application code runs only inside a callback, and past "start" only for *)
(* a command it accepted.                                                  *)
CallbackInv ==
  /\ loopPc = "handler" => cur.msg \in WellFormed /\ appPc # "return"
  /\ appPc # "start" => loopPc \in AppCode
  /\ loopPc = "handler" /\ appPc # "start" => Verdict(cur.msg) = 0
  /\ loopPc = "onConnect" => appPc \in {"start", "telemetry", "return"}
  /\ todo # <<>> => appPc = "motor" /\ ~IsFan(cur.msg)

(* The motors are ready from pet_motors_init to the end of the network     *)
(* thread.                                                                 *)
MotorsInv ==
  /\ mainPc \in {"new", "setup"} => motors = "none"
  /\ caller = "app" /\ mainPc \notin {"new", "setup", "exit"} => motors = "ready"

(* While a part moves, the pose its command stands for is where it is      *)
(* heading: the last angle of the motion.                                  *)
Goal(m) == IF IsMove(m) THEN PoseAngle(m.direction, m.amplitude) ELSE CenterAngle

Moving(p) == appPc = "motor" /\ ~IsFan(cur.msg) /\ p = PartOf(cur.msg)

PoseInv ==
  /\ \A p \in Parts :
       IF Moving(p)
         THEN Goal(cur.msg) = IF todo = <<>> THEN pose[p] ELSE todo[Len(todo)]
         ELSE pose[p] = IF gState.active[p]
                          THEN PoseAngle(gState.direction[p], gState.amplitude[p])
                          ELSE CenterAngle
  /\ motors # "freed" => fan \in {FanDuty[gState.fan_speed], FanDead}

(* Whether the platform has been told g_state on this connection, by       *)
(* status and by telemetry, according to where the network thread is.      *)
ToldByStatus ==
  \/ loopPc = "idle" /\ subscribed
  \/ loopPc = "respond"
  \/ loopPc = "handler" /\ appPc # "status"
  \/ loopPc = "onConnect" /\ appPc # "start"

ToldByTelemetry ==
  \/ loopPc = "idle" /\ subscribed
  \/ loopPc = "respond"
  \/ loopPc = "handler" /\ appPc \notin {"status", "telemetry"}
  \/ loopPc = "onConnect" /\ appPc = "return"

ReportInv ==
  /\ link = "up" /\ ToldByStatus => platform.shown = gState
  /\ link = "up" /\ ToldByTelemetry => platform.view = gState
  /\ inbox # <<>> => subscribed
  /\ loopPc \in {"none", "subscribe", "exited"} => ~subscribed
  /\ link \in {"down", "connecting"} => ~subscribed

(* The response main.c prepares: the verdict of its own command and the    *)
(* copy of the state taken by report_state, after the event; callbacks     *)
(* never run while connecting.                                             *)
ReplyInv ==
  /\ link = "connecting" => loopPc \in {"none", "idle"}
  /\ loopPc = "handler" /\ appPc \in {"event", "reply"} => payload = gState
  /\ link = "up" /\ loopPc = "handler" /\ appPc = "reply" =>
       platform.event = EventOf(cur.msg, gState)
  /\ loopPc = "respond" =>
       /\ resp.where = "static" /\ resp.code = Verdict(cur.msg)
       /\ resp.code # 0 => resp.data = None
       /\ resp.code = 0 => resp.data = gState
       /\ resp.code = 0 /\ link = "up" => platform.event = EventOf(cur.msg, gState)
=============================================================================
