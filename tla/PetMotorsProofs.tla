--------------------------- MODULE PetMotorsProofs ---------------------------
(***************************************************************************)
(* Theorems about the fan driver, and about the firmware's motor layer on  *)
(* top of it, for any duties and any number of calls.                      *)
(***************************************************************************)
EXTENDS PetMotors, TLAPS

-----------------------------------------------------------------------------
(* The fan driver by itself.                                               *)

(* No step of the caller or of a PWM thread breaks a type.                 *)
LEMMA FanTypeStep ==
  ASSUME TypeOK, [Next]_vars
  PROVE  TypeOK'
<1> USE FanAssumption DEF FanAssumption, TypeOK, Goto, CallerPcs, Ids
<1>1. ASSUME NEW d \in Duties, SetCmd(d) PROVE TypeOK'
  <2>1. closing' \in BOOLEAN
    BY <1>1, Zenon DEF SetCmd
  <2>2. calls' \in 0..MaxCommands
    BY <1>1 DEF SetCmd
  <2> QED BY <1>1, <2>1, <2>2 DEF SetCmd
<1>2. CASE StopThread \/ WaitOver \/ StartThread
  BY <1>2 DEF StopThread, WaitOver, StartThread
<1>3. CASE Created \/ CreateFailed
  BY <1>3 DEF Created, CreateFailed, ThreadPcs
<1>4. CASE FreeStep
  BY <1>4 DEF FreeStep, FreeStop, FreeWaitOver, Release
<1>5. ASSUME NEW i \in Ids, Thread(i) PROVE TypeOK'
  BY <1>5 DEF Thread, Test, Fall, Rest, Fault, ThreadGoto, ThreadPcs, Ids
<1>6. CASE UNCHANGED vars
  BY <1>6 DEF vars
<1> QED BY <1>1, <1>2, <1>3, <1>4, <1>5, <1>6 DEF Next, SetCmdStep

THEOREM FanTypeCorrect == Spec => []TypeOK
<1>1. Init => TypeOK
  <2>1. 0 \in Duties /\ 0 \in 0..MaxCommands
    BY FanAssumption DEF FanAssumption
  <2> QED BY <2>1 DEF Init, TypeOK, CallerPcs, ThreadPcs
<1>2. TypeOK /\ [Next]_vars => TypeOK'
  BY FanTypeStep
<1> QED BY <1>1, <1>2, PTL DEF Spec

(* The flag is up before the thread exists, and only the next call takes   *)
(* it down.                                                                *)
FanInv ==
  /\ FanRuns
  /\ pc = "create" => runFlag
  /\ pc \in {"stop", "wait", "start", "create"} => calls \in Ids

LEMMA FanInvStep ==
  ASSUME TypeOK, FanInv, [Next]_vars
  PROVE  FanInv'
<1> USE DEF TypeOK, FanInv, FanRuns, Goto, Alive, Ids
<1>1. CASE \E d \in Duties : SetCmd(d)
  BY <1>1, FanAssumption DEF FanAssumption, SetCmd
<1>2. CASE StopThread \/ WaitOver \/ StartThread
  BY <1>2 DEF StopThread, WaitOver, StartThread
<1>3. CASE Created \/ CreateFailed
  BY <1>3 DEF Created, CreateFailed
<1>4. CASE FreeStep
  BY <1>4 DEF FreeStep, FreeStop, FreeWaitOver, Release
<1>5. ASSUME NEW i \in Ids, Thread(i) PROVE FanInv'
  <2>1. UNCHANGED <<pc, runFlag, calls, ok>>
    BY <1>5 DEF Thread, Test, Fall, Rest, Fault, ThreadGoto
  <2>2. pc # "freed" /\ runFlag /\ threads[calls] \in Alive /\ calls \in Ids
          => threads'[calls] \in Alive
    BY <1>5 DEF Thread, Test, Fall, Rest, Fault, ThreadGoto
  <2> QED BY <2>1, <2>2
<1>6. CASE UNCHANGED vars
  BY <1>6 DEF vars
<1> QED BY <1>1, <1>2, <1>3, <1>4, <1>5, <1>6 DEF Next, SetCmdStep

(* A set_cmd that returned 0 leaves a thread that runs until the next call *)
(* (drv_pwm_generic.c 189-238), whatever older threads do.                 *)
THEOREM FanKeepsRunning == Spec => []FanRuns
<1>1. Init => FanInv
  BY DEF Init, FanInv, FanRuns
<1>2. TypeOK /\ FanInv /\ [Next]_vars => FanInv'
  BY FanInvStep
<1>3. FanInv => FanRuns
  BY DEF FanInv
<1> QED BY <1>1, <1>2, <1>3, FanTypeCorrect, PTL DEF Spec

(* Between two calls every pulse that begins reads the duty of the last.   *)
LEMMA NoOldPulseStep ==
  ASSUME TypeOK, [Next]_vars, pc = "idle", pc' = "idle"
  PROVE  Outdated' \subseteq Outdated
<1>1. CASE UNCHANGED vars
  BY <1>1 DEF vars, Outdated
<1>2. CASE Next
  <2>1. PICK i \in Ids : Thread(i)
    BY <1>2 DEF Next, SetCmdStep, SetCmd, StopThread, WaitOver, StartThread, Created,
       CreateFailed, FreeStep, FreeStop, FreeWaitOver, Release, Goto
  <2>2. duty' = duty
    BY <2>1 DEF Thread, Test, Fall, Rest, Fault, ThreadGoto
  <2> SUFFICES ASSUME NEW j \in Ids, threads'[j] = "high", width'[j] # duty
               PROVE  threads[j] = "high" /\ width[j] # duty
    BY <2>2 DEF Outdated
  <2>3. CASE Test(i)
    BY <2>2, <2>3 DEF Test, ThreadGoto, TypeOK
  <2>4. CASE Fall(i) \/ Rest(i) \/ Fault(i)
    BY <2>2, <2>4 DEF Fall, Rest, Fault, ThreadGoto, TypeOK
  <2> QED BY <2>1, <2>3, <2>4 DEF Thread
<1> QED BY <1>1, <1>2

(* No thread brings an earlier speed back between two calls (lines 67-78). *)
THEOREM FanNoOldPulse == Spec => NoOldPulse
<1>1. TypeOK /\ [Next]_vars => [pc = "idle" /\ pc' = "idle" => Outdated' \subseteq Outdated]_vars
  BY NoOldPulseStep
<1> QED BY <1>1, FanTypeCorrect, PTL DEF Spec, NoOldPulse

-----------------------------------------------------------------------------
(* The motor layer. A step of the layer is, for the fan, a step of         *)
(* FanDriver, or the end of a thread that finds no line.                   *)
LEMMA FanPart ==
  ASSUME [MotorsNext]_petVars
  PROVE  [Next]_vars \/ \E i \in Ids : NoLine(i)
<1>1. CASE Alloc \/ InitMotor \/ Center \/ NoFan \/ \E i \in Steppers : FreeStepper(i)
  BY <1>1 DEF Alloc, InitMotor, Center, FreeStepper, NoFan
<1>2. CASE FanSet
  <2>1. \E d \in Duties : SetCmd(d)
    BY <1>2, FanAssumption DEF FanSet, FanAssumption
  <2> QED BY <2>1 DEF Next, SetCmdStep
<1>3. CASE FanSetStep
  BY <1>3 DEF FanSetStep, Next, SetCmdStep
<1>4. CASE FreeFan \/ ReleaseFan
  BY <1>4 DEF FreeFan, ReleaseFan, Next, FreeStep
<1>5. ASSUME NEW i \in Ids, FanThread(i) PROVE Next
  BY <1>5 DEF FanThread, Next
<1>6. CASE UNCHANGED petVars
  BY <1>6 DEF petVars
<1> QED BY <1>1, <1>2, <1>3, <1>4, <1>5, <1>6 DEF MotorsNext, MotorsStep

-----------------------------------------------------------------------------
(* Types.                                                                  *)
MotorTypes ==
  /\ mpc \in {"alloc", "init", "center", "ready", "unwind", "gone", "crashed"}
  /\ cur \in Motors
  /\ mem \in [Motors -> MemStates]
  /\ misuse \subseteq Motors

LEMMA UseType ==
  ASSUME MotorTypes, NEW i \in Motors, NEW wrong \in BOOLEAN, Use(i, wrong)
  PROVE  misuse' \subseteq Motors /\ mpc' \in {mpc, "crashed"}
BY DEF MotorTypes, Use

LEMMA MotorTypesStep ==
  ASSUME MotorTypes, [MotorsNext]_petVars
  PROVE  MotorTypes'
<1> USE DEF MotorTypes
<1>1. CASE Alloc \/ Center \/ NoFan
  BY <1>1 DEF Alloc, Center, NoFan, MemStates
<1>2. CASE InitMotor
  BY <1>2 DEF InitMotor, MemStates, Motors, Steppers, Fan
<1>3. CASE FanSet \/ FreeFan
  <2>1. Use(Fan, mem[Fan] = "dangling") /\ UNCHANGED <<cur, mem>>
    BY <1>3 DEF FanSet, FreeFan
  <2> QED BY <2>1, UseType DEF Motors
<1>4. CASE FanSetStep \/ UNCHANGED petVars \/ \E i \in Ids : NoLine(i)
  BY <1>4 DEF FanSetStep, petVars, motorVars, NoLine
<1>5. ASSUME NEW i \in Steppers, FreeStepper(i) PROVE MotorTypes'
  <2>1. Use(i, mem[i] = "dangling") /\ UNCHANGED cur /\ mem' = [mem EXCEPT ![i] = "freed"]
    BY <1>5 DEF FreeStepper
  <2> QED BY <2>1, UseType DEF Motors, MemStates
<1>6. CASE ReleaseFan
  BY <1>6 DEF ReleaseFan, Motors, MemStates
<1>7. ASSUME NEW i \in Ids, FanThread(i) PROVE MotorTypes'
  <2>1. Use(Fan, mem[Fan] = "dangling") /\ UNCHANGED <<cur, mem>>
    BY <1>7 DEF FanThread
  <2> QED BY <2>1, UseType DEF Motors
<1> QED BY <1>1, <1>2, <1>3, <1>4, <1>5, <1>6, <1>7 DEF MotorsNext, MotorsStep

LEMMA NoLineType ==
  ASSUME TypeOK, NEW i \in Ids, NoLine(i)
  PROVE  TypeOK'
BY DEF TypeOK, NoLine, ThreadGoto, ThreadPcs

-----------------------------------------------------------------------------
(* Where the motors are, by the place the firmware is at.                  *)
Starting == mpc \in {"alloc", "init", "center"}

MotorsInv ==
  /\ Starting => pc = "idle" /\ ~closing /\ calls = 0
  /\ mpc \in {"alloc", "init"} =>
       /\ \A i \in Motors : i < cur => mem[i] = "ready"
       /\ \A i \in Motors : i > cur => mem[i] = "null"
       /\ mem[cur] = IF mpc = "alloc" THEN "null" ELSE "raw"
  /\ mpc = "center" => \A i \in Motors : mem[i] = "ready"
  /\ mpc = "ready" => mem[Fan] = "ready" /\ (~closing => \A i \in Motors : mem[i] = "ready")
  /\ mpc = "unwind" => mem[Fan] \in Held \cup {"null"}
  /\ pc \in {"freeStop", "freeWait", "release", "freed"} => closing
  /\ closing => pc # "idle"
  /\ pc \in {"freeWait", "release"} => \A i \in Steppers : mem[i] \notin Held
  /\ mem[Fan] \in {"raw", "kept", "dangling"} => closing \/ calls = 0
  /\ mpc = "gone" => \A i \in Motors : mem[i] \notin Held

LEMMA MotorsInvStep ==
  ASSUME MotorTypes, TypeOK, MotorsInv, [MotorsNext]_petVars
  PROVE  MotorsInv'
<1> USE DEF MotorTypes, MotorsInv, Starting, Held, Motors, Steppers, Fan, MemStates
<1>1. CASE Alloc
  BY <1>1 DEF Alloc, vars
<1>2. CASE InitMotor
  BY <1>2 DEF InitMotor, vars
<1>3. CASE Center \/ NoFan
  BY <1>3 DEF Center, NoFan, vars
<1>4. CASE FanSet
  BY <1>4 DEF FanSet, SetCmd, Goto, Use, TypeOK
<1>5. CASE FanSetStep
  <2>1. UNCHANGED <<mpc, cur, mem, closing, calls>> /\ ~Starting
    BY <1>5 DEF FanSetStep, StopThread, WaitOver, StartThread, Created, CreateFailed, motorVars
  <2>2. \/ pc # "idle" /\ pc' \in {"wait", "start", "create"}
        \/ pc' = IF closing THEN "freeStop" ELSE "idle"
    BY <1>5 DEF FanSetStep, StopThread, WaitOver, StartThread, Created, CreateFailed, Goto
  <2> QED BY <2>1, <2>2
<1>6. ASSUME NEW i \in Steppers, FreeStepper(i) PROVE MotorsInv'
  BY <1>6 DEF FreeStepper, FanWasSet, Use, vars
<1>7. CASE FreeFan
  <2>1. /\ UNCHANGED <<cur, mem, closing, calls>> /\ pc \in {"freeStop", "freeWait"}
        /\ pc' \in {"freeWait", "release"} /\ \A i \in Steppers : mem[i] \notin Held
    BY <1>7 DEF FreeFan, FreeStop, FreeWaitOver, Goto
  <2>2. mpc \in {"ready", "unwind"} /\ mpc' \in {mpc, "crashed"}
    BY <1>7 DEF FreeFan, Use
  <2> QED BY <2>1, <2>2
<1>8. CASE ReleaseFan
  BY <1>8 DEF ReleaseFan, Release, Goto
<1>9. ASSUME NEW i \in Ids, FanThread(i) \/ NoLine(i) PROVE MotorsInv'
  BY <1>9 DEF FanThread, NoLine, Thread, Test, Fall, Rest, Fault, ThreadGoto, Use, motorVars
<1>10. CASE UNCHANGED petVars
  BY <1>10 DEF petVars, motorVars, vars
<1> QED BY <1>1, <1>2, <1>3, <1>4, <1>5, <1>6, <1>7, <1>8, <1>9, <1>10 DEF MotorsNext, MotorsStep

(* A thread that ends for want of a line was started by a command that is  *)
(* still under way: no init of the fan that failed comes before the last.  *)
LEMMA FanInvMotorsStep ==
  ASSUME MotorTypes, TypeOK, FanInv, MotorsInv, [MotorsNext]_petVars
  PROVE  FanInv'
<1>1. CASE [Next]_vars
  BY <1>1, FanInvStep
<1>2. ASSUME NEW i \in Ids, NoLine(i) PROVE FanInv'
  <2>1. pc = "idle" => calls = 0
    BY <1>2 DEF NoLine, MotorsInv
  <2>2. UNCHANGED <<pc, runFlag, calls, ok>>
    BY <1>2 DEF NoLine, ThreadGoto
  <2> QED BY <2>1, <2>2 DEF FanInv, FanRuns
<1> QED BY <1>1, <1>2, FanPart

-----------------------------------------------------------------------------
AllInv == TypeOK /\ MotorTypes /\ MotorsInv /\ FanInv

LEMMA AllInvariant == MotorsSpec => []AllInv
<1>1. MotorsInit => AllInv
  <2> SUFFICES ASSUME MotorsInit PROVE AllInv
    OBVIOUS
  <2>1. TypeOK
    <3>1. 0 \in Duties /\ 0 \in 0..MaxCommands
      BY FanAssumption DEF FanAssumption
    <3> QED BY <3>1 DEF MotorsInit, Init, TypeOK, CallerPcs, ThreadPcs
  <2>2. MotorTypes /\ MotorsInv
    BY DEF MotorsInit, Init, MotorTypes, MotorsInv, Starting, Motors, Steppers, Fan, MemStates
  <2>3. FanInv
    BY DEF MotorsInit, Init, FanInv, FanRuns
  <2> QED BY <2>1, <2>2, <2>3 DEF AllInv
<1>2. AllInv /\ [MotorsNext]_petVars => AllInv'
  <2> SUFFICES ASSUME AllInv, [MotorsNext]_petVars PROVE AllInv'
    OBVIOUS
  <2>1. TypeOK'
    BY FanPart, FanTypeStep, NoLineType DEF AllInv
  <2> QED BY <2>1, MotorTypesStep, MotorsInvStep, FanInvMotorsStep DEF AllInv
<1> QED BY <1>1, <1>2, PTL DEF MotorsSpec

(* Every variable keeps its type.                                          *)
THEOREM MotorsTypeCorrect == MotorsSpec => []MotorsTypeOK
<1>1. AllInv => MotorsTypeOK
  BY DEF AllInv, MotorTypes, MotorsTypeOK
<1> QED BY <1>1, AllInvariant, PTL

(* Motors are ready all or not at all, in whatever way one fails.          *)
THEOREM MotorsAllOrNothing == MotorsSpec => []AllOrNothing
<1>1. AllInv => AllOrNothing
  BY DEF AllInv, MotorsInv, AllOrNothing
<1> QED BY <1>1, AllInvariant, PTL

(* In the firmware too a fan command that returned 0 leaves a fan that     *)
(* runs until the next.                                                    *)
THEOREM MotorsFanRuns == MotorsSpec => []FanRuns
<1>1. AllInv => FanRuns
  BY DEF AllInv, FanInv
<1> QED BY <1>1, AllInvariant, PTL

(* And no thread of an earlier command brings its speed back.              *)
THEOREM MotorsNoOldPulse == MotorsSpec => NoOldPulse
<1>1. AllInv /\ [MotorsNext]_petVars
        => [pc = "idle" /\ pc' = "idle" => Outdated' \subseteq Outdated]_vars
  <2> SUFFICES ASSUME AllInv, [MotorsNext]_petVars, pc = "idle", pc' = "idle"
               PROVE  Outdated' \subseteq Outdated
    OBVIOUS
  <2>1. CASE [Next]_vars
    BY <2>1, NoOldPulseStep DEF AllInv
  <2>2. ASSUME NEW i \in Ids, NoLine(i) PROVE Outdated' \subseteq Outdated
    BY <2>2 DEF NoLine, ThreadGoto, Outdated, AllInv, TypeOK
  <2> QED BY <2>1, <2>2, FanPart
<1> QED BY <1>1, AllInvariant, PTL DEF MotorsSpec, NoOldPulse
===============================================================================
