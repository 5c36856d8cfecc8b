---------------------------- MODULE StepperDriver ----------------------------
(***************************************************************************)
(* One stepper of motor_pwm/src/drivers/drv_pwm_RoHS.c: calibration        *)
(* between two limit switches, moves by angle, and the two files under     *)
(* /root that carry what the driver knows over a restart:                  *)
(*   .motor_N_max_steps   the steps between the switches                   *)
(*   .motor_N_cur_angle   the angle the axis is believed to be at          *)
(* There is no encoder: the axis is where the files say only as long as    *)
(* every step was counted.                                                 *)
(*                                                                         *)
(* The axis is the environment: a switch is closed at and beyond both ends *)
(* of the travel, and a mechanical stop lies Slack steps behind it.        *)
(***************************************************************************)
EXTENDS Integers, FiniteSetsExt

CONSTANTS
  Travel,        \* steps from one limit switch to the other
  Slack,         \* steps from a switch to the mechanical stop behind it
  SwitchStates,  \* what a start may find: "works", "stuck" (never closes),
                 \* "absent" (its line cannot be requested)
  Angles,        \* angles pet_motors.c asks for
  Starts,        \* where the axis may stand when the device is new
  CutPoints,     \* steps of a run made before a crash inside it
  MaxCrashes     \* bound: crashes

ASSUME StepperAssumption ==
  /\ Travel \in Nat \ {0} /\ Slack \in Nat /\ MaxCrashes \in Nat
  /\ SwitchStates \subseteq {"works", "stuck", "absent"}
  /\ Angles \subseteq Int /\ CutPoints \subseteq Nat
  /\ Starts \subseteq -Slack .. Travel + Slack

(* drv_pwm_RoHS.c:83-91, and the pet's entry in pet_motors.c:90-103.       *)
CheckTimes    == 10      \* STEP_CHECK_TIMES
ContinueTimes == 250     \* STEP_CONTINUE_RUN_TIMES
StepMaxSteps  == 2500    \* STEP_MAX_STEPS
DefaultSteps  == 900     \* STEP_MOTOR_n_MAX_STEPS, the same for all n
ConstantRange == 60      \* constant_range
Left          == -1      \* the direction of a run, in steps of the axis
Right         == 1
Center        == 90
Missing       == -1      \* read_from_file_return_int of no file or an empty one

VARIABLES
  pc,         \* where the caller is in the driver; "off": no process
  pos,        \* where the axis is
  switch,     \* the limit switch, as this process found it
  enabled,    \* the coils are powered
  maxFile,    \* .motor_N_max_steps
  angleFile,  \* .motor_N_cur_angle
  maxSteps,   \* gpio_max_steps, lost with the process
  target,     \* the angle asked for
  crashes,    \* crashes so far
  trusted,    \* history: calibrated, then every run complete and recorded
  stalled     \* history: steps of this process's last run that the axis could
              \* not follow

files == <<maxFile, angleFile>>
axis  == <<pos, stalled>>
vars  == <<pc, axis, switch, enabled, files, maxSteps, target, crashes, trusted>>

InCalibration == {"calLeft", "calRight", "calOpenMax", "calWriteMax", "calCenter",
                  "calOpenAngle", "calWriteAngle"}
Pcs == {"off", "idle", "move", "openAngle", "writeAngle", "disable"} \cup InCalibration

TypeOK ==
  /\ pc \in Pcs
  /\ pos \in -Slack .. Travel + Slack
  /\ switch \in SwitchStates \cup {"absent"}
  /\ maxFile \in {Missing} \cup 1 .. StepMaxSteps - 11
  /\ maxSteps \in {Missing} \cup 1 .. StepMaxSteps - 11
  /\ angleFile \in {Missing, 0} \cup 60..120
  /\ crashes \in 0..MaxCrashes
  /\ enabled \in BOOLEAN /\ trusted \in BOOLEAN

Init ==
  /\ pc = "off" /\ pos \in Starts /\ switch = "absent"
  /\ enabled = FALSE /\ maxFile = Missing /\ angleFile = Missing
  /\ maxSteps = Missing /\ target = Center /\ crashes = 0 /\ trusted = FALSE
  /\ stalled = 0

-----------------------------------------------------------------------------
(* The axis.                                                               *)
SwitchClosed(p) == switch = "works" /\ (p <= 0 \/ p >= Travel)

At(p) == Max({-Slack, Min({p, Travel + Slack})})

Distance(a, b) == IF a > b THEN a - b ELSE b - a

Outcome(q, taken, returned) == [pos |-> q, taken |-> taken, returned |-> returned]

RunStepTimes_Blind(p, way, times) ==   \* fault: the switch is never looked at
  Outcome(At(p + times * way), times, times)

(* run_step_times: every 11th step looks at the switch; a run that starts  *)
(* on a closed switch first makes 250 steps blindly, to leave it.  The     *)
(* step that finds it closed is made but not counted.                      *)
RunStepTimes(p, way, times) ==
  LET after(k) == At(p + k * way)
      blind    == IF SwitchClosed(p) THEN ContinueTimes ELSE 0
      interval == CheckTimes + 1
      checked  == {blind + interval * i : i \in 1 .. (times - blind) \div interval}
      stops    == {k \in checked : SwitchClosed(after(k))}
  IN IF stops = {} THEN Outcome(after(times), times, times)
     ELSE Outcome(after(Min(stops)), Min(stops), Min(stops) - 1)

Run(way, times) ==
  LET run == RunStepTimes(pos, way, times) IN
    /\ pos' = run.pos
    /\ stalled' = run.taken - Distance(pos, run.pos)

-----------------------------------------------------------------------------
Goto(from, to) == pc = from /\ pc' = to

(* step_motor_init.  A stop line that cannot be requested is only reported *)
(* (libgpiod v1).  The angle file is made when missing or empty; that it   *)
(* then says 0 is where nothing ever put the axis.                         *)
Start_Energised ==           \* fault: init leaves the coils as it found them
  /\ Goto("off", "idle")
  /\ switch' \in SwitchStates
  /\ maxSteps' = maxFile
  /\ angleFile' = IF angleFile < 0 THEN 0 ELSE angleFile
  /\ stalled' = 0
  /\ UNCHANGED <<pos, enabled, maxFile, target, crashes, trusted>>

Start ==
  /\ Goto("off", "idle")
  /\ switch' \in SwitchStates
  /\ enabled' = FALSE
  /\ maxSteps' = maxFile
  /\ angleFile' = IF angleFile < 0 THEN 0 ELSE angleFile
  /\ stalled' = 0
  /\ UNCHANGED <<pos, maxFile, target, crashes, trusted>>

(* step_motor_free.                                                        *)
Stop ==
  /\ Goto("idle", "off")
  /\ enabled' = FALSE /\ maxSteps' = Missing
  /\ UNCHANGED <<axis, switch, files, target, crashes, trusted>>

(* step_motor_set_cmd up to the first motion: without a switch the number  *)
(* of steps is the default, with one it is calibrated when not known.      *)
SetCmd(angle) ==
  /\ pc = "idle"
  /\ target' = angle
  /\ maxSteps' = IF switch = "absent" THEN DefaultSteps ELSE maxSteps
  /\ pc' = IF maxSteps' <= 0 THEN "calLeft" ELSE "move"
  /\ UNCHANGED <<axis, switch, enabled, files, crashes, trusted>>

(* init_step_motor_max_steps.  write_int_to_file truncates, then writes.   *)
CalLeft ==
  /\ Goto("calLeft", "calRight")
  /\ enabled' = TRUE
  /\ Run(Left, StepMaxSteps)
  /\ UNCHANGED <<switch, files, maxSteps, target, crashes, trusted>>

CalRight_NoDefault ==        \* fault: what a run into the stop returned is kept
  /\ Goto("calRight", "calOpenMax")
  /\ Run(Right, StepMaxSteps)
  /\ maxSteps' = RunStepTimes(pos, Right, StepMaxSteps).returned
  /\ UNCHANGED <<switch, enabled, files, target, crashes, trusted>>

CalRight ==
  /\ Goto("calRight", "calOpenMax")
  /\ Run(Right, StepMaxSteps)
  /\ LET n == RunStepTimes(pos, Right, StepMaxSteps).returned IN
       maxSteps' = IF n >= StepMaxSteps - 10 THEN DefaultSteps ELSE n
  /\ UNCHANGED <<switch, enabled, files, target, crashes, trusted>>

CalOpenMax ==
  /\ Goto("calOpenMax", "calWriteMax")
  /\ maxFile' = Missing
  /\ UNCHANGED <<axis, switch, enabled, angleFile, maxSteps, target, crashes, trusted>>

CalWriteMax ==
  /\ Goto("calWriteMax", "calCenter")
  /\ maxFile' = maxSteps
  /\ UNCHANGED <<axis, switch, enabled, angleFile, maxSteps, target, crashes, trusted>>

CalCenter_WrongWay ==        \* fault: the axis centres away from the middle
  /\ Goto("calCenter", "calOpenAngle")
  /\ Run(Right, maxSteps \div 2)
  /\ enabled' = FALSE
  /\ UNCHANGED <<switch, files, maxSteps, target, crashes, trusted>>

CalCenter ==
  /\ Goto("calCenter", "calOpenAngle")
  /\ Run(Left, maxSteps \div 2)
  /\ enabled' = FALSE
  /\ UNCHANGED <<switch, files, maxSteps, target, crashes, trusted>>

CalOpenAngle ==
  /\ Goto("calOpenAngle", "calWriteAngle")
  /\ angleFile' = Missing
  /\ UNCHANGED <<axis, switch, enabled, maxFile, maxSteps, target, crashes, trusted>>

CalWriteAngle ==
  /\ Goto("calWriteAngle", "move")
  /\ angleFile' = Center /\ trusted' = (switch = "works")
  /\ UNCHANGED <<axis, switch, enabled, maxFile, maxSteps, target, crashes>>

(* The rest of step_motor_rotating_angle_control: the number of steps made *)
(* is not looked at, the file gets the angle asked for.                    *)
Reachable(angle) ==
  Max({Center - ConstantRange \div 2, Min({angle, Center + ConstantRange \div 2})})

StepsPerDegree(steps) == steps \div ConstantRange

MoveWay(angle)   == IF angle < angleFile THEN Left ELSE Right
MoveSteps(angle) == Distance(angleFile, angle) * StepsPerDegree(maxSteps)

Move ==
  /\ Goto("move", "openAngle")
  /\ enabled' = TRUE
  /\ target' = Reachable(target)
  /\ IF target' = angleFile THEN UNCHANGED axis ELSE Run(MoveWay(target'), MoveSteps(target'))
  /\ trusted' = (trusted /\ switch = "works")
  /\ UNCHANGED <<switch, files, maxSteps, crashes>>

OpenAngle ==
  /\ Goto("openAngle", "writeAngle")
  /\ angleFile' = Missing
  /\ UNCHANGED <<axis, switch, enabled, maxFile, maxSteps, target, crashes, trusted>>

WriteAngle ==
  /\ Goto("writeAngle", "disable")
  /\ angleFile' = target
  /\ UNCHANGED <<axis, switch, enabled, maxFile, maxSteps, target, crashes, trusted>>

Disable ==
  /\ Goto("disable", "idle")
  /\ enabled' = FALSE
  /\ UNCHANGED <<axis, switch, files, maxSteps, target, crashes, trusted>>

-----------------------------------------------------------------------------
(* The environment.                                                        *)

(* The process dies, between two steps ...                                 *)
Die ==
  /\ pc # "off" /\ crashes < MaxCrashes
  /\ pc' = "off" /\ crashes' = crashes + 1 /\ maxSteps' = Missing
  /\ trusted' = (trusted /\ pc \in {"idle", "disable"})
  /\ UNCHANGED <<files, target, switch>>

Crash == Die /\ UNCHANGED <<axis, enabled>>

(* ... or inside a run, some of whose steps are made.                      *)
CrashInRun(way, times) ==
  /\ Die
  /\ enabled' = TRUE
  /\ \E cut \in {c \in CutPoints : c < times} : Run(way, cut)

CrashInMotion ==
  \/ pc = "calLeft" /\ CrashInRun(Left, StepMaxSteps)
  \/ pc = "calRight" /\ CrashInRun(Right, StepMaxSteps)
  \/ pc = "calCenter" /\ CrashInRun(Left, maxSteps \div 2)
  \/ /\ pc = "move" /\ Reachable(target) # angleFile
     /\ CrashInRun(MoveWay(Reachable(target)), MoveSteps(Reachable(target)))

(* README.md:249: delete /root/.motor_* to calibrate anew.                 *)
DeleteFiles ==
  /\ pc \in {"off", "idle"} /\ maxFile # Missing
  /\ maxFile' = Missing /\ angleFile' = Missing /\ trusted' = FALSE
  /\ UNCHANGED <<pc, axis, switch, enabled, maxSteps, target, crashes>>

Calibrate == \/ CalLeft \/ CalRight \/ CalOpenMax \/ CalWriteMax \/ CalCenter
             \/ CalOpenAngle \/ CalWriteAngle

Next ==
  \/ Start \/ Stop
  \/ \E angle \in Angles : SetCmd(angle)
  \/ Calibrate
  \/ Move \/ OpenAngle \/ WriteAngle \/ Disable
  \/ Crash \/ CrashInMotion \/ DeleteFiles

Spec == Init /\ [][Next]_vars

-----------------------------------------------------------------------------
(* Properties.                                                             *)

(* Axes on which a calibration finds the steps between the switches, and   *)
(* on which the angles' whole range of steps fits: at a travel of 900, which *)
(* DefaultSteps stands for, the stops may be 20 steps behind the switches. *)
AxisFits == 30 * (Slack + 10) <= Travel /\ Travel + Slack <= StepMaxSteps - 20

(* The angle file tells the truth: once calibrated, and as long as no      *)
(* crash cut a motion short, the axis stands where the file says, however  *)
(* many moves were made and however many of them a switch ended early.     *)
(* step_motor_rotating_angle_control ignores what run_step_times returns,  *)
(* so nothing but this bound keeps the error from adding up.               *)
TracksAngle ==
  trusted /\ pc = "idle" /\ maxFile # Missing =>
    Distance(pos, Travel \div 2 + (angleFile - Center) * StepsPerDegree(maxFile)) 
      <= StepsPerDegree(maxFile)

(* The coils are off whenever the driver waits for a command, after a      *)
(* crash in the middle of a motion too: they would heat up unwatched.      *)
CoilsOffWhenIdle == pc = "idle" => ~enabled

(* With a working switch no run presses against the mechanical stop for    *)
(* more than the blind steps and one check interval, even from a position  *)
(* and with an angle file that a crash left wrong.                         *)
StallBounded ==
  switch = "works" => stalled <= ContinueTimes + CheckTimes + 1
=============================================================================
