------------------------------ MODULE PetMotors ------------------------------
(***************************************************************************)
(* The motor layer of the firmware (pet_motors.c) on the motor library     *)
(* (motor_core.c): three steppers and the fan are allocated and            *)
(* initialised one after the other, and pet_motors_deinit gives back what  *)
(* there is, at the end of the program and when an init failed half way.   *)
(*                                                                         *)
(* An init of a driver fails in one of two ways: it leaves its private     *)
(* data to the driver's free, as when the GPIO chip cannot be opened       *)
(* (drv_pwm_generic.c:110-113), or it frees them itself and leaves         *)
(* dev->priv_data pointing to them, as when a line cannot be requested     *)
(* (drv_pwm_generic.c:159-167, drv_pwm_RoHS.c:660). What the fan does      *)
(* between the two calls is module FanDriver; the steppers' moves are      *)
(* module StepperDriver.                                                   *)
(***************************************************************************)
EXTENDS FanDriver

Steppers == {1, 2, 3}      \* head, body, tail: the order of g_steppers
Fan      == 4
Motors   == Steppers \cup {Fan}

VARIABLES
  mpc,     \* pet_motors_init, then the program, then pet_motors_deinit
  cur,     \* the motor pet_motors_init is at
  mem,     \* what the motor's pointer, g_steppers[i] or g_fan, stands for
  misuse   \* motors whose released data or missing line were used

motorVars == <<mpc, cur, mem, misuse>>
petVars   == <<vars, motorVars>>

(* "kept" and "dangling" are the two ways an init fails.                   *)
MemStates == {"null", "raw", "ready", "kept", "dangling", "freed"}
Held == {"raw", "ready", "kept", "dangling"}

MotorsTypeOK ==
  /\ TypeOK
  /\ mpc \in {"alloc", "init", "center", "ready", "unwind", "gone", "crashed"}
  /\ cur \in Motors
  /\ mem \in [Motors -> MemStates]
  /\ misuse \subseteq Motors

MotorsInit ==
  /\ Init
  /\ mpc = "alloc" /\ cur = 1
  /\ mem = [i \in Motors |-> "null"]
  /\ misuse = {}

-----------------------------------------------------------------------------
(* motor_alloc_pwm: find the driver by name and type, then its factory,    *)
(* which fails without memory.                                             *)
Alloc ==
  /\ mpc = "alloc"
  /\ \/ mpc' = "init" /\ mem' = [mem EXCEPT ![cur] = "raw"]
     \/ mpc' = "unwind" /\ UNCHANGED mem
  /\ UNCHANGED <<vars, cur, misuse>>

InitMotor_NoUnwind ==      \* fault: the init that fails returns at once
  /\ mpc = "init"
  /\ \/ /\ mem' = [mem EXCEPT ![cur] = "ready"]
        /\ mpc' = IF cur = Fan THEN "center" ELSE "alloc"
        /\ cur' = IF cur = Fan THEN cur ELSE cur + 1
     \/ /\ \E how \in {"kept", "dangling"} : mem' = [mem EXCEPT ![cur] = how]
        /\ mpc' = "gone" /\ UNCHANGED cur
  /\ UNCHANGED <<vars, misuse>>

(* motor_init_one, that is the driver's init: success, or failure and the  *)
(* call of pet_motors_deinit.                                              *)
InitMotor ==
  /\ mpc = "init"
  /\ \/ /\ mem' = [mem EXCEPT ![cur] = "ready"]
        /\ mpc' = IF cur = Fan THEN "center" ELSE "alloc"
        /\ cur' = IF cur = Fan THEN cur ELSE cur + 1
     \/ /\ \E how \in {"kept", "dangling"} : mem' = [mem EXCEPT ![cur] = how]
        /\ mpc' = "unwind" /\ UNCHANGED cur
  /\ UNCHANGED <<vars, misuse>>

(* The three steppers move to the neutral pose; failures are not seen.     *)
Center ==
  /\ mpc = "center" /\ mpc' = "ready"
  /\ UNCHANGED <<vars, cur, mem, misuse>>

(* Using what is not there any more, or was never there, kills the process *)
(* or goes unnoticed.                                                      *)
Use(i, wrong) ==
  /\ misuse' = IF wrong THEN misuse \cup {i} ELSE misuse
  /\ \/ UNCHANGED mpc
     \/ wrong /\ mpc' = "crashed"

-----------------------------------------------------------------------------
(* pet_fan_set from the program, or as the first step of pet_motors_deinit *)
(* (`closing`); it does nothing while g_fan is NULL.                       *)
FanSet ==
  /\ \/ mpc = "ready" /\ (\E d \in Duties : SetCmd(d))
     \/ mpc = "unwind" /\ mem[Fan] \in Held /\ SetCmd(0) /\ closing'
  /\ Use(Fan, mem[Fan] = "dangling")
  /\ UNCHANGED <<cur, mem>>

FanSetStep ==
  /\ mpc \in {"ready", "unwind"}
  /\ StopThread \/ WaitOver \/ StartThread \/ Created \/ CreateFailed
  /\ UNCHANGED motorVars

(* Once the fan was told to stop, or if there is none, motor_free takes    *)
(* the steppers in turn and the fan last.                                  *)
FanWasSet == IF mem[Fan] \in Held THEN pc = "freeStop" ELSE mpc = "unwind"

FreeStepper(i) ==
  /\ mpc \in {"ready", "unwind"} /\ FanWasSet
  /\ mem[i] \in Held /\ \A j \in Steppers : j < i => mem[j] \notin Held
  /\ mem' = [mem EXCEPT ![i] = "freed"]
  /\ Use(i, mem[i] = "dangling")
  /\ UNCHANGED <<vars, cur>>

FreeFan ==
  /\ mpc \in {"ready", "unwind"}
  /\ \A i \in Steppers : mem[i] \notin Held
  /\ FreeStop \/ FreeWaitOver
  /\ Use(Fan, mem[Fan] = "dangling")
  /\ UNCHANGED <<cur, mem>>

ReleaseFan ==
  /\ mpc \in {"ready", "unwind"}
  /\ Release
  /\ mem' = [mem EXCEPT ![Fan] = "freed"]
  /\ misuse' = IF mem[Fan] = "dangling" THEN misuse \cup {Fan} ELSE misuse
  /\ mpc' = "gone"
  /\ UNCHANGED cur

NoFan ==
  /\ mpc = "unwind" /\ mem[Fan] = "null"
  /\ \A i \in Steppers : mem[i] \notin Held
  /\ mpc' = "gone"
  /\ UNCHANGED <<vars, cur, mem, misuse>>

(* The fan's threads.  One that finds no line, the fan's init having       *)
(* failed, ends at once (drv_pwm_generic.c:59-65).                         *)
NoLine(i) ==
  /\ mem[Fan] = "kept"
  /\ ThreadGoto(i, "test", "gone")
  /\ UNCHANGED <<width, motorVars>>

FanThread(i) ==
  /\ mpc # "crashed" /\ mem[Fan] # "kept"
  /\ Thread(i)
  /\ Use(Fan, mem[Fan] = "dangling")
  /\ UNCHANGED <<cur, mem>>

MotorsStep ==
  \/ Alloc \/ InitMotor \/ Center \/ FanSet \/ FanSetStep
  \/ (\E i \in Steppers : FreeStepper(i)) \/ FreeFan \/ ReleaseFan \/ NoFan

MotorsNext == MotorsStep \/ \E i \in Ids : FanThread(i) \/ NoLine(i)

(* Threads are scheduled and their sleeps end.                             *)
MotorsSpec ==
  MotorsInit /\ [][MotorsNext]_petVars /\ \A i \in Ids : WF_petVars(FanThread(i) \/ NoLine(i))

-----------------------------------------------------------------------------
(* pet_motors_init leaves all four motors ready or none allocated, at      *)
(* whichever motor and in whichever way it fails; neither does             *)
(* pet_motors_deinit leave one: "On failure no motor is left allocated"    *)
(* (pet_motors.h:55).                                                      *)
AllOrNothing ==
  /\ mpc = "ready" /\ ~closing => \A i \in Motors : mem[i] = "ready"
  /\ mpc = "gone" => \A i \in Motors : mem[i] \notin Held

(* "Returns 0 on success, -1 on failure. On failure no motor is left       *)
(* allocated" (pet_motors.h:54): what was released is not used or released *)
(* again. It does not hold: pet_motors_deinit commands and frees the motor *)
(* whose init has freed its own data.                                      *)
ReleasedOnce == misuse = {}
=============================================================================
