------------------------------ MODULE FanDriver ------------------------------
(***************************************************************************)
(* The fan's software PWM (motor_pwm/src/drivers/drv_pwm_generic.c): each  *)
(* pwm_gpio_set_cmd tells the running thread to stop, waits 1 ms, and      *)
(* starts a new detached thread; pwm_gpio_free stops it the same way and   *)
(* releases the line.                                                      *)
(*                                                                         *)
(* A sleep is no synchronisation: nothing here relates the 1 ms to the     *)
(* place the thread is at (a cycle of the pet's fan takes 100 ms), so a    *)
(* thread may or may not have seen the flag when the wait is over.         *)
(*                                                                         *)
(* The caller is one thread (PetDevice: the network thread, then main).    *)
(***************************************************************************)
EXTENDS Naturals, FiniteSets

CONSTANTS
  Duties,       \* duty cycles asked for, in percent
  MaxCommands   \* bound: calls of pwm_gpio_set_cmd, one thread each

ASSUME FanAssumption == Duties \subseteq 0..100 /\ 0 \in Duties /\ MaxCommands \in Nat \ {0}

VARIABLES
  pc,        \* where the caller is
  closing,   \* pet_motors_deinit: the last command, then free
  runFlag,   \* run_flag
  duty,      \* priv->info.duty_cycle
  started,   \* priv->thread_ptr # NULL
  threads,   \* where each PWM thread is
  width,     \* the duty cycle its latest pulse was given
  calls,     \* calls of pwm_gpio_set_cmd so far; the thread each created
  ok         \* the last call returned 0

vars == <<pc, closing, runFlag, duty, started, threads, width, calls, ok>>

Ids == 1..MaxCommands

CallerPcs == {"idle", "stop", "wait", "start", "create", "freeStop", "freeWait",
              "release", "freed"}
ThreadPcs == {"none", "test", "high", "low", "gone"}
Alive     == {"test", "high", "low"}

TypeOK ==
  /\ pc \in CallerPcs
  /\ closing \in BOOLEAN /\ runFlag \in BOOLEAN /\ started \in BOOLEAN /\ ok \in BOOLEAN
  /\ duty \in Duties
  /\ threads \in [Ids -> ThreadPcs] /\ width \in [Ids -> Duties]
  /\ calls \in 0..MaxCommands

Init ==
  /\ pc = "idle" /\ closing = FALSE
  /\ runFlag = FALSE /\ duty = 0 /\ started = FALSE
  /\ threads = [i \in Ids |-> "none"] /\ width = [i \in Ids |-> 0]
  /\ calls = 0 /\ ok = TRUE

Goto(from, to) == pc = from /\ pc' = to

-----------------------------------------------------------------------------
SetCmd_NotPercent(d) ==   \* fault: the percentage is not divided by 100
  /\ Goto("idle", "stop") /\ ~closing /\ calls < MaxCommands
  /\ calls' = calls + 1 /\ duty' = 100 * d
  /\ closing' \in IF d = 0 THEN BOOLEAN ELSE {FALSE}
  /\ UNCHANGED <<runFlag, started, threads, width, ok>>

(* pwm_gpio_set_cmd.  The duty is set first, so the thread still running   *)
(* sees it too.                                                            *)
SetCmd(d) ==
  /\ Goto("idle", "stop") /\ ~closing /\ calls < MaxCommands
  /\ calls' = calls + 1 /\ duty' = d
  /\ closing' \in IF d = 0 THEN BOOLEAN ELSE {FALSE}
  /\ UNCHANGED <<runFlag, started, threads, width, ok>>

StopThread ==
  /\ Goto("stop", IF started THEN "wait" ELSE "start")
  /\ runFlag' = IF started THEN FALSE ELSE runFlag
  /\ UNCHANGED <<closing, duty, started, threads, width, calls, ok>>

WaitOver ==
  /\ Goto("wait", "start")
  /\ started' = FALSE
  /\ UNCHANGED <<closing, runFlag, duty, threads, width, calls, ok>>

StartThread_NoFlag ==      \* fault: run_flag stays down
  /\ Goto("start", "create")
  /\ UNCHANGED <<closing, runFlag, duty, started, threads, width, calls, ok>>

StartThread ==
  /\ Goto("start", "create")
  /\ runFlag' = TRUE
  /\ UNCHANGED <<closing, duty, started, threads, width, calls, ok>>

Created ==
  /\ Goto("create", IF closing THEN "freeStop" ELSE "idle")
  /\ threads' = [threads EXCEPT ![calls] = "test"]
  /\ started' = TRUE /\ ok' = TRUE
  /\ UNCHANGED <<closing, runFlag, duty, width, calls>>

CreateFailed_FlagKept ==   \* fault: run_flag survives a failed pthread_create
  /\ Goto("create", IF closing THEN "freeStop" ELSE "idle")
  /\ started' = FALSE /\ ok' = FALSE
  /\ UNCHANGED <<closing, runFlag, duty, threads, width, calls>>

CreateFailed ==
  /\ Goto("create", IF closing THEN "freeStop" ELSE "idle")
  /\ runFlag' = FALSE
  /\ started' = FALSE /\ ok' = FALSE
  /\ UNCHANGED <<closing, duty, threads, width, calls>>

-----------------------------------------------------------------------------
(* pwm_gpio_free.                                                          *)
FreeStop ==
  /\ Goto("freeStop", IF started THEN "freeWait" ELSE "release")
  /\ runFlag' = IF started THEN FALSE ELSE runFlag
  /\ UNCHANGED <<closing, duty, started, threads, width, calls, ok>>

FreeWaitOver ==
  /\ Goto("freeWait", "release")
  /\ started' = FALSE
  /\ UNCHANGED <<closing, runFlag, duty, threads, width, calls, ok>>

Release ==
  /\ Goto("release", "freed")
  /\ UNCHANGED <<closing, runFlag, duty, started, threads, width, calls, ok>>

-----------------------------------------------------------------------------
(* pwm_gpio_thread_wrapper: test run_flag, line up, sleep, line down,      *)
(* sleep the rest of the period.                                           *)
ThreadGoto(i, from, to) ==
  /\ threads[i] = from
  /\ threads' = [threads EXCEPT ![i] = to]
  /\ UNCHANGED <<pc, closing, runFlag, duty, started, calls, ok>>

Test_OwnDuty(i) ==         \* fault: keeps the first duty it was given
  /\ ThreadGoto(i, "test", IF runFlag THEN "high" ELSE "gone")
  /\ width' = [width EXCEPT ![i] = IF runFlag /\ @ = 0 THEN duty ELSE @]

Test(i) ==
  /\ ThreadGoto(i, "test", IF runFlag THEN "high" ELSE "gone")
  /\ width' = [width EXCEPT ![i] = IF runFlag THEN duty ELSE @]
Fall(i) == ThreadGoto(i, "high", "low") /\ UNCHANGED width
Rest(i) == ThreadGoto(i, "low", "test") /\ UNCHANGED width

(* A thread that outlives pwm_gpio_free works on released memory: it goes  *)
(* on as above, or the process dies of it.                                 *)
Fault(i) ==
  /\ pc = "freed" /\ threads[i] \in {"high", "low"}
  /\ threads' = [j \in Ids |-> "gone"]
  /\ UNCHANGED <<pc, closing, runFlag, duty, started, width, calls, ok>>

-----------------------------------------------------------------------------
SetCmdStep == (\E d \in Duties : SetCmd(d)) \/ StopThread \/ WaitOver \/ StartThread
                \/ Created \/ CreateFailed
FreeStep   == FreeStop \/ FreeWaitOver \/ Release
Thread(i)  == Test(i) \/ Fall(i) \/ Rest(i) \/ Fault(i)

Next == SetCmdStep \/ FreeStep \/ \E i \in Ids : Thread(i)

Spec == Init /\ [][Next]_vars

-----------------------------------------------------------------------------
(* After a set_cmd that returned 0 the thread it created keeps the fan     *)
(* running until the next call: it cannot mistake the stop meant for its   *)
(* predecessor for its own (lines 209-227).                                *)
FanRuns ==
  pc = "idle" /\ calls > 0 /\ ok => runFlag /\ threads[calls] \in Alive

(* Between two calls no thread, however old, begins a pulse of another     *)
(* length than the last call asked for: a thread left behind never brings  *)
(* an earlier speed back (lines 67-78, 197-206).                           *)
Outdated == {i \in Ids : threads[i] = "high" /\ width[i] # duty}

NoOldPulse == [][pc = "idle" /\ pc' = "idle" => Outdated' \subseteq Outdated]_vars

(* Once the fan is told to stop for good, by pwm_gpio_free or by a failed  *)
(* pthread_create, every thread that ever ran ends, those left behind by   *)
(* earlier calls included (lines 233, 263).                                *)
Stops ==
  /\ \A i \in Ids : pc = "freed" ~> threads[i] \notin Alive
  /\ \A i \in Ids : (pc = "idle" /\ ~ok) ~> (threads[i] \notin Alive \/ pc # "idle")
=============================================================================
