------------------------- MODULE StepperDriverProofs -------------------------
(***************************************************************************)
(* Theorems about one stepper, for any travel, any distance to the stops,  *)
(* any angles, and any number of crashes at any step of a run.             *)
(*                                                                         *)
(* The bound on pressing against a stop rests on what one run does: a run  *)
(* goes on past a check only if the switch was open there, so from the     *)
(* last check it has at most one interval more to make.                    *)
(***************************************************************************)
EXTENDS StepperDriver, WellFoundedInduction, TLAPS

Ways == {Left, Right}

-----------------------------------------------------------------------------
(* Least elements.                                                         *)
LEMMA LeastNat ==
  ASSUME NEW S \in SUBSET Nat, S # {}
  PROVE  Min(S) \in S /\ \A y \in S : Min(S) <= y
<1>1. PICK x \in S : \A y \in S : ~(<<y, x>> \in OpToRel(<, Nat))
  BY NatLessThanWellFounded, WFMin, Zenon
<1>2. \A y \in S : ~(y < x)
  BY <1>1, Zenon DEF OpToRel
<1>3. \A y \in S : x <= y
  BY <1>2
<1> QED BY <1>3 DEF Min

LEMMA MinPair ==
  ASSUME NEW a \in Int, NEW b \in Int
  PROVE  Min({a, b}) = IF a <= b THEN a ELSE b
BY DEF Min

LEMMA MaxPair ==
  ASSUME NEW a \in Int, NEW b \in Int
  PROVE  Max({a, b}) = IF a <= b THEN b ELSE a
BY DEF Max

LEMMA AtValue ==
  ASSUME NEW p \in Int
  PROVE  At(p) = IF p < -Slack THEN -Slack
                 ELSE IF p > Travel + Slack THEN Travel + Slack ELSE p
<1> USE StepperAssumption DEF StepperAssumption
<1>1. Min({p, Travel + Slack}) = IF p <= Travel + Slack THEN p ELSE Travel + Slack
  BY MinPair
<1>2. Min({p, Travel + Slack}) \in Int
  BY <1>1
<1>3. At(p) = IF -Slack <= Min({p, Travel + Slack}) THEN Min({p, Travel + Slack}) ELSE -Slack
  BY <1>2, MaxPair DEF At
<1> QED BY <1>1, <1>3

LEMMA AtRange ==
  ASSUME NEW p \in Int
  PROVE  At(p) \in -Slack .. Travel + Slack
BY AtValue, StepperAssumption DEF StepperAssumption

LEMMA ReachableRange ==
  ASSUME NEW a \in Int
  PROVE  Reachable(a) \in 60..120
<1>1. ConstantRange \div 2 = 30
  BY DEF ConstantRange
<1>2. Min({a, 120}) = IF a <= 120 THEN a ELSE 120
  BY MinPair
<1>3. Max({60, Min({a, 120})}) = IF 60 <= Min({a, 120}) THEN Min({a, 120}) ELSE 60
  BY <1>2, MaxPair
<1>4. Reachable(a) = Max({60, Min({a, 120})})
  BY <1>1 DEF Reachable, Center
<1> QED BY <1>2, <1>3, <1>4

-----------------------------------------------------------------------------
(* One run: the places where it looks at the switch, and where it stops.   *)
Blind(p) == IF SwitchClosed(p) THEN ContinueTimes ELSE 0

Interval == CheckTimes + 1

Checked(p, times) == {Blind(p) + Interval * i : i \in 1 .. (times - Blind(p)) \div Interval}

StopsOf(p, way, times) == {k \in Checked(p, times) : SwitchClosed(At(p + k * way))}

LEMMA RunForm ==
  ASSUME NEW p \in Int, NEW way \in Ways, NEW times \in Nat
  PROVE  RunStepTimes(p, way, times) =
           IF StopsOf(p, way, times) = {}
           THEN Outcome(At(p + times * way), times, times)
           ELSE LET m == Min(StopsOf(p, way, times)) IN Outcome(At(p + m * way), m, m - 1)
BY DEF RunStepTimes, StopsOf, Checked, Blind, Interval

(* A check comes after the blind steps, every eleventh step from there.    *)
LEMMA CheckedSteps ==
  ASSUME NEW p \in Int, NEW times \in Nat
  PROVE  /\ Checked(p, times) \subseteq 11 .. times
         /\ \A k \in Checked(p, times) :
              k <= 261 \/ (k - 11 \in Checked(p, times))
         /\ times <= 260 \/ \E k \in Checked(p, times) : times - k \in 0 .. 10
<1> DEFINE b == Blind(p)
           n == (times - b) \div 11
<1>0. Interval = 11
  BY DEF Interval, CheckTimes
<1>1. b \in {0, 250}
  BY DEF Blind, ContinueTimes
<1>2. n \in Int /\ 11 * n <= times - b /\ times - b < 11 * n + 11
  BY <1>1
<1>3. Checked(p, times) = {b + 11 * i : i \in 1 .. n}
  BY <1>0 DEF Checked
<1> HIDE DEF b, n
<1>4. Checked(p, times) \subseteq 11 .. times
  BY <1>1, <1>2, <1>3
<1>5. ASSUME NEW k \in Checked(p, times), k > 261
      PROVE  k - 11 \in Checked(p, times)
  <2>1. PICK i \in 1 .. n : k = b + 11 * i
    BY <1>3
  <2>2. i - 1 \in 1 .. n /\ k - 11 = b + 11 * (i - 1)
    BY <1>1, <1>2, <1>5, <2>1
  <2> QED BY <1>3, <2>2
<1>6. ASSUME times > 260
      PROVE  \E k \in Checked(p, times) : times - k \in 0 .. 10
  <2>1. n \in 1 .. n
    BY <1>1, <1>2, <1>6
  <2>2. b + 11 * n \in Checked(p, times) /\ times - (b + 11 * n) \in 0 .. 10
    BY <1>1, <1>2, <1>3, <2>1
  <2> QED BY <2>2
<1>7. \A k \in Checked(p, times) : k \in Int
  BY <1>4
<1> QED BY <1>4, <1>5, <1>6, <1>7

LEMMA StopsLeast ==
  ASSUME NEW p \in Int, NEW way \in Ways, NEW times \in Nat, StopsOf(p, way, times) # {}
  PROVE  LET m == Min(StopsOf(p, way, times)) IN
           /\ m \in Checked(p, times) /\ m \in 11 .. times /\ SwitchClosed(At(p + m * way))
           /\ \A k \in Checked(p, times) : k < m => ~SwitchClosed(At(p + k * way))
<1> DEFINE S == StopsOf(p, way, times)
<1>1. S \subseteq Checked(p, times) /\ Checked(p, times) \subseteq 11 .. times
  BY CheckedSteps DEF StopsOf
<1>2. S \in SUBSET Nat /\ S # {}
  BY <1>1
<1>3. Min(S) \in S /\ \A k \in S : Min(S) <= k
  <2> HIDE DEF S
  <2> QED BY <1>2, LeastNat
<1>4. ASSUME NEW k \in Checked(p, times), k < Min(S)
      PROVE  ~SwitchClosed(At(p + k * way))
  <2>1. k \notin S
    <3> HIDE DEF S
    <3>1. k \in Int /\ Min(S) \in Int
      BY <1>1, <1>3
    <3> QED BY <1>3, <1>4, <3>1
  <2> QED BY <2>1 DEF StopsOf
<1> HIDE DEF S
<1>5. Min(S) \in Checked(p, times) /\ Min(S) \in 11 .. times
  BY <1>1, <1>3
<1>6. SwitchClosed(At(p + Min(S) * way))
  BY <1>3 DEF S, StopsOf
<1> QED BY <1>4, <1>5, <1>6 DEF S

(* What a run returns, and where it leaves the axis.                       *)
LEMMA RunFacts ==
  ASSUME NEW p \in Int, NEW way \in Ways, NEW times \in Nat
  PROVE  LET run == RunStepTimes(p, way, times) IN
           /\ run.pos = At(p + run.taken * way) /\ run.taken \in 0 .. times
           /\ run.returned = times \/ run.returned \in 10 .. times
           /\ \/ /\ run.taken = times /\ run.returned = times
                 /\ \A k \in Checked(p, times) : ~SwitchClosed(At(p + k * way))
              \/ /\ run.taken \in Checked(p, times) /\ run.returned = run.taken - 1
                 /\ SwitchClosed(At(p + run.taken * way))
                 /\ \A k \in Checked(p, times) : k < run.taken => ~SwitchClosed(At(p + k * way))
<1>1. CASE StopsOf(p, way, times) = {}
  <2>1. \A k \in Checked(p, times) : ~SwitchClosed(At(p + k * way))
    BY <1>1 DEF StopsOf
  <2> QED BY <1>1, <2>1, RunForm DEF Outcome
<1>2. CASE StopsOf(p, way, times) # {}
  <2> DEFINE m == Min(StopsOf(p, way, times))
  <2>1. RunStepTimes(p, way, times) = Outcome(At(p + m * way), m, m - 1)
    BY <1>2, RunForm
  <2>2. /\ m \in Checked(p, times) /\ m \in 11 .. times /\ SwitchClosed(At(p + m * way))
        /\ \A k \in Checked(p, times) : k < m => ~SwitchClosed(At(p + k * way))
    BY <1>2, StopsLeast
  <2> HIDE DEF m
  <2> QED BY <2>1, <2>2 DEF Outcome
<1> QED BY <1>1, <1>2

(* While the switch was open at a check, the axis had not reached the stop *)
(* it moves towards.                                                       *)
LEMMA OpenMeansInside ==
  ASSUME switch = "works", NEW p \in -Slack .. Travel + Slack, NEW way \in Ways, NEW k \in Nat,
         ~SwitchClosed(At(p + k * way))
  PROVE  IF way = Right THEN p + k < Travel ELSE p - k > 0
<1> USE StepperAssumption DEF StepperAssumption
<1>1. CASE way = Right
  <2>1. p + k * way = p + k
    BY <1>1 DEF Right
  <2> QED BY <1>1, <2>1, AtValue DEF SwitchClosed
<1>2. CASE way = Left
  <2>1. p + k * way = p - k
    BY <1>2 DEF Left
  <2> QED BY <1>2, <2>1, AtValue DEF SwitchClosed, Left, Right
<1> QED BY <1>1, <1>2 DEF Ways

(* The steps of a run the axis could not follow.                           *)
LEMMA StallOfRun ==
  ASSUME switch = "works", NEW p \in -Slack .. Travel + Slack, NEW way \in Ways, NEW times \in Nat
  PROVE  LET run == RunStepTimes(p, way, times) IN
           run.taken - Distance(p, run.pos) <= 261
<1> USE StepperAssumption DEF StepperAssumption
<1> DEFINE run == RunStepTimes(p, way, times)
           t == run.taken
<1>1. /\ run.pos = At(p + t * way) /\ t \in 0 .. times
      /\ \/ t = times /\ \A k \in Checked(p, times) : ~SwitchClosed(At(p + k * way))
         \/ /\ t \in Checked(p, times)
            /\ \A k \in Checked(p, times) : k < t => ~SwitchClosed(At(p + k * way))
  BY RunFacts
<1> HIDE DEF run
<1> HIDE DEF t
<1>2. t <= 261 \/ \E k \in Nat : t - k \in 0 .. 11 /\ ~SwitchClosed(At(p + k * way))
  <2>1. CASE t = times /\ \A k \in Checked(p, times) : ~SwitchClosed(At(p + k * way))
    <3>0. p \in Int
      OBVIOUS
    <3>1. times <= 260 \/ \E k \in Checked(p, times) : times - k \in 0 .. 10
      BY <3>0, CheckedSteps, Zenon
    <3>2. Checked(p, times) \subseteq 11 .. times
      BY CheckedSteps
    <3>3. \A k \in Checked(p, times) : k \in Nat
      BY <3>2
    <3> QED BY <1>1, <2>1, <3>1, <3>3
  <2>2. CASE /\ t \in Checked(p, times)
             /\ \A k \in Checked(p, times) : k < t => ~SwitchClosed(At(p + k * way))
    <3>1. t <= 261 \/ t - 11 \in Checked(p, times)
      BY <2>2, CheckedSteps
    <3>2. Checked(p, times) \subseteq 11 .. times
      BY CheckedSteps
    <3>3. CASE t - 11 \in Checked(p, times)
      <4>1. t - 11 \in Nat /\ t - (t - 11) \in 0 .. 11
        BY <1>1, <3>2, <3>3
      <4>2. ~SwitchClosed(At(p + (t - 11) * way))
        BY <1>1, <2>2, <3>3
      <4> QED BY <4>1, <4>2
    <3> QED BY <3>1, <3>3
  <2> QED BY <1>1, <2>1, <2>2
<1>3. t <= 261 \/ \E k \in Nat : /\ t - k \in 0 .. 11
                                 /\ IF way = Right THEN p + k < Travel ELSE p - k > 0
  BY <1>2, OpenMeansInside
<1>4. CASE way = Right
  <2>1. p + t * way = p + t /\ p + t \in Int
    BY <1>1, <1>4 DEF Right
  <2>2. run.pos = IF p + t > Travel + Slack THEN Travel + Slack ELSE p + t
    BY <1>1, <2>1, AtValue DEF t
  <2> QED BY <1>1, <1>3, <1>4, <2>2 DEF Distance, run, t
<1>5. CASE way = Left
  <2>1. p + t * way = p - t /\ p - t \in Int /\ way # Right
    BY <1>1, <1>5 DEF Left, Right
  <2>2. run.pos = IF p - t < -Slack THEN -Slack ELSE p - t
    BY <1>1, <2>1, AtValue DEF t
  <2> QED BY <1>1, <1>3, <2>1, <2>2 DEF Distance, run, t
<1> QED BY <1>4, <1>5 DEF Ways, run, t

-----------------------------------------------------------------------------
(* The invariant.  After a calibration the number of steps is known until  *)
(* the next command; a recorded angle is one the pet can be at.            *)
KnowsSteps == {"calOpenMax", "calWriteMax", "calCenter", "calOpenAngle", "calWriteAngle", "move"}

Numbers ==
  /\ pc \in Pcs
  /\ pos \in -Slack .. Travel + Slack
  /\ switch \in SwitchStates \cup {"absent"}
  /\ maxFile \in {Missing} \cup 1 .. StepMaxSteps - 11
  /\ maxSteps \in {Missing} \cup 1 .. StepMaxSteps - 11
  /\ angleFile \in {Missing, 0} \cup 60..120
  /\ crashes \in 0..MaxCrashes

Booleans == enabled \in BOOLEAN /\ trusted \in BOOLEAN

StepperInv ==
  /\ Numbers
  /\ target \in Int /\ stalled \in Int
  /\ pc \in {"openAngle", "writeAngle"} => target \in 60..120
  /\ pc \in KnowsSteps => maxSteps \in 1 .. 2489
  /\ CoilsOffWhenIdle
  /\ StallBounded

(* A run of the axis, whole or cut short, keeps its part of the invariant. *)
LEMMA RunStep ==
  ASSUME pos \in -Slack .. Travel + Slack, NEW way \in Ways, NEW times \in Nat,
         Run(way, times)
  PROVE  /\ pos' \in -Slack .. Travel + Slack /\ stalled' \in Int
         /\ switch = "works" => stalled' <= 261
<1> USE StepperAssumption DEF StepperAssumption
<1> DEFINE run == RunStepTimes(pos, way, times)
<1>1. pos \in Int
  OBVIOUS
<1>2. run.pos = At(pos + run.taken * way) /\ run.taken \in 0 .. times
  BY <1>1, RunFacts
<1>3. pos + run.taken * way \in Int
  BY <1>1, <1>2 DEF Ways, Left, Right
<1>4. run.pos \in -Slack .. Travel + Slack
  BY <1>2, <1>3, AtRange
<1>5. pos' = run.pos /\ stalled' = run.taken - Distance(pos, run.pos)
  BY DEF Run
<1>6. switch = "works" => run.taken - Distance(pos, run.pos) <= 261
  BY StallOfRun
<1> HIDE DEF run
<1>7. Distance(pos, run.pos) \in Int
  BY <1>1, <1>4 DEF Distance
<1> QED BY <1>2, <1>4, <1>5, <1>6, <1>7

LEMMA RunReturns ==
  ASSUME pos \in -Slack .. Travel + Slack, NEW way \in Ways, NEW times \in Nat
  PROVE  RunStepTimes(pos, way, times).returned \in {times} \cup 10 .. times
<1>1. pos \in Int
  BY StepperAssumption DEF StepperAssumption
<1> QED BY <1>1, RunFacts

(* The number of steps a move asks for.                                    *)
LEMMA MoveFacts ==
  ASSUME NEW a \in Int, angleFile \in Int, maxSteps \in 1 .. 2489
  PROVE  MoveWay(a) \in Ways /\ MoveSteps(a) \in Nat
<1>1. Distance(angleFile, a) \in Nat
  BY DEF Distance
<1>2. StepsPerDegree(maxSteps) \in Nat
  BY DEF StepsPerDegree, ConstantRange
<1>3. MoveSteps(a) \in Nat
  BY <1>1, <1>2 DEF MoveSteps
<1> QED BY <1>3 DEF MoveWay, Ways

LEMMA CalibrateStep ==
  ASSUME StepperInv, Calibrate
  PROVE  StepperInv'
<1> USE DEF StepperInv, Numbers, StepMaxSteps, DefaultSteps, ContinueTimes, CheckTimes,
   KnowsSteps, Pcs, InCalibration, Goto,
        CoilsOffWhenIdle, StallBounded, Missing, files, axis
<1>1. CASE CalLeft
  <2>1. Run(Left, StepMaxSteps) /\ StepMaxSteps \in Nat /\ Left \in Ways
    BY <1>1 DEF CalLeft, Ways
  <2>2. /\ pos' \in -Slack .. Travel + Slack /\ stalled' \in Int
        /\ switch = "works" => stalled' <= 261
    BY <2>1, RunStep
  <2> QED BY <1>1, <2>2 DEF CalLeft
<1>2. CASE CalRight
  <2>1. Run(Right, StepMaxSteps) /\ StepMaxSteps \in Nat /\ Right \in Ways
    BY <1>2 DEF CalRight, Ways
  <2>2. /\ pos' \in -Slack .. Travel + Slack /\ stalled' \in Int
        /\ switch = "works" => stalled' <= 261
    BY <2>1, RunStep
  <2> DEFINE n == RunStepTimes(pos, Right, StepMaxSteps).returned
  <2>3. n \in {StepMaxSteps} \cup 10 .. StepMaxSteps
    <3>1. pos \in -Slack .. Travel + Slack
      OBVIOUS
    <3> HIDE DEF StepMaxSteps
    <3> QED BY <2>1, <3>1, RunReturns
  <2>4. maxSteps' = IF n >= StepMaxSteps - 10 THEN DefaultSteps ELSE n
    BY <1>2 DEF CalRight
  <2> HIDE DEF n
  <2>5. maxSteps' \in 1 .. 2489
    BY <2>3, <2>4
  <2> QED BY <1>2, <2>2, <2>5 DEF CalRight
<1>3. CASE CalOpenMax
  BY <1>3 DEF CalOpenMax
<1>6. CASE CalWriteMax
  BY <1>6 DEF CalWriteMax
<1>4. CASE CalCenter
  <2>1. Run(Left, maxSteps \div 2) /\ maxSteps \div 2 \in Nat /\ Left \in Ways
    BY <1>4 DEF CalCenter, Ways
  <2>2. /\ pos' \in -Slack .. Travel + Slack /\ stalled' \in Int
        /\ switch = "works" => stalled' <= 261
    BY <2>1, RunStep
  <2> QED BY <1>4, <2>2 DEF CalCenter
<1>5. CASE CalOpenAngle
  BY <1>5 DEF CalOpenAngle
<1>7. CASE CalWriteAngle
  BY <1>7 DEF CalWriteAngle, Center
<1> QED BY <1>1, <1>2, <1>3, <1>4, <1>5, <1>6, <1>7 DEF Calibrate

LEMMA MoveStep ==
  ASSUME StepperInv, Move
  PROVE  StepperInv'
<1>1. angleFile \in Int /\ maxSteps \in 1 .. 2489 /\ pos \in -Slack .. Travel + Slack
  BY DEF StepperInv, Numbers, KnowsSteps, Move, Goto, Missing
<1>2. target' \in 60..120
  BY ReachableRange DEF StepperInv, Move
<1>3. MoveWay(target') \in Ways /\ MoveSteps(target') \in Nat
  BY <1>1, <1>2, MoveFacts
<1>4. /\ pos' \in -Slack .. Travel + Slack /\ stalled' \in Int
      /\ switch = "works" => stalled' <= 261
  <2>1. CASE target' = angleFile
    BY <2>1 DEF Move, axis, StepperInv, Numbers, StallBounded, StepMaxSteps,
       DefaultSteps, ContinueTimes, CheckTimes
  <2>2. CASE target' # angleFile
    <3>1. Run(MoveWay(target'), MoveSteps(target'))
      BY <2>2 DEF Move
    <3> QED BY <1>1, <1>3, <3>1, RunStep
  <2> QED BY <2>1, <2>2
<1> QED BY <1>2, <1>4 DEF Move, Goto, StepperInv, Numbers, KnowsSteps, Pcs, InCalibration,
        CoilsOffWhenIdle, StallBounded, StepMaxSteps, DefaultSteps, ContinueTimes, CheckTimes, files

LEMMA CrashStep ==
  ASSUME StepperInv, Crash \/ CrashInMotion
  PROVE  StepperInv'
<1> USE DEF StepperInv, Numbers, StepMaxSteps, DefaultSteps, ContinueTimes, CheckTimes,
   KnowsSteps, Pcs, InCalibration,
        CoilsOffWhenIdle, StallBounded, Missing, files, axis, Die
<1>1. ASSUME Die, pos' \in -Slack .. Travel + Slack, stalled' \in Int,
             switch = "works" => stalled' <= 261
      PROVE  StepperInv'
  BY <1>1, StepperAssumption DEF StepperAssumption
<1>2. CASE Crash
  BY <1>1, <1>2 DEF Crash
<1>3. ASSUME NEW way \in Ways, NEW times, CrashInRun(way, times)
      PROVE  StepperInv'
  <2>1. PICK cut \in CutPoints : Run(way, cut)
    BY <1>3 DEF CrashInRun
  <2>2. cut \in Nat
    BY StepperAssumption DEF StepperAssumption
  <2>3. /\ pos' \in -Slack .. Travel + Slack /\ stalled' \in Int
        /\ switch = "works" => stalled' <= 261
    BY <2>1, <2>2, RunStep
  <2> QED BY <1>1, <1>3, <2>3 DEF CrashInRun
<1>4. CASE CrashInMotion
  <2>1. Left \in Ways /\ Right \in Ways
    BY DEF Ways
  <2>2. CASE pc = "move"
    <3>1. MoveWay(Reachable(target)) \in Ways
      BY DEF MoveWay, Ways
    <3>2. CrashInRun(MoveWay(Reachable(target)), MoveSteps(Reachable(target)))
      BY <1>4, <2>2 DEF CrashInMotion
    <3> QED BY <1>3, <3>1, <3>2
  <2>3. CASE pc # "move"
    <3>1. \E way \in Ways, times \in Int \cup {maxSteps \div 2} : CrashInRun(way, times)
      BY <1>4, <2>1, <2>3 DEF CrashInMotion
    <3> QED BY <1>3, <3>1
  <2> QED BY <2>2, <2>3
<1> QED BY <1>2, <1>4

LEMMA StepperInvStep ==
  ASSUME StepperInv, [Next]_vars
  PROVE  StepperInv'
<1> USE StepperAssumption DEF StepperAssumption, StepperInv, Numbers, StepMaxSteps,
   DefaultSteps, ContinueTimes, CheckTimes, KnowsSteps,
        Pcs, InCalibration, Goto, CoilsOffWhenIdle, StallBounded, Missing, files, axis
<1>1. CASE Start
  BY <1>1 DEF Start
<1>2. CASE Stop
  BY <1>2 DEF Stop
<1>3. ASSUME NEW angle \in Angles, SetCmd(angle) PROVE StepperInv'
  <2>1. maxSteps' \in {-1} \cup 1 .. 2489
    BY <1>3 DEF SetCmd
  <2>2. pc' = IF maxSteps' <= 0 THEN "calLeft" ELSE "move"
    BY <1>3 DEF SetCmd
  <2>3. pc' \in {"calLeft", "move"} /\ (pc' = "move" => maxSteps' \in 1 .. 2489)
    BY <2>1, <2>2
  <2> QED BY <1>3, <2>1, <2>3 DEF SetCmd
<1>4. CASE Calibrate
  BY <1>4, CalibrateStep
<1>5. CASE Move
  BY <1>5, MoveStep
<1>6. CASE OpenAngle
  BY <1>6 DEF OpenAngle
<1>10. CASE WriteAngle
  BY <1>10 DEF WriteAngle
<1>11. CASE Disable
  BY <1>11 DEF Disable
<1>7. CASE Crash \/ CrashInMotion
  BY <1>7, CrashStep
<1>8. CASE DeleteFiles
  BY <1>8 DEF DeleteFiles
<1>9. CASE UNCHANGED vars
  BY <1>9 DEF vars
<1> HIDE DEF StepperInv
<1> QED BY <1>1, <1>2, <1>3, <1>4, <1>5, <1>6, <1>7, <1>8, <1>9, <1>10, <1>11 DEF Next

LEMMA BooleansStep ==
  ASSUME Booleans, [Next]_vars
  PROVE  Booleans'
<1> USE DEF Booleans
<1>1. CASE Start \/ Stop \/ DeleteFiles \/ OpenAngle \/ WriteAngle \/ Disable \/ Move
  BY <1>1, Zenon DEF Start, Stop, DeleteFiles, OpenAngle, WriteAngle, Disable, Move
<1>2. ASSUME NEW angle \in Angles, SetCmd(angle) PROVE Booleans'
  BY <1>2, Zenon DEF SetCmd
<1>3. CASE Calibrate
  BY <1>3, Zenon DEF Calibrate, CalLeft, CalRight, CalOpenMax, CalWriteMax, CalCenter,
     CalOpenAngle, CalWriteAngle
<1>4. CASE Crash
  BY <1>4, Zenon DEF Crash, Die
<1>5. ASSUME NEW way, NEW times, CrashInRun(way, times) PROVE Booleans'
  BY <1>5, Zenon DEF CrashInRun, Die
<1>6. CASE CrashInMotion
  BY <1>5, <1>6, Zenon DEF CrashInMotion
<1>7. CASE UNCHANGED vars
  BY <1>7, Zenon DEF vars
<1> QED BY <1>1, <1>2, <1>3, <1>4, <1>6, <1>7, Zenon DEF Next

LEMMA StepperInvariant == Spec => [](StepperInv /\ Booleans)
<1>0. Init => Booleans
  BY Zenon DEF Init, Booleans
<1>1. Init => StepperInv
  BY StepperAssumption DEF StepperAssumption, Init, StepperInv, Numbers, StepMaxSteps,
     DefaultSteps, ContinueTimes, CheckTimes, KnowsSteps,
     Pcs, InCalibration, CoilsOffWhenIdle, StallBounded, Missing, Center
<1>2. StepperInv /\ Booleans /\ [Next]_vars => (StepperInv /\ Booleans)'
  BY StepperInvStep, BooleansStep
<1> QED BY <1>0, <1>1, <1>2, PTL DEF Spec

(* Types: a calibration never records a number of steps no move can use,   *)
(* and no recorded angle is one the pet cannot be at.                      *)
THEOREM StepperTypeCorrect == Spec => []TypeOK
<1>1. StepperInv /\ Booleans => TypeOK
  BY DEF StepperInv, Numbers, Booleans, TypeOK
<1> QED BY <1>1, StepperInvariant, PTL

(* The coils are off whenever the driver waits, after any crash.           *)
THEOREM StepperCoilsOff == Spec => []CoilsOffWhenIdle
<1>1. StepperInv => CoilsOffWhenIdle
  BY DEF StepperInv
<1> QED BY <1>1, StepperInvariant, PTL

(* With a working switch no run presses on a stop for more than the blind  *)
(* steps and one interval, wherever the axis stands and whatever the files *)
(* say: for any travel and any distance to the stops.                      *)
THEOREM StepperStallBounded == Spec => []StallBounded
<1>1. StepperInv => StallBounded
  BY DEF StepperInv
<1> QED BY <1>1, StepperInvariant, PTL

-----------------------------------------------------------------------------
(* Tracking the angle. On an axis that fits (AxisFits), with a switch that *)
(* works, a calibration measures the travel, and then the distance of the  *)
(* axis from where the file puts it stays within one degree: a move that   *)
(* runs to its end keeps it, and one that a switch ends can do so only at  *)
(* an end of the travel, which lies within a degree of the last angle.     *)
LEMMA AxisSmall ==
  ASSUME AxisFits
  PROVE  Slack <= 70 /\ Travel >= 300 /\ Travel + Slack <= 2480
  BY StepperAssumption DEF StepperAssumption, AxisFits, StepMaxSteps

(* The position after k steps.                                             *)
LEMMA StepsLeft ==
  ASSUME NEW p \in -Slack .. Travel + Slack, NEW k \in Nat
  PROVE  At(p + k * Left) = IF p - k < -Slack THEN -Slack ELSE p - k
<1>1. p + k * Left = p - k /\ p - k \in Int /\ p - k <= Travel + Slack
  BY StepperAssumption DEF StepperAssumption, Left
<1> QED BY <1>1, AtValue, StepperAssumption DEF StepperAssumption

LEMMA StepsRight ==
  ASSUME NEW p \in -Slack .. Travel + Slack, NEW k \in Nat
  PROVE  At(p + k * Right) = IF p + k > Travel + Slack THEN Travel + Slack ELSE p + k
<1>1. p + k * Right = p + k /\ p + k \in Int /\ p + k >= -Slack
  BY StepperAssumption DEF StepperAssumption, Right
<1> QED BY <1>1, AtValue, StepperAssumption DEF StepperAssumption

LEMMA CheckedAfterBlind ==
  ASSUME NEW p \in Int, NEW times \in Nat, NEW k \in Checked(p, times)
  PROVE  k >= Blind(p) + 11
<1> DEFINE b == Blind(p)
           n == (times - b) \div 11
<1>1. b \in {0, 250}
  BY DEF Blind, ContinueTimes
<1>2. n \in Int
  BY <1>1
<1>3. k \in {b + 11 * i : i \in 1 .. n}
  BY DEF Checked, Interval, CheckTimes
<1> HIDE DEF b, n
<1> QED BY <1>1, <1>2, <1>3 DEF b

(* A switch that ends a run is the one the run moves towards: the other is *)
(* left in the blind steps.                                                *)
LEMMA ClosedAhead ==
  ASSUME AxisFits, switch = "works", NEW p \in -Slack .. Travel + Slack, NEW way \in Ways,
         NEW times \in Nat, NEW k \in Checked(p, times), SwitchClosed(At(p + k * way))
  PROVE  IF way = Right THEN p + k >= Travel ELSE p - k <= 0
<1> USE StepperAssumption, AxisSmall DEF StepperAssumption
<1>1. p \in Int
  OBVIOUS
<1>2. k \in Nat /\ k >= 11 /\ (SwitchClosed(p) => k >= 261)
  BY <1>1, CheckedSteps, CheckedAfterBlind DEF Blind, ContinueTimes
<1>3. CASE way = Right
  BY <1>2, <1>3, StepsRight DEF SwitchClosed
<1>4. CASE way = Left
  <2>1. way # Right
    BY <1>4 DEF Left, Right
  <2> QED BY <1>2, <1>4, <2>1, StepsLeft DEF SwitchClosed
<1> QED BY <1>3, <1>4 DEF Ways

(* Calibration goes to the left end ...                                    *)
LEMMA LeftEnd ==
  ASSUME AxisFits, switch = "works", NEW p \in -Slack .. Travel + Slack,
         NEW times \in Nat, times = StepMaxSteps
  PROVE  RunStepTimes(p, Left, times).pos \in -Slack .. 0
<1> DEFINE run == RunStepTimes(p, Left, times)
           t == run.taken
<1>0. p \in Int /\ Left \in Ways /\ Left # Right
  BY StepperAssumption DEF StepperAssumption, Ways, Left, Right
<1>4. times = 2500
  BY DEF StepMaxSteps
<1>1. /\ run.pos = At(p + t * Left) /\ t \in 0 .. times
      /\ \/ \A k \in Checked(p, times) : ~SwitchClosed(At(p + k * Left))
         \/ t \in Checked(p, times) /\ SwitchClosed(At(p + t * Left))
  BY <1>0, RunFacts
<1> HIDE DEF run
<1> HIDE DEF t
<1>2. CASE \A k \in Checked(p, times) : ~SwitchClosed(At(p + k * Left))
  <2>0. times <= 260 \/ \E k \in Checked(p, times) : times - k \in 0 .. 10
    BY <1>0, CheckedSteps, Zenon
  <2>1. \E k \in Checked(p, times) : times - k \in 0 .. 10
    BY <1>4, <2>0
  <2>2. PICK k \in Checked(p, times) : times - k \in 0 .. 10
    BY <2>1
  <2>3. k \in Nat
    BY <1>0, CheckedSteps
  <2>4. p - k > 0
    BY <1>0, <1>2, <2>3, OpenMeansInside
  <2> QED BY <1>0, <1>4, <2>2, <2>3, <2>4, AxisSmall, StepperAssumption DEF StepperAssumption
<1>3. CASE t \in Checked(p, times) /\ SwitchClosed(At(p + t * Left))
  <2>1. p - t <= 0
    BY <1>0, <1>3, ClosedAhead
  <2>2. t \in Nat
    BY <1>1
  <2>3. At(p + t * Left) = IF p - t < -Slack THEN -Slack ELSE p - t
    BY <2>2, StepsLeft
  <2> QED BY <1>0, <1>1, <2>1, <2>2, <2>3, StepperAssumption DEF StepperAssumption, run
<1> QED BY <1>1, <1>2, <1>3

(* ... from there to the right end, counting ...                           *)
Measured(q, n) ==
  /\ q \in Travel .. Travel + Slack /\ q <= Travel + 10
  /\ n \in Nat /\ n >= q - 1 /\ n <= Travel + Slack + 9
  /\ n <= q - 1 + Slack \/ q = Travel + Slack

LEMMA RightEnd ==
  ASSUME AxisFits, switch = "works", NEW p \in -Slack .. 0, NEW times \in Nat,
         times = StepMaxSteps
  PROVE  LET run == RunStepTimes(p, Right, times) IN Measured(run.pos, run.returned)
<1> DEFINE run == RunStepTimes(p, Right, times)
           t == run.taken
<1>0. p \in Int /\ p \in -Slack .. Travel + Slack /\ Right \in Ways
  BY StepperAssumption DEF StepperAssumption, Ways
<1>4. times = 2500
  BY DEF StepMaxSteps
<1>1. /\ run.pos = At(p + t * Right) /\ t \in 0 .. times
      /\ \/ \A k \in Checked(p, times) : ~SwitchClosed(At(p + k * Right))
         \/ /\ t \in Checked(p, times) /\ run.returned = t - 1
            /\ SwitchClosed(At(p + t * Right))
            /\ \A k \in Checked(p, times) : k < t => ~SwitchClosed(At(p + k * Right))
  BY <1>0, RunFacts
<1> HIDE DEF run
<1> HIDE DEF t
<1>2. CASE \A k \in Checked(p, times) : ~SwitchClosed(At(p + k * Right))
  <2>0. times <= 260 \/ \E k \in Checked(p, times) : times - k \in 0 .. 10
    BY <1>0, CheckedSteps, Zenon
  <2>1. \E k \in Checked(p, times) : times - k \in 0 .. 10
    BY <1>4, <2>0
  <2>2. PICK k \in Checked(p, times) : times - k \in 0 .. 10
    BY <2>1
  <2>3. k \in Nat
    BY <1>0, CheckedSteps
  <2>4. p + k < Travel
    BY <1>0, <1>2, <2>3, OpenMeansInside
  <2> QED BY <1>0, <1>4, <2>2, <2>3, <2>4, AxisSmall, StepperAssumption DEF StepperAssumption
<1>3. CASE /\ t \in Checked(p, times) /\ run.returned = t - 1
           /\ SwitchClosed(At(p + t * Right))
           /\ \A k \in Checked(p, times) : k < t => ~SwitchClosed(At(p + k * Right))
  <2>0. t \in Nat
    BY <1>1
  <2>1. p + t >= Travel
    BY <1>0, <1>3, ClosedAhead
  <2>2. t - 11 \in Checked(p, times) /\ t - 11 \in Nat
    <3>1. t > 261
      BY <1>0, <2>0, <2>1, AxisSmall, StepperAssumption DEF StepperAssumption
    <3>2. t - 11 \in Checked(p, times)
      BY <1>0, <1>3, <2>0, <3>1, CheckedSteps
    <3> QED BY <2>0, <3>1, <3>2
  <2>3. ~SwitchClosed(At(p + (t - 11) * Right))
    BY <1>3, <2>0, <2>2
  <2>4. p + (t - 11) < Travel
    BY <1>0, <2>2, <2>3, OpenMeansInside
  <2>5. run.pos = IF p + t > Travel + Slack THEN Travel + Slack ELSE p + t
    BY <1>0, <1>1, <2>0, StepsRight
  <2> QED BY <1>0, <1>3, <2>0, <2>1, <2>4, <2>5, StepperAssumption
          DEF StepperAssumption, Measured, run, t
<1> QED BY <1>1, <1>2, <1>3

(* ... and back by half of what it counted.                                *)
StepsFit(n) == n \in Travel - 1 .. Travel + Slack + 9

LEMMA StepsFitFacts ==
  ASSUME AxisFits, NEW n, StepsFit(n)
  PROVE  /\ n \in 1 .. 2489 /\ StepsPerDegree(n) \in Nat
         /\ 29 * StepsPerDegree(n) <= Travel \div 2 /\ Travel \div 2 \in Nat
         /\ Travel - Travel \div 2 >= Travel \div 2
  BY StepperAssumption, AxisSmall
     DEF StepperAssumption, AxisFits, StepsFit, StepsPerDegree, ConstantRange

Near(p, a, n) ==
  Distance(p, Travel \div 2 + (a - Center) * StepsPerDegree(n)) <= StepsPerDegree(n)

LEMMA Centred ==
  ASSUME AxisFits, switch = "works", NEW q, NEW n, Measured(q, n)
  PROVE  /\ StepsFit(n)
         /\ Near(RunStepTimes(q, Left, n \div 2).pos, Center, n)
<1> USE StepperAssumption, AxisSmall DEF StepperAssumption
<1> DEFINE h == n \div 2
           run == RunStepTimes(q, Left, h)
<1>0. q \in Int /\ q \in -Slack .. Travel + Slack /\ h \in Nat /\ Left \in Ways /\ Left # Right
  BY DEF Measured, Ways, Left, Right
<1>1. /\ run.pos = At(q + run.taken * Left)
      /\ \/ run.taken = h
         \/ run.taken \in Checked(q, h) /\ SwitchClosed(At(q + run.taken * Left))
  BY <1>0, RunFacts
<1>2. \A k \in Checked(q, h) : k \in 11 .. h
  BY <1>0, CheckedSteps
<1>3. q - h > 0 /\ 2 * h <= n /\ n <= 2 * h + 1
  BY DEF Measured
<1>4. run.taken = h
  <2>1. ASSUME run.taken \in Checked(q, h), SwitchClosed(At(q + run.taken * Left))
        PROVE  FALSE
    <3> DEFINE k == run.taken
    <3> HIDE DEF run
    <3>1. k \in 11 .. h
      BY <1>2, <2>1
    <3>2. q - k <= 0
      BY <1>0, <2>1, ClosedAhead
    <3> QED BY <1>0, <1>3, <3>1, <3>2
  <2> QED BY <1>1, <2>1
<1>5. run.pos = q - h
  BY <1>0, <1>1, <1>3, <1>4, StepsLeft
<1>6. StepsFit(n)
  BY DEF Measured, StepsFit
<1>7. Distance(q - h, Travel \div 2 + 0) <= StepsPerDegree(n)
  <2>1. 60 * StepsPerDegree(n) <= n /\ n <= 60 * StepsPerDegree(n) + 59 /\ StepsPerDegree(n) \in Nat
    BY DEF StepsPerDegree, ConstantRange, Measured
  <2> DEFINE d == StepsPerDegree(n)
             m == Travel \div 2
  <2>2. m \in Nat /\ 2 * m <= Travel /\ Travel <= 2 * m + 1
    OBVIOUS
  <2> HIDE DEF d, m, h
  <2>3. q - h - m <= d /\ m - (q - h) <= d
    BY <1>0, <1>3, <2>1, <2>2 DEF Measured, AxisFits, d
  <2> QED BY <1>0, <2>1, <2>2, <2>3 DEF Distance, d, m
<1>8. (Center - Center) * StepsPerDegree(n) = 0
  BY <1>6, StepsFitFacts DEF Center
<1> QED BY <1>5, <1>6, <1>7, <1>8 DEF Near

(* A run makes its steps, or ends at an end of the travel short of them.   *)
LEMMA RunReaches ==
  ASSUME AxisFits, switch = "works", NEW p \in -Slack .. Travel + Slack, NEW way \in Ways,
         NEW times \in Nat
  PROVE  LET q == RunStepTimes(p, way, times).pos IN
           /\ q \in Int
           /\ IF way = Right THEN q <= p + times /\ (q = p + times \/ q >= Travel)
                             ELSE q >= p - times /\ (q = p - times \/ q <= 0)
<1> DEFINE run == RunStepTimes(p, way, times)
           t == run.taken
<1>0. p \in Int
  BY StepperAssumption DEF StepperAssumption
<1>1. /\ run.pos = At(p + t * way) /\ t \in 0 .. times
      /\ \/ t = times
         \/ t \in Checked(p, times) /\ SwitchClosed(At(p + t * way))
  BY <1>0, RunFacts
<1> HIDE DEF run
<1> HIDE DEF t
<1>2. t \in Nat /\ t <= times
  BY <1>1
<1>3. CASE way = Right
  <2>1. run.pos = IF p + t > Travel + Slack THEN Travel + Slack ELSE p + t
    BY <1>1, <1>2, <1>3, StepsRight
  <2>2. t = times \/ p + t >= Travel
    BY <1>1, <1>3, ClosedAhead
  <2> QED BY <1>0, <1>2, <1>3, <2>1, <2>2, StepperAssumption DEF StepperAssumption, run
<1>4. CASE way = Left
  <2>0. way # Right
    BY <1>4 DEF Left, Right
  <2>1. run.pos = IF p - t < -Slack THEN -Slack ELSE p - t
    BY <1>1, <1>2, <1>4, StepsLeft
  <2>2. t = times \/ p - t <= 0
    BY <1>1, <2>0, ClosedAhead
  <2> QED BY <1>0, <1>2, <2>0, <2>1, <2>2, StepperAssumption DEF StepperAssumption, run
<1> QED BY <1>3, <1>4 DEF Ways

LEMMA MoveKeepsNear ==
  ASSUME AxisFits, switch = "works", NEW p \in -Slack .. Travel + Slack,
         NEW n, StepsFit(n), NEW a \in 60..120, NEW b \in 60..120, Near(p, a, n)
  PROVE  LET way == IF b < a THEN Left ELSE Right IN
           Near(RunStepTimes(p, way, Distance(a, b) * StepsPerDegree(n)).pos, b, n)
<1> DEFINE d == StepsPerDegree(n)
           m == Travel \div 2
           k == Distance(a, b) * d
           way == IF b < a THEN Left ELSE Right
           q == RunStepTimes(p, way, k).pos
           x == (a - Center) * d
           y == (b - Center) * d
<1>1. d \in Nat /\ 29 * d <= m /\ m \in Nat /\ Travel - m >= m /\ Travel \in Nat
  BY StepsFitFacts, StepperAssumption DEF StepperAssumption
<1>2. p \in Int
  BY StepperAssumption DEF StepperAssumption
<1>3. Distance(a, b) \in Nat
  BY DEF Distance
<1> HIDE DEF d, m
<1>4. k \in Nat /\ x \in Int /\ y \in Int
  BY <1>1, <1>3 DEF Center
<1>5. y = IF b < a THEN x - k ELSE x + k
  <2>1. CASE b < a
    <3>1. Distance(a, b) = a - b
      BY <2>1 DEF Distance
    <3>2. (b - Center) * d = (a - Center) * d - (a - b) * d
      BY <1>1 DEF Center
    <3> QED BY <2>1, <3>1, <3>2
  <2>2. CASE ~(b < a)
    <3>1. Distance(a, b) = b - a
      BY <2>2 DEF Distance
    <3>2. (b - Center) * d = (a - Center) * d + (b - a) * d
      BY <1>1 DEF Center
    <3> QED BY <2>2, <3>1, <3>2
  <2> QED BY <2>1, <2>2
<1>6. -(30 * d) <= y /\ y <= 30 * d
  <2>1. (b - Center) \in -30 .. 30
    BY DEF Center
  <2>2. ASSUME NEW c \in -30 .. 30 PROVE -(30 * d) <= c * d /\ c * d <= 30 * d
    BY <1>1
  <2> QED BY <2>1, <2>2
<1>7. /\ q \in Int
      /\ IF b < a THEN q >= p - k /\ (q = p - k \/ q <= 0)
                  ELSE q <= p + k /\ (q = p + k \/ q >= Travel)
  <2>1. way \in Ways /\ (way = Right <=> ~(b < a))
    BY DEF Ways, Left, Right
  <2> HIDE DEF k, way
  <2> QED BY <1>4, <2>1, RunReaches
<1>8. p - (m + x) <= d /\ (m + x) - p <= d
  <2>1. Distance(p, m + x) <= d
    BY DEF Near, m, d
  <2> HIDE DEF x
  <2> QED BY <1>1, <1>2, <1>4, <2>1 DEF Distance
<1> HIDE DEF k, x, y, q
<1>9. q - (m + y) <= d /\ (m + y) - q <= d
  BY <1>1, <1>2, <1>4, <1>5, <1>6, <1>7, <1>8
<1>10. Distance(q, m + y) <= d
  BY <1>9 DEF Distance
<1> QED BY <1>10 DEF Near, q, m, y, d, k

(* The invariant: what a calibration has established so far, and what it   *)
(* leaves to hold for as long as the angle is to be trusted.               *)
Calibrated ==
  /\ StepsFit(maxFile)
  /\ pc \notin InCalibration
  /\ pc # "off" /\ switch # "absent" => maxSteps = maxFile
  /\ pc \in {"off", "idle", "move", "disable"} =>
       angleFile \in 60..120 /\ Near(pos, angleFile, maxFile)
  /\ pc \in {"openAngle", "writeAngle"} => Near(pos, target, maxFile)

Calibrating ==
  /\ pc = "calRight" => pos \in -Slack .. 0
  /\ pc \in {"calOpenMax", "calWriteMax", "calCenter"} => Measured(pos, maxSteps)
  /\ pc \in {"calCenter", "calOpenAngle", "calWriteAngle"} => maxFile = maxSteps
  /\ pc \in {"calOpenAngle", "calWriteAngle"} =>
       StepsFit(maxSteps) /\ Near(pos, Center, maxSteps)

TrackInv ==
  /\ trusted => Calibrated
  /\ switch = "works" => Calibrating

LEMMA CalibrateTracks ==
  ASSUME AxisFits, StepperInv, TrackInv, Calibrate
  PROVE  TrackInv'
<1> USE DEF TrackInv, Calibrated, Calibrating, InCalibration, Goto, files, axis
<1>0. pos \in -Slack .. Travel + Slack /\ pos \in Int
  BY StepperAssumption DEF StepperAssumption, StepperInv, Numbers
<1>1. CASE CalLeft
  <2>1. StepMaxSteps \in Nat
    BY DEF StepMaxSteps
  <2>2. switch = "works" => pos' \in -Slack .. 0
    BY <1>0, <1>1, <2>1, LeftEnd DEF CalLeft, Run
  <2> QED BY <1>1, <2>2 DEF CalLeft
<1>2. CASE CalRight
  <2> DEFINE run == RunStepTimes(pos, Right, StepMaxSteps)
  <2>1. StepMaxSteps \in Nat
    BY DEF StepMaxSteps
  <2>2. switch = "works" => Measured(run.pos, run.returned)
    BY <1>2, <2>1, RightEnd DEF CalRight
  <2>3. pos' = run.pos /\ maxSteps' = IF run.returned >= StepMaxSteps - 10
                                      THEN DefaultSteps ELSE run.returned
    BY <1>2 DEF CalRight, Run
  <2> HIDE DEF run
  <2>4. switch = "works" => Measured(pos', maxSteps')
    <3>1. switch = "works" => run.returned < StepMaxSteps - 10
      BY <2>2, AxisSmall, StepperAssumption DEF StepperAssumption, Measured, StepMaxSteps
    <3>2. switch = "works" => maxSteps' = run.returned
      BY <2>2, <2>3, <3>1 DEF Measured, StepMaxSteps
    <3> QED BY <2>2, <2>3, <3>2
  <2> QED BY <1>2, <2>4 DEF CalRight
<1>3. CASE CalOpenMax
  BY <1>3 DEF CalOpenMax
<1>4. CASE CalWriteMax
  BY <1>4 DEF CalWriteMax
<1>5. CASE CalCenter
  <2>1. switch = "works" => Measured(pos, maxSteps)
    BY <1>5 DEF CalCenter
  <2>2. switch = "works" => StepsFit(maxSteps) /\ Near(pos', Center, maxSteps)
    BY <1>5, <2>1, Centred DEF CalCenter, Run
  <2> QED BY <1>5, <2>2 DEF CalCenter
<1>6. CASE CalOpenAngle
  BY <1>6 DEF CalOpenAngle
<1>7. CASE CalWriteAngle
  <2>1. trusted' => switch = "works"
    BY <1>7 DEF CalWriteAngle
  <2>2. trusted' => maxFile = maxSteps /\ StepsFit(maxSteps) /\ Near(pos, Center, maxSteps)
    BY <1>7, <2>1 DEF CalWriteAngle
  <2>3. angleFile' = Center /\ Center \in 60..120 /\ pc' = "move"
    BY <1>7 DEF CalWriteAngle, Center
  <2> QED BY <1>7, <2>2, <2>3 DEF CalWriteAngle
<1> QED BY <1>1, <1>2, <1>3, <1>4, <1>5, <1>6, <1>7 DEF Calibrate

LEMMA MoveTracks ==
  ASSUME AxisFits, StepperInv, TrackInv, Move
  PROVE  TrackInv'
<1>0. pos \in -Slack .. Travel + Slack /\ target' \in 60..120
  BY ReachableRange DEF StepperInv, Numbers, Move
<1>1. CASE trusted /\ switch = "works"
  <2>1. /\ StepsFit(maxFile) /\ maxSteps = maxFile
        /\ angleFile \in 60..120 /\ Near(pos, angleFile, maxFile)
    BY <1>1 DEF TrackInv, Calibrated, Move, Goto
  <2>2. Near(pos', target', maxFile)
    <3>1. CASE target' = angleFile
      BY <2>1, <3>1 DEF Move, axis
    <3>2. CASE target' # angleFile
      <4>1. pos' = RunStepTimes(pos, MoveWay(target'), MoveSteps(target')).pos
        BY <3>2 DEF Move, Run
      <4> QED BY <1>0, <1>1, <2>1, <4>1, MoveKeepsNear DEF MoveWay, MoveSteps
    <3> QED BY <3>1, <3>2
  <2> QED BY <1>1, <2>1, <2>2 DEF Move, Goto, TrackInv, Calibrated, Calibrating, InCalibration, files
<1>2. CASE ~(trusted /\ switch = "works")
  <2>1. ~trusted'
    BY <1>2 DEF Move
  <2> QED BY <2>1 DEF Move, Goto, TrackInv, Calibrating, InCalibration
<1> QED BY <1>1, <1>2

LEMMA CrashTracks ==
  ASSUME AxisFits, StepperInv, TrackInv, Crash \/ CrashInMotion
  PROVE  TrackInv'
<1>1. Die /\ pc' = "off"
  BY DEF Crash, CrashInMotion, CrashInRun, Die
<1>2. CASE trusted'
  <2>1. trusted /\ pc \in {"idle", "disable"}
    BY <1>1, <1>2 DEF Die
  <2>2. Crash
    BY <2>1 DEF CrashInMotion
  <2> QED BY <1>1, <2>1, <2>2 DEF Crash, Die, TrackInv, Calibrated, Calibrating, InCalibration, files, axis
<1>3. CASE ~trusted'
  BY <1>1, <1>3 DEF TrackInv, Calibrating
<1> QED BY <1>2, <1>3

LEMMA TrackInvStep ==
  ASSUME AxisFits, StepperInv, Booleans, TrackInv, [Next]_vars
  PROVE  TrackInv'
<1> USE DEF TrackInv, Calibrated, Calibrating, InCalibration, Goto, files, axis
<1>1. CASE Start
  <2>1. trusted' => angleFile' = angleFile /\ maxSteps' = maxFile
    BY <1>1 DEF Start
  <2> QED BY <1>1, <2>1 DEF Start
<1>2. CASE Stop
  BY <1>2 DEF Stop
<1>3. ASSUME NEW angle \in Angles, SetCmd(angle) PROVE TrackInv'
  <2>1. trusted => pc' = "move"
    <3>1. trusted => maxFile \in 1 .. 2489
      BY StepsFitFacts
    <3> QED BY <1>3, <3>1 DEF SetCmd, DefaultSteps
  <2> QED BY <1>3, <2>1 DEF SetCmd
<1>4. CASE Calibrate
  BY <1>4, CalibrateTracks
<1>5. CASE Move
  BY <1>5, MoveTracks
<1>6. CASE OpenAngle
  BY <1>6 DEF OpenAngle
<1>7. CASE WriteAngle
  BY <1>7 DEF WriteAngle, StepperInv
<1>8. CASE Disable
  BY <1>8 DEF Disable
<1>9. CASE Crash \/ CrashInMotion
  BY <1>9, CrashTracks
<1>10. CASE DeleteFiles
  BY <1>10 DEF DeleteFiles
<1>11. CASE UNCHANGED vars
  BY <1>11 DEF vars
<1> QED BY <1>1, <1>2, <1>3, <1>4, <1>5, <1>6, <1>7, <1>8, <1>9, <1>10, <1>11 DEF Next

(* On every axis that fits, the angle file tells the truth within one      *)
(* degree from a calibration on, over any number of moves to any angles    *)
(* and of restarts, until a motion is cut short or made without a working  *)
(* switch.                                                                 *)
THEOREM StepperTracksAngle == AxisFits => (Spec => []TracksAngle)
<1> SUFFICES ASSUME AxisFits
             PROVE  Spec => []TracksAngle
  OBVIOUS
<1>1. Init => TrackInv
  BY DEF Init, TrackInv, Calibrating
<1>2. (StepperInv /\ Booleans) /\ TrackInv /\ [Next]_vars => TrackInv'
  BY TrackInvStep
<1>3. TrackInv => TracksAngle
  BY DEF TrackInv, Calibrated, TracksAngle, Near
<1> QED BY <1>1, <1>2, <1>3, StepperInvariant, PTL DEF Spec
=============================================================================
