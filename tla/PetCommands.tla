----------------------------- MODULE PetCommands -----------------------------
(***************************************************************************)
(* The command language of the pet (src/src/main.c) and the poses it       *)
(* stands for (src/src/pet_motors.c): what each command requires of its    *)
(* parameters, what it does to g_state, which angles it sends to the       *)
(* stepper, and what the snapshot and the event say afterwards.            *)
(*                                                                         *)
(* A message on the commands topic is a record                             *)
(*   [name, direction, amplitude, speed : STRING, count : Seq(Int)]        *)
(* where a string outside the enum stands for a missing or a foreign       *)
(* value and count is <<n>> for a JSON number, <<>> for anything else.     *)
(***************************************************************************)
EXTENDS Integers, Sequences

Parts      == {"head", "body", "tail"}
Directions == {"left", "right"}
Amplitudes == {"large", "medium", "small"}
Speeds     == {"fast", "medium", "slow"}
FanSpeeds  == Speeds \cup {"off"}

PetState == [active    : [Parts -> BOOLEAN],
             direction : [Parts -> Directions],
             amplitude : [Parts -> Amplitudes],
             fan_speed : FanSpeeds]

InitialPetState == [active    |-> [p \in Parts |-> FALSE],
                    direction |-> [p \in Parts |-> "left"],
                    amplitude |-> [p \in Parts |-> "medium"],
                    fan_speed |-> "off"]

(* The payload of a "*_state_changed" event; the keys are the head's.      *)
PetEvent ==
  [part : Parts, tilting : BOOLEAN,
   tilt_direction : Directions, tilt_amplitude : Amplitudes]
    \cup [speed : FanSpeeds]

-----------------------------------------------------------------------------
(* handle_command: the strcmp chain; each name stands for one cmd_* on one  *)
(* part.                                                                    *)
HeadCommands == {"head_tilt", "head_shake", "head_reset"}
BodyCommands == {"body_turn", "body_reset"}
TailCommands == {"tail_swing", "tail_wag", "tail_reset"}

IsMove(m)      == m.name \in {"head_tilt", "body_turn", "tail_swing"}
IsOscillate(m) == m.name \in {"head_shake", "tail_wag"}
IsReset(m)     == m.name \in {"head_reset", "body_reset", "tail_reset"}
IsFan(m)       == m.name = "set_fan_speed"
Known(m)       == IsMove(m) \/ IsOscillate(m) \/ IsReset(m) \/ IsFan(m)

PartOf(m) == IF m.name \in HeadCommands THEN "head"
             ELSE IF m.name \in BodyCommands THEN "body" ELSE "tail"

(* The checks each cmd_* makes before it touches a motor.                  *)
ValidParams(m) ==
  /\ IsMove(m) => m.direction \in Directions
  /\ IsMove(m) \/ IsOscillate(m) => m.amplitude \in Amplitudes /\ m.speed \in Speeds
  /\ IsOscillate(m) => m.count # <<>>
  /\ IsFan(m) => m.speed \in FanSpeeds

(* The code of the response: 404, 400 or 0.                                *)
Verdict(m) == IF ~Known(m) THEN 404 ELSE IF ~ValidParams(m) THEN 400 ELSE 0

(* The number of round trips cmd_oscillate asks for.                       *)
Rounds(m) == LET n == m.count[1] IN IF n < 0 THEN 0 ELSE IF n > 3 THEN 3 ELSE n

-----------------------------------------------------------------------------
(* pet_motors.c: poses and fan duty.                                       *)
CenterAngle == 90
AmpOffset   == [small |-> 10, medium |-> 20, large |-> 30]
FanDuty     == [off |-> 0, slow |-> 33, medium |-> 66, fast |-> 100]
FanDead     == -1     \* pthread_create failed: the fan has no PWM thread

PoseAngle(direction, amplitude) ==
  IF direction = "left" THEN CenterAngle - AmpOffset[amplitude]
                        ELSE CenterAngle + AmpOffset[amplitude]

(* The stepper_goto calls of pet_part_oscillate.                           *)
Swings(n, amplitude) ==
  [i \in 1 .. 2 * n + 1 |->
     IF i = 2 * n + 1 THEN CenterAngle
     ELSE PoseAngle(IF i % 2 = 1 THEN "left" ELSE "right", amplitude)]

(* The stepper_goto calls of a command.                                    *)
Targets(m) == IF IsMove(m) THEN <<PoseAngle(m.direction, m.amplitude)>>
              ELSE IF IsOscillate(m) THEN Swings(Rounds(m), m.amplitude)
              ELSE IF IsReset(m) THEN <<CenterAngle>> ELSE <<>>

-----------------------------------------------------------------------------
Apply_KeepsActive(m, s) ==      \* fault: cmd_oscillate leaves "tilting" set
  IF IsFan(m) THEN [s EXCEPT !.fan_speed = m.speed]
  ELSE [s EXCEPT !.active[PartOf(m)]    = IF IsOscillate(m) THEN @ ELSE IsMove(m),
                 !.direction[PartOf(m)] = IF IsMove(m) THEN m.direction ELSE @,
                 !.amplitude[PartOf(m)] = IF IsReset(m) THEN @ ELSE m.amplitude]

Apply_Unchecked(m, s) ==        \* fault: stores a direction nobody checked
  IF IsFan(m) THEN [s EXCEPT !.fan_speed = m.speed]
  ELSE [s EXCEPT !.active[PartOf(m)]    = IsMove(m),
                 !.direction[PartOf(m)] = m.direction,
                 !.amplitude[PartOf(m)] = IF IsReset(m) THEN @ ELSE m.amplitude]

(* What an accepted command leaves in g_state.                             *)
Apply(m, s) ==
  IF IsFan(m) THEN [s EXCEPT !.fan_speed = m.speed]
  ELSE [s EXCEPT !.active[PartOf(m)]    = IsMove(m),
                 !.direction[PartOf(m)] = IF IsMove(m) THEN m.direction ELSE @,
                 !.amplitude[PartOf(m)] = IF IsReset(m) THEN @ ELSE m.amplitude]

(* emit_part_event and the fan_state_changed event.                        *)
EventOf(m, s) ==
  IF IsFan(m) THEN [speed |-> s.fan_speed]
  ELSE [part           |-> PartOf(m),
        tilting        |-> s.active[PartOf(m)],
        tilt_direction |-> s.direction[PartOf(m)],
        tilt_amplitude |-> s.amplitude[PartOf(m)]]
=============================================================================
