----------------------------- MODULE MCPetDevice -----------------------------
(* Finite instances of PetDevice: the commands the platform sends.         *)
EXTENDS PetDevice

Cmd(name, direction, amplitude, speed, count) ==
  [name |-> name, direction |-> direction, amplitude |-> amplitude,
   speed |-> speed, count |-> count]

Tilt      == Cmd("head_tilt", "right", "large", "fast", <<>>)
Shake     == Cmd("head_shake", "", "small", "slow", <<1>>)
Reset     == Cmd("head_reset", "", "", "", <<>>)
FanOn     == Cmd("set_fan_speed", "", "", "fast", <<>>)
BadTilt   == Cmd("head_tilt", "right", "", "fast", <<>>)
Garbage   == Cmd("{", "", "", "", <<>>)

MCMessages   == {Tilt, Shake, Reset, FanOn, BadTilt, Garbage}
MCWellFormed == MCMessages \ {Garbage}
MCPayloads   == PetState \cup PetEvent

(* A smaller vocabulary for liveness: the motion, the longest command.     *)
LiveMessages   == {Tilt}
=============================================================================
