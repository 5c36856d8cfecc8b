-------------------------- MODULE MCStepperDriver --------------------------
(* A stepper with 900 steps of travel, and of the angles in                *)
(* pet_motors.c:30-35 the neutral one, both ends and one between.          *)
EXTENDS StepperDriver

MCAngles == {Center - 30, Center - 10, Center, Center + 30}
MCStarts == {0, 300}

(* The axis of this instance is one that TracksAngle is promised for.      *)
ASSUME MCAxisFits == AxisFits
=============================================================================
