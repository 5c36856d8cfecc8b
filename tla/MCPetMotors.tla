---------------------------- MODULE MCPetMotors ----------------------------
(* Every failing init; then up to three fan commands, each with a thread.  *)
EXTENDS PetMotors
=============================================================================
