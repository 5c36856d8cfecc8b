--------------------------- MODULE MCVoiceClient ---------------------------
(* A voice client with a ring of a few slots.                              *)
EXTENDS VoiceClient

MCFrames == [type : FrameTypes, task : 0..MaxTasks, call : 0..MaxCalls]
=============================================================================
