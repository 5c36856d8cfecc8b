---------------------------- MODULE MCVoiceChat ----------------------------
(* One microphone and one loudspeaker.                                     *)
EXTENDS VoiceChat
=============================================================================
