---------------------------- MODULE MCVoiceServer ----------------------------
(* Small instances of VoiceServer for TLC. *)
EXTENDS VoiceServer

=============================================================================
