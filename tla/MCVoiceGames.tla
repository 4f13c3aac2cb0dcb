---------------------------- MODULE MCVoiceGames ----------------------------
(* A small instance of VoiceGames for TLC. *)
EXTENDS VoiceGames, TLC

\* Blocks are interchangeable.
Symmetry == Permutations(Envs)

=============================================================================
