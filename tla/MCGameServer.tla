---------------------------- MODULE MCGameServer ----------------------------
(* Small instances of GameServer for TLC. *)
EXTENDS GameServer, TLC

\* Blocks are interchangeable.
Symmetry == Permutations(Envs)

=============================================================================
