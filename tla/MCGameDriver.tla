--------------------------- MODULE MCGameDriver ---------------------------
(***************************************************************************)
(* GameDriver with every square and choice, and the bytes next to them.     *)
(***************************************************************************)
EXTENDS GameDriver

MCMoves == 0 .. 9

=============================================================================
