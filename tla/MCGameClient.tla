----------------------------- MODULE MCGameClient -----------------------------
(***************************************************************************)
(* Games of either kind, seen from either side: tic-tac-toe on three cells, *)
(* which the player that begins fills with its second move, and the three   *)
(* choices.                                                                 *)
(***************************************************************************)
EXTENDS GameClient

=============================================================================
