----------------------------- MODULE MCGamingProt -----------------------------
(***************************************************************************)
(* One connection on which a few of these requests are sent: the ones the   *)
(* apps send, and those that the tests of types, contexts and payloads are  *)
(* there for.                                                               *)
(***************************************************************************)
EXTENDS GamingProt

Request(type, context, payload) ==
    [type |-> type, context |-> context, payload |-> payload]

Choice == Request(1, 1, <<1, 1>>)   \* tic-tac-toe
Vague  == Request(0, 0, <<1, 9>>)   \* neither type nor context, a game there is not
Move   == Request(4, 1, <<0>>)      \* to the first cell
Empty  == Request(4, 1, <<>>)       \* a move that does not say where
Quit   == Request(3, 1, <<>>)

MCOpenings == {Choice, Vague}
MCRequests == {Choice, Vague, Move, Empty, Quit}

=============================================================================
