----------------------------- MODULE TicTacToe -----------------------------
(***************************************************************************)
(* Tic-tac-toe as two players expect it, with what each is told in the end. *)
(***************************************************************************)
EXTENDS Naturals

VARIABLES board,   \* 0, or the player whose mark a square bears
          turn,    \* the player to move
          told     \* the ending each player was told

tttVars == <<board, turn, told>>

Squares == 0 .. 8
Players == {1, 2}

Rows      == {{3 * i + j : j \in 0 .. 2} : i \in 0 .. 2}
Columns   == {{3 * i + j : i \in 0 .. 2} : j \in 0 .. 2}
Diagonals == {{4 * i : i \in 0 .. 2}, {2 + 2 * i : i \in 0 .. 2}}
Lines     == Rows \cup Columns \cup Diagonals

HasLine(b, p) == \E line \in Lines : \A c \in line : b[c] = p
Full(b)       == \A c \in Squares : b[c] # 0

TicTacToeInit ==
    /\ board = [c \in Squares |-> 0]
    /\ turn \in Players
    /\ told = [p \in Players |-> "none"]

Playing == told = [p \in Players |-> "none"]

Marked(p, c) == [board EXCEPT ![c] = p]

Play(p, c) ==
    /\ Playing
    /\ turn = p
    /\ board[c] = 0
    /\ board' = Marked(p, c)
    /\ IF HasLine(board', p)
       THEN told' = [q \in Players |-> IF q = p THEN "WON" ELSE "LOST"] /\ UNCHANGED turn
       ELSE IF Full(board')
       THEN told' = [q \in Players |-> "TIE"] /\ UNCHANGED turn
       ELSE turn' = 3 - p /\ UNCHANGED told

\* A player leaves, the other is told; a last move may go unconfirmed.
Abandon(p) ==
    /\ Playing
    /\ told' = [q \in Players |-> IF q = p THEN "none" ELSE "OPP"]
    /\ \/ UNCHANGED board
       \/ turn = p /\ \E c \in Squares : board[c] = 0 /\ board' = Marked(p, c)
    /\ turn' \in Players

TicTacToeNext == \E p \in Players : Abandon(p) \/ \E c \in Squares : Play(p, c)

TicTacToeSpec == TicTacToeInit /\ [][TicTacToeNext]_tttVars

=============================================================================
