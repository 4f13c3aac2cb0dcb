-------------------------------- MODULE Ttt --------------------------------
(***************************************************************************)
(* games/ttt: the functions of the game table `ttt', as operators on the    *)
(* game state.  Players are 1 and 2, as the marks they leave on the board.  *)
(***************************************************************************)
EXTENDS Integers, FiniteSets

CELLS_IN_GRID == 9
ROW_DIFF      == 3
COL_DIFF      == 1
FD_DIFF       == 2
BD_DIFF       == 4

Cells     == 0 .. CELLS_IN_GRID - 1   \* R0_C0, R0_C1, ..., R2_C2
FREE_CELL == 0

TttState == [cells : [Cells -> {FREE_CELL, 1, 2}], cells_taken : 0 .. CELLS_IN_GRID,
             player_1_is_X : BOOLEAN, X_turn : BOOLEAN]

\* make_ttt_game_state: who plays X is drawn.
make_ttt_game_state ==
    {[cells |-> [c \in Cells |-> FREE_CELL], cells_taken |-> 0,
      player_1_is_X |-> x, X_turn |-> TRUE] : x \in BOOLEAN}

-----------------------------------------------------------------------------
(* ttt_utils.c: does the board hold a line?                                 *)

\* From starting_cell to ending_cell in steps of displacement, is there a cell
\* that starts three equal marks, winning_cell_diff apart?
eval_win_condition(board, starting_cell, ending_cell, winning_cell_diff, displacement) ==
    \E cell \in starting_cell .. ending_cell :
        /\ (cell - starting_cell) % displacement = 0
        /\ board[cell] # FREE_CELL
        /\ board[cell] = board[cell + winning_cell_diff]
        /\ board[cell] = board[cell + winning_cell_diff * 2]

won_row(board)    == eval_win_condition(board, 0, 6, COL_DIFF, ROW_DIFF)
won_col(board)    == eval_win_condition(board, 0, 2, ROW_DIFF, COL_DIFF)

\* Mutant: the scan starts where the comment on eval_win_condition has it for
\* every line but one.
won_f_diag_FromCorner(board) == eval_win_condition(board, 0, 3, FD_DIFF, CELLS_IN_GRID)

won_f_diag(board) == eval_win_condition(board, 2, 3, FD_DIFF, CELLS_IN_GRID)
won_b_diag(board) == eval_win_condition(board, 0, 1, BD_DIFF, CELLS_IN_GRID)

user_won(board) ==
    won_row(board) \/ won_col(board) \/ won_f_diag(board) \/ won_b_diag(board)

-----------------------------------------------------------------------------
(* ttt.c                                                                    *)

player_1_turn(s) == s.X_turn = s.player_1_is_X

OnTurn(s) == IF player_1_turn(s) THEN 1 ELSE 2

\* The cell is read only when the move is in range.
ttt_validate_move(s, p, move) ==
    IF p # OnTurn(s) THEN "ERR_OUT_OF_TURN"
    ELSE IF move \notin Cells \/ s.cells[move] # FREE_CELL THEN "ERR_INVAL_CHOICE"
    ELSE "OK"

\* The mark is made for the player whose turn it is.
Mark(s, move) ==
    [s EXCEPT !.cells[move] = OnTurn(s), !.cells_taken = @ + 1]

\* Mutant: a full board is not looked for.
ttt_move_state_NoTie(s, move) ==
    IF user_won(Mark(s, move).cells) THEN "WON" ELSE "OK"

\* What evaluate_move returns.
ttt_move_state(s, move) ==
    IF user_won(Mark(s, move).cells) THEN "WON"
    ELSE IF Mark(s, move).cells_taken = CELLS_IN_GRID THEN "TIE"
    ELSE "OK"

\* Mutant: a move does not count.
ttt_evaluate_move_Uncounted(s, move) ==
    IF ttt_move_state(s, move) # "OK" THEN Mark(s, move)
    ELSE [Mark(s, move) EXCEPT !.X_turn = ~@, !.cells_taken = @ - 1]

\* The state evaluate_move leaves: the turn passes when the game goes on.
ttt_evaluate_move(s, move) ==
    IF ttt_move_state(s, move) = "OK" THEN [Mark(s, move) EXCEPT !.X_turn = ~@]
    ELSE Mark(s, move)

\* Mutant: both updates carry the symbol of player 1.
ttt_symbol_Same(s, p) == IF s.player_1_is_X THEN "X" ELSE "O"

\* game_start: the payload of each player's START_GAME update.
ttt_symbol(s, p) ==
    IF s.player_1_is_X THEN (IF p = 1 THEN "X" ELSE "O")
                       ELSE (IF p = 1 THEN "O" ELSE "X")

\* won and tied: the END_OF_GAME update sent to the mover and to the other
\* player, an ending and the move that ended the game.
ttt_ending(move_state, move) ==
    CASE move_state = "WON" -> [mover |-> <<"WON", move>>, other |-> <<"LOST", move>>]
      [] move_state = "TIE" -> [mover |-> <<"TIE", move>>, other |-> <<"TIE", move>>]

=============================================================================
