-------------------------------- MODULE Rps --------------------------------
(***************************************************************************)
(* games/rps: the functions of the game table `rps', as operators on the    *)
(* game state.                                                              *)
(***************************************************************************)
EXTENDS Integers

ROCK      == 1
PAPER     == 2
SCISSORS  == 3
NO_CHOICE == 0

RpsState == [choices : [{1, 2} -> NO_CHOICE .. SCISSORS]]

make_rps_game_state == {[choices |-> [p \in {1, 2} |-> NO_CHOICE]]}

\* Mutant: the wrap from ROCK to SCISSORS is forgotten.
eval_game_end_NoWrap(reference, other) ==
    IF reference = other THEN "TIE"
    ELSE IF reference - 1 = other THEN "WON"
    ELSE "LOST"

\* The ending of the player who chose `reference'.
eval_game_end(reference, other) ==
    IF reference = other THEN "TIE"
    ELSE IF reference - 1 = other THEN "WON"
    ELSE IF other - 1 = reference THEN "LOST"
    ELSE IF reference = ROCK /\ other = SCISSORS THEN "WON"
    ELSE "LOST"

\* Mutant: one past SCISSORS is taken.
rps_validate_move_OffByOne(s, p, move) ==
    IF s.choices[p] # NO_CHOICE THEN "ERR_OUT_OF_TURN"
    ELSE IF move < ROCK \/ SCISSORS + 1 < move THEN "ERR_INVAL_CHOICE"
    ELSE "OK"

rps_validate_move(s, p, move) ==
    IF s.choices[p] # NO_CHOICE THEN "ERR_OUT_OF_TURN"
    ELSE IF move < ROCK \/ SCISSORS < move THEN "ERR_INVAL_CHOICE"
    ELSE "OK"

\* The state evaluate_move leaves, and what it returns.
rps_evaluate_move(s, p, move) == [s EXCEPT !.choices[p] = move]

rps_move_state(s, p, move) ==
    LET other == s.choices[3 - p] IN
    IF other = NO_CHOICE THEN "SILENT_MOVE" ELSE eval_game_end(move, other)

\* Mutant: the player that moved last gets its own choice back.
rps_ending_Echo(s, p, move_state, move) ==
    CASE move_state = "WON"  -> [mover |-> <<"WON", move>>, other |-> <<"LOST", move>>]
      [] move_state = "LOST" -> [mover |-> <<"LOST", move>>, other |-> <<"WON", move>>]
      [] move_state = "TIE"  -> [mover |-> <<"TIE", move>>, other |-> <<"TIE", move>>]

\* won, tied and lost: the END_OF_GAME updates, an ending and a choice.
rps_ending(s, p, move_state, move) ==
    LET others_choice == s.choices[3 - p] IN
    CASE move_state = "WON"  -> [mover |-> <<"WON", others_choice>>, other |-> <<"LOST", move>>]
      [] move_state = "LOST" -> [mover |-> <<"LOST", others_choice>>, other |-> <<"WON", move>>]
      [] move_state = "TIE"  -> [mover |-> <<"TIE", move>>, other |-> <<"TIE", move>>]

=============================================================================
