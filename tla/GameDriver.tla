----------------------------- MODULE GameDriver -----------------------------
(***************************************************************************)
(* One game from its start to its end: play_game (lib/game_driver.c) with   *)
(* the function table of either game, and the two ways serve_clients        *)
(* (game_server.c) ends a game without a move.  The requests are whatever   *)
(* two clients may send, in and out of turn; a client may leave.            *)
(*                                                                          *)
(* `known' and `ending' are what a client makes of the messages it is sent, *)
(* as TTTutils.java, the activities and their web views read them.  Death   *)
(* by SIGPIPE and the end of the server are GameServer's.                   *)
(***************************************************************************)
EXTENDS Ttt, Rps

CONSTANT Moves   \* the payload bytes clients send

ASSUME MovesAssumption == Moves \subseteq 0 .. 255

Players == {1, 2}
Games   == {"TTT", "RPS"}
Endings == {"WON", "LOST", "TIE", "OPP"}

Other(p) == 3 - p

VARIABLES
    game,    \* env->game
    state,   \* env->game_state
    phase,   \* playing, or destroyed: not in the collection any more
    left,    \* players that quit or whose connection is lost
    known,   \* known[p][q]: moves of q that p had confirmed or was told of
    ending   \* the last update each player was sent that ends a game

vars == <<game, state, phase, left, known, ending>>

TypeOK ==
    /\ game   \in Games
    /\ state  \in IF game = "TTT" THEN TttState ELSE RpsState
    /\ phase  \in {"playing", "destroyed"}
    /\ left   \subseteq Players
    /\ known  \in [Players -> [Players -> SUBSET Moves]]
    /\ ending \in [Players -> Endings \cup {"none"}]

\* gcol_create, for two players that are connected.
Init ==
    /\ game   \in Games
    /\ state  \in IF game = "TTT" THEN make_ttt_game_state ELSE make_rps_game_state
    /\ phase  = "playing"
    /\ left   = {}
    /\ known  = [p \in Players |-> [q \in Players |-> {}]]
    /\ ending = [p \in Players |-> "none"]

-----------------------------------------------------------------------------
(* The function table.                                                      *)

validate_move(p, m) ==
    IF game = "TTT" THEN ttt_validate_move(state, p, m) ELSE rps_validate_move(state, p, m)

evaluate_move(p, m) ==
    IF game = "TTT" THEN ttt_evaluate_move(state, m) ELSE rps_evaluate_move(state, p, m)

MoveState(p, m) ==
    IF game = "TTT" THEN ttt_move_state(state, m) ELSE rps_move_state(state, p, m)

Ending(p, m) ==
    IF game = "TTT" THEN ttt_ending(MoveState(p, m), m)
                    ELSE rps_ending(state, p, MoveState(p, m), m)

-----------------------------------------------------------------------------
(* The clients' reading of what they are sent.                              *)

\* A success response: the client's own move stands.
Confirmed(k, p, m) == [k EXCEPT ![p][p] = @ \cup {m}]

\* The move in an update is the opponent's.  A tic-tac-toe client ignores one
\* for a square that is marked already, as the winner's own last move is.
Learnt(k, p, m) ==
    IF game = "TTT" /\ m \in k[p][1] \cup k[p][2] THEN k
    ELSE [k EXCEPT ![p][Other(p)] = @ \cup {m}]

-----------------------------------------------------------------------------
(* serve_clients takes one request of p.                                    *)

Leave(p) ==
    /\ phase = "playing"
    /\ p \notin left
    /\ left' = left \cup {p}
    /\ UNCHANGED <<game, state, phase, known, ending>>

\* play_game: a move that does not validate gets a response and nothing else.
Refused(p, m) ==
    /\ phase = "playing"
    /\ validate_move(p, m) # "OK"
    /\ UNCHANGED vars

Valid(p, m) == phase = "playing" /\ validate_move(p, m) = "OK"

\* evaluate_move_state for SILENT_MOVE and OK: only a move of an open game is
\* passed on to the other player.
GoesOn(p, m) ==
    /\ Valid(p, m)
    /\ MoveState(p, m) \in {"OK", "SILENT_MOVE"}
    /\ state' = evaluate_move(p, m)
    /\ LET k == Confirmed(known, p, m)
       IN  known' = IF MoveState(p, m) = "SILENT_MOVE" THEN k ELSE Learnt(k, Other(p), m)
    /\ UNCHANGED <<game, phase, left, ending>>

\* evaluate_move_state for WON, LOST and TIE: both are sent the ending.
Ends(p, m) ==
    /\ Valid(p, m)
    /\ MoveState(p, m) \in {"WON", "LOST", "TIE"}
    /\ state'  = evaluate_move(p, m)
    /\ phase'  = "destroyed"
    /\ ending' = [q \in Players |->
                     IF q = p THEN Ending(p, m).mover[1] ELSE Ending(p, m).other[1]]
    /\ known'  = Learnt(Learnt(Confirmed(known, p, m), p, Ending(p, m).mover[2]),
                        Other(p), Ending(p, m).other[2])
    /\ UNCHANGED <<game, left>>

\* Mutant: the player that is gone is told that its opponent left.
Unanswered_TellsMover(p, m) ==
    /\ Valid(p, m)
    /\ p \in left
    /\ state'  = evaluate_move(p, m)
    /\ phase'  = "destroyed"
    /\ ending' = [ending EXCEPT ![p] = "OPP"]
    /\ UNCHANGED <<game, left, known>>

\* The response cannot be written: the other player is told that p left, be
\* the move the one that ends the game or not.
Unanswered(p, m) ==
    /\ Valid(p, m)
    /\ p \in left
    /\ state'  = evaluate_move(p, m)
    /\ phase'  = "destroyed"
    /\ ending' = [ending EXCEPT ![Other(p)] = "OPP"]
    /\ UNCHANGED <<game, left, known>>

\* asses_read_move_state: end of file.
Disconnect(p) ==
    /\ phase = "playing"
    /\ p \in left
    /\ phase'  = "destroyed"
    /\ ending' = [ending EXCEPT ![Other(p)] = "OPP"]
    /\ UNCHANGED <<game, state, left, known>>

\* asses_quit.
Quit(p) ==
    /\ phase = "playing"
    /\ phase'  = "destroyed"
    /\ ending' = [ending EXCEPT ![Other(p)] = "OPP"]
    /\ left'   = left \cup {p}
    /\ UNCHANGED <<game, state, known>>

Next ==
    \E p \in Players :
        \/ Leave(p) \/ Disconnect(p) \/ Quit(p)
        \/ \E m \in Moves : Refused(p, m) \/ GoesOn(p, m) \/ Ends(p, m) \/ Unanswered(p, m)

Spec == Init /\ [][Next]_vars

\* A client that stays makes a move the server takes when it can; the server
\* reads the end of file of one that left.
Moving(p) == p \notin left /\ \E m \in Moves : GoesOn(p, m) \/ Ends(p, m)

FairSpec == Spec /\ \A p \in Players : WF_vars(Moving(p)) /\ WF_vars(Disconnect(p))

-----------------------------------------------------------------------------
(* What makes a game correct.                                               *)

\* The two games as their players expect them.
T == INSTANCE TicTacToe WITH
    board <- IF game = "TTT" THEN state.cells ELSE [c \in Cells |-> FREE_CELL],
    turn  <- IF game = "TTT" THEN OnTurn(state) ELSE 1,
    told  <- IF game = "TTT" THEN ending ELSE [p \in Players |-> "none"]

R == INSTANCE RockPaperScissors WITH
    throw <- IF game = "RPS" THEN state.choices ELSE [p \in Players |-> 0],
    seen  <- [p \in Players |-> IF game = "RPS" THEN known[p][Other(p)] ELSE {}],
    told  <- IF game = "RPS" THEN ending ELSE [p \in Players |-> "none"]

\* validate_move, evaluate_move, user_won and the three endings of ttt.c
\* together play tic-tac-toe: marks in turn, on free squares, until a line or
\* a full board, and each player is told the ending that is its own.
ImplementsTicTacToe == T!TicTacToeSpec

\* rps.c plays rock, paper, scissors: nobody is shown a choice before both
\* have chosen, the choice shown is the opponent's, and the ending is that of
\* the relation Beats, whoever moved last.
ImplementsRockPaperScissors == R!RpsSpec

Marks(board, p) == {c \in Cells : board[c] = p}

PlayerX == IF state.player_1_is_X THEN 1 ELSE 2

\* cells_taken, from which a tie is told, is the number of marks, and the
\* marks alternate from X.
BoardCounted ==
    game = "TTT" =>
        LET Of(p) == Cardinality(Marks(state.cells, p))
        IN  /\ state.cells_taken = Of(1) + Of(2)
            /\ Of(PlayerX) - Of(Other(PlayerX)) \in {0, 1}

\* A tic-tac-toe client holds that it is its turn by the symbol it was told
\* and the moves it knows of.
HoldsTurn(p) ==
    LET mine   == Cardinality(known[p][p])
        theirs == Cardinality(known[p][Other(p)])
    IN  IF ttt_symbol(state, p) = "X" THEN mine = theirs ELSE mine < theirs

\* Server and clients agree at any time on whose turn it is: one player holds
\* that it is, and that player's request is the one not out of turn.
TurnAgreed ==
    game = "TTT" /\ phase = "playing" =>
        \A p \in Players, m \in Moves :
            HoldsTurn(p) <=> validate_move(p, m) # "ERR_OUT_OF_TURN"

Made(q) ==
    IF game = "TTT" THEN Marks(state.cells, q)
    ELSE {state.choices[q]} \ {NO_CHOICE}

\* What a player was sent lets it follow the game: it knows all of both
\* players' moves, or in rock, paper, scissors its own until both have
\* chosen.  It does up to the ending, unless the opponent left.
PlayersKnow ==
    \A p \in Players : ending[p] # "OPP" /\ ending[Other(p)] # "OPP" =>
        /\ known[p][p] = Made(p)
        /\ known[p][Other(p)] =
               IF game = "RPS" /\ Made(p) = {} THEN {}
               ELSE IF game = "RPS" /\ phase = "playing" THEN {}
               ELSE Made(Other(p))

\* When a game is destroyed, a player that did not leave was sent an ending,
\* and none was sent one before.
ToldTheEnd ==
    \A p \in Players :
        /\ phase = "playing" => ending[p] = "none"
        /\ phase = "destroyed" => ending[p] # "none" \/ p \in left

\* Players that make valid moves, or leave, come to the end of their game.
EveryGameEnds == phase = "playing" ~> phase = "destroyed"

=============================================================================
