---------------------------- MODULE GameProofs ----------------------------
(***************************************************************************)
(* Proofs about Ttt, Rps and GameDriver, for every board, every choice and  *)
(* every set of bytes that clients send.                                    *)
(***************************************************************************)
EXTENDS GameDriver, FiniteSetTheorems, TLAPS

Boards == [Cells -> {FREE_CELL, 1, 2}]

\* Three squares bear the same mark.
Three(b, i, j, k) == b[i] # FREE_CELL /\ b[i] = b[j] /\ b[i] = b[k]

\* They bear the mark of p.
Bears(b, p, i, j, k) == b[i] = p /\ b[j] = p /\ b[k] = p

-----------------------------------------------------------------------------
(* The scan of ttt_utils.c finds the lines of the game, and nothing else.   *)

\* The starting cells of each scan.
LEMMA Starts ==
    /\ \A c \in 0 .. 6 : (c - 0) % 3 = 0 <=> c = 0 \/ c = 3 \/ c = 6
    /\ \A c \in 0 .. 2 : (c - 0) % 1 = 0
    /\ \A c \in 2 .. 3 : (c - 2) % 9 = 0 <=> c = 2
    /\ \A c \in 0 .. 1 : (c - 0) % 9 = 0 <=> c = 0
  OBVIOUS

\* What each of the four scans reports.
LEMMA Scans ==
    ASSUME NEW b \in Boards
    PROVE  /\ won_row(b) <=> Three(b, 0, 1, 2) \/ Three(b, 3, 4, 5) \/ Three(b, 6, 7, 8)
           /\ won_col(b) <=> Three(b, 0, 3, 6) \/ Three(b, 1, 4, 7) \/ Three(b, 2, 5, 8)
           /\ won_f_diag(b) <=> Three(b, 2, 4, 6)
           /\ won_b_diag(b) <=> Three(b, 0, 4, 8)
  <1>1. won_row(b) <=> Three(b, 0, 1, 2) \/ Three(b, 3, 4, 5) \/ Three(b, 6, 7, 8)
    BY Starts DEF won_row, eval_win_condition, Three, COL_DIFF, ROW_DIFF
  <1>2. won_col(b) <=> Three(b, 0, 3, 6) \/ Three(b, 1, 4, 7) \/ Three(b, 2, 5, 8)
    BY Starts DEF won_col, eval_win_condition, Three, COL_DIFF, ROW_DIFF
  <1>3. won_f_diag(b) <=> Three(b, 2, 4, 6)
    BY Starts DEF won_f_diag, eval_win_condition, Three, FD_DIFF, CELLS_IN_GRID
  <1>4. won_b_diag(b) <=> Three(b, 0, 4, 8)
    BY Starts DEF won_b_diag, eval_win_condition, Three, BD_DIFF, CELLS_IN_GRID
  <1> QED
    BY <1>1, <1>2, <1>3, <1>4

\* The lines of the abstract game, one by one.
LEMMA LinesListed ==
    T!Lines = {{0, 1, 2}, {3, 4, 5}, {6, 7, 8}, {0, 3, 6}, {1, 4, 7}, {2, 5, 8},
               {0, 4, 8}, {2, 4, 6}}
  <1>1. T!Rows = {{0, 1, 2}, {3, 4, 5}, {6, 7, 8}}
    <2>1. \A i \in 0 .. 2 : {3 * i + j : j \in 0 .. 2} = {3 * i, 3 * i + 1, 3 * i + 2}
      OBVIOUS
    <2> QED
      BY <2>1 DEF T!Rows
  <1>2. T!Columns = {{0, 3, 6}, {1, 4, 7}, {2, 5, 8}}
    <2>1. \A j \in 0 .. 2 : {3 * i + j : i \in 0 .. 2} = {j, 3 + j, 6 + j}
      OBVIOUS
    <2> QED
      BY <2>1 DEF T!Columns
  <1>3. T!Diagonals = {{0, 4, 8}, {2, 4, 6}}
    <2>1. {4 * i : i \in 0 .. 2} = {0, 4, 8} /\ {2 + 2 * i : i \in 0 .. 2} = {2, 4, 6}
      OBVIOUS
    <2> QED
      BY <2>1 DEF T!Diagonals
  <1> QED
    BY <1>1, <1>2, <1>3 DEF T!Lines

\* user_won reports a board if and only if one of the players has a line.
THEOREM ScanFindsLines ==
    ASSUME NEW b \in Boards
    PROVE  user_won(b) <=> \E p \in Players : T!HasLine(b, p)
  <1>1. ASSUME NEW p \in Players
        PROVE  T!HasLine(b, p) <=>
                 \/ Bears(b, p, 0, 1, 2) \/ Bears(b, p, 3, 4, 5) \/ Bears(b, p, 6, 7, 8)
                 \/ Bears(b, p, 0, 3, 6) \/ Bears(b, p, 1, 4, 7) \/ Bears(b, p, 2, 5, 8)
                 \/ Bears(b, p, 2, 4, 6) \/ Bears(b, p, 0, 4, 8)
    BY LinesListed DEF T!HasLine, Bears
  <1>2. \A c \in Cells : b[c] \in {0, 1, 2}
    BY DEF Boards, FREE_CELL
  <1>3. user_won(b) <=>
          \/ Three(b, 0, 1, 2) \/ Three(b, 3, 4, 5) \/ Three(b, 6, 7, 8) \/ Three(b, 0, 3, 6)
          \/ Three(b, 1, 4, 7) \/ Three(b, 2, 5, 8) \/ Three(b, 2, 4, 6) \/ Three(b, 0, 4, 8)
    BY Scans DEF user_won
  <1>4. \A i, j, k \in Cells : Three(b, i, j, k) <=> \E p \in Players : Bears(b, p, i, j, k)
    BY <1>2 DEF Three, Bears, FREE_CELL, Players
  <1>5. \A i \in 0 .. 8 : i \in Cells
    BY DEF Cells, CELLS_IN_GRID
  <1> QED
    BY <1>1, <1>3, <1>4, <1>5

\* eval_game_end, with its differences of bytes, is the relation Beats.
THEOREM EndingIsBeats ==
    ASSUME NEW a \in ROCK .. SCISSORS, NEW b \in ROCK .. SCISSORS
    PROVE  eval_game_end(a, b) = R!Ending(a, b)
  BY DEF eval_game_end, R!Ending, R!Beats, R!Rock, R!Paper, R!Scissors, ROCK, SCISSORS

-----------------------------------------------------------------------------
(* Boards and their marks.                                                  *)

\* The marks of both players are counted, add up to nine when the board is
\* full, and to less when it is not.
LEMMA MarksCounted ==
    ASSUME NEW b \in Boards
    PROVE  /\ \A p \in Players : IsFiniteSet(Marks(b, p)) /\ Cardinality(Marks(b, p)) \in Nat
           /\ Cardinality(Marks(b, 1)) + Cardinality(Marks(b, 2)) <= 9
           /\ Cardinality(Marks(b, 1)) + Cardinality(Marks(b, 2)) = 9 <=> T!Full(b)
  <1> DEFINE taken == Marks(b, 1) \cup Marks(b, 2)
  <1>1. IsFiniteSet(Cells) /\ Cardinality(Cells) = 9
    <2>1. Cells = 0 .. 8
      BY DEF Cells, CELLS_IN_GRID
    <2>2. 0 \in Int /\ 8 \in Int
      OBVIOUS
    <2>3. /\ IsFiniteSet(0 .. 8)
          /\ Cardinality(0 .. 8) = IF 0 > 8 THEN 0 ELSE 8 - 0 + 1
      BY <2>2, FS_Interval
    <2> QED
      BY <2>1, <2>3
  <1>2. \A p \in Players : IsFiniteSet(Marks(b, p)) /\ Cardinality(Marks(b, p)) \in Nat
    <2> SUFFICES ASSUME NEW p \in Players
                 PROVE  IsFiniteSet(Marks(b, p)) /\ Cardinality(Marks(b, p)) \in Nat
      OBVIOUS
    <2>1. Marks(b, p) \in SUBSET Cells
      BY DEF Marks
    <2> QED
      BY <1>1, <2>1, FS_Subset, FS_CardinalityType
  <1>3. Cardinality(taken) = Cardinality(Marks(b, 1)) + Cardinality(Marks(b, 2))
    <2>1. Marks(b, 1) \cap Marks(b, 2) = {}
      BY DEF Marks
    <2>2. Cardinality(Marks(b, 1) \cap Marks(b, 2)) = 0
      BY <2>1, FS_EmptySet
    <2>3. /\ IsFiniteSet(Marks(b, 1)) /\ Cardinality(Marks(b, 1)) \in Nat
          /\ IsFiniteSet(Marks(b, 2)) /\ Cardinality(Marks(b, 2)) \in Nat
      BY <1>2 DEF Players
    <2>4. Cardinality(taken) = Cardinality(Marks(b, 1)) + Cardinality(Marks(b, 2))
                               - Cardinality(Marks(b, 1) \cap Marks(b, 2))
      BY <2>3, FS_Union
    <2> QED
      BY <2>2, <2>3, <2>4
  <1>4. taken \in SUBSET Cells
    BY DEF Marks
  <1>5. Cardinality(taken) <= 9 /\ (Cardinality(taken) = 9 => taken = Cells)
    BY <1>1, <1>4, FS_Subset
  <1>6. taken = Cells <=> T!Full(b)
    BY DEF Marks, T!Full, T!Squares, Boards, Cells, CELLS_IN_GRID, FREE_CELL
  <1> QED
    BY <1>1, <1>2, <1>3, <1>5, <1>6

\* A mark on a free square is one more of its player, and none of the other.
LEMMA MarkCounted ==
    ASSUME NEW b \in Boards, NEW c \in Cells, NEW p \in Players, b[c] = FREE_CELL
    PROVE  LET n == [b EXCEPT ![c] = p]
           IN  /\ n \in Boards
               /\ Cardinality(Marks(n, p)) = Cardinality(Marks(b, p)) + 1
               /\ Marks(n, Other(p)) = Marks(b, Other(p))
  <1> DEFINE n == [b EXCEPT ![c] = p]
  <1>1. n \in Boards
    BY DEF Boards, Players
  <1>2. Marks(n, p) = Marks(b, p) \cup {c} /\ c \notin Marks(b, p)
    BY DEF Marks, Boards, Players, FREE_CELL
  <1>3. Marks(n, Other(p)) = Marks(b, Other(p))
    BY DEF Marks, Boards, Players, FREE_CELL, Other
  <1>4. IsFiniteSet(Marks(b, p))
    BY MarksCounted
  <1>5. Cardinality(Marks(n, p)) = Cardinality(Marks(b, p)) + 1
    BY <1>2, <1>4, FS_AddElement
  <1> QED
    BY <1>1, <1>3, <1>5

\* On a board without a line, the line a mark makes is its player's.
LEMMA LineIsMovers ==
    ASSUME NEW b \in Boards, NEW c \in Cells, NEW p \in Players, b[c] = FREE_CELL,
           ~user_won(b)
    PROVE  user_won([b EXCEPT ![c] = p]) <=> T!HasLine([b EXCEPT ![c] = p], p)
  <1> DEFINE n == [b EXCEPT ![c] = p]
  <1>1. n \in Boards
    BY DEF Boards, Players
  <1>2. ASSUME NEW q \in Players, q # p, T!HasLine(n, q)
        PROVE  FALSE
    <2>1. PICK line \in T!Lines : \A i \in line : n[i] = q
      BY <1>2 DEF T!HasLine
    <2>2. line \subseteq Cells
      BY LinesListed DEF Cells, CELLS_IN_GRID
    <2>3. \A i \in line : b[i] = q
      BY <1>2, <2>1, <2>2 DEF Boards
    <2> QED
      BY <1>2, <2>3, ScanFindsLines DEF T!HasLine
  <1> QED
    BY <1>1, <1>2, ScanFindsLines

-----------------------------------------------------------------------------
(* A move that validates, in tic-tac-toe.                                   *)

\* The mark evaluate_move makes, and all it leaves as it was.
LEMMA MarkMade ==
    ASSUME NEW s \in TttState, NEW m \in Cells, s.cells_taken < CELLS_IN_GRID
    PROVE  /\ OnTurn(s) \in Players
           /\ Mark(s, m) \in TttState
           /\ Mark(s, m).cells = [s.cells EXCEPT ![m] = OnTurn(s)]
           /\ Mark(s, m).cells_taken = s.cells_taken + 1
           /\ Mark(s, m).player_1_is_X = s.player_1_is_X
           /\ Mark(s, m).X_turn = s.X_turn
  <1> DEFINE marked == [s.cells EXCEPT ![m] = OnTurn(s)]
             n      == [cells |-> marked, cells_taken |-> s.cells_taken + 1,
                        player_1_is_X |-> s.player_1_is_X, X_turn |-> s.X_turn]
  <1>1. OnTurn(s) \in Players
    BY DEF OnTurn, Players
  <1>2. /\ s.cells \in Boards /\ s.cells_taken \in 0 .. CELLS_IN_GRID
        /\ s.player_1_is_X \in BOOLEAN /\ s.X_turn \in BOOLEAN
        /\ s = [cells |-> s.cells, cells_taken |-> s.cells_taken,
                player_1_is_X |-> s.player_1_is_X, X_turn |-> s.X_turn]
    BY DEF TttState, Boards
  <1>3. Mark(s, m) = n
    <2> DEFINE half == [cells |-> marked, cells_taken |-> s.cells_taken,
                        player_1_is_X |-> s.player_1_is_X, X_turn |-> s.X_turn]
    <2>1. [s EXCEPT !.cells = marked] = half
      BY <1>2
    <2>2. [half EXCEPT !.cells_taken = s.cells_taken + 1] = n
      OBVIOUS
    <2>3. Mark(s, m) = [[s EXCEPT !.cells = marked] EXCEPT !.cells_taken = s.cells_taken + 1]
      BY Zenon DEF Mark
    <2> QED
      BY <2>1, <2>2, <2>3
  <1>4. marked \in Boards
    BY <1>1, <1>2 DEF Boards, Players
  <1>5. s.cells_taken + 1 \in 0 .. CELLS_IN_GRID
    BY <1>2 DEF CELLS_IN_GRID
  <1>6. n \in TttState
    BY <1>2, <1>4, <1>5 DEF TttState, Boards
  <1> QED
    BY <1>1, <1>3, <1>6

\* The state evaluate_move leaves: the mark, and the turn passed on or not.
LEMMA MoveEvaluated ==
    ASSUME NEW s \in TttState, NEW m \in Cells, s.cells_taken < CELLS_IN_GRID
    PROVE  LET n == ttt_evaluate_move(s, m)
           IN  /\ n \in TttState
               /\ n.cells = [s.cells EXCEPT ![m] = OnTurn(s)]
               /\ n.cells_taken = s.cells_taken + 1
               /\ n.player_1_is_X = s.player_1_is_X
               /\ n.X_turn = IF ttt_move_state(s, m) = "OK" THEN ~s.X_turn ELSE s.X_turn
  <1>1. CASE ttt_move_state(s, m) = "OK"
    <2> DEFINE k == Mark(s, m)
               n == [cells |-> k.cells, cells_taken |-> k.cells_taken,
                     player_1_is_X |-> k.player_1_is_X, X_turn |-> ~k.X_turn]
    <2>1. k \in TttState
      BY MarkMade
    <2>2. ttt_evaluate_move(s, m) = [k EXCEPT !.X_turn = ~@]
      BY <1>1 DEF ttt_evaluate_move
    <2> HIDE DEF k
    <2>3. ttt_evaluate_move(s, m) = n
      BY <2>1, <2>2 DEF TttState
    <2>4. n \in TttState
      BY <2>1 DEF TttState
    <2> QED
      BY <1>1, <2>3, <2>4, MarkMade DEF k
  <1>2. CASE ttt_move_state(s, m) # "OK"
    <2>1. ttt_evaluate_move(s, m) = Mark(s, m)
      BY <1>2 DEF ttt_evaluate_move
    <2> QED
      BY <1>2, <2>1, MarkMade
  <1> QED
    BY <1>1, <1>2

-----------------------------------------------------------------------------
(* The inductive invariant.                                                 *)

Of(p) == Cardinality(Marks(state.cells, p))

\* A game being played has no line and a free square, and X has one mark more
\* when it is not X's turn.
TttOpen ==
    game = "TTT" /\ phase = "playing" =>
        /\ ~user_won(state.cells)
        /\ state.cells_taken < CELLS_IN_GRID
        /\ Of(PlayerX) - Of(Other(PlayerX)) = IF state.X_turn THEN 0 ELSE 1

\* A choice was sent by a client; until both are made nobody was shown one.
RpsOpen ==
    game = "RPS" =>
        /\ \A p \in Players : state.choices[p] \in Moves \cup {NO_CHOICE}
        /\ phase = "playing" =>
              /\ \A p \in Players : known[p][Other(p)] = {}
              /\ \E p \in Players : state.choices[p] = NO_CHOICE

\* A destroyed game was announced to somebody.
Announced == phase = "destroyed" => \E p \in Players : ending[p] # "none"

Inv == TypeOK /\ BoardCounted /\ ToldTheEnd /\ TttOpen /\ RpsOpen /\ Announced

\* The players, and who is not who.
LEMMA Opponents ==
    \A p \in Players : Other(p) \in Players /\ Other(p) # p /\ Other(Other(p)) = p
                       /\ Players = {p, Other(p)} /\ 3 - p = Other(p)
  BY DEF Players, Other

\* What a valid move is in tic-tac-toe.
LEMMA ValidTtt ==
    ASSUME Inv, NEW p \in Players, NEW m \in Moves, Valid(p, m), game = "TTT"
    PROVE  /\ p = OnTurn(state) /\ m \in Cells /\ state.cells[m] = FREE_CELL
           /\ state \in TttState /\ state.cells \in Boards
           /\ state.cells_taken < CELLS_IN_GRID /\ ~user_won(state.cells)
  <1>1. p = OnTurn(state) /\ m \in Cells /\ state.cells[m] = FREE_CELL
    BY DEF Valid, validate_move, ttt_validate_move
  <1>2. state \in TttState
    BY DEF Inv, TypeOK
  <1>3. state.cells_taken < CELLS_IN_GRID /\ ~user_won(state.cells)
    BY DEF Inv, TttOpen, Valid
  <1> QED
    BY <1>1, <1>2, <1>3 DEF TttState, Boards

\* What it is in rock, paper, scissors.
LEMMA ValidRps ==
    ASSUME Inv, NEW p \in Players, NEW m \in Moves, Valid(p, m), game = "RPS"
    PROVE  /\ state.choices[p] = NO_CHOICE /\ m \in ROCK .. SCISSORS
           /\ state \in RpsState /\ state.choices \in [Players -> NO_CHOICE .. SCISSORS]
           /\ \A q \in Players : known[q][Other(q)] = {}
  <1>1. state.choices[p] = NO_CHOICE /\ ~(m < ROCK \/ SCISSORS < m)
    BY DEF Valid, validate_move, rps_validate_move, Inv, TypeOK, Games
  <1>2. state \in RpsState
    BY DEF Inv, TypeOK
  <1>3. m \in 0 .. 255
    BY MovesAssumption
  <1>4. \A q \in Players : known[q][Other(q)] = {}
    BY DEF Inv, RpsOpen, Valid
  <1> QED
    BY <1>1, <1>2, <1>3, <1>4 DEF RpsState, Players, ROCK, SCISSORS, NO_CHOICE

\* A valid mark keeps the count and the alternation, and leaves an open board
\* when the game goes on.
LEMMA MarkKeepsCount ==
    ASSUME Inv, NEW p \in Players, NEW m \in Moves, Valid(p, m), game = "TTT",
           state' = evaluate_move(p, m), game' = game
    PROVE  /\ state' \in TttState
           /\ state'.cells = [state.cells EXCEPT ![m] = p]
           /\ BoardCounted'
           /\ MoveState(p, m) = "OK" => TttOpen'
           /\ OnTurn(state') = IF MoveState(p, m) = "OK" THEN Other(p) ELSE p
  <1> DEFINE ok == MoveState(p, m) = "OK"
  <1>1. /\ p = OnTurn(state) /\ m \in Cells /\ state.cells[m] = FREE_CELL
        /\ state \in TttState /\ state.cells \in Boards
        /\ state.cells_taken < CELLS_IN_GRID /\ ~user_won(state.cells)
    BY ValidTtt
  <1>2. state' = ttt_evaluate_move(state, m) /\ MoveState(p, m) = ttt_move_state(state, m)
    BY DEF evaluate_move, MoveState
  <1>3. /\ state' \in TttState
        /\ state'.cells = [state.cells EXCEPT ![m] = p]
        /\ state'.cells_taken = state.cells_taken + 1
        /\ state'.player_1_is_X = state.player_1_is_X
        /\ state'.X_turn = IF ok THEN ~state.X_turn ELSE state.X_turn
    BY <1>1, <1>2, MoveEvaluated
  <1>4. /\ state'.cells \in Boards
        /\ Of(p)' = Of(p) + 1
        /\ Of(Other(p))' = Of(Other(p))
    BY <1>1, <1>3, MarkCounted DEF Of
  <1>5. PlayerX' = PlayerX /\ PlayerX \in Players
    BY <1>3 DEF PlayerX, Players
  <1>6. p = IF state.X_turn THEN PlayerX ELSE Other(PlayerX)
    BY <1>1 DEF TttState, OnTurn, player_1_turn, PlayerX, Other
  <1>7. OnTurn(state') = IF ok THEN Other(p) ELSE p
    BY <1>1, <1>3 DEF TttState, OnTurn, player_1_turn, Other
  <1>8. \A q \in Players : Of(q) \in Nat
    BY <1>1, MarksCounted DEF Of
  <1>9. /\ state.cells_taken = Of(1) + Of(2)
        /\ Of(PlayerX) - Of(Other(PlayerX)) = IF state.X_turn THEN 0 ELSE 1
    BY DEF Inv, BoardCounted, TttOpen, Valid, Of
  <1>10. state'.cells_taken = Of(1)' + Of(2)'
    BY <1>3, <1>4, <1>8, <1>9 DEF Players, Other
  <1>11. Of(PlayerX)' - Of(Other(PlayerX))' = IF state.X_turn THEN 1 ELSE 0
    BY <1>4, <1>5, <1>6, <1>8, <1>9, Opponents DEF Players, Other
  <1>12. BoardCounted'
    BY <1>5, <1>10, <1>11 DEF BoardCounted, Of
  <1>13. ASSUME ok PROVE TttOpen'
    <2>1. ~user_won(Mark(state, m).cells) /\ Mark(state, m).cells_taken # CELLS_IN_GRID
      BY <1>2, <1>13 DEF ttt_move_state
    <2>2. Mark(state, m).cells = state'.cells /\ Mark(state, m).cells_taken = state'.cells_taken
      BY <1>1, <1>3, MarkMade
    <2>3. state'.cells_taken < CELLS_IN_GRID
      BY <1>3, <2>1, <2>2 DEF TttState, CELLS_IN_GRID
    <2>4. Of(PlayerX)' - Of(Other(PlayerX))' = IF state'.X_turn THEN 0 ELSE 1
      BY <1>1, <1>3, <1>11, <1>13 DEF TttState
    <2> QED
      BY <2>1, <2>2, <2>3, <2>4 DEF TttOpen
  <1> QED
    BY <1>3, <1>7, <1>12, <1>13

\* A valid choice keeps the choices, and leaves one open when it is silent.
LEMMA ChoiceKept ==
    ASSUME Inv, NEW p \in Players, NEW m \in Moves, Valid(p, m), game = "RPS",
           state' = evaluate_move(p, m), game' = game
    PROVE  /\ state' \in RpsState
           /\ state'.choices = [state.choices EXCEPT ![p] = m]
           /\ \A q \in Players : state'.choices[q] \in Moves \cup {NO_CHOICE}
           /\ MoveState(p, m) = "SILENT_MOVE" <=> state.choices[Other(p)] = NO_CHOICE
           /\ MoveState(p, m) # "SILENT_MOVE" =>
                 MoveState(p, m) = eval_game_end(m, state.choices[Other(p)])
  <1>1. /\ m \in ROCK .. SCISSORS
        /\ state \in RpsState /\ state.choices \in [Players -> NO_CHOICE .. SCISSORS]
    BY ValidRps
  <1>2. /\ state' = rps_evaluate_move(state, p, m)
        /\ MoveState(p, m) = rps_move_state(state, p, m)
    BY DEF evaluate_move, MoveState
  <1>3. state' = [choices |-> [state.choices EXCEPT ![p] = m]]
    BY <1>1, <1>2 DEF rps_evaluate_move, RpsState
  <1>4. state' \in RpsState
    BY <1>1, <1>3 DEF RpsState, Players, ROCK, SCISSORS, NO_CHOICE
  <1>5. \A q \in Players : state'.choices[q] \in Moves \cup {NO_CHOICE}
    BY <1>1, <1>3 DEF Inv, RpsOpen
  <1>6. eval_game_end(m, state.choices[Other(p)]) # "SILENT_MOVE"
    BY DEF eval_game_end
  <1> QED
    BY <1>2, <1>3, <1>4, <1>5, <1>6, Opponents DEF rps_move_state

\* The ways a move can turn out, and the update each player is sent.
LEMMA Outcomes ==
    ASSUME Inv, NEW p \in Players, NEW m \in Moves, Valid(p, m),
           MoveState(p, m) \in {"WON", "LOST", "TIE"}
    PROVE  /\ Ending(p, m).mover[1] = MoveState(p, m)
           /\ Ending(p, m).other[1] = CASE MoveState(p, m) = "WON" -> "LOST"
                                        [] MoveState(p, m) = "LOST" -> "WON"
                                        [] MoveState(p, m) = "TIE" -> "TIE"
           /\ Ending(p, m).mover[2] = IF game = "TTT" THEN m ELSE state.choices[Other(p)]
           /\ Ending(p, m).other[2] = m
           /\ Ending(p, m).mover[2] \in Moves
  <1>1. CASE game = "TTT"
    <2>1. Ending(p, m) = ttt_ending(MoveState(p, m), m)
      BY <1>1 DEF Ending
    <2>2. MoveState(p, m) \in {"WON", "TIE"}
      BY <1>1 DEF MoveState, ttt_move_state
    <2> QED
      BY <1>1, <2>1, <2>2 DEF ttt_ending
  <1>2. CASE game = "RPS"
    <2>1. Ending(p, m) = rps_ending(state, p, MoveState(p, m), m)
      BY <1>2 DEF Ending
    <2>2. state.choices[Other(p)] \in Moves
      <3>1. state.choices[Other(p)] # NO_CHOICE
        BY <1>2, Opponents DEF MoveState, rps_move_state
      <3> QED
        BY <1>2, <3>1, Opponents DEF Inv, RpsOpen
    <2>3. MoveState(p, m) = "TIE" => state.choices[Other(p)] = m
      BY <1>2, Opponents DEF MoveState, rps_move_state, eval_game_end
    <2>4. /\ MoveState(p, m) = "WON" =>
               Ending(p, m) = [mover |-> <<"WON", state.choices[Other(p)]>>, other |-> <<"LOST", m>>]
          /\ MoveState(p, m) = "LOST" =>
               Ending(p, m) = [mover |-> <<"LOST", state.choices[Other(p)]>>, other |-> <<"WON", m>>]
          /\ MoveState(p, m) = "TIE" =>
               Ending(p, m) = [mover |-> <<"TIE", m>>, other |-> <<"TIE", m>>]
      BY <2>1, Opponents DEF rps_ending
    <2> QED
      BY <1>2, <2>2, <2>3, <2>4
  <1> QED
    BY <1>1, <1>2 DEF Inv, TypeOK, Games

\* What is confirmed and learnt are moves.
LEMMA KnowledgeType ==
    ASSUME NEW k \in [Players -> [Players -> SUBSET Moves]], NEW p \in Players,
           NEW m \in Moves
    PROVE  /\ Confirmed(k, p, m) \in [Players -> [Players -> SUBSET Moves]]
           /\ Learnt(k, p, m) \in [Players -> [Players -> SUBSET Moves]]
  <1>1. Confirmed(k, p, m) \in [Players -> [Players -> SUBSET Moves]]
    BY DEF Confirmed
  <1>2. Learnt(k, p, m) \in [Players -> [Players -> SUBSET Moves]]
    BY Opponents DEF Learnt
  <1> QED
    BY <1>1, <1>2

\* The state a valid move leaves, whichever the game.
LEMMA MoveType ==
    ASSUME Inv, NEW p \in Players, NEW m \in Moves, Valid(p, m),
           state' = evaluate_move(p, m), game' = game
    PROVE  /\ state' \in IF game' = "TTT" THEN TttState ELSE RpsState
           /\ BoardCounted'
           /\ game = "RPS" => \A q \in Players : state'.choices[q] \in Moves \cup {NO_CHOICE}
  <1>1. CASE game = "TTT"
    BY <1>1, MarkKeepsCount
  <1>2. CASE game = "RPS"
    BY <1>2, ChoiceKept DEF BoardCounted
  <1> QED
    BY <1>1, <1>2 DEF Inv, TypeOK, Games

\* A game starts in the invariant.
LEMMA InitInv == Init => Inv
  <1> SUFFICES ASSUME Init PROVE Inv
    OBVIOUS
  <1>1. CASE game = "TTT"
    <2>1. PICK x \in BOOLEAN :
             state = [cells |-> [c \in Cells |-> FREE_CELL], cells_taken |-> 0,
                      player_1_is_X |-> x, X_turn |-> TRUE]
      BY <1>1 DEF Init, make_ttt_game_state
    <2>2. state \in TttState
      BY <2>1 DEF TttState, CELLS_IN_GRID
    <2>3. TypeOK
      BY <1>1, <2>2 DEF Init, TypeOK
    <2>4. \A p \in {1, 2} : Marks(state.cells, p) = {}
      BY <2>1 DEF Marks, FREE_CELL
    <2>5. PlayerX \in {1, 2} /\ Other(PlayerX) \in {1, 2}
      BY DEF PlayerX, Other
    <2>6. \A p \in {1, 2} : Of(p) = 0
      BY <2>4, FS_EmptySet DEF Of
    <2>7. BoardCounted
      BY <2>1, <2>5, <2>6 DEF BoardCounted, Of
    <2>8. ~user_won(state.cells)
      <3>1. state.cells \in Boards
        BY <2>1 DEF Boards
      <3>2. \A p \in Players : ~T!HasLine(state.cells, p)
        BY <2>1, LinesListed DEF T!HasLine, Players, Cells, CELLS_IN_GRID, FREE_CELL
      <3> QED
        BY <3>1, <3>2, ScanFindsLines
    <2>9. TttOpen
      BY <2>1, <2>5, <2>6, <2>8 DEF TttOpen, CELLS_IN_GRID
    <2> QED
      BY <1>1, <2>3, <2>7, <2>9 DEF Inv, Init, ToldTheEnd, RpsOpen, Announced
  <1>2. CASE game = "RPS"
    <2>1. state = [choices |-> [p \in {1, 2} |-> NO_CHOICE]]
      BY <1>2 DEF Init, make_rps_game_state
    <2>2. state \in RpsState
      BY <2>1 DEF RpsState, NO_CHOICE, SCISSORS
    <2>3. TypeOK
      BY <1>2, <2>2 DEF Init, TypeOK
    <2>4. RpsOpen
      BY <1>2, <2>1, Opponents DEF RpsOpen, Init, Players
    <2> QED
      BY <1>2, <2>3, <2>4 DEF Inv, Init, BoardCounted, ToldTheEnd, TttOpen, Announced
  <1> QED
    BY <1>1, <1>2 DEF Init, Games

\* What an action that only ends a game, or nothing, leaves of the invariant.
LEMMA GameUntouched ==
    ASSUME Inv, UNCHANGED <<game, state, known>>, phase' \in {"playing", "destroyed"},
           phase = "destroyed" => phase' = "destroyed"
    PROVE  BoardCounted' /\ TttOpen' /\ RpsOpen'
  <1>1. BoardCounted'
    BY DEF Inv, BoardCounted, PlayerX
  <1>2. TttOpen'
    BY DEF Inv, TypeOK, TttOpen, PlayerX, Of
  <1>3. RpsOpen'
    BY DEF Inv, TypeOK, RpsOpen
  <1> QED
    BY <1>1, <1>2, <1>3

\* Every step keeps the invariant.
LEMMA NextInv == Inv /\ [Next]_vars => Inv'
  <1> SUFFICES ASSUME Inv, [Next]_vars PROVE Inv'
    OBVIOUS
  <1>1. ASSUME UNCHANGED vars PROVE Inv'
    <2>1. BoardCounted' /\ TttOpen' /\ RpsOpen'
      BY <1>1, GameUntouched DEF vars, Inv, TypeOK
    <2> QED
      BY <1>1, <2>1 DEF vars, Inv, TypeOK, ToldTheEnd, Announced
  <1>2. ASSUME NEW p \in Players, Leave(p) PROVE Inv'
    <2>1. BoardCounted' /\ TttOpen' /\ RpsOpen'
      BY <1>2, GameUntouched DEF Leave, Inv, TypeOK
    <2> QED
      BY <1>2, <2>1 DEF Leave, Inv, TypeOK, ToldTheEnd, Announced
  <1>3. ASSUME NEW p \in Players, Disconnect(p) \/ Quit(p) PROVE Inv'
    <2>1. BoardCounted' /\ TttOpen' /\ RpsOpen'
      BY <1>3, GameUntouched DEF Disconnect, Quit
    <2>2. ending' = [ending EXCEPT ![Other(p)] = "OPP"] /\ phase' = "destroyed" /\ p \in left'
      BY <1>3 DEF Disconnect, Quit
    <2>3. TypeOK'
      BY <1>3, <2>2, Opponents DEF Disconnect, Quit, Inv, TypeOK, Endings
    <2>4. ToldTheEnd' /\ Announced'
      BY <2>2, Opponents DEF Inv, TypeOK, ToldTheEnd, Announced
    <2> QED
      BY <2>1, <2>3, <2>4 DEF Inv
  <1>4. ASSUME NEW p \in Players, NEW m \in Moves, Refused(p, m) PROVE Inv'
    BY <1>1, <1>4 DEF Refused
  <1>5. ASSUME NEW p \in Players, NEW m \in Moves, GoesOn(p, m) PROVE Inv'
    <2>1. Valid(p, m) /\ state' = evaluate_move(p, m) /\ UNCHANGED <<game, phase, left, ending>>
      BY <1>5 DEF GoesOn
    <2>2. known' \in [Players -> [Players -> SUBSET Moves]]
      BY <1>5, KnowledgeType, Opponents DEF GoesOn, Inv, TypeOK
    <2>3. TypeOK' /\ BoardCounted'
      BY <2>1, <2>2, MoveType DEF Inv, TypeOK
    <2>4. TttOpen'
      <3>1. CASE game = "TTT"
        <4>1. MoveState(p, m) # "SILENT_MOVE"
          BY <3>1 DEF MoveState, ttt_move_state
        <4> QED
          BY <1>5, <2>1, <3>1, <4>1, MarkKeepsCount DEF GoesOn
      <3>2. CASE game # "TTT"
        BY <2>1, <3>2 DEF TttOpen
      <3> QED
        BY <3>1, <3>2
    <2>5. RpsOpen'
      <3>1. CASE game = "RPS"
        <4>1. /\ \A q \in Players : state'.choices[q] \in Moves \cup {NO_CHOICE}
              /\ state'.choices = [state.choices EXCEPT ![p] = m]
              /\ state.choices \in [Players -> NO_CHOICE .. SCISSORS]
          BY <2>1, <3>1, ChoiceKept, ValidRps
        <4>2. MoveState(p, m) = "SILENT_MOVE"
          BY <1>5, <2>1, <3>1, ChoiceKept DEF GoesOn, eval_game_end
        <4>3. state'.choices[Other(p)] = NO_CHOICE
          BY <2>1, <3>1, <4>1, <4>2, ChoiceKept, Opponents
        <4>4. known' = [known EXCEPT ![p][p] = @ \cup {m}]
          BY <1>5, <4>2 DEF GoesOn, Confirmed
        <4>5. \A q \in Players : known'[q][Other(q)] = {}
          BY <2>1, <3>1, <4>4, ValidRps, Opponents DEF Inv, TypeOK
        <4> QED
          BY <4>1, <4>3, <4>5, Opponents DEF RpsOpen
      <3>2. CASE game # "RPS"
        BY <2>1, <3>2 DEF RpsOpen
      <3> QED
        BY <3>1, <3>2
    <2>6. ToldTheEnd' /\ Announced'
      BY <2>1 DEF Inv, ToldTheEnd, Announced
    <2> QED
      BY <2>3, <2>4, <2>5, <2>6 DEF Inv
  <1>6. ASSUME NEW p \in Players, NEW m \in Moves, Ends(p, m) PROVE Inv'
    <2>1. /\ Valid(p, m) /\ state' = evaluate_move(p, m) /\ phase' = "destroyed"
          /\ UNCHANGED <<game, left>> /\ MoveState(p, m) \in {"WON", "LOST", "TIE"}
      BY <1>6 DEF Ends
    <2>2. /\ Ending(p, m).mover[1] \in Endings /\ Ending(p, m).other[1] \in Endings
          /\ Ending(p, m).mover[2] \in Moves /\ Ending(p, m).other[2] \in Moves
      BY <2>1, Outcomes DEF Endings
    <2>3. known' \in [Players -> [Players -> SUBSET Moves]]
      <3>1. Confirmed(known, p, m) \in [Players -> [Players -> SUBSET Moves]]
        BY KnowledgeType DEF Inv, TypeOK
      <3>2. Learnt(Confirmed(known, p, m), p, Ending(p, m).mover[2])
              \in [Players -> [Players -> SUBSET Moves]]
        BY <2>2, <3>1, KnowledgeType
      <3> QED
        BY <1>6, <2>2, <3>2, KnowledgeType, Opponents DEF Ends
    <2>4. ending' \in [Players -> Endings]
      BY <1>6, <2>2 DEF Ends
    <2>5. TypeOK' /\ BoardCounted'
      BY <2>1, <2>3, <2>4, MoveType DEF Inv, TypeOK
    <2>6. TttOpen' /\ RpsOpen'
      BY <2>1, MoveType DEF TttOpen, RpsOpen
    <2>7. ToldTheEnd' /\ Announced'
      BY <2>1, <2>4, Opponents DEF ToldTheEnd, Announced, Endings, Players
    <2> QED
      BY <2>5, <2>6, <2>7 DEF Inv
  <1>7. ASSUME NEW p \in Players, NEW m \in Moves, Unanswered(p, m) PROVE Inv'
    <2>1. /\ Valid(p, m) /\ state' = evaluate_move(p, m) /\ phase' = "destroyed"
          /\ UNCHANGED <<game, left, known>> /\ p \in left
          /\ ending' = [ending EXCEPT ![Other(p)] = "OPP"]
      BY <1>7 DEF Unanswered
    <2>2. TypeOK' /\ BoardCounted'
      BY <2>1, MoveType, Opponents DEF Inv, TypeOK, Endings
    <2>3. TttOpen' /\ RpsOpen'
      BY <2>1, MoveType DEF TttOpen, RpsOpen
    <2>4. ToldTheEnd' /\ Announced'
      BY <2>1, Opponents DEF Inv, TypeOK, ToldTheEnd, Announced
    <2> QED
      BY <2>2, <2>3, <2>4 DEF Inv
  <1> QED
    BY <1>1, <1>2, <1>3, <1>4, <1>5, <1>6, <1>7 DEF Next

\* In every state a game can reach, the invariant holds.
THEOREM Invariance == Spec => []Inv
  <1> QED
    BY InitInv, NextInv, PTL DEF Spec

\* The state of a game and what its players know is always of its type.
THEOREM TypeCorrect == Spec => []TypeOK
  <1>1. Inv => TypeOK
    BY DEF Inv
  <1> QED
    BY <1>1, Invariance, PTL

\* cells_taken is always the number of marks, and the marks alternate from X.
THEOREM BoardAlwaysCounted == Spec => []BoardCounted
  <1>1. Inv => BoardCounted
    BY DEF Inv
  <1> QED
    BY <1>1, Invariance, PTL

\* A player that stays is told the end of its game, and not before.
THEOREM AlwaysToldTheEnd == Spec => []ToldTheEnd
  <1>1. Inv => ToldTheEnd
    BY DEF Inv
  <1> QED
    BY <1>1, Invariance, PTL

-----------------------------------------------------------------------------
(* rps.c implements rock, paper, scissors.                                  *)

\* While a game is played nobody was told an ending, and nothing was shown.
LEMMA OpenRps ==
    ASSUME Inv, phase = "playing", game = "RPS"
    PROVE  /\ ending = [q \in Players |-> "none"]
           /\ \A q \in Players : known[q][Other(q)] = {}
  <1>1. ending = [q \in Players |-> "none"]
    BY DEF Inv, TypeOK, ToldTheEnd
  <1> QED
    BY <1>1 DEF Inv, RpsOpen

\* Both are told an ending of the relation Beats, and shown the other's choice.
LEMMA RpsEnds ==
    ASSUME Inv, NEW p \in Players, NEW m \in Moves, Ends(p, m), game = "RPS"
    PROVE  LET new == [state.choices EXCEPT ![p] = m]
           IN  /\ ending' = [q \in Players |-> R!Ending(new[q], new[Other(q)])]
               /\ \A q \in Players : known'[q][Other(q)] = {new[Other(q)]}
               /\ state.choices[Other(p)] # NO_CHOICE
  <1> DEFINE theirs == state.choices[Other(p)]
             new    == [state.choices EXCEPT ![p] = m]
  <1>1. /\ Valid(p, m) /\ state' = evaluate_move(p, m) /\ game' = game
        /\ MoveState(p, m) \in {"WON", "LOST", "TIE"}
      BY DEF Ends
  <1>2. /\ m \in ROCK .. SCISSORS /\ state.choices \in [Players -> NO_CHOICE .. SCISSORS]
        /\ \A q \in Players : known[q][Other(q)] = {}
    BY <1>1, ValidRps
  <1>3. theirs # NO_CHOICE /\ MoveState(p, m) = eval_game_end(m, theirs)
    BY <1>1, ChoiceKept
  <1>4. theirs \in ROCK .. SCISSORS
    BY <1>2, <1>3, Opponents DEF ROCK, SCISSORS, NO_CHOICE
  <1>5. new[p] = m /\ new[Other(p)] = theirs
    BY <1>2, Opponents
  <1>6. /\ Ending(p, m).mover[1] = R!Ending(m, theirs)
        /\ Ending(p, m).other[1] = R!Ending(theirs, m)
    <2>1. MoveState(p, m) = R!Ending(m, theirs)
      BY <1>2, <1>3, <1>4, EndingIsBeats
    <2>2. R!Ending(theirs, m) = CASE R!Ending(m, theirs) = "WON" -> "LOST"
                                  [] R!Ending(m, theirs) = "LOST" -> "WON"
                                  [] R!Ending(m, theirs) = "TIE" -> "TIE"
      BY <1>2, <1>4 DEF R!Ending, R!Beats, R!Rock, R!Paper, R!Scissors, ROCK, SCISSORS
    <2> QED
      BY <1>1, <2>1, <2>2, Outcomes
  <1>7. ending' = [q \in Players |-> R!Ending(new[q], new[Other(q)])]
    BY <1>5, <1>6, Opponents DEF Ends
  <1>8. known'[p][Other(p)] = {theirs} /\ known'[Other(p)][p] = {m}
    <2>1. Ending(p, m).mover[2] = theirs /\ Ending(p, m).other[2] = m
      BY <1>1, Outcomes
    <2>2. known' = Learnt(Learnt(Confirmed(known, p, m), p, theirs), Other(p), m)
      BY <2>1 DEF Ends
    <2> QED
      BY <1>2, <2>2, Opponents DEF Learnt, Confirmed, Inv, TypeOK
  <1> QED
    BY <1>3, <1>5, <1>7, <1>8, Opponents

\* A game starts with nothing thrown.
LEMMA RpsInitially == Init => R!RpsInit
  <1> SUFFICES ASSUME Init PROVE R!RpsInit
    OBVIOUS
  <1>1. \A q \in Players : known[q][Other(q)] = {}
    BY Opponents DEF Init
  <1>2. game = "RPS" => state.choices = [q \in Players |-> 0]
    BY DEF Init, make_rps_game_state, Players, NO_CHOICE
  <1> QED
    BY <1>1, <1>2 DEF Init, R!RpsInit, R!Nothing, R!Unseen, R!Nobody, R!Players, Players

\* Every step is a throw, a player that leaves, or nothing to the players.
LEMMA RpsStep == Inv /\ [Next]_vars => [R!RpsNext]_R!rpsVars
  <1> SUFFICES ASSUME Inv, [Next]_vars, ~(UNCHANGED R!rpsVars)
               PROVE  R!RpsNext
    OBVIOUS
  <1>1. ~(UNCHANGED <<game, state, known, ending>>)
    BY DEF R!rpsVars
  <1>2. game = "RPS" /\ game' = "RPS"
    <2>1. game' = game
      BY DEF Next, vars, Leave, Disconnect, Quit, Refused, GoesOn, Ends, Unanswered
    <2>2. game # "TTT"
      BY <2>1 DEF R!rpsVars
    <2> QED
      BY <2>1, <2>2 DEF Inv, TypeOK, Games
  <1>3. phase = "playing"
    BY <1>1 DEF Next, vars, Leave, Disconnect, Quit, Refused, GoesOn, Ends, Unanswered, Valid
  <1>4. /\ ending = [q \in Players |-> "none"]
        /\ \A q \in Players : known[q][Other(q)] = {}
    BY <1>2, <1>3, OpenRps
  <1>5. ASSUME NEW p \in Players, Disconnect(p) \/ Quit(p) PROVE R!Abandon(p)
    <2>1. /\ UNCHANGED <<game, state, known>>
          /\ ending' = [q \in Players |-> IF q = p THEN "none" ELSE "OPP"]
      BY <1>4, <1>5, Opponents DEF Disconnect, Quit
    <2> QED
      BY <1>2, <1>4, <2>1 DEF R!Abandon, R!Nobody, R!Players, Players
  <1>6. ASSUME NEW p \in Players, NEW m \in Moves, GoesOn(p, m)
        PROVE  m \in R!Rock .. R!Scissors /\ R!Throw(p, m)
    <2>1. /\ Valid(p, m) /\ state' = evaluate_move(p, m) /\ ending' = ending
          /\ state.choices[p] = NO_CHOICE /\ m \in ROCK .. SCISSORS
      BY <1>2, <1>6, ValidRps DEF GoesOn
    <2>2. MoveState(p, m) = "SILENT_MOVE"
      BY <1>2, <1>6, <2>1, ChoiceKept DEF GoesOn, eval_game_end
    <2>3. /\ state'.choices = [state.choices EXCEPT ![p] = m]
          /\ state.choices[Other(p)] = NO_CHOICE
      BY <1>2, <2>1, <2>2, ChoiceKept
    <2>4. known' = [known EXCEPT ![p][p] = @ \cup {m}]
      BY <1>6, <2>2 DEF GoesOn, Confirmed
    <2>5. \A q \in Players : known'[q][Other(q)] = known[q][Other(q)]
      BY <2>4, Opponents DEF Inv, TypeOK
    <2> QED
      BY <1>2, <1>4, <2>1, <2>3, <2>5, Opponents
      DEF R!Throw, R!Nobody, R!Players, Players, R!Rock, R!Scissors, ROCK, SCISSORS, NO_CHOICE
  <1>7. ASSUME NEW p \in Players, NEW m \in Moves, Ends(p, m)
        PROVE  m \in R!Rock .. R!Scissors /\ R!Throw(p, m)
    <2>1. /\ Valid(p, m) /\ state' = evaluate_move(p, m)
          /\ state.choices[p] = NO_CHOICE /\ m \in ROCK .. SCISSORS
      BY <1>2, <1>7, ValidRps DEF Ends
    <2>2. state'.choices = [state.choices EXCEPT ![p] = m]
      BY <1>2, <2>1, ChoiceKept
    <2>3. /\ ending' = [q \in Players |-> R!Ending(state'.choices[q], state'.choices[Other(q)])]
          /\ \A q \in Players : known'[q][Other(q)] = {state'.choices[Other(q)]}
          /\ state.choices[Other(p)] # NO_CHOICE
      BY <1>2, <1>7, <2>2, RpsEnds
    <2> QED
      BY <1>2, <1>4, <2>1, <2>2, <2>3, Opponents
      DEF R!Throw, R!Nobody, R!Players, Players, R!Rock, R!Scissors, ROCK, SCISSORS, NO_CHOICE
  <1>8. ASSUME NEW p \in Players, NEW m \in Moves, Unanswered(p, m) PROVE R!Abandon(p)
    <2>1. /\ Valid(p, m) /\ state' = evaluate_move(p, m) /\ known' = known
          /\ state.choices[p] = NO_CHOICE /\ m \in ROCK .. SCISSORS
      BY <1>2, <1>8, ValidRps DEF Unanswered
    <2>2. state'.choices = [state.choices EXCEPT ![p] = m]
      BY <1>2, <2>1, ChoiceKept
    <2>3. ending' = [q \in Players |-> IF q = p THEN "none" ELSE "OPP"]
      BY <1>4, <1>8, Opponents DEF Unanswered
    <2> QED
      BY <1>2, <1>4, <2>1, <2>2, <2>3
      DEF R!Abandon, R!Nobody, R!Players, Players,
          R!Rock, R!Scissors, ROCK, SCISSORS, NO_CHOICE
  <1>9. ASSUME NEW p \in Players, Leave(p) \/ \E m \in Moves : Refused(p, m) PROVE FALSE
    BY <1>1, <1>9 DEF Leave, Refused, vars
  <1>10. R!Players = Players
    BY DEF R!Players, Players
  <1> QED
    BY <1>1, <1>5, <1>6, <1>7, <1>8, <1>9, <1>10 DEF Next, R!RpsNext, vars

\* Nobody is shown a choice before both have chosen, the choice shown is the
\* opponent's, and the ending is that of Beats, whoever moved last.
THEOREM RpsRefines == Spec => ImplementsRockPaperScissors
  <1> QED
    BY RpsInitially, RpsStep, Invariance, PTL DEF Spec, ImplementsRockPaperScissors, R!RpsSpec

-----------------------------------------------------------------------------
(* ttt.c implements tic-tac-toe.                                            *)

\* evaluate_move reports a line of the mover, a full board, or neither.
LEMMA MoveJudged ==
    ASSUME Inv, NEW p \in Players, NEW m \in Moves, Valid(p, m), game = "TTT"
    PROVE  LET n == [state.cells EXCEPT ![m] = p]
           IN  MoveState(p, m) = IF T!HasLine(n, p) THEN "WON"
                                 ELSE IF T!Full(n) THEN "TIE"
                                 ELSE "OK"
  <1> DEFINE n == [state.cells EXCEPT ![m] = p]
  <1>1. /\ p = OnTurn(state) /\ m \in Cells /\ state.cells[m] = FREE_CELL
        /\ state \in TttState /\ state.cells \in Boards
        /\ state.cells_taken < CELLS_IN_GRID /\ ~user_won(state.cells)
    BY ValidTtt
  <1>2. Mark(state, m).cells = n /\ Mark(state, m).cells_taken = state.cells_taken + 1
    BY <1>1, MarkMade
  <1>3. user_won(n) <=> T!HasLine(n, p)
    BY <1>1, LineIsMovers
  <1>4. state.cells_taken + 1 = CELLS_IN_GRID <=> T!Full(n)
    <2>1. /\ n \in Boards
          /\ Cardinality(Marks(n, p)) = Cardinality(Marks(state.cells, p)) + 1
          /\ Marks(n, Other(p)) = Marks(state.cells, Other(p))
      BY <1>1, MarkCounted
    <2>2. state.cells_taken = Of(1) + Of(2)
      BY DEF Inv, BoardCounted, Of
    <2>3. /\ Of(1) \in Nat /\ Of(2) \in Nat
      BY <1>1, MarksCounted DEF Of, Players
    <2>4. Cardinality(Marks(n, 1)) + Cardinality(Marks(n, 2)) = state.cells_taken + 1
      BY <2>1, <2>2, <2>3 DEF Of, Players, Other
    <2> QED
      BY <2>1, <2>4, MarksCounted DEF CELLS_IN_GRID
  <1> QED
    BY <1>2, <1>3, <1>4 DEF MoveState, ttt_move_state

\* A game starts with an empty board.
LEMMA TttInitially == Init => T!TicTacToeInit
  <1> SUFFICES ASSUME Init PROVE T!TicTacToeInit
    OBVIOUS
  <1>1. OnTurn(state) \in T!Players
    BY DEF OnTurn, T!Players
  <1>2. game = "TTT" => state.cells = [c \in Cells |-> FREE_CELL]
    BY DEF Init, make_ttt_game_state
  <1> QED
    BY <1>1, <1>2 DEF Init, T!TicTacToeInit, T!Players, Players, T!Squares, Cells,
                      CELLS_IN_GRID, FREE_CELL

\* Every step is a mark, a player that leaves, or nothing to the players.
LEMMA TttStep == Inv /\ [Next]_vars => [T!TicTacToeNext]_T!tttVars
  <1> SUFFICES ASSUME Inv, [Next]_vars, ~(UNCHANGED T!tttVars)
               PROVE  T!TicTacToeNext
    OBVIOUS
  <1>1. ~(UNCHANGED <<game, state, ending>>)
    BY DEF T!tttVars, OnTurn, player_1_turn
  <1>2. game = "TTT" /\ game' = "TTT"
    <2>1. game' = game
      BY DEF Next, vars, Leave, Disconnect, Quit, Refused, GoesOn, Ends, Unanswered
    <2> QED
      BY <2>1 DEF T!tttVars
  <1>3. phase = "playing"
    BY <1>1 DEF Next, vars, Leave, Disconnect, Quit, Refused, GoesOn, Ends, Unanswered, Valid
  <1>4. ending = [q \in Players |-> "none"] /\ T!Players = Players
    BY <1>3 DEF Inv, TypeOK, ToldTheEnd, T!Players, Players
  <1>5. OnTurn(state) \in Players /\ OnTurn(state)' \in Players
    BY DEF OnTurn, Players
  <1>6. ASSUME NEW p \in Players, Disconnect(p) \/ Quit(p) PROVE T!Abandon(p)
    <2>1. /\ UNCHANGED <<game, state>>
          /\ ending' = [q \in Players |-> IF q = p THEN "none" ELSE "OPP"]
      BY <1>4, <1>6, Opponents DEF Disconnect, Quit
    <2> QED
      BY <1>2, <1>4, <1>5, <2>1 DEF T!Abandon, T!Playing
  <1>7. ASSUME NEW p \in Players, NEW m \in Moves, Valid(p, m), state' = evaluate_move(p, m)
        PROVE  /\ m \in T!Squares /\ p = OnTurn(state) /\ state.cells[m] = 0
               /\ state'.cells = [state.cells EXCEPT ![m] = p]
               /\ OnTurn(state') = IF MoveState(p, m) = "OK" THEN Other(p) ELSE p
    BY <1>2, <1>7, ValidTtt, MarkKeepsCount DEF T!Squares, Cells, CELLS_IN_GRID, FREE_CELL
  <1>8. ASSUME NEW p \in Players, NEW m \in Moves, GoesOn(p, m)
        PROVE  m \in T!Squares /\ T!Play(p, m)
    <2>1. Valid(p, m) /\ state' = evaluate_move(p, m) /\ ending' = ending
      BY <1>8 DEF GoesOn
    <2>2. MoveState(p, m) = "OK" /\ ~T!HasLine(state'.cells, p) /\ ~T!Full(state'.cells)
      BY <1>2, <1>7, <1>8, <2>1, MoveJudged DEF GoesOn
    <2> QED
      BY <1>2, <1>4, <1>7, <2>1, <2>2, Opponents DEF T!Play, T!Playing, T!Marked
  <1>9. ASSUME NEW p \in Players, NEW m \in Moves, Ends(p, m)
        PROVE  m \in T!Squares /\ T!Play(p, m)
    <2>1. /\ Valid(p, m) /\ state' = evaluate_move(p, m)
          /\ MoveState(p, m) \in {"WON", "LOST", "TIE"}
      BY <1>9 DEF Ends
    <2>2. \/ MoveState(p, m) = "WON" /\ T!HasLine(state'.cells, p)
          \/ MoveState(p, m) = "TIE" /\ ~T!HasLine(state'.cells, p) /\ T!Full(state'.cells)
      BY <1>2, <1>7, <2>1, MoveJudged
    <2>3. CASE MoveState(p, m) = "WON"
      <3>1. ending' = [q \in Players |-> IF q = p THEN "WON" ELSE "LOST"]
        BY <1>9, <2>1, <2>3, Outcomes DEF Ends
      <3> QED
        BY <1>2, <1>4, <1>7, <2>1, <2>2, <2>3, <3>1 DEF T!Play, T!Playing, T!Marked
    <2>4. CASE MoveState(p, m) = "TIE"
      <3>1. ending' = [q \in Players |-> "TIE"]
        BY <1>9, <2>1, <2>4, Outcomes DEF Ends
      <3> QED
        BY <1>2, <1>4, <1>7, <2>1, <2>2, <2>4, <3>1 DEF T!Play, T!Playing, T!Marked
    <2> QED
      BY <2>2, <2>3, <2>4
  <1>10. ASSUME NEW p \in Players, NEW m \in Moves, Unanswered(p, m) PROVE T!Abandon(p)
    <2>1. Valid(p, m) /\ state' = evaluate_move(p, m)
      BY <1>10 DEF Unanswered
    <2>2. ending' = [q \in Players |-> IF q = p THEN "none" ELSE "OPP"]
      BY <1>4, <1>10, Opponents DEF Unanswered
    <2> QED
      BY <1>2, <1>4, <1>5, <1>7, <2>1, <2>2 DEF T!Abandon, T!Playing, T!Marked
  <1>11. ASSUME NEW p \in Players, Leave(p) \/ \E m \in Moves : Refused(p, m) PROVE FALSE
    BY <1>1, <1>11 DEF Leave, Refused, vars
  <1> QED
    BY <1>1, <1>4, <1>6, <1>8, <1>9, <1>10, <1>11 DEF Next, T!TicTacToeNext, vars

\* Marks are made in turn on free squares until a line or a full board, and
\* each player is told the ending that is its own.
THEOREM TttRefines == Spec => ImplementsTicTacToe
  <1> QED
    BY TttInitially, TttStep, Invariance, PTL DEF Spec, ImplementsTicTacToe, T!TicTacToeSpec

-----------------------------------------------------------------------------
(* What the players of a game were sent lets them follow it: PlayersKnow    *)
(* and TurnAgreed, on top of Inv.                                           *)

\* What p knows as long as neither player was told that the other left.
Follows(p) ==
    /\ known[p][p] = Made(p)
    /\ known[p][Other(p)] =
           IF game = "RPS" /\ Made(p) = {} THEN {}
           ELSE IF game = "RPS" /\ phase = "playing" THEN {}
           ELSE Made(Other(p))

\* Nobody was told that its opponent left.
NobodyLeft == \A p \in Players : ending[p] # "OPP"

\* PlayersKnow, with its condition said once for both.
LEMMA KnowingIsFollowing == PlayersKnow <=> (NobodyLeft => \A p \in Players : Follows(p))
  BY Opponents DEF PlayersKnow, NobodyLeft, Follows

\* While a game is played, both follow it.
LEMMA OpenIsFollowed ==
    ASSUME Inv, PlayersKnow, phase = "playing"
    PROVE  \A p \in Players : Follows(p)
  <1>1. NobodyLeft
    BY DEF Inv, ToldTheEnd, NobodyLeft
  <1> QED
    BY <1>1, KnowingIsFollowing

-----------------------------------------------------------------------------
(* Tic-tac-toe.                                                             *)

\* A mark is one more move made by its player.
LEMMA MarkIsMade ==
    ASSUME Inv, NEW p \in Players, NEW m \in Moves, Valid(p, m), game = "TTT",
           state' = evaluate_move(p, m), game' = game
    PROVE  /\ Made(p)' = Made(p) \cup {m}
           /\ Made(Other(p))' = Made(Other(p))
           /\ \A q \in Players : m \notin Made(q)
  <1>1. /\ m \in Cells /\ state.cells[m] = FREE_CELL /\ state.cells \in Boards
        /\ state'.cells = [state.cells EXCEPT ![m] = p]
    BY ValidTtt, MarkKeepsCount
  <1>2. /\ \A q \in Players : Made(q) = Marks(state.cells, q)
        /\ \A q \in Players : Made(q)' = Marks(state'.cells, q)
    BY DEF Made
  <1>3. \A q \in Players : m \notin Marks(state.cells, q)
    BY <1>1 DEF Marks, Players, FREE_CELL
  <1>4. /\ Marks(state'.cells, p) = Marks(state.cells, p) \cup {m}
        /\ Marks(state'.cells, Other(p)) = Marks(state.cells, Other(p))
    BY <1>1, Opponents DEF Marks, Boards, Players, FREE_CELL, Other
  <1> QED
    BY <1>2, <1>3, <1>4, Opponents

\* The mover has it confirmed and the other is told of it; a second report, to
\* the mover, changes nothing.
LEMMA MarkIsLearnt ==
    ASSUME NEW k \in [Players -> [Players -> SUBSET Moves]], game = "TTT",
           NEW p \in Players, NEW m \in Moves, \A q \in Players : m \notin k[Other(p)][q]
    PROVE  LET c == Confirmed(k, p, m)
               n == Learnt(c, Other(p), m)
           IN  /\ Learnt(c, p, m) = c
               /\ n[p][p] = k[p][p] \cup {m} /\ n[p][Other(p)] = k[p][Other(p)]
               /\ n[Other(p)][p] = k[Other(p)][p] \cup {m}
               /\ n[Other(p)][Other(p)] = k[Other(p)][Other(p)]
  <1> DEFINE o == Other(p)
             c == Confirmed(k, p, m)
             n == Learnt(c, o, m)
  <1>1. /\ o \in Players /\ o # p /\ Other(o) = p /\ Players = {p, o}
        /\ 1 \in Players /\ 2 \in Players
    BY Opponents DEF Players
  <1>2. /\ c \in [Players -> [Players -> SUBSET Moves]]
        /\ c[p][p] = k[p][p] \cup {m} /\ c[p][o] = k[p][o] /\ c[o] = k[o]
    BY <1>1, KnowledgeType DEF Confirmed
  <1>3. Learnt(c, p, m) = c
    <2>1. m \in c[p][1] \cup c[p][2]
      BY <1>2 DEF Players
    <2> QED
      BY <2>1 DEF Learnt
  <1>4. n = [c EXCEPT ![o][p] = @ \cup {m}]
    <2>1. m \notin c[o][1] \cup c[o][2]
      BY <1>1, <1>2
    <2> QED
      BY <1>1, <2>1 DEF Learnt
  <1>5. n[p] = c[p] /\ n[o] = [c[o] EXCEPT ![p] = @ \cup {m}]
    BY <1>1, <1>2, <1>4
  <1> QED
    BY <1>1, <1>2, <1>3, <1>5

\* After a valid mark both players still follow.
LEMMA MarkIsFollowed ==
    ASSUME Inv, PlayersKnow, NEW p \in Players, NEW m \in Moves, game = "TTT",
           GoesOn(p, m) \/ Ends(p, m)
    PROVE  \A q \in Players : Follows(q)'
  <1>1. /\ Valid(p, m) /\ state' = evaluate_move(p, m) /\ game' = game /\ game' = "TTT"
    BY DEF GoesOn, Ends
  <1>2. \A q \in Players : known[q][q] = Made(q) /\ known[q][Other(q)] = Made(Other(q))
    BY <1>1, OpenIsFollowed DEF Follows, Valid
  <1>3. /\ Made(p)' = Made(p) \cup {m} /\ Made(Other(p))' = Made(Other(p))
        /\ \A q \in Players : m \notin known[Other(p)][q]
    BY <1>1, <1>2, MarkIsMade, Opponents
  <1>4. known \in [Players -> [Players -> SUBSET Moves]]
    BY DEF Inv, TypeOK
  <1>5. known' = Learnt(Confirmed(known, p, m), Other(p), m)
    <2>1. CASE GoesOn(p, m)
      <3>1. MoveState(p, m) # "SILENT_MOVE"
        BY DEF MoveState, ttt_move_state
      <3> QED
        BY <2>1, <3>1 DEF GoesOn
    <2>2. CASE Ends(p, m)
      <3>1. Ending(p, m).mover[2] = m /\ Ending(p, m).other[2] = m
        BY <1>1, <2>2, Outcomes DEF Ends
      <3>2. Learnt(Confirmed(known, p, m), p, m) = Confirmed(known, p, m)
        BY <1>3, <1>4, MarkIsLearnt
      <3> QED
        BY <2>2, <3>1, <3>2 DEF Ends
    <2> QED
      BY <2>1, <2>2
  <1>6. /\ known'[p][p] = Made(p)' /\ known'[p][Other(p)] = Made(Other(p))'
        /\ known'[Other(p)][p] = Made(p)' /\ known'[Other(p)][Other(p)] = Made(Other(p))'
    BY <1>2, <1>3, <1>4, <1>5, MarkIsLearnt, Opponents
  <1>7. Follows(p)' /\ Follows(Other(p))'
    BY <1>1, <1>6, Opponents DEF Follows
  <1> QED
    BY <1>7, Opponents

-----------------------------------------------------------------------------
(* Rock, paper, scissors.                                                   *)

\* After a valid choice both players still follow: the silent one is known to
\* its player only, with the last one both are shown.
LEMMA ChoiceIsFollowed ==
    ASSUME Inv, PlayersKnow, NEW p \in Players, NEW m \in Moves, game = "RPS",
           GoesOn(p, m) \/ Ends(p, m)
    PROVE  \A q \in Players : Follows(q)'
  <1> DEFINE o == Other(p)
  <1>1. /\ Valid(p, m) /\ state' = evaluate_move(p, m) /\ game' = game /\ game' = "RPS"
        /\ phase = "playing"
    BY DEF GoesOn, Ends, Valid
  <1>2. o \in Players /\ o # p /\ Other(o) = p /\ Players = {p, o}
    BY Opponents
  <1>3. /\ state.choices[p] = NO_CHOICE /\ m \in ROCK .. SCISSORS
        /\ state.choices \in [Players -> NO_CHOICE .. SCISSORS]
        /\ state'.choices = [state.choices EXCEPT ![p] = m]
        /\ \A q \in Players : known[q][Other(q)] = {}
    BY <1>1, ValidRps, ChoiceKept
  <1>4. \A q \in Players : /\ Made(q) = {state.choices[q]} \ {NO_CHOICE}
                           /\ Made(q)' = {state'.choices[q]} \ {NO_CHOICE}
    BY <1>1 DEF Made
  <1>5. m # NO_CHOICE
    BY <1>3 DEF ROCK, SCISSORS, NO_CHOICE
  <1>6. Made(p) = {} /\ Made(p)' = {m} /\ Made(o)' = Made(o)
    BY <1>2, <1>3, <1>4, <1>5
  <1>7. known[p][p] = {} /\ known[o][o] = Made(o)
    BY <1>1, <1>2, <1>6, OpenIsFollowed DEF Follows
  <1>8. /\ known \in [Players -> [Players -> SUBSET Moves]]
        /\ Confirmed(known, p, m) \in [Players -> [Players -> SUBSET Moves]]
        /\ Confirmed(known, p, m)[p][p] = {m}
        /\ Confirmed(known, p, m)[o][o] = Made(o)
    BY <1>2, <1>7, KnowledgeType DEF Confirmed, Inv, TypeOK
  <1>9. CASE GoesOn(p, m)
    <2>1. MoveState(p, m) = "SILENT_MOVE"
      BY <1>1, <1>9, ChoiceKept DEF GoesOn, eval_game_end
    <2>2. Made(o)' = {} /\ phase' = "playing"
      BY <1>1, <1>2, <1>4, <1>6, <1>9, <2>1, ChoiceKept DEF GoesOn
    <2>3. known' = Confirmed(known, p, m)
      BY <1>9, <2>1 DEF GoesOn
    <2>4. \A q \in Players : known'[q][Other(q)] = {}
      BY <1>2, <1>3, <1>8, <2>3 DEF Confirmed
    <2> QED
      BY <1>1, <1>2, <1>6, <1>8, <2>2, <2>3, <2>4 DEF Follows
  <1>10. CASE Ends(p, m)
    <2>1. /\ \A q \in Players : known'[q][Other(q)] = {state'.choices[Other(q)]}
          /\ state.choices[o] # NO_CHOICE
      BY <1>3, <1>10, RpsEnds
    <2>2. phase' = "destroyed"
      BY <1>10 DEF Ends
    <2>3. \A q \in Players : Made(q)' = {state'.choices[q]} /\ Made(q)' # {}
      BY <1>2, <1>3, <1>4, <1>5, <2>1
    <2>4. /\ known'[p][p] = Confirmed(known, p, m)[p][p]
          /\ known'[o][o] = Confirmed(known, p, m)[o][o]
      <3> DEFINE c == Confirmed(known, p, m)
                 a == Ending(p, m).mover[2]
                 d == Learnt(c, p, a)
      <3>1. known' = Learnt(d, o, m)
        BY <1>1, <1>10, Outcomes DEF Ends
      <3>2. d = [c EXCEPT ![p][o] = @ \cup {a}]
        BY <1>1 DEF Learnt
      <3>3. d[p] = [c[p] EXCEPT ![o] = @ \cup {a}] /\ d[o] = c[o]
        BY <1>2, <1>8, <3>2
      <3>4. d \in [Players -> [Players -> SUBSET Moves]]
        BY <1>1, <1>8, <1>10, Outcomes, KnowledgeType DEF Ends
      <3>5. known' = [d EXCEPT ![o][p] = @ \cup {m}]
        BY <1>1, <1>2, <3>1 DEF Learnt
      <3>6. known'[p] = d[p] /\ known'[o] = [d[o] EXCEPT ![p] = @ \cup {m}]
        BY <1>2, <3>4, <3>5
      <3>7. d[p][p] = c[p][p] /\ known'[o][o] = d[o][o]
        BY <1>2, <1>8, <3>3, <3>4, <3>6
      <3> QED
        BY <3>3, <3>6, <3>7
    <2> QED
      BY <1>1, <1>2, <1>6, <1>8, <2>1, <2>2, <2>3, <2>4 DEF Follows
  <1> QED
    BY <1>9, <1>10

-----------------------------------------------------------------------------
(* All steps.                                                               *)

\* A game starts with no moves, and none known.
LEMMA InitiallyKnown == Init => PlayersKnow
  <1> SUFFICES ASSUME Init PROVE PlayersKnow
    OBVIOUS
  <1>1. \A p \in Players : known[p][p] = {} /\ known[p][Other(p)] = {}
    BY Opponents DEF Init
  <1>2. \A p \in Players : Made(p) = {}
    BY DEF Init, Made, Marks, Players, Games, make_ttt_game_state, make_rps_game_state,
           FREE_CELL, NO_CHOICE
  <1> QED
    BY <1>1, <1>2, Opponents DEF PlayersKnow

\* Once somebody is told that its opponent left, nothing is claimed.
LEMMA LeavingIsTold ==
    ASSUME Inv, NEW p \in Players, Disconnect(p) \/ Quit(p) \/ \E m \in Moves : Unanswered(p, m)
    PROVE  PlayersKnow'
  <1>1. ending'[Other(p)] = "OPP" /\ Other(p) \in Players
    BY Opponents DEF Disconnect, Quit, Unanswered, Inv, TypeOK
  <1> QED
    BY <1>1, Opponents DEF PlayersKnow, Players

\* Every step keeps what the players know in agreement with the moves made.
LEMMA NextKnown == Inv /\ PlayersKnow /\ [Next]_vars => PlayersKnow'
  <1> SUFFICES ASSUME Inv, PlayersKnow, [Next]_vars PROVE PlayersKnow'
    OBVIOUS
  <1>1. ASSUME UNCHANGED <<game, state, phase, known, ending>> PROVE PlayersKnow'
    BY <1>1 DEF PlayersKnow, Made
  <1>2. ASSUME NEW p \in Players, NEW m \in Moves, GoesOn(p, m) \/ Ends(p, m)
        PROVE  PlayersKnow'
    <2>1. \A q \in Players : Follows(q)'
      BY <1>2, MarkIsFollowed, ChoiceIsFollowed DEF Inv, TypeOK, Games
    <2> QED
      BY <2>1 DEF PlayersKnow, Follows
  <1> QED
    BY <1>1, <1>2, LeavingIsTold DEF Next, vars, Leave, Refused

\* In every state a game can reach, what a player was sent lets it follow.
THEOREM PlayersAlwaysKnow == Spec => []PlayersKnow
  <1> QED
    BY InitiallyKnown, NextKnown, Invariance, PTL DEF Spec

-----------------------------------------------------------------------------
(* Whose turn it is.                                                        *)

\* A player that counts the moves it knows of counts the marks on the board.
LEMMA KnowingIsAgreeing == Inv /\ PlayersKnow => TurnAgreed
  <1> SUFFICES ASSUME Inv, PlayersKnow, game = "TTT", phase = "playing",
                      NEW p \in Players, NEW m \in Moves
               PROVE  HoldsTurn(p) <=> validate_move(p, m) # "ERR_OUT_OF_TURN"
    BY DEF TurnAgreed
  <1>1. state \in TttState /\ state.cells \in Boards
    BY DEF Inv, TypeOK, TttState, Boards
  <1>2. /\ Cardinality(known[p][p]) = Of(p)
        /\ Cardinality(known[p][Other(p)]) = Of(Other(p))
    BY OpenIsFollowed, Opponents DEF Follows, Made, Of
  <1>3. \A q \in Players : Of(q) \in Nat
    BY <1>1, MarksCounted DEF Of
  <1>4. Of(PlayerX) - Of(Other(PlayerX)) = IF state.X_turn THEN 0 ELSE 1
    BY DEF Inv, TttOpen
  <1>5. ttt_symbol(state, p) = "X" <=> p = PlayerX
    BY <1>1 DEF ttt_symbol, PlayerX, Players, TttState
  <1>6. p = OnTurn(state) <=> (state.X_turn <=> p = PlayerX)
    BY <1>1 DEF OnTurn, player_1_turn, PlayerX, Players, TttState
  <1>7. validate_move(p, m) # "ERR_OUT_OF_TURN" <=> p = OnTurn(state)
    BY DEF validate_move, ttt_validate_move
  <1>8. PlayerX \in Players /\ (p # PlayerX => p = Other(PlayerX) /\ Other(p) = PlayerX)
    BY DEF PlayerX, Players, Other
  <1>9. HoldsTurn(p) <=> IF p = PlayerX THEN Of(p) = Of(Other(p)) ELSE Of(p) < Of(Other(p))
    BY <1>2, <1>5 DEF HoldsTurn
  <1> QED
    BY <1>1, <1>3, <1>4, <1>6, <1>7, <1>8, <1>9, Opponents DEF TttState

\* Server and clients always agree on whose turn it is.
THEOREM TurnAlwaysAgreed == Spec => []TurnAgreed
  <1> QED
    BY KnowingIsAgreeing, PlayersAlwaysKnow, Invariance, PTL

=============================================================================
