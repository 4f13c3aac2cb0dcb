\* One game of either kind, all squares and choices, one byte past the board.
SPECIFICATION FairSpec
CONSTANTS
    Moves <- MCMoves
CHECK_DEADLOCK FALSE
INVARIANTS
    TypeOK
    BoardCounted
    TurnAgreed
    PlayersKnow
    ToldTheEnd
PROPERTIES
    ImplementsTicTacToe
    ImplementsRockPaperScissors
    EveryGameEnds
