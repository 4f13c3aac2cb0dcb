------------------------- MODULE RockPaperScissors -------------------------
(***************************************************************************)
(* Rock, paper, scissors as two players expect it: each throws once without *)
(* knowing what the other threw, and learns it with the ending.             *)
(***************************************************************************)
EXTENDS Naturals

VARIABLES throw,   \* what each player threw, 0 if nothing yet
          seen,    \* the throws of the other that each player was shown
          told     \* the ending each player was told

rpsVars == <<throw, seen, told>>

Players == {1, 2}
Rock == 1
Paper == 2
Scissors == 3

Beats == {<<Rock, Scissors>>, <<Scissors, Paper>>, <<Paper, Rock>>}

Ending(mine, theirs) ==
    IF <<mine, theirs>> \in Beats THEN "WON"
    ELSE IF <<theirs, mine>> \in Beats THEN "LOST"
    ELSE "TIE"

Nothing == [p \in Players |-> 0]
Unseen  == [p \in Players |-> {}]
Nobody  == [p \in Players |-> "none"]

RpsInit == throw = Nothing /\ seen = Unseen /\ told = Nobody

Throw(p, t) ==
    /\ told = Nobody
    /\ throw[p] = 0
    /\ throw' = [throw EXCEPT ![p] = t]
    /\ IF throw[3 - p] = 0 THEN UNCHANGED <<seen, told>>
       ELSE /\ seen' = [q \in Players |-> {throw'[3 - q]}]
            /\ told' = [q \in Players |-> Ending(throw'[q], throw'[3 - q])]

\* A player leaves, the other is told; a last throw may go unconfirmed.
Abandon(p) ==
    /\ told = Nobody
    /\ told' = [q \in Players |-> IF q = p THEN "none" ELSE "OPP"]
    /\ \/ UNCHANGED throw
       \/ throw[p] = 0 /\ \E t \in Rock .. Scissors : throw' = [throw EXCEPT ![p] = t]
    /\ UNCHANGED seen

RpsNext == \E p \in Players : Abandon(p) \/ \E t \in Rock .. Scissors : Throw(p, t)

RpsSpec == RpsInit /\ [][RpsNext]_rpsVars

=============================================================================
