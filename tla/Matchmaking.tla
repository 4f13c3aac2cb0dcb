---------------------------- MODULE Matchmaking ----------------------------
(***************************************************************************)
(* What the lobby promises, without threads, lists or semaphores: clients   *)
(* that have chosen a game wait for it in the order in which they chose,    *)
(* and the two that waited longest play each other.                         *)
(***************************************************************************)
EXTENDS Naturals, Sequences

CONSTANTS Clients, Games

VARIABLES waiting,  \* the queue of each game
          matches   \* the matches made, in order: game and players

MatchmakingInit == waiting = [g \in Games |-> <<>>] /\ matches = <<>>

Arrive(c, g) ==
    /\ \A h \in Games : \A i \in DOMAIN waiting[h] : waiting[h][i] # c
    /\ \A i \in DOMAIN matches : c \notin {matches[i].p1, matches[i].p2}
    /\ waiting' = [waiting EXCEPT ![g] = Append(@, c)]
    /\ UNCHANGED matches

CanMatch(g) == Len(waiting[g]) >= 2

Match(g) ==
    /\ CanMatch(g)
    /\ matches' = Append(matches, [game |-> g, p1 |-> waiting[g][1], p2 |-> waiting[g][2]])
    /\ waiting' = [waiting EXCEPT ![g] = Tail(Tail(@))]

MatchmakingNext == (\E c \in Clients, g \in Games : Arrive(c, g)) \/ (\E g \in Games : Match(g))

MatchmakingSpec == MatchmakingInit /\ [][MatchmakingNext]_<<waiting, matches>>
=============================================================================
