----------------------------- MODULE Admission -----------------------------
(***************************************************************************)
(* How a client gets from accept to a game: the gateway thread              *)
(* (lib/client_gateway.c) queues accepted connections, the handshaker       *)
(* thread (lib/handshaking.c) takes them from that queue, waits for their   *)
(* choice of game and queues them again, the plexer thread                  *)
(* (lib/new_client_plexer.c) sorts them by game and pairs them.  Both       *)
(* queues are extended_thread_list_t: a list, its mutex and a semaphore     *)
(* that counts its items (lib/threaded_list.c).                             *)
(*                                                                          *)
(* A list operation under the mutex is one step.  What gcol_create does     *)
(* with a pair is GameServer's.                                             *)
(***************************************************************************)
EXTENDS Integers, SequencesExt

CONSTANT Clients   \* descriptors, numbered in the order they are accepted

ASSUME ClientsAssumption == Clients \subseteq Nat \ {0}

Games   == {"TTT", "RPS"}
\* What read_game_choice makes of a message: a game, or a request it refuses
\* (type, context, payload, or too short).
GameChoices == Games \cup {"refused"}

VARIABLES
    peer,        \* far end of each connection: absent, up, closed
    choice,      \* the message in the socket of each client, or "none"
    newClients,  \* new_clients->list
    newItems,    \* new_clients->items_sem
    hs,          \* where the handshaker is: wait, receive, rewait, select, shake, pass
    waits,       \* local of receive_new_clients
    clients,     \* the handshaker's own list
    selector,    \* its fd_set, as select left it
    shaken,      \* local handshaked_clients of an iteration
    handshaked,  \* handshaked_clients->list
    hsItems,     \* handshaked_clients->items_sem
    plexer,      \* where the plexer is: wait, or the game it builds
    players,     \* game_players
    games,       \* the pairs given to game_collection.create, in order
    forgotten,   \* clients in no list and no game any more, still connected here
    server       \* up or exited

netVars        == <<peer, choice>>
newVars        == <<newClients, newItems>>
handshakeVars  == <<hs, waits, clients, selector, shaken>>
handshakedVars == <<handshaked, hsItems>>
plexerVars     == <<plexer, players, games>>
vars == <<netVars, newVars, handshakeVars, handshakedVars, plexerVars, forgotten, server>>

Handshaked == [client_fd : Clients, game_choice : Games]
Pairs      == [game : Games, p1 : Clients, p2 : Clients]

TypeOK ==
    /\ peer       \in [Clients -> {"absent", "up", "closed"}]
    /\ choice     \in [Clients -> GameChoices \cup {"none"}]
    /\ newClients \in Seq(Clients)
    /\ newItems   \in Nat
    /\ hs         \in {"wait", "receive", "rewait", "select", "shake", "pass"}
    /\ waits      \in {-1, 0, 1}
    /\ clients    \in Seq(Clients)
    /\ selector   \subseteq Clients
    /\ shaken     \in Seq(Handshaked)
    /\ handshaked \in Seq(Handshaked)
    /\ hsItems    \in Nat
    /\ plexer     \in {"wait"} \cup Games
    /\ players    \in [Games -> Seq(Clients)]
    /\ games      \in Seq(Pairs)
    /\ forgotten  \subseteq Clients
    /\ server     \in {"up", "exited"}

Init ==
    /\ peer       = [c \in Clients |-> "absent"]
    /\ choice     = [c \in Clients |-> "none"]
    /\ newClients = <<>>
    /\ newItems   = 0
    /\ hs         = "wait"
    /\ waits      = 0
    /\ clients    = <<>>
    /\ selector   = {}
    /\ shaken     = <<>>
    /\ handshaked = <<>>
    /\ hsItems    = 0
    /\ plexer     = "wait"
    /\ players    = [g \in Games |-> <<>>]
    /\ games      = <<>>
    /\ forgotten  = {}
    /\ server     = "up"

Up == server = "up"

-----------------------------------------------------------------------------
(* Clients and the gateway.                                                 *)

\* accept_clients and add_player_to_queue.
Accept(c) ==
    /\ Up
    /\ peer[c] = "absent"
    /\ \A d \in Clients : d < c => peer[d] # "absent"
    /\ peer'       = [peer EXCEPT ![c] = "up"]
    /\ newClients' = Append(newClients, c)
    /\ newItems'   = newItems + 1
    /\ UNCHANGED <<choice, handshakeVars, handshakedVars, plexerVars, forgotten, server>>

\* Clients whose handshake is not done.
Pending ==
    {newClients[i] : i \in DOMAIN newClients} \cup {clients[i] : i \in DOMAIN clients}

\* A client sends one message and waits for the response.
Choose(c, m) ==
    /\ Up
    /\ peer[c] = "up"
    /\ choice[c] = "none"
    /\ c \in Pending \cup forgotten
    /\ choice' = [choice EXCEPT ![c] = m]
    /\ UNCHANGED <<peer, newVars, handshakeVars, handshakedVars, plexerVars, forgotten, server>>

HangUp(c) ==
    /\ Up
    /\ peer[c] = "up"
    /\ peer' = [peer EXCEPT ![c] = "closed"]
    /\ UNCHANGED <<choice, newVars, handshakeVars, handshakedVars, plexerVars, forgotten, server>>

-----------------------------------------------------------------------------
(* The handshaker.                                                          *)

\* receive_new_clients: sem_wait.
Wait ==
    /\ Up
    /\ hs = "wait"
    /\ newItems > 0
    /\ newItems' = newItems - 1
    /\ hs'       = "receive"
    /\ UNCHANGED <<netVars, newClients, waits, clients, selector, shaken, handshakedVars,
                   plexerVars, forgotten, server>>

\* `while (new_client && waits++)' pops up to two clients.
Popped == IF Len(newClients) < 2 THEN Len(newClients) ELSE 2

\* Mutant: the count of clients popped starts at zero.
Receive_CountsFromZero ==
    /\ Up
    /\ hs = "receive"
    /\ newClients' = SubSeq(newClients, Popped + 1, Len(newClients))
    /\ clients'    = IF Popped = 0 THEN clients ELSE Append(clients, Head(newClients))
    /\ forgotten'  = IF Popped = 2 THEN forgotten \cup {newClients[2]} ELSE forgotten
    /\ waits'      = Popped
    /\ hs'         = "rewait"
    /\ UNCHANGED <<netVars, newItems, selector, shaken, handshakedVars, plexerVars, server>>

\* Mutant: the semaphore is not waited for again.
Receive_NoWaits ==
    /\ Up
    /\ hs = "receive"
    /\ newClients' = SubSeq(newClients, Popped + 1, Len(newClients))
    /\ clients'    = IF Popped = 0 THEN clients ELSE Append(clients, Head(newClients))
    /\ forgotten'  = IF Popped = 2 THEN forgotten \cup {newClients[2]} ELSE forgotten
    /\ waits'      = 0
    /\ hs'         = "rewait"
    /\ UNCHANGED <<netVars, newItems, selector, shaken, handshakedVars, plexerVars, server>>

\* Mutant: the second client is kept like the first.
Receive_KeepsSecond ==
    /\ Up
    /\ hs = "receive"
    /\ newClients' = SubSeq(newClients, Popped + 1, Len(newClients))
    /\ clients'    = clients \o SubSeq(newClients, 1, Popped)
    /\ waits'      = Popped - 1
    /\ hs'         = "rewait"
    /\ UNCHANGED <<netVars, newItems, selector, shaken, handshakedVars, plexerVars, forgotten,
                   server>>

\* receive_new_clients, under the mutex: the loop stops before it keeps the
\* second client.
Receive ==
    /\ Up
    /\ hs = "receive"
    /\ newClients' = SubSeq(newClients, Popped + 1, Len(newClients))
    /\ clients'    = IF Popped = 0 THEN clients ELSE Append(clients, Head(newClients))
    /\ forgotten'  = IF Popped = 2 THEN forgotten \cup {newClients[2]} ELSE forgotten
    /\ waits'      = Popped - 1
    /\ hs'         = "rewait"
    /\ UNCHANGED <<netVars, newItems, selector, shaken, handshakedVars, plexerVars, server>>

\* receive_new_clients: one sem_wait for each client popped but the first.
Rewait ==
    /\ Up
    /\ hs = "rewait"
    /\ waits # 0
    /\ newItems > 0
    /\ newItems' = newItems - 1
    /\ waits'    = waits - 1
    /\ UNCHANGED <<netVars, newClients, hs, clients, selector, shaken, handshakedVars,
                   plexerVars, forgotten, server>>

Received ==
    /\ Up
    /\ hs = "rewait"
    /\ waits = 0
    /\ hs' = "select"
    /\ UNCHANGED <<netVars, newVars, waits, clients, selector, shaken, handshakedVars,
                   plexerVars, forgotten, server>>

Readable(c) == choice[c] # "none" \/ peer[c] = "closed"

\* initialize_selector and await_select: until one of the clients it holds is
\* readable, the handshaker does not look at those in the queue.
Select ==
    LET readable == {c \in {clients[i] : i \in DOMAIN clients} : Readable(c)} IN
    /\ Up
    /\ hs = "select"
    /\ readable # {}
    /\ selector' = readable
    /\ hs'       = "shake"
    /\ UNCHANGED <<netVars, newVars, waits, clients, shaken, handshakedVars, plexerVars,
                   forgotten, server>>

\* handshake_clients pops a client of the set.  For one that is not in the
\* set the code would loop for good: see HeldIsSelected.
Shaking(c) ==
    /\ Up
    /\ hs = "shake"
    /\ clients # <<>>
    /\ c = Head(clients)
    /\ c \in selector

\* handshake_client: a choice is read and the uid sent.
Welcome(c) ==
    /\ Shaking(c)
    /\ choice[c] \in Games
    /\ shaken'  = Append(shaken, [client_fd |-> c, game_choice |-> choice[c]])
    /\ clients' = Tail(clients)
    /\ choice'  = [choice EXCEPT ![c] = "none"]
    /\ UNCHANGED <<peer, newVars, hs, waits, selector, handshakedVars, plexerVars, forgotten,
                   server>>

\* Mutant: the client is put back without having been taken.
Refuse_Doubles(c) ==
    /\ Shaking(c)
    /\ choice[c] = "refused"
    /\ clients' = Append(clients, c)
    /\ choice'  = [choice EXCEPT ![c] = "none"]
    /\ UNCHANGED <<peer, newVars, hs, waits, selector, shaken, handshakedVars, plexerVars,
                   forgotten, server>>

\* A request is refused: the client goes back to the list and is read again
\* at once, without a select, until it chooses or leaves.
Refuse(c) ==
    /\ Shaking(c)
    /\ choice[c] = "refused"
    /\ clients' = Append(Tail(clients), c)
    /\ choice'  = [choice EXCEPT ![c] = "none"]
    /\ UNCHANGED <<peer, newVars, hs, waits, selector, shaken, handshakedVars, plexerVars,
                   forgotten, server>>

\* PLAYER_DISCONNECTED: the client is dropped, its descriptor stays open.
Drop(c) ==
    /\ Shaking(c)
    /\ choice[c] = "none"
    /\ peer[c] = "closed"
    /\ clients'   = Tail(clients)
    /\ forgotten' = forgotten \cup {c}
    /\ UNCHANGED <<netVars, newVars, hs, waits, selector, shaken, handshakedVars, plexerVars,
                   server>>

\* SIGPIPE on the response to a client that is gone.
Killed(c) ==
    /\ Shaking(c)
    /\ choice[c] # "none"
    /\ peer[c] = "closed"
    /\ server' = "exited"
    /\ UNCHANGED <<netVars, newVars, handshakeVars, handshakedVars, plexerVars, forgotten>>

Shaken ==
    /\ Up
    /\ hs = "shake"
    /\ clients = <<>>
    /\ hs' = "pass"
    /\ UNCHANGED <<netVars, newVars, waits, clients, selector, shaken, handshakedVars,
                   plexerVars, forgotten, server>>

\* pass_handshaked_clients, under the mutex.
Pass ==
    /\ Up
    /\ hs = "pass"
    /\ handshaked' = handshaked \o shaken
    /\ hsItems'    = hsItems + Len(shaken)
    /\ shaken'     = <<>>
    /\ hs'         = "wait"
    /\ UNCHANGED <<netVars, newVars, waits, clients, selector, plexerVars, forgotten, server>>

-----------------------------------------------------------------------------
(* The plexer.                                                              *)

\* Mutant: a game is built when a third client comes.
PlexNext_Late ==
    LET client == Head(handshaked)
        queue  == Append(players[client.game_choice], client.client_fd)
    IN
    /\ Up
    /\ plexer = "wait"
    /\ hsItems > 0
    /\ hsItems'    = hsItems - 1
    /\ handshaked' = Tail(handshaked)
    /\ players'    = [players EXCEPT ![client.game_choice] = queue]
    /\ plexer'     = IF Len(queue) > 2 THEN client.game_choice ELSE "wait"
    /\ UNCHANGED <<netVars, newVars, handshakeVars, games, forgotten, server>>

\* plex_next_client.
PlexNext ==
    LET client == Head(handshaked)
        queue  == Append(players[client.game_choice], client.client_fd)
    IN
    /\ Up
    /\ plexer = "wait"
    /\ hsItems > 0
    /\ hsItems'    = hsItems - 1
    /\ handshaked' = Tail(handshaked)
    /\ players'    = [players EXCEPT ![client.game_choice] = queue]
    /\ plexer'     = IF Len(queue) = 2 THEN client.game_choice ELSE "wait"
    /\ UNCHANGED <<netVars, newVars, handshakeVars, games, forgotten, server>>

\* Mutant: the client that came last plays first.
BuildGame_Swapped ==
    LET queue == players[plexer] IN
    /\ Up
    /\ plexer # "wait"
    /\ games'   = Append(games, [game |-> plexer, p1 |-> queue[2], p2 |-> queue[1]])
    /\ players' = [players EXCEPT ![plexer] = Tail(Tail(queue))]
    /\ plexer'  = "wait"
    /\ UNCHANGED <<netVars, newVars, handshakeVars, handshakedVars, forgotten, server>>

\* build_game.
BuildGame ==
    LET queue == players[plexer] IN
    /\ Up
    /\ plexer # "wait"
    /\ games'   = Append(games, [game |-> plexer, p1 |-> queue[1], p2 |-> queue[2]])
    /\ players' = [players EXCEPT ![plexer] = Tail(Tail(queue))]
    /\ plexer'  = "wait"
    /\ UNCHANGED <<netVars, newVars, handshakeVars, handshakedVars, forgotten, server>>

-----------------------------------------------------------------------------
ClientStep == \E c \in Clients : Accept(c) \/ (\E m \in GameChoices : Choose(c, m)) \/ HangUp(c)

HandshakerStep ==
    \/ Wait \/ Receive \/ Rewait \/ Received \/ Select
    \/ \E c \in Clients : Welcome(c) \/ Refuse(c) \/ Drop(c) \/ Killed(c)
    \/ Shaken \/ Pass

PlexerStep == PlexNext \/ BuildGame

Next == ClientStep \/ HandshakerStep \/ PlexerStep

Spec == Init /\ [][Next]_vars

\* The scheduler runs the threads.
FairSpec == Spec /\ WF_vars(HandshakerStep) /\ WF_vars(PlexerStep)

\* Clients that, while they stay, come to choose a game in the end.
Decisive(c) == SF_vars(\E g \in Games : Choose(c, g))
DecisiveSpec == FairSpec /\ \A c \in Clients : Decisive(c)

-----------------------------------------------------------------------------
(* What makes admission correct.                                            *)

\* Everywhere a client can be, as one sequence.
Places ==
    newClients \o clients \o [i \in DOMAIN shaken |-> shaken[i].client_fd]
    \o [i \in DOMAIN handshaked |-> handshaked[i].client_fd]
    \o players["TTT"] \o players["RPS"]
    \o [i \in DOMAIN games |-> games[i].p1] \o [i \in DOMAIN games |-> games[i].p2]

\* No client is in two places of the three threads at once, and one that was
\* accepted is in one of them, unless the handshaker let go of it.
OnePlace ==
    /\ \A i, j \in DOMAIN Places : Places[i] = Places[j] => i = j
    /\ {Places[i] : i \in DOMAIN Places} = {c \in Clients : peer[c] # "absent"} \ forgotten

\* A semaphore that counts the items of a list, less the one a thread was
\* just let through for, plus the ones receive_new_clients took and has not
\* waited for: no pop finds an empty list, no item is left without a post.
SemaphoresCount ==
    /\ newItems = Len(newClients) + (CASE hs = "receive" -> -1 [] hs = "rewait" -> waits [] OTHER -> 0)
    /\ hsItems = Len(handshaked)

\* handshake_clients never meets a client that select did not report: its
\* "wasn't ready to shake hands" branch, which would pop what it has just
\* pushed for ever, is dead.  It is because the list holds one client.
HeldIsSelected ==
    /\ hs \in {"rewait", "select"} => Len(clients) = 1
    /\ hs = "shake" => Len(clients) <= 1 /\ \A i \in DOMAIN clients : clients[i] \in selector
    /\ hs \notin {"rewait", "select", "shake"} => clients = <<>>

\* Two clients that chose the same game are never both left to wait: each
\* game has a queue of at most one client, two while its game is built.
NobodyWaitsForSecond ==
    \A g \in Games : IF plexer = g THEN Len(players[g]) = 2 ELSE Len(players[g]) <= 1

\* The clients of g in the lists after the handshake, in order.
ChoseGame(s, g) ==
    FlattenSeq([i \in DOMAIN s |-> IF s[i].game_choice = g THEN <<s[i].client_fd>> ELSE <<>>])

\* The lobby promised by Matchmaking: a client arrives when it is welcomed.
Lobby == INSTANCE Matchmaking WITH
    waiting <- [g \in Games |-> players[g] \o ChoseGame(handshaked, g) \o ChoseGame(shaken, g)],
    matches <- games

\* The two threads pair clients as the abstract lobby does: in the order of
\* their handshakes, by game, each of them once.
ImplementsMatchmaking == Lobby!MatchmakingSpec

\* A client that is accepted does not stay pending: it is welcomed, or let go
\* of, or the process ends; as long as every client chooses or leaves.
EveryClientIsTaken ==
    \A c \in Clients : c \in Pending ~> c \notin Pending \/ ~Up

\* Two clients that were welcomed to one game come to play: the queue of a
\* game does not keep two.
EveryPairPlays ==
    \A g \in Games : []<>(~Lobby!CanMatch(g) \/ ~Up)

\* "a lobby" (README.md:19), "handshaker welcomes" (handshaking.c:28): a client
\* that is connected and waits is in one of the lists the threads work on.
NobodyForgotten == \A c \in forgotten : peer[c] # "up"

=============================================================================
