----------------------------- MODULE GameServer -----------------------------
(***************************************************************************)
(* The threads that build, serve and end games: the plexer thread           *)
(* (lib/new_client_plexer.c) makes a game of two admitted clients and       *)
(* registers it, the main thread (game_server.c) selects on the registered  *)
(* descriptors, reads one request of each ready player and plays it or      *)
(* ends the game.  They share the game collection and the pipe by which     *)
(* the plexer wakes the main thread.                                        *)
(*                                                                          *)
(* The admission of a client (accept, handshake, queues) is one step here,  *)
(* and the inside of a game is a choice of outcomes: Admission and the game *)
(* modules have them.  Peers send requests, hang up (FIN) or abort (RST)    *)
(* when they like.                                                          *)
(***************************************************************************)
EXTENDS GameCollection, Sequences

CONSTANTS Kinds,     \* which games are built, of {"TTT", "RPS"}
          Requests,  \* which requests clients send, of RequestKinds
          Leavers,   \* the connections that may be lost
          Leaves,    \* how connections are lost, of {"closed", "reset"}
          MaxInbox   \* bound: requests a client sends ahead of the server

\* What read_move makes of a request: a move with its payload, META_QUIT, a
\* request that is refused with a response, a message shorter than its
\* header says, a move with no payload.
RequestKinds == {"move", "quit", "invalid", "short", "empty"}

ASSUME KindsAssumption    == Kinds \subseteq {"TTT", "RPS"}
ASSUME RequestsAssumption == Requests \subseteq RequestKinds
ASSUME LeavesAssumption   == Leavers \subseteq Conns /\ Leaves \subseteq {"closed", "reset"}
ASSUME InboxAssumption    == MaxInbox \in Nat

VARIABLES
    peer,    \* far end of each connection: not connected, up, FIN, RST, closed here
    inbox,   \* requests in the socket buffer of each connection
    told,    \* the last update each client was sent: none, start, end, opp;
             \* quit once its own request to quit was taken
    lobby,   \* descriptors of clients that were accepted and wait for a game
    plexer,  \* where the plexer thread is: idle, add, signal
    hand,    \* new_game_env, the block the plexer works on
    signal,  \* bytes in the new_game_signal pipe
    main,    \* where the main thread is: arm, select, serve
    watch,   \* client_fd_set as passed to select
    ready,   \* client_fd_set as select left it, less what was served
    picked,  \* history: the connection select found at each descriptor in ready
    server   \* up, exited (exit or a signal) or corrupt (undefined behaviour)

clientVars == <<peer, inbox, told>>
plexerVars == <<plexer, hand>>
mainVars   == <<main, watch, ready, picked>>
vars == <<collectionVars, clientVars, lobby, plexerVars, signal, mainVars, server>>

TypeOK ==
    /\ CollectionTypeOK
    /\ peer   \in [Conns -> {"absent", "up", "closed", "reset", "gone"}]
    /\ inbox  \in [Conns -> Seq(RequestKinds)]
    /\ told   \in [Conns -> {"none", "start", "end", "opp", "quit"}]
    /\ lobby  \subseteq Fds
    /\ plexer \in {"idle", "add", "signal"}
    /\ hand   \in Envs \cup {NULL}
    /\ signal \in Nat
    /\ main   \in {"arm", "select", "serve"}
    /\ watch  \subseteq Fds
    /\ ready  \subseteq Fds
    /\ picked \in [Fds -> Conns \cup {NULL}]
    /\ server \in {"up", "exited", "corrupt"}

Init ==
    /\ gcol_init
    /\ peer   = [c \in Conns |-> "absent"]
    /\ inbox  = [c \in Conns |-> <<>>]
    /\ told   = [c \in Conns |-> "none"]
    /\ lobby  = {}
    /\ plexer = "idle"
    /\ hand   = NULL
    /\ signal = 0
    /\ main   = "arm"
    /\ watch  = {}
    /\ ready  = {}
    /\ picked = [f \in Fds |-> NULL]
    /\ server = "up"

Up == server = "up"

-----------------------------------------------------------------------------
(* Clients and the kernel.                                                  *)

\* A connection is accepted on the lowest free descriptor.  One whose client
\* never gets through the handshake is one no game is built with.
Connect(c, f) ==
    /\ Up
    /\ peer[c] = "absent"
    /\ \A d \in Conns : d < c => peer[d] # "absent"
    /\ ~Open(f)
    /\ \A g \in Fds : g < f => Open(g)
    /\ conn'  = [conn EXCEPT ![f] = c]
    /\ peer'  = [peer EXCEPT ![c] = "up"]
    /\ lobby' = lobby \cup {f}
    /\ UNCHANGED <<env, table, inbox, told, plexerVars, signal, mainVars, server>>

Send(c, r) ==
    /\ Up
    /\ peer[c] = "up"
    /\ Len(inbox[c]) < MaxInbox
    /\ inbox' = [inbox EXCEPT ![c] = Append(@, r)]
    /\ UNCHANGED <<collectionVars, peer, told, lobby, plexerVars, signal, mainVars, server>>

\* The client closes (FIN) or aborts, or its kernel answers with a reset what
\* a closed client is sent (RST).
Leave(c, how) ==
    /\ Up
    /\ peer[c] = "up" \/ (peer[c] = "closed" /\ how = "reset")
    /\ peer' = [peer EXCEPT ![c] = how]
    /\ UNCHANGED <<collectionVars, inbox, told, lobby, plexerVars, signal, mainVars, server>>

\* A write to a connection goes through, fails with -1, or raises SIGPIPE,
\* which the program neither handles nor ignores.
CanWrite(c)  == peer[c] \in {"up", "closed"}
CanFail(c)   == peer[c] \in {"closed", "reset"}

\* A client that is up receives the update.
Tell(t, C, update) == [c \in Conns |-> IF c \in C /\ peer[c] = "up" THEN update ELSE t[c]]

-----------------------------------------------------------------------------
(* The plexer thread: build_game -> gcol_create -> start_game, gcol_add.    *)

Pair(p1, p2) == p1 \in lobby /\ p2 \in lobby /\ p1 # p2

\* Mutant: the players stay in the lists of clients that wait for a game.
Build_KeepsWaiting(kind, e, p1, p2) ==
    /\ Up
    /\ plexer = "idle"
    /\ Pair(p1, p2)
    /\ make_env(e, p1, p2)
    /\ told'   = Tell(told, {conn[p1], conn[p2]}, "start")
    /\ hand'   = e
    /\ plexer' = "add"
    /\ UNCHANGED <<conn, table, peer, inbox, lobby, signal, mainVars, server>>

\* Mutant: only the first player gets the start update.
Build_TellsOne(kind, e, p1, p2) ==
    /\ Up
    /\ plexer = "idle"
    /\ Pair(p1, p2)
    /\ make_env(e, p1, p2)
    /\ told'   = Tell(told, {conn[p1]}, "start")
    /\ lobby'  = lobby \ {p1, p2}
    /\ hand'   = e
    /\ plexer' = "add"
    /\ UNCHANGED <<conn, table, peer, inbox, signal, mainVars, server>>

\* make_env, then a start_game that reports OK.  ttt's game_start looks only
\* for PLAYER_DISCONNECTED, which a write to a socket never returns.
Build(kind, e, p1, p2) ==
    /\ Up
    /\ plexer = "idle"
    /\ Pair(p1, p2)
    /\ kind = "RPS" => CanWrite(conn[p1]) /\ CanWrite(conn[p2])
    /\ make_env(e, p1, p2)
    /\ told'   = Tell(told, {conn[p1], conn[p2]}, "start")
    /\ lobby'  = lobby \ {p1, p2}
    /\ hand'   = e
    /\ plexer' = "add"
    /\ UNCHANGED <<conn, table, peer, inbox, signal, mainVars, server>>

\* rps's start_game fails on an update that cannot be written: the other
\* player is told, and gcol_create frees the block it goes on to register.
BuildFails(e, p1, p2) ==
    /\ Up
    /\ plexer = "idle"
    /\ Pair(p1, p2)
    /\ ~Allocated(e)
    /\ \/ /\ CanFail(conn[p1])
          /\ told' = Tell(told, {conn[p2]}, "opp")
       \/ /\ CanWrite(conn[p1]) /\ CanFail(conn[p2])
          /\ told' = Tell(told, {conn[p1]}, "opp")
    /\ lobby'  = lobby \ {p1, p2}
    /\ hand'   = e
    /\ plexer' = "add"
    /\ UNCHANGED <<collectionVars, peer, inbox, signal, mainVars, server>>

Add ==
    /\ Up
    /\ plexer = "add"
    /\ Allocated(hand)
    /\ gcol_add(hand)
    /\ hand'   = NULL
    /\ plexer' = "signal"
    /\ UNCHANGED <<conn, env, clientVars, lobby, signal, mainVars, server>>

\* gcol_add reads game_sockets of a freed block and stores through them.
AddFreed ==
    /\ Up
    /\ plexer = "add"
    /\ ~Allocated(hand)
    /\ server' = "corrupt"
    /\ UNCHANGED <<collectionVars, clientVars, lobby, plexerVars, signal, mainVars>>

\* Mutant: no byte is written.
Signal_Forgotten ==
    /\ Up
    /\ plexer = "signal"
    /\ plexer' = "idle"
    /\ UNCHANGED <<collectionVars, clientVars, lobby, hand, signal, mainVars, server>>

Signal ==
    /\ Up
    /\ plexer = "signal"
    /\ signal' = signal + 1
    /\ plexer' = "idle"
    /\ UNCHANGED <<collectionVars, clientVars, lobby, hand, mainVars, server>>

-----------------------------------------------------------------------------
(* The main thread: server and serve_clients.                               *)

\* Mutant: the set is not cleared before it is filled.
Arm_NotCleared ==
    /\ Up
    /\ main = "arm"
    /\ watch' = watch \cup {f \in Fds : gcol_get(f) # NULL}
    /\ main'  = "select"
    /\ UNCHANGED <<collectionVars, clientVars, lobby, plexerVars, signal, ready, picked, server>>

\* init_fd_set, under the lock: the registered descriptors and the pipe.
Arm ==
    /\ Up
    /\ main = "arm"
    /\ watch' = {f \in Fds : gcol_get(f) # NULL}
    /\ main'  = "select"
    /\ UNCHANGED <<collectionVars, clientVars, lobby, plexerVars, signal, ready, picked, server>>

\* read returns on a descriptor: with a request, with end of file or an error.
Readable(f) == inbox[conn[f]] # <<>> \/ peer[conn[f]] \in {"closed", "reset"}

ReadableClients == {f \in watch : Open(f) /\ Readable(f)}

\* Mutant: the pipe is read whether or not select reports it.
Wake_Unchecked ==
    /\ Up
    /\ main = "select"
    /\ signal' = signal - 1
    /\ main'   = "arm"
    /\ UNCHANGED <<collectionVars, clientVars, lobby, plexerVars, watch, ready, picked, server>>

\* Mutant: the byte stays in the pipe.
Wake_LeavesByte ==
    /\ Up
    /\ main = "select"
    /\ signal > 0
    /\ main'   = "arm"
    /\ UNCHANGED <<collectionVars, clientVars, lobby, plexerVars, signal, watch, ready, picked, server>>

\* The pipe is readable: one byte is taken and the sets are built anew,
\* whatever else is ready.
Wake ==
    /\ Up
    /\ main = "select"
    /\ signal > 0
    /\ signal' = signal - 1
    /\ main'   = "arm"
    /\ UNCHANGED <<collectionVars, clientVars, lobby, plexerVars, watch, ready, picked, server>>

Picks(F) == [f \in Fds |-> IF f \in F THEN conn[f] ELSE NULL]

\* Mutant: the set that was given to select is served, not the one it left.
SelectClients_WholeSet ==
    /\ Up
    /\ main = "select"
    /\ signal = 0
    /\ ReadableClients # {}
    /\ ready'  = watch
    /\ picked' = Picks(watch)
    /\ main'   = "serve"
    /\ UNCHANGED <<collectionVars, clientVars, lobby, plexerVars, signal, watch, server>>

SelectClients ==
    /\ Up
    /\ main = "select"
    /\ signal = 0
    /\ ReadableClients # {}
    /\ ready'  = ReadableClients
    /\ picked' = Picks(ReadableClients)
    /\ main'   = "serve"
    /\ UNCHANGED <<collectionVars, clientVars, lobby, plexerVars, signal, watch, server>>

\* The loop of serve_clients goes through the descriptors in ascending order.
IsNext(f) == Up /\ main = "serve" /\ f \in ready /\ \A g \in ready : f <= g

Advance(f) ==
    /\ ready'  = ready \ {f}
    /\ picked' = [picked EXCEPT ![f] = NULL]
    /\ main'   = IF ready = {f} THEN "arm" ELSE "serve"
    /\ UNCHANGED watch

Skip(f) ==
    /\ IsNext(f)
    /\ gcol_get(f) = NULL
    /\ Advance(f)
    /\ UNCHANGED <<collectionVars, clientVars, lobby, plexerVars, signal, server>>

OtherConn(f) == conn[get_other_uid(table[f], f)]
GameConns(f) == {conn[f], OtherConn(f)}

\* The request read_move reads from f.
Reads(f, kind) ==
    /\ IsNext(f)
    /\ gcol_get(f) # NULL
    /\ inbox[conn[f]] # <<>>
    /\ Head(inbox[conn[f]]) = kind

ReadsEndOfFile(f) ==
    /\ IsNext(f)
    /\ gcol_get(f) # NULL
    /\ inbox[conn[f]] = <<>>
    /\ peer[conn[f]] \in {"closed", "reset"}

Consume(f) == inbox' = [inbox EXCEPT ![conn[f]] = Tail(@)]

\* game_collection.remove: the connections of the game are closed.
Remove(f) ==
    /\ gcol_remove(f)
    /\ peer'  = [c \in Conns |-> IF c \in GameConns(f) THEN "gone" ELSE peer[c]]
    /\ inbox' = [c \in Conns |-> IF c \in GameConns(f) THEN <<>> ELSE inbox[c]]

\* asses_read_move_state, PLAYER_DISCONNECTED.
HandleDisconnect(f) ==
    /\ ReadsEndOfFile(f)
    /\ told' = Tell(told, {OtherConn(f)}, "opp")
    /\ Remove(f)
    /\ Advance(f)
    /\ UNCHANGED <<lobby, plexerVars, signal, server>>

\* Mutant: the game goes on after the request to quit.
HandleQuit_KeepsGame(f) ==
    /\ Reads(f, "quit")
    /\ told' = [Tell(told, {OtherConn(f)}, "opp") EXCEPT ![conn[f]] = "quit"]
    /\ Consume(f)
    /\ Advance(f)
    /\ UNCHANGED <<collectionVars, peer, lobby, plexerVars, signal, server>>

\* asses_quit: the other player is told, the one that quits is not.
HandleQuit(f) ==
    /\ Reads(f, "quit")
    /\ told' = [Tell(told, {OtherConn(f)}, "opp") EXCEPT ![conn[f]] = "quit"]
    /\ Remove(f)
    /\ Advance(f)
    /\ UNCHANGED <<lobby, plexerVars, signal, server>>

\* INSUFFICIENT_DATA: the outcome of the response is ignored.
HandleShort(f) ==
    /\ Reads(f, "short")
    /\ Consume(f)
    /\ Advance(f)
    /\ UNCHANGED <<collectionVars, peer, told, lobby, plexerVars, signal, server>>

\* INVALID_REQ, when the response could be written.
HandleInvalid(f) ==
    /\ Reads(f, "invalid")
    /\ CanWrite(conn[f])
    /\ Consume(f)
    /\ Advance(f)
    /\ UNCHANGED <<collectionVars, peer, told, lobby, plexerVars, signal, server>>

\* play_game: the move is refused, or taken in a way that does not end the
\* game (told to the other player, or kept silent).
HandleMove(f) ==
    /\ Reads(f, "move")
    /\ Consume(f)
    /\ Advance(f)
    /\ UNCHANGED <<collectionVars, peer, told, lobby, plexerVars, signal, server>>

\* play_game: the move ends the game, both players get the result.
HandleLastMove(f) ==
    /\ Reads(f, "move")
    /\ CanWrite(conn[f])
    /\ told' = Tell(told, GameConns(f), "end")
    /\ Remove(f)
    /\ Advance(f)
    /\ UNCHANGED <<lobby, plexerVars, signal, server>>

\* Mutant: the other player is not told.
HandleMoveUnanswered_Silent(f) ==
    /\ Reads(f, "move")
    /\ CanFail(conn[f])
    /\ Remove(f)
    /\ Advance(f)
    /\ UNCHANGED <<told, lobby, plexerVars, signal, server>>

\* play_game: the success response cannot be written, so the game is over.
HandleMoveUnanswered(f) ==
    /\ Reads(f, "move")
    /\ CanFail(conn[f])
    /\ told' = Tell(told, {OtherConn(f)}, "opp")
    /\ Remove(f)
    /\ Advance(f)
    /\ UNCHANGED <<lobby, plexerVars, signal, server>>

-----------------------------------------------------------------------------
(* The ways these two threads end the process.  That the writes of the      *)
(* handshaker raise SIGPIPE too, and that the voice thread exits, is left   *)
(* out here.                                                                *)

Dies ==
    /\ server' = "exited"
    /\ UNCHANGED <<collectionVars, clientVars, lobby, plexerVars, signal, mainVars>>

\* SIGPIPE on an update of start_game.
PlexerKilled(p1, p2) ==
    /\ Up
    /\ plexer = "idle"
    /\ Pair(p1, p2)
    /\ CanFail(conn[p1]) \/ CanFail(conn[p2])
    /\ Dies

\* SIGPIPE on an update for the other player.
MainKilledByOther(f) ==
    /\ ReadsEndOfFile(f) \/ Reads(f, "quit") \/ Reads(f, "move")
    /\ CanFail(OtherConn(f))
    /\ Dies

\* SIGPIPE on a response, or a response to an invalid request that cannot be
\* written: read_move returns INTERNAL_ERR and asses_read_move_state exits.
MainKilledByReader(f) ==
    /\ Reads(f, "move") \/ Reads(f, "short") \/ Reads(f, "invalid")
    /\ CanFail(conn[f])
    /\ Dies

\* serve_clients dereferences the payload of a move that has none.
MainCrashes(f) ==
    /\ Reads(f, "empty")
    /\ Dies

-----------------------------------------------------------------------------
ClientStep ==
    \/ \E c \in Conns, f \in Fds : Connect(c, f)
    \/ \E c \in Conns, r \in Requests : Send(c, r)
    \/ \E c \in Leavers, how \in Leaves : Leave(c, how)

PlexerStep ==
    \/ \E e \in Envs, p1, p2 \in Fds, kind \in Kinds : Build(kind, e, p1, p2)
    \/ "RPS" \in Kinds /\ \E e \in Envs, p1, p2 \in Fds : BuildFails(e, p1, p2)
    \/ Add \/ AddFreed \/ Signal
    \/ \E p1, p2 \in Fds : PlexerKilled(p1, p2)

Serve(f) ==
    \/ Skip(f) \/ HandleDisconnect(f) \/ HandleQuit(f)
    \/ HandleShort(f) \/ HandleInvalid(f)
    \/ HandleMove(f) \/ HandleLastMove(f) \/ HandleMoveUnanswered(f)
    \/ MainKilledByOther(f) \/ MainKilledByReader(f) \/ MainCrashes(f)

MainStep ==
    \/ Arm \/ Wake \/ SelectClients
    \/ \E f \in Fds : Serve(f)

Next == ClientStep \/ PlexerStep \/ MainStep

Spec == Init /\ [][Next]_vars

\* The scheduler runs both threads.  Clients owe nothing, and nothing makes
\* the plexer pair two clients (Admission has that).
FairSpec == Spec /\ WF_vars(Add \/ AddFreed \/ Signal) /\ WF_vars(MainStep)

-----------------------------------------------------------------------------
(* What makes this part of the server correct.                              *)

Registered(f) == table[f] # NULL

\* The two entries of a game in the table agree: a registered environment is
\* an allocated block, each of its two sockets is registered for it and for
\* nothing else, and both are open (gcol_add and gcol_remove against Build).
TableConsistent ==
    \A f \in Fds : Registered(f) =>
        LET e == table[f] IN
        /\ Allocated(e)
        /\ f \in Sockets(e)
        /\ env[e][1] # env[e][2]
        /\ \A g \in Fds : table[g] = e <=> g \in Sockets(e)
        /\ \A g \in Sockets(e) : Open(g)

\* Two descriptors never stand for one connection, and a descriptor is either
\* waiting in the lobby, or in the plexer's hand, or in one registered game.
DescriptorsOwnedOnce ==
    /\ \A f, g \in Fds : Open(f) /\ conn[f] = conn[g] => f = g
    /\ \A f \in lobby : Open(f) /\ ~Registered(f)
    /\ plexer = "add" /\ Allocated(hand) =>
           /\ env[hand][1] # env[hand][2]
           /\ \A f \in Sockets(hand) : Open(f) /\ f \notin lobby /\ ~Registered(f)

\* Blocks are neither leaked nor freed twice: what is allocated is registered
\* or is the one the plexer is about to register.
EnvsAccounted ==
    \A e \in Envs : Allocated(e) <=>
        \/ \E f \in Fds : table[f] = e
        \/ plexer = "add" /\ hand = e /\ Allocated(e)

\* The set init_fd_set built and the registrations that follow it: while the
\* main thread sleeps in select, a game it does not watch is a game whose
\* byte is in the pipe or about to be written.
NoLostWakeup ==
    main = "select" =>
        \A f \in Fds : Registered(f) /\ f \notin watch =>
            signal > 0 \/ plexer = "signal"

\* select is never given a descriptor that was closed: only the main thread
\* removes games, and it rebuilds the set before each select.
WatchedAreRegistered == main = "select" => \A f \in watch : Registered(f) /\ Open(f)

\* A client that was told the game is over (end, or opponent disconnected) is
\* in no game that goes on: its descriptor is closed, but for the one the
\* failed start of its game leaves behind.
FarewellCloses ==
    \A f \in Fds : Open(f) /\ told[conn[f]] \in {"end", "opp", "quit"} =>
        ~Registered(f) /\ f \notin lobby /\ plexer = "add" /\ ~Allocated(hand)

\* The server never closes on a client that is still there without telling it
\* how the game ended, unless the client asked to quit.
NoSilentClose ==
    [][\A f \in Fds : Open(f) /\ conn'[f] # conn[f] /\ peer[conn[f]] = "up" =>
           told'[conn[f]] \in {"end", "opp", "quit"}]_vars

\* What a client is told is a story that makes sense: a game that starts
\* once, ends at most once, and has no second ending.
StoryInOrder ==
    [][\A c \in Conns : told'[c] # told[c] =>
           \/ told[c] = "none" /\ told'[c] \in {"start", "opp", "quit"}
           \/ told[c] = "start" /\ told'[c] \in {"end", "opp", "quit"}]_vars

\* "serial TCP connection handling using select(3)" (README.md:19): the main
\* thread reads only where select said there is something to read, so that
\* one client never holds the others.
ServeNeverBlocks ==
    \A f \in ready : IsNext(f) /\ Registered(f) => Readable(f)

\* What the code does keep of it: a bit that select left set stays true, over
\* whatever clients, plexer and the pass itself do in the meantime, until its
\* descriptor is closed.  A read that blocks the main thread is one from a
\* descriptor that this same pass closed and that was given to another client.
BlocksOnlyOnReuse == \A f \in ready : Open(f) /\ picked[f] = conn[f] => Readable(f)

\* A player in a game that has sent a request, or has left, is served in the
\* end: the request is taken or the game is removed (which is when the
\* opponent of one that left is told), or the process has ended; as long as
\* the main thread is not held by a read that select did not announce.
PlayersServed ==
    []ServeNeverBlocks =>
        \A f \in Fds : Registered(f) /\ Readable(f) ~> ~(Registered(f) /\ Readable(f)) \/ ~Up

\* What gcol_create registers is a block it has not freed: the free at
\* game_collection.c:79 is the last the function has to do with it.
RegistersAllocated == Up /\ plexer = "add" => Allocated(hand)

=============================================================================
