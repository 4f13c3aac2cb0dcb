# VoiceGames: a TLA+ model of the game server and its client

VoiceGames is a C server that pairs Android clients for tic-tac-toe (TTT) or
rock, paper, scissors (RPS) over TCP, and relays their voices over UDP.  This
directory holds a model of the server and of the client's game activities, the TLC
configurations that check it and TLAPS proofs of what should hold for any number
of clients, descriptors and games.  Paths below are relative to `src/server`
unless they say otherwise.

## The system

```
 clients --TCP--> gateway ==new_clients==> handshaker ==handshaked_clients==> plexer
                  thread                   thread                             thread
                                                                                |  registers, then
                                                            game collection <---+  writes a byte
                                                              (table, lock)     |
 clients <--TCP-- main thread (select on table + pipe) <-------- pipe ----------+
                     \-> game driver -> ttt | rps
 clients <--UDP--> voice listener thread -- game collection
```

`==` is an `extended_thread_list_t`: a list, its mutex, and a semaphore that
counts its items.

| component | state | operations | what is hard | what makes it correct |
|---|---|---|---|---|
| client gateway, `lib/client_gateway.c` | none | accept, push, post | runs ahead of the handshaker | every client accepted is in a list |
| threaded lists, `lib/threaded_list.c` | list, mutex, semaphore | push, pop, post, wait | semaphore and list change in separate steps | the semaphore counts the list |
| handshaking, `lib/handshaking.c` | its own client list, fd_set | receive, select, handshake, pass on | several clients queued at once, refusals, hang-ups, a blocking select | nobody lost, nobody duplicated, the loop ends |
| new client plexer, `lib/new_client_plexer.c` | one list per game | pop, push, build, signal | two games interleaved | first come first served, by game, in pairs |
| game collection, `lib/game_collection.c` | table fd -> environment, heap, lock | create, add, get, remove | `get` without a lock, failed start, descriptor reuse | entries, blocks and descriptors go together |
| main loop, `game_server.c`, `utils.c` | fd_set, pipe | arm, select, wake, serve | registration during select, games that end in the middle of a pass, writes to dead peers | no wakeup lost, no blocking read, nobody closed on untold |
| game driver, `lib/game_driver.c` | move, mover | play_game, evaluate_move_state | a write that fails between move and update | both players can follow, both are told the end |
| TTT, `games/ttt` | board, count, two flags | validate, evaluate, start, won, tied | turn from two flags, scan of a flat array | plays tic-tac-toe |
| RPS, `games/rps` | two choices | validate, evaluate, won, tied, lost | ending seen from the last mover | plays the game, reveals nothing early |
| gaming protocol, `gaming_prot` | the bytes in the socket, the request read so far | read_*, respond_*, update_* | short reads, bit masks, uninitialised uid, an offer list without end | answers requests in order, each by what it says |
| voice server, `lib_voice_server`, `voice_chat_prot` | addresses in the environments | recv, store address, relay | pointer read before the lock, late datagrams, reused descriptors | relays between the players of one game |
| Android game client, `src/VoiceGame` | GAME_STATE, the start of a game, the page's turn, board and status | connect, move, read update, post to the page | a thread per read, one socket, fixed-size reads of a stream | shows the server's game and its ending |
| Android voice client, `AudioChat.java` | streaming or not | start, stop, send, receive | goes on after the game | streams while a game is played |
| voice echo test server, start-up, Android shell | | | | not modelled, see the end |

`PROJECT.json` lists them with their status and, under `hazards`, the lines
where each is exposed.

## The modules

| module | what it is | proved about in |
|---|---|---|
| `GameCollection` | `game_collection.c` as operators on the table, the heap and the kernel's descriptors | `GameServerProofs` |
| `GameServer` | main thread and plexer thread on one collection and one pipe, with clients that send, hang up and abort | `GameServerProofs` |
| `Matchmaking` | abstract: clients wait for a game, the first two of a queue are matched | `AdmissionProofs` |
| `Admission` | gateway, handshaker and plexer over the two queues | `AdmissionProofs` |
| `TicTacToe`, `RockPaperScissors` | abstract: the two games and what each player is told | `GameProofs` |
| `Ttt`, `Rps` | the two function tables as operators on the game state | `GameProofs` |
| `GameDriver` | one game from start to end: `play_game` over either table, plus quit and disconnect | `GameProofs` |
| `VoiceServer` | the voice listener thread on the same `GameCollection`, step by step, against games that begin and end | `VoiceServerProofs` |
| `VoiceGames` | `GameServer` and `VoiceServer` in one process: the plexer, the main thread and the listener on one collection | `VoiceGamesProofs` |
| `RequestStream` | abstract: requests are answered in order, each by what it says | `GamingProtProofs` |
| `GamingProt` | one connection as a stream of bytes, read by `gaming_prot.c` | `GamingProtProofs` |
| `GameClient` | one app: bridge thread, page, threads that read the opponent's moves | `GameClientProofs` |
| `Lists` | facts about lists: what is in a list, in a list of lists and in its concatenation, before and after each operation | itself |
| `MCGameServer`, `MCAdmission`, `MCGameDriver`, `MCVoiceServer`, `MCVoiceGames`, `MCGamingProt`, `MCGameClient` | instances for TLC | |

`GameServer` sees admission as one step (`Connect`) and a game as a choice of
outcomes (`HandleMove`, `HandleLastMove`, `HandleMoveUnanswered`).  `Admission`
is the inside of the first and `GameDriver` of the second: `Admission`'s
`BuildGame` is `GameServer`'s `Build`, and `GameDriver`'s `GoesOn`, `Ends`,
`Unanswered`, `Disconnect` and `Quit` are the outcomes that `GameServer` chooses
from.  `GameServer` assumes that a game that ends by a move tells both players;
`GameDriver` checks it (`ToldTheEnd`).  The two modules that know threads of the
server share `GameCollection`: `GameServer` has the two that change it and says
when games begin and end, `VoiceServer` has the one that only reads the table, for
which they may begin and end at any time.  `VoiceGames` puts the two together: games begin and
end for the reasons of `GameServer` while the listener runs, and what happens is shown
to be a behaviour of `VoiceServer`.  `GamingProt` is the inside of a read:
`GameServer`'s kinds of request are its answers, with whole requests in place of
bytes.  `GameClient` is the other end of the line, against any course of a game that
`GameDriver` allows in shape: who moves when, and when a game may be over.

### GameServer

State: `conn` is the kernel's descriptor table (which connection a number stands
for), `env` the heap blocks, `table` is `gcol_games`; `signal` the bytes in the
pipe; `watch` and `ready` are `client_fd_set` before and after `select`; `hand`
is `new_game_env`; `told` is the last update a client was sent.  `picked` is a
history variable: the connection that stood behind each bit when `select` returned, from
which it can be told whether the descriptor was used again since.  `Connect` gives
the lowest free descriptor, as the kernel does, so that numbers are reused.

One action is what a thread does between two points at which the other can see
the difference: `Build`/`BuildFails` (make_env and start_game), `Add` (gcol_add
under its lock), `Signal` (the write to the pipe), `Arm` (init_fd_set under the
lock), `Wake`, `SelectClients`, and one action per descriptor of a pass of
`serve_clients`: `Skip`, `HandleDisconnect`, `HandleQuit`, `HandleShort`,
`HandleInvalid`, `HandleMove`, `HandleLastMove`, `HandleMoveUnanswered`.
`gcol_remove` is one step: it holds the lock, and `gcol_get`, which does not take
it, is called by the same thread (the voice thread is not in this module).
A write to a closed or reset connection goes through, fails, or kills the process
with SIGPIPE (`PlexerKilled`, `MainKilledByOther`, `MainKilledByReader`); a move
without payload is a NULL dereference (`MainCrashes`); `gcol_add` on a freed block
is undefined behaviour, after which nothing is claimed (`AddFreed`).  These are the
ends that the main thread and the plexer make; the voice thread's exits are
`VoiceServer`'s `SocketFails`, and the handshaker's writes, which raise SIGPIPE as well,
are in `Admission`.  Why the process may end is not stated as a property: the code
promises nothing of it.

### Admission

State: the two lists with their semaphores, the handshaker's program counter,
its list, its fd_set and its list of welcomed clients, the plexer's two queues,
the games given to `game_collection.create`.  A critical section is one step;
`sem_wait` is a step of its own (`Wait`, `Rewait`, and the guard of `PlexNext`).
`forgotten` is a history variable: clients that left every list without having
been given to a game.  `read_game_choice` either yields a game or refuses.

`Receive` keeps the loop `while (new_client && waits++)` from -1: the first of two
queued clients is kept, the second popped and dropped.

### GameDriver, Ttt, Rps

`state` is `env->game_state`, and the function table is `validate_move`,
`evaluate_move`, `MoveState` and `Ending`, which choose by `game`.  A request is
any byte of `Moves` from either player at any time.  `Refused`, `GoesOn`, `Ends`
and `Unanswered` are the paths through `play_game` and `evaluate_move_state`;
`Disconnect` and `Quit` are those of `serve_clients`.  An update that cannot be
written has no effect, because `write_fd` never returns the PLAYER_DISCONNECTED
that `evaluate_move_state` looks for on a socket.  `known` and `ending` are what
the clients learn; `Confirmed` and `Learnt` read messages as `TTTutils.java`,
`TttActivity.java`, `RpsActivity.java` and the web views in `strings.xml` do.

### VoiceServer

State: the collection, `hand` (the block `gcol_create` is about to register),
`slot` (the two `voice_sockets` of a block), and of the listener where it is, the
datagram it holds and `ptr`, its `game_env`.  `gcol_get` and what is done under the
lock with the pointer it gave are steps of their own, in `set_client_addr`
(`Receive`, then `SetClientAddr`) and again in `send_datagram` (`LookAgain`, then
`Relay`); a removal or a new game in the same block may come in between.  A block
that is freed and not reused is undefined behaviour: harmless, an exit of the
process, or a corrupt heap (`SetFreed`, `SendFreed`).  A critical section of the listener
is one step; `make_env`, which takes no lock, can run inside it only for a block that was
freed before, and that is among the corrupt outcomes too.  `StartFails` is a start that got
to one player only, after which that client streams and has no game.  Each client has a UDP
socket of its own, so an address is a connection.  A datagram is its sender with
the descriptor it was told: the network is modelled by letting the listener
receive one from any client that ever streamed, at any time, any number of times.
`stale` is a history variable: the block was freed since the pointer was read.

### VoiceGames

The variables of `GameServer` with those of `VoiceServer` beside them (`voice` is the
latter's `server`).  A step of the games (`GamesStep`) is one of `GameServer`, and does to
microphones and ports what `respond_uid`, the start update, `make_env` and `gcol_remove`
do to them; a step of the listener (`VoicesStep`) is one of `VoiceServer` and leaves the
games alone.  When either ends the process, the other stops.  `Created` is
`VoiceServer`'s `hand`: the block in the plexer's hand, unless the start failed and it was
freed.  A start that fails at the second player has reached the first, which streams
with no game (`ReachesFirst`; `StartFails` of `VoiceServer`) until it reads that its
opponent left.

### GamingProt, RequestStream

State: the requests `sent`, what is sent of one more (`part`), how many bytes of
all that `arrived` and how many are `taken`; the thread's `stage` (handshake, waiting, in a game), whether a header or
a payload is read `next`, and the header that was read (`req`).  `Send` is what the
apps do, a whole request in one write, or the rest of one that was begun; `SendPart`
is any other client, which may stop in the middle of a request, for a while or for
good.  `Deliver` is a TCP segment of any length.  `ReadHeader`, `ReadBareRequest`, `ReadPayload`,
`ReadShortHeader`, `ReadShortPayload` and `ReadEndOfFile` are the outcomes of the
two calls of `read` in `read_header` and `read_payload`; a request that is complete
is judged by `read_game_choice` or `read_move` (`ChoiceOutcomes`, `MoveOutcomes`) with
the bit tests the code uses.  Where the code looks at what nobody set, the outcome
is any of the two: the uid of a request, and what is behind the list of games.

A short read is reported as a request and the bytes are gone, so that the rest of the
request is read as the next header (`short`).  An 8-byte move that arrives as 1
and 7 bytes is answered "insufficient", and then its last 7 bytes are a header of
which the cell is the payload's length: of 0, a move without payload, at which the
process dies; else one for whose payload the thread that serves all games waits.
`RequestStream` promises order up to the first such read, and nothing after it;
`GamingProt` is shown to keep that promise, so that short reads are all that can
break it.  Without any short read a client can still hold the thread: one that
sends a header that announces a payload, and no payload, leaves `read_msg` in
`gaming_prot.c:83` for as long as it stays connected, and every other game waits.
Nothing in the code ends that wait, and no property says that it ends.  What
`HeldForItsRest` says is that the thread waits for nothing else: for bytes on their
way, or for what this very client announced in its last header and owes.  Failing writes
of the answers are in `GameServer`.

### GameClient

State: the server's game as far as this client is told of it (`marks`, `over`,
`ending`), the socket (`inbox`, one entry per write of the server, and `request`),
and the app: `GAME_STATE`, the way to RUNNING (`start`), the bridge thread (`tap`),
the threads that read the opponent's moves (`opp`, `response`), the runnables posted to
the page (`posted`) and what the page shows (`page`).  `Press` is a tap up to the
write in `makeMove`; `ReadResponse` is `readMoveResponse` with what follows it;
`ReadOpponent` and `HandleOpponentMove` are the two halves of an opponent's thread,
before and after its look at GAME_STATE; `InitializePage`, `PageStarted`,
`UpdateBoard` and `UpdateStatus` are the scripts of the two pages.  Every read takes
what is there, up to its number of bytes: one write of the server's arrives as
a whole, alone or with those after it (`Takes`).

Four things put the page out of step with the server, and the properties name them
in place of leaving them out.  `spoilt` is a history variable that records them:

* `twice`: the player taps again before the update of the last tap has run; two
  threads then read one socket;
* `cut`: a read of five bytes gets a move (four) and the first byte of what comes
  after it (`TTTutils.java:237`);
* `late`: the thread that sets RUNNING comes after the ending was read, and
  overwrites it (`TttActivity.java:203`);
* `ghost`: "play again" leaves the thread of the last game on its socket, and it sets
  the GAME_STATE of this one.

A fifth needs no name of its own: a client that awaits the response to its move takes
the update that its opponent left for a refusal (`TTTutils.java:227`), which is
why `EndingIsShown` speaks of a leaving that finds a thread reading.

## The runs

| run | question | bounds | states |
|---|---|---|---|
| `server_reuse` | do table, heap, descriptors and fd_set agree, and until when is a bit of `select` true? | 2 descriptors, 4 connections, 2 blocks, 1 request ahead; both games, both ways to leave | 422 k |
| `server_requests` | what is a client told until it is closed on? | 2 descriptors, 2 connections, all 5 kinds of request, 1 ahead | 47 k |
| `server_live` | is every player served? | 4 descriptors, 4 connections, 2 games, moves, one that leaves | 144 k |
| `server_stale_select` | does the main thread read only where `select` said so? **violated** | 2 descriptors, 4 connections | |
| `server_failed_start` | does `gcol_create` register live blocks only? **violated** | 2 descriptors, RPS | |
| `admission` | where is each client, what do the semaphores count, who is paired with whom? | 4 clients | 344 k |
| `admission_live` | is every client taken, does every pair play? | 3 clients | |
| `admission_forgotten` | is a connected client always in some list? **violated** | 3 clients | |
| `games` | does the server play the two games, and do the clients know? | bytes 0 to 9, whole games | 145 k |
| `voice` | who can hear whom, and do opponents on the line? | 3 descriptors, 4 connections, 2 blocks | 60 k |
| `requests` | how are requests answered, and when is the server's thread held up? | 5 requests of which 2 may come first, 3 sent (`MaxSent`), 4 answers (`MaxAnswers`), segments of any length, stops after 7 or 8 bytes of a request (`Pauses`) | 654 k |
| `client` | does the page show the server's game? | 3 cells, lines of 2, 2 results, 2 threads, 2 posted when tapped | 1.2 M |

`MCVoiceGames.cfg` is an instance beside the runs, with which `ImplementsVoiceServer` was
checked before it was proved (3 descriptors, 3 connections, 2 blocks; 1.1 M states, four
minutes).

Why the bounds are enough.  Two descriptors and four connections are two games
one after the other on the same numbers, which is where stale bits, stale
entries and reused blocks can meet; four descriptors are two games at a time.
Two blocks are one registered and one in the plexer's hand.  Three clients are
two in the queue while one is held; four are two pairs, or a pair for each game.
In `games` nothing is bounded: nine squares, three choices, and the bytes next
to both ranges stand for all that are refused.  In `voice` two blocks and three
descriptors let a new game take the block or a descriptor, or both, of one whose
players go on streaming, between any two steps of the listener.  In `requests` three
requests are a choice, one in the game and one more to be torn into or read as
payload; the fourth answer is room for the end of file or for a header that was
never sent; what may come first (`Openings`) is the choice apps send and the
vaguest one that passes.  After 7 bytes (`Pauses`) a client stops behind a header, with
the payload announced and nothing of it sent; after 8 it stops in the payload of a
choice; a part of a header is a short read whatever the cause, and `Deliver` brings
those.  In `client` lines of two on three cells make games of
three moves by two players, so that each side moves first and second, and a game may
end by either's move or on a full board; two results tell the one shown from the
other; two threads (`Threads`) are one per move of this player's in such a game, and
two posted runnables (`MaxPosted`) are a first status or a board update with another
behind it.  `SYMMETRY` is used only on the
heap blocks and only in runs without liveness.

Deadlock is not checked: a server whose clients sent nothing, or that has exited,
stands still, and so do a connection that is over and an app whose player rests.

### What the violated properties show

* `ServeNeverBlocks`: `serve_clients` walks the set of one `select` while games
  end and begin.  A descriptor whose bit is still set can be closed, given to a
  new client and registered for a new game before the walk gets there; then
  `read_move` blocks on a client that sent nothing, and with it every game.
  `BlocksOnlyOnReuse`, which holds, says that there is no other way to it: a bit stays
  true, whatever else happens, until its descriptor is closed.
* `RegistersAllocated`: `gcol_create` frees the environment of a game that could
  not start and goes on to register it (`lib/game_collection.c:77-81`).
* `NobodyForgotten`: when two clients are queued before the handshaker looks, the
  second is popped and put nowhere (`lib/handshaking.c:25-31`).

### Fairness

`GameServer!FairSpec`: weak fairness of the plexer's steps that follow a built
game, and of the main thread: POSIX threads that are runnable are run.  Clients
owe nothing.  `PlayersServed` is conditional on `[]ServeNeverBlocks`, because a
main thread blocked in a read, the violation above, serves nobody.
`Admission!FairSpec`: the same for handshaker and plexer.  `DecisiveSpec` adds
strong fairness of each client's choosing a game: a client that is refused may try
again for ever, and one that stays silent does hold the handshaker.  So
`EveryClientIsTaken` says what clients that do choose can rely on.
`GameDriver!FairSpec`: a player that stays and can make a valid move makes one in
the end, and the server reads the end of file of one that left.
`VoiceServer!FairSpec`: the listener runs, and of a client that goes on streaming
one datagram after the other is received: strong fairness, because the listener
is back at its socket again and again, not for ever.  Without it a network may lose
every datagram, and nobody is heard.  `GamingProt!Spec`: the network delivers what was
sent, the reading thread runs, and a client that chose gets an opponent.  Clients owe
nothing, neither the rest of a request they began (`Send` and `SendPart` have no fairness)
nor a close.  `GameClient!FairSpec`: the
threads of the app run, and the server takes requests; players do as they like.

## The proofs

`tlapm` proves, for every set of clients, descriptors, connections and blocks
that satisfies the assumptions named in the modules:

* `GameServerProofs`: `TypeOK`, `TableConsistent`, `DescriptorsOwnedOnce`,
  `EnvsAccounted`, `NoLostWakeup`, `WatchedAreRegistered` are invariants, and
  `NoSilentClose` holds of every step.  They are proved together, as `IInv`, which
  adds what none of them says alone: which block the plexer has in hand and when,
  that connections behind open descriptors are connected, and that what is in
  the lobby is not in a game.  Each action has a step of its own, under it
  one for each conjunct it can disturb; a lemma per operation (`gcol_remove`,
  `gcol_add`, `make_env`) says what becomes of the table once and for all.
  The second half proves `FarewellCloses` and `StoryInOrder`.  To
  `IInv` it adds what clients were told by where they are: nothing in the lobby, the start
  or nothing in a game, and the start if they are still there (`StartInGame`); and
  that an open descriptor is in the lobby, in a game or left behind by a failed start
  (`OpenIsOwned`).  That two descriptors are never one connection is what keeps
  an update from reaching a client of another game.
  The last part proves `BlocksOnlyOnReuse`, with one more fact: what `select` found behind
  a bit was a connection that had been made (`PickedWereConnected`), so that no
  connection made later can be taken for it.  Nothing but serving a descriptor, or
  removing its game, takes a request or an end of file away from it (`ServePass`), and
  both belong to one descriptor because no two are one connection.  With
  the violated `ServeNeverBlocks` it says exactly when the main thread can block:
  on a descriptor closed in this pass and given to somebody else, and on no other.
* `AdmissionProofs`: `TypeOK`, `SemaphoresCount`, `HeldIsSelected`,
  `NobodyWaitsForSecond`.  They need each other: that the handshaker
  never pops an empty list is what the semaphore count says, that it holds one
  client is what makes the fd_set cover its list, and the added `WaitsOwed`
  (`waits` is 0 or 1 between the two halves of `receive_new_clients`) closes the
  count.  `OnePlace` and the refinement `ImplementsMatchmaking` come from one more
  invariant, `EachInOne`: the eight lists a client can be in are a family of lists
  that is `Apart` (no list has a client twice, no two share one), and their clients
  are those connected and not forgotten.  Every step moves clients within the family:
  a pop and a push are an `Image` of the lists that stays apart.  A queue
  of `Matchmaking` is then the concatenation of the lists on its way, filtered by
  game, and each step of the handshaker or the plexer leaves it, extends it by one
  at the end, or takes the first two.
* `GamingProtProofs`: `TypeOK`, `HeldForItsRest` and the refinement
  `ImplementsRequestStream`, for requests of any length and segments of any length.
  Assumed (`RequestsAssumption`) is what the type of a byte says: type, context and
  payload are bytes, and a payload's length fits the byte that announces it.  The
  inductive invariant `InSync` says where the reader is while no read was
  short: at the first byte of the request it will answer next, or seven bytes behind
  it with that request's header in `req`; that request may be one the client is
  in the middle of.  What is sent of it is a strict prefix (`TypeOK`), so that a header
  read from it announces a payload that is missing, and a request that is answered
  was sent whole: this is why the two cases of `HeldForItsRest` are all.  `HeldInPlay` adds where it may block.  The bit
  tests of `read_game_choice` and `read_move` are `Bits` of a byte, and one lemma says
  which tests a byte passes.
* `Lists`: what `AdmissionProofs`, `GamingProtProofs` and `GameClientProofs` need of sequences.  The library's induction
  theorems take an operator as a parameter, which the provers cannot instantiate; here
  induction is over sets, from the library's theorem that a nonempty set of naturals
  has a least element (`WFMin`), and with it the concatenation of a list of lists
  (`FlattenSeq`) can be reasoned about: what it has of each list, what appending to one
  list does to it, and that it has nobody twice when the family is apart.
* `GameProofs`: that `GameDriver` implements `TicTacToe` and `RockPaperScissors`,
  for every set of bytes clients send, and `TypeOK`, `BoardCounted`, `ToldTheEnd`.
  Two facts about pure code carry the refinements: `ScanFindsLines` (on any
  board the four scans of `user_won` find exactly the eight lines) and
  `EndingIsBeats` (`eval_game_end` is the relation `Beats`).  The
  invariant `Inv` adds what an open game has: no line, a free square, X ahead by
  one exactly when it is not X's turn (`TttOpen`), and in rock, paper, scissors a
  choice still to be made and nothing shown (`RpsOpen`).  `MarksCounted` ties
  `cells_taken` to the board, so that a tie is a full board (`MoveJudged`).
  The second half proves `PlayersKnow` and `TurnAgreed`.  With `Inv`, `PlayersKnow` is
  inductive by itself: a valid mark is on a free square, so that the opponent
  does not know it yet and learns it, and the mover's client ignores it when it
  comes again with the ending.  `TurnAgreed` follows in each state: the moves a player
  knows of are the marks on the board, whose difference tells the turn (`TttOpen`).
* `GameClientProofs`: `TypeOK` and `PageInStep`, for any cells, results and threads,
  and without the bound on what is posted playing any part.  The inductive
  invariant is `IInv`: the types, and, until one of the three exceptions
  happens, `Sound`.  Sound says that the app is in one of nine phases (`Connecting`,
  `Created`, `Opening`, `OnTurn`, `Tapped`, `Waiting`, `Judging`, `Judged`, `Done`),
  and in each how the server's marks follow from the marks the player sees and the
  writes that nobody read: nothing is unread when it is this player's turn
  (`HoldsTurn`) except that the opponent left; when it moved (`Awaits`) there is
  nothing, one move with at most a leaving behind it, or an ending; and when a thread has
  read that, its response is a free cell or the game is over (`Heard`).  Why it is needed: the
  property is about what the page shows, and a step of the page shows what a
  thread read some steps ago, from a write made before that.  `Queue` adds
  the order of what is posted: at most one board of each player, this player's first,
  which is why the winner's own last move, sent to it with the ending, is not
  shown as the opponent's.  `Told` adds that a status or a GAME_STATE that names an
  ending is that of the game.  One lemma per action shows which phase it leads to;
  `ArrivedGrows`, `ReadsOne` and `ReadsFirst` say what a read of a fixed size takes of
  writes of three to five bytes, from `FlattenSeq` by the induction of `Lists`.  It also
  shows that the errors the code handles do not happen to a reader in step:
  `ReaderIsAwaited` says that no thread reads at the end of the file.
* `VoiceServerProofs`: `TypeOK`, `FirstSlotIsFirstPlayers` and `StaleIsSilent`
  are invariants; `StrayOnlyByRace` and `VoicesStayInGame` hold of every step.  The
  inductive invariant adds that the pointer of the listener is what the table has for
  its datagram unless it is `stale` (`ListenerHolds`), that free blocks have no
  address in them (`SlotsClean`), that a client that was told a descriptor keeps it
  for its uid (`UidsKnown`), and the part of `GameServer`'s ownership that voices
  depend on (`GamesSound`).  The argument: a stale pointer can be written through
  only into the second slot, because the first is for who has the descriptor; and
  when it is read through again, the ports were cleared, and the one thread
  that fills them is the one that reads.

* `VoiceGamesProofs`: `SpecBoth => ImplementsVoiceServer`, for any descriptors,
  connections, blocks and failures.  Together with `VoiceServerProofs` it says that who
  can hear whom in the server's own games is what the five properties of `VoiceServer`
  say: its games, which begin and end freely, include those of the plexer and
  the main thread, with clients that leave, failed starts and reused descriptors.  The
  invariant `BothInv` is `GameServer`'s `IInv`, and that a client has a uid exactly when it
  has connected (`Numbered`) and is silent until its game starts (`Quiet`), which
  are the guards of `VoiceServer`'s `Connect` and `StartGame`.  One lemma per step that is
  visible to the listener (`ConnectMaps`, `BuildMaps`, `FailMaps`, `AddMaps`, `RemovalMaps`)
  shows which step of `VoiceServer` it is; all others change nothing that it has
  (`NothingMaps`).  That `gcol_remove` frees a block that is not in the plexer's hand is
  `DescriptorsOwnedOnce`.  The provers cannot cite a temporal theorem of an instance, so
  that the last inference, from this and `VoiceServerProofs` to the five properties, is
  made here and not in a module.

What stays with TLC: liveness (`PlayersServed`, `EveryClientIsTaken`, `ServerKeepsUp`,
`EndingIsShown` and the others that a run states as a leads-to), which needs fairness
and ENABLED.

## Not modelled

* The wording of messages, logging, printing of boards; the doubly linked list and
  the thin socket wrappers of the external library; allocation failure (`exit`),
  failure of `accept`, more than MAX_CONN descriptors.
* Start-up and sockets (`get_port_from_arg`, `get_tcp_socket`): run once before the
  threads, pure I/O.  The voice echo test server: one loop without state.
* The Android shell (a menu), audio recording and playing, the datagram's order
  number, which is 0 always and ignored by the server.
* The memory of the datagrams that the voice server drops and does not free
  (`voice_server.c:99`): there is no bound in the code to check against.
* "Play again" in full: of the game before, `GameClient` has the thread it leaves
  behind.  Two apps in one model: `GameClient` has one, and the opponent is free.
* A server's write that arrives in parts at the client: `GameClient` has writes that
  arrive together, which is what its fixed-size reads meet between two updates.

## Plan

All components that carry the program's logic are modelled, each with its instance,
runs and proofs; all abstract specifications are proved to be implemented; and the
games of `GameServer` are proved to be games of `VoiceServer`.  What is left:

1. Two apps on one server: `GameClient` twice with `GameDriver` between them.
2. What `Admission`'s `BuildGame` and `GameServer`'s `Connect` and `Build` promise each
   other as one refinement, as `VoiceGames` does for voices.
