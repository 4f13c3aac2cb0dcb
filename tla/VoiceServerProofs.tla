-------------------------- MODULE VoiceServerProofs --------------------------
(***************************************************************************)
(* Proofs about VoiceServer for every number of descriptors, connections    *)
(* and blocks.                                                              *)
(***************************************************************************)
EXTENDS VoiceServer, TLAPS

\* The table, the blocks and the descriptors, as far as the voices need them.
GamesSound ==
    /\ \A f \in Fds : Registered(f) =>
           /\ Allocated(table[f])
           /\ f \in Sockets(table[f])
           /\ \A g \in Fds : table[g] = table[f] <=> g \in Sockets(table[f])
    /\ \A e \in Envs : Allocated(e) => env[e][1] # env[e][2]
    /\ \A f \in Fds : Registered(f) \/ (hand # NULL /\ f \in Sockets(hand)) =>
           Open(f) /\ mic[conn[f]] # "off"
    /\ hand # NULL => Allocated(hand) /\ \A f \in Sockets(hand) : ~Registered(f)

\* A client that was told a descriptor keeps it for its uid.
UidsKnown ==
    /\ \A f \in Fds : Open(f) => uid[conn[f]] = f
    /\ \A c \in Conns : mic[c] # "off" => uid[c] # NULL

\* A block that is free has no address in it, and addresses are of clients
\* that stream or did.
SlotsClean ==
    \A e \in Envs :
        /\ ~Allocated(e) => slot[e] = NoPorts
        /\ \A i \in {1, 2} : slot[e][i] # NO_PORT => mic[slot[e][i]] # "off"

\* What the listener holds: while its pointer is not stale, it is what the
\* table has for the datagram.
ListenerHolds ==
    /\ listener # "recv" => datagram \in Conns /\ mic[datagram] # "off"
    /\ listener \in {"recv", "again"} => ptr = NULL /\ ~stale
    /\ ptr # NULL /\ ~stale => gcol_get(uid[datagram]) = ptr

IInv ==
    /\ TypeOK
    /\ GamesSound
    /\ UidsKnown
    /\ SlotsClean
    /\ ListenerHolds
    /\ FirstSlotIsFirstPlayers
    /\ StaleIsSilent

-----------------------------------------------------------------------------
\* The types of a pair of sockets and a pair of slots.
LEMMA PairTypes ==
    ASSUME TypeOK, NEW e \in Envs
    PROVE  /\ slot[e][1] \in Conns \cup {NO_PORT} /\ slot[e][2] \in Conns \cup {NO_PORT}
           /\ slot[e] = <<slot[e][1], slot[e][2]>>
           /\ Allocated(e) => env[e][1] \in Fds /\ env[e][2] \in Fds
  BY DEF TypeOK, CollectionTypeOK, Allocated

\* gcol_remove takes away the two entries of the game, whoever calls it.
LEMMA RemoveEffect ==
    ASSUME IInv, NEW f \in Fds, Registered(f), gcol_remove(f)
    PROVE  /\ table[f] \in Envs
           /\ Sockets(table[f]) \subseteq Fds
           /\ table' = [g \in Fds |-> IF g \in Sockets(table[f]) THEN NULL ELSE table[g]]
           /\ conn' = [g \in Fds |-> IF g \in Sockets(table[f]) THEN NULL ELSE conn[g]]
           /\ env' = [env EXCEPT ![table[f]] = NULL]
  <1> DEFINE e == table[f]
  <1>1. e \in Envs /\ Allocated(e) /\ f \in Sockets(e)
    BY DEF IInv, TypeOK, CollectionTypeOK, GamesSound, Registered
  <1>2. env[e][1] \in Fds /\ env[e][2] \in Fds
    BY <1>1, PairTypes DEF IInv
  <1>3. Sockets(e) = {f, get_other_uid(e, f)}
    BY <1>1 DEF Sockets, get_other_uid
  <1> QED
    BY <1>1, <1>2, <1>3 DEF gcol_remove, Sockets

\* The addresses after set_client_addr has stored one.
LEMMA StoreEffect ==
    ASSUME IInv, SetClientAddr
    PROVE  /\ ptr \in Envs /\ datagram \in Conns
           /\ slot' \in [Envs -> (Conns \cup {NO_PORT}) \X (Conns \cup {NO_PORT})]
           /\ \A e \in Envs : e # ptr => slot'[e] = slot[e]
           /\ \A i \in {1, 2} : slot'[ptr][i] # slot[ptr][i] =>
                  slot'[ptr][i] = datagram /\ i = PlayerIndex(ptr, uid[datagram])
  <1>1. ptr \in Envs /\ datagram \in Conns
    BY DEF IInv, TypeOK, SetClientAddr, ListenerHolds
  <1>2. slot[ptr][1] \in Conns \cup {NO_PORT} /\ slot[ptr][2] \in Conns \cup {NO_PORT}
    BY <1>1, PairTypes DEF IInv
  <1>3. slot \in [Envs -> (Conns \cup {NO_PORT}) \X (Conns \cup {NO_PORT})]
    BY DEF IInv, TypeOK
  <1>4. CASE slot' = slot
    BY <1>1, <1>3, <1>4
  <1>5. CASE slot' = WithAddress(ptr, datagram)
    <2>1. CASE PlayerIndex(ptr, uid[datagram]) = 1
      <3>1. slot' = [slot EXCEPT ![ptr] = <<datagram, slot[ptr][2]>>]
        BY <1>5, <2>1 DEF WithAddress
      <3> QED
        BY <1>1, <1>2, <1>3, <2>1, <3>1
    <2>2. CASE PlayerIndex(ptr, uid[datagram]) = 2
      <3>1. slot' = [slot EXCEPT ![ptr] = <<slot[ptr][1], datagram>>]
        BY <1>5, <2>2 DEF WithAddress
      <3> QED
        BY <1>1, <1>2, <1>3, <2>2, <3>1
    <2> QED
      BY <2>1, <2>2 DEF PlayerIndex
  <1> QED
    BY <1>4, <1>5 DEF SetClientAddr

-----------------------------------------------------------------------------
\* The steps, for the proofs that go through them one by one.
LEMMA StepCases ==
    ASSUME [Next]_vars
    PROVE  \/ \E c \in Conns, f \in Fds : Connect(c, f)
           \/ \E e \in Envs, p1, p2 \in Fds : StartGame(e, p1, p2)
           \/ Add
           \/ \E f \in Fds : EndGame(f)
           \/ \E c \in Conns : StopStreaming(c)
           \/ \E f \in Fds : StartFails(f)
           \/ \E c \in Conns : Receive(c) \/ ReceiveShort(c)
           \/ SetClientAddr
           \/ LookAgain
           \/ Drop /\ listener # "recv"
           \/ SetFreed
           \/ SendFreed
           \/ SocketFails
           \/ UNCHANGED vars
  BY DEF Next, GameStep, Process, SetNoGame, SendNoGame, SendNoRecipient, Relay

\* A start that fails turns on the microphone of a client that was told a
\* descriptor, and nothing else.
LEMMA FailEffect ==
    ASSUME IInv, NEW f \in Fds, StartFails(f)
    PROVE  /\ UNCHANGED <<conn, env, table, uid, hand, slot, listener, datagram, ptr, stale, server>>
           /\ mic' \in [Conns -> {"off", "streaming", "stopped"}]
           /\ \A c \in Conns : mic[c] # "off" => mic'[c] # "off"
           /\ \A c \in Conns : mic'[c] # "off" => mic[c] # "off" \/ uid[c] # NULL
  <1>1. conn[f] \in Conns /\ uid[conn[f]] # NULL
    BY UidAssumption DEF StartFails, Waits, Open, IInv, TypeOK, CollectionTypeOK, UidsKnown
  <1> QED
    BY <1>1 DEF StartFails, IInv, TypeOK, gameVars, collectionVars, listenerVars

LEMMA InitIInv == Init => IInv
  <1> SUFFICES ASSUME Init PROVE IInv
    OBVIOUS
  <1> USE DEF Init, gcol_init
  <1>1. TypeOK
    BY DEF TypeOK, CollectionTypeOK, NoPorts, NO_PORT
  <1>2. GamesSound
    BY DEF GamesSound, Registered, Allocated
  <1>3. UidsKnown /\ ListenerHolds /\ StaleIsSilent
    BY DEF UidsKnown, Open, ListenerHolds, StaleIsSilent
  <1>4. SlotsClean /\ FirstSlotIsFirstPlayers
    BY DEF SlotsClean, FirstSlotIsFirstPlayers, Allocated, NoPorts, NO_PORT
  <1> QED
    BY <1>1, <1>2, <1>3, <1>4 DEF IInv

\* Every step keeps the variables in their types.
LEMMA TypeStep == ASSUME IInv, [Next]_vars PROVE TypeOK'
<1> USE DEF TypeOK, CollectionTypeOK, gameVars, collectionVars, listenerVars
<1>0. TypeOK
  BY DEF IInv
<1>1. ASSUME NEW c \in Conns, NEW f \in Fds, Connect(c, f) PROVE TypeOK'
  BY <1>0, <1>1 DEF Connect
<1>2. ASSUME NEW e \in Envs, NEW p1 \in Fds, NEW p2 \in Fds, StartGame(e, p1, p2) PROVE TypeOK'
  BY <1>0, <1>2 DEF StartGame, make_env, NoPorts, NO_PORT
<1>3. CASE Add
  BY <1>0, <1>3 DEF Add, gcol_add
<1>4. ASSUME NEW f \in Fds, EndGame(f) PROVE TypeOK'
  <2>1. table[f] \in Envs
    BY <1>0, <1>4 DEF EndGame, Registered
  <2> QED
    BY <1>0, <1>4, <2>1, RemoveEffect DEF EndGame, NoPorts, NO_PORT
<1>5. ASSUME NEW c \in Conns, StopStreaming(c) PROVE TypeOK'
  BY <1>0, <1>5 DEF StopStreaming
<1>6. ASSUME NEW c \in Conns, Receive(c) \/ ReceiveShort(c) PROVE TypeOK'
  <2>1. gcol_get(uid[c]) \in Envs \cup {NULL}
    BY <1>0, <1>6 DEF Receive, ReceiveShort, gcol_get, IInv, UidsKnown
  <2> QED
    BY <1>0, <1>6, <2>1 DEF Receive, ReceiveShort
<1>7. CASE SetClientAddr
  BY <1>0, <1>7, StoreEffect DEF SetClientAddr
<1>8. CASE LookAgain
  <2>1. gcol_get(uid[datagram]) \in Envs \cup {NULL}
    BY <1>0, <1>8 DEF LookAgain, gcol_get, IInv, UidsKnown, ListenerHolds
  <2> QED
    BY <1>0, <1>8, <2>1 DEF LookAgain
<1>9. CASE Drop
  BY <1>0, <1>9 DEF Drop
<1>10. CASE SetFreed \/ SendFreed
  BY <1>0, <1>10 DEF SetFreed, SendFreed
<1>11. CASE SocketFails \/ UNCHANGED vars
  BY <1>0, <1>11 DEF SocketFails, vars
<1>12. ASSUME NEW f \in Fds, StartFails(f) PROVE TypeOK'
  BY <1>0, <1>12, FailEffect
<1> QED
  BY <1>1, <1>2, <1>3, <1>4, <1>5, <1>6, <1>7, <1>8, <1>9, <1>10, <1>11, <1>12, StepCases

-----------------------------------------------------------------------------
\* The listener changes nothing of the games.
LEMMA GamesFrame ==
    ASSUME GamesSound, UidsKnown, UNCHANGED <<gameVars, mic>>
    PROVE  GamesSound' /\ UidsKnown'
  BY DEF GamesSound, UidsKnown, Registered, Allocated, Open, Sockets, gameVars, collectionVars

LEMMA ConnectGames ==
    ASSUME IInv, NEW c \in Conns, NEW f \in Fds, Connect(c, f)
    PROVE  GamesSound' /\ UidsKnown'
  <1> USE DEF IInv, Connect, Registered, Allocated, Open, Sockets
  <1>1. c # NULL /\ conn[f] = NULL /\ conn' = [conn EXCEPT ![f] = c]
    BY NullAssumption
  <1>2. GamesSound'
    <2>1. \A g \in Fds : conn[g] # NULL => conn'[g] = conn[g]
      BY <1>1 DEF TypeOK, CollectionTypeOK
    <2> QED
      BY <1>1, <2>1 DEF GamesSound
  <1>3. UidsKnown'
    <2>1. \A g \in Fds : conn[g] # c
      <3> SUFFICES ASSUME NEW g \in Fds, conn[g] = c PROVE FALSE
        OBVIOUS
      <3>1. uid[c] = g
        BY <1>1 DEF UidsKnown
      <3> QED
        BY <3>1, UidAssumption
    <2>2. \A d \in Conns : uid'[d] = IF d = c THEN f ELSE uid[d]
      BY DEF TypeOK
    <2>3. \A g \in Fds : conn'[g] = IF g = f THEN c ELSE conn[g]
      BY DEF TypeOK, CollectionTypeOK
    <2>4. \A g \in Fds : conn[g] # NULL => conn[g] \in Conns
      BY DEF TypeOK, CollectionTypeOK
    <2> QED
      BY <1>1, <2>1, <2>2, <2>3, <2>4 DEF UidsKnown
  <1> QED
    BY <1>2, <1>3

LEMMA StartGameGames ==
    ASSUME IInv, NEW e \in Envs, NEW p1 \in Fds, NEW p2 \in Fds, StartGame(e, p1, p2)
    PROVE  GamesSound' /\ UidsKnown'
  <1> USE DEF IInv, StartGame, make_env, Waits, Registered, Allocated, Open, Sockets
  <1>1. e # NULL /\ <<p1, p2>> # NULL
    BY NullAssumption
  <1>2. env'[e] = <<p1, p2>> /\ \A d \in Envs : d # e => env'[d] = env[d]
    BY DEF TypeOK, CollectionTypeOK
  <1>3. \A c \in Conns : mic[c] # "off" => mic'[c] # "off"
    BY DEF TypeOK
  <1>4. mic'[conn[p1]] # "off" /\ mic'[conn[p2]] # "off"
    BY DEF TypeOK, CollectionTypeOK
  <1>5. table[p1] = NULL /\ table[p2] = NULL
    BY DEF GamesSound
  <1>6. \A f \in Fds : table[f] # NULL => table[f] \in Envs /\ table[f] # e
    BY DEF GamesSound, TypeOK, CollectionTypeOK
  <1>7. GamesSound'
    <2>1. \A f \in Fds : table[f] # NULL => conn[f] \in Conns
      BY DEF GamesSound, TypeOK, CollectionTypeOK
    <2>2. \A f \in Fds : Registered(f)' => Registered(f) /\ table'[f] = table[f] /\ env'[table[f]] = env[table[f]]
      BY <1>2, <1>6
    <2>3. \A f \in Fds : Registered(f)' =>
              /\ Allocated(table[f])'
              /\ (f \in Sockets(table[f]))'
              /\ \A g \in Fds : (table[g] = table[f] <=> g \in Sockets(table[f]))'
      BY <2>2 DEF GamesSound
    <2>4. \A d \in Envs : Allocated(d)' => env'[d][1] # env'[d][2]
      BY <1>2 DEF GamesSound
    <2>5. \A f \in Fds : Registered(f)' => Open(f)' /\ mic'[conn'[f]] # "off"
      BY <1>3, <2>1, <2>2 DEF GamesSound
    <2>6. /\ hand' = e /\ Allocated(e)'
          /\ \A f \in Sockets(e)' : f \in {p1, p2}
      BY <1>1, <1>2
    <2> QED
      BY <1>4, <1>5, <2>3, <2>4, <2>5, <2>6 DEF GamesSound
  <1>8. UidsKnown'
    <2>1. uid[conn[p1]] # NULL /\ uid[conn[p2]] # NULL
      BY UidAssumption DEF UidsKnown
    <2> QED
      BY <2>1 DEF UidsKnown, TypeOK
  <1> QED
    BY <1>7, <1>8

LEMMA AddGames ==
    ASSUME IInv, Add
    PROVE  GamesSound' /\ UidsKnown'
  <1> USE DEF IInv, Add, gcol_add, Registered, Allocated, Open, Sockets
  <1>1. hand \in Envs /\ env[hand] # NULL /\ hand # NULL
    BY DEF TypeOK, GamesSound
  <1>2. \A f \in Fds : table[f] # hand
    BY <1>1 DEF GamesSound
  <1>3. \A f \in Fds : table'[f] = IF f \in {env[hand][1], env[hand][2]} THEN hand ELSE table[f]
    OBVIOUS
  <1>4. GamesSound'
    <2>1. \A f \in Sockets(hand) : f \in Fds /\ ~Registered(f) /\ table'[f] = hand
      BY <1>1, <1>3, PairTypes DEF GamesSound
    <2>2. \A f \in Fds : f \notin Sockets(hand) => table'[f] = table[f]
      BY <1>3
    <2>3. \A f \in Fds : Registered(f)' => f \in Sockets(hand) \/ Registered(f)
      BY <2>2
    <2>4. ASSUME NEW f \in Fds, Registered(f)'
          PROVE  /\ Allocated(table[f])'
                 /\ (f \in Sockets(table[f]))'
                 /\ \A g \in Fds : (table[g] = table[f] <=> g \in Sockets(table[f]))'
      <3>1. CASE f \in Sockets(hand)
        BY <1>1, <1>2, <2>1, <2>2, <3>1
      <3>2. CASE f \notin Sockets(hand)
        <4>1. Registered(f) /\ table'[f] = table[f] /\ table[f] # hand
          BY <1>2, <2>2, <2>3, <2>4, <3>2
        <4>2. \A g \in Fds : table'[g] = table[f] <=> table[g] = table[f]
          BY <2>1, <2>2, <4>1
        <4> QED
          BY <4>1, <4>2 DEF GamesSound
      <3> QED
        BY <3>1, <3>2
    <2>5. \A f \in Fds : Registered(f)' => Open(f)' /\ mic'[conn'[f]] # "off"
      BY <1>1, <2>3 DEF GamesSound
    <2>6. \A e \in Envs : Allocated(e)' => env'[e][1] # env'[e][2]
      BY DEF GamesSound
    <2> QED
      BY <2>4, <2>5, <2>6 DEF GamesSound
  <1>5. UidsKnown'
    BY DEF UidsKnown
  <1> QED
    BY <1>4, <1>5

LEMMA EndGameGames ==
    ASSUME IInv, NEW f \in Fds, EndGame(f)
    PROVE  GamesSound' /\ UidsKnown'
  <1> USE DEF IInv, EndGame, Registered, Allocated, Open, Sockets
  <1> DEFINE e == table[f]
  <1>1. /\ e \in Envs
        /\ table' = [g \in Fds |-> IF g \in Sockets(e) THEN NULL ELSE table[g]]
        /\ conn' = [g \in Fds |-> IF g \in Sockets(e) THEN NULL ELSE conn[g]]
        /\ env' = [env EXCEPT ![e] = NULL]
    BY RemoveEffect
  <1>2. \A g \in Fds : table[g] = e <=> g \in Sockets(e)
    BY DEF GamesSound
  <1>3. hand # e
    BY <1>2 DEF GamesSound
  <1>4. \A d \in Envs : d # e => env'[d] = env[d]
    BY <1>1 DEF TypeOK, CollectionTypeOK
  <1>5. env'[e] = NULL
    BY <1>1 DEF TypeOK, CollectionTypeOK
  <1>6. hand # NULL => \A g \in Sockets(hand) : g \notin Sockets(e)
    <2> SUFFICES ASSUME hand # NULL, NEW g \in Sockets(hand), g \in Sockets(e) PROVE FALSE
      OBVIOUS
    <2>1. hand \in Envs /\ Allocated(hand)
      BY DEF TypeOK, GamesSound
    <2>2. g \in Fds
      BY <2>1, PairTypes
    <2> QED
      BY <1>2, <2>2 DEF GamesSound
  <1>7. GamesSound'
    <2>1. \A g \in Fds : Registered(g)' => Registered(g) /\ table'[g] = table[g] /\ table[g] # e
      BY <1>1, <1>2
    <2>2. \A g \in Fds : Registered(g) => table[g] \in Envs
      BY DEF TypeOK, CollectionTypeOK
    <2>3. \A g \in Fds : Registered(g)' =>
              /\ Allocated(table[g])'
              /\ (g \in Sockets(table[g]))'
              /\ \A h \in Fds : (table[h] = table[g] <=> h \in Sockets(table[g]))'
      <3> SUFFICES ASSUME NEW g \in Fds, Registered(g)'
                   PROVE  /\ Allocated(table[g])'
                          /\ (g \in Sockets(table[g]))'
                          /\ \A h \in Fds : (table[h] = table[g] <=> h \in Sockets(table[g]))'
        OBVIOUS
      <3>1. table[g] \in Envs /\ table'[g] = table[g] /\ table[g] # e /\ env'[table[g]] = env[table[g]]
        BY <1>4, <2>1, <2>2
      <3>2. Allocated(table[g]) /\ g \in Sockets(table[g])
        BY <2>1 DEF GamesSound
      <3>3. \A h \in Fds : table[h] = table[g] <=> h \in Sockets(table[g])
        BY <2>1 DEF GamesSound
      <3>4. \A h \in Fds : table'[h] = table[g] <=> table[h] = table[g]
        BY <1>1, <1>2, <3>1, NullAssumption
      <3> QED
        BY <3>1, <3>2, <3>3, <3>4
    <2>4. \A d \in Envs : Allocated(d)' => env'[d][1] # env'[d][2]
      BY <1>4, <1>5 DEF GamesSound
    <2>5. \A g \in Fds : Registered(g)' \/ (hand # NULL /\ g \in Sockets(hand))' =>
              Open(g)' /\ mic'[conn'[g]] # "off"
      BY <1>1, <1>3, <1>4, <1>6, <2>1 DEF GamesSound, TypeOK
    <2>6. hand' # NULL => Allocated(hand)' /\ \A g \in Sockets(hand)' : ~Registered(g)'
      <3> SUFFICES ASSUME hand # NULL
                   PROVE  Allocated(hand)' /\ \A g \in Sockets(hand)' : ~Registered(g)'
        OBVIOUS
      <3>1. hand \in Envs /\ Allocated(hand) /\ env'[hand] = env[hand]
        BY <1>3, <1>4 DEF GamesSound, TypeOK
      <3>2. \A g \in Sockets(hand) : g \in Fds /\ ~Registered(g)
        BY <3>1, PairTypes DEF GamesSound
      <3> QED
        BY <3>1, <3>2, <1>1
    <2> QED
      BY <2>3, <2>4, <2>5, <2>6 DEF GamesSound
  <1>8. UidsKnown'
    BY <1>1 DEF UidsKnown
  <1> QED
    BY <1>7, <1>8

\* Every step keeps table, blocks, descriptors and uids together.
LEMMA GamesStep == ASSUME IInv, [Next]_vars PROVE GamesSound' /\ UidsKnown'
<1>1. ASSUME NEW c \in Conns, StopStreaming(c) PROVE GamesSound' /\ UidsKnown'
  <2>1. mic' = [mic EXCEPT ![c] = "stopped"] /\ mic[c] = "streaming" /\ UNCHANGED gameVars
    BY <1>1 DEF StopStreaming
  <2>2. \A d \in Conns : mic'[d] = "off" <=> mic[d] = "off"
    BY <2>1 DEF IInv, TypeOK
  <2>3. \A f \in Fds : conn[f] # NULL => conn[f] \in Conns
    BY DEF IInv, TypeOK, CollectionTypeOK
  <2> QED
    BY <2>1, <2>2, <2>3
    DEF IInv, GamesSound, UidsKnown, Registered, Allocated, Open, Sockets, gameVars, collectionVars
<1>2. CASE \E c \in Conns : Receive(c) \/ ReceiveShort(c)
  BY <1>2, GamesFrame DEF IInv, Receive, ReceiveShort
<1>3. CASE SetClientAddr \/ LookAgain \/ Drop \/ SetFreed \/ SendFreed \/ SocketFails
  BY <1>3, GamesFrame DEF IInv, SetClientAddr, LookAgain, Drop, SetFreed, SendFreed, SocketFails
<1>4. CASE UNCHANGED vars
  BY <1>4, GamesFrame DEF IInv, vars
<1>5. ASSUME NEW f \in Fds, StartFails(f) PROVE GamesSound' /\ UidsKnown'
  <2>1. \A g \in Fds : conn[g] # NULL => conn[g] \in Conns
    BY DEF IInv, TypeOK, CollectionTypeOK
  <2> QED
    BY <1>5, <2>1, FailEffect
    DEF IInv, GamesSound, UidsKnown, Registered, Allocated, Open, Sockets
<1> QED
  BY <1>1, <1>2, <1>3, <1>4, <1>5, StepCases, ConnectGames, StartGameGames, AddGames, EndGameGames

-----------------------------------------------------------------------------
\* The addresses: no step but the listener's fills a slot, and the blocks are
\* emptied when they are made and when they are freed.
Slots == SlotsClean /\ FirstSlotIsFirstPlayers

LEMMA SlotsFrame ==
    ASSUME Slots, UNCHANGED <<env, slot, uid>>,
           \A c \in Conns : mic[c] # "off" => mic'[c] # "off",
           TypeOK
    PROVE  Slots'
  <1>1. \A e \in Envs : slot[e][1] \in Conns \cup {NO_PORT} /\ slot[e][2] \in Conns \cup {NO_PORT}
    BY PairTypes
  <1> QED
    BY <1>1 DEF Slots, SlotsClean, FirstSlotIsFirstPlayers, Allocated, NO_PORT

LEMMA SlotsStep == ASSUME IInv, [Next]_vars PROVE Slots'
<1> USE DEF NO_PORT
<1>0. Slots /\ TypeOK
  BY DEF IInv, Slots
<1>1. ASSUME NEW c \in Conns, NEW f \in Fds, Connect(c, f) PROVE Slots'
  <2>1. uid[c] = NULL /\ uid' = [uid EXCEPT ![c] = f] /\ UNCHANGED <<env, slot, mic>>
    BY <1>1 DEF Connect
  <2>2. mic[c] = "off"
    BY <2>1 DEF IInv, UidsKnown
  <2>3. \A e \in Envs : slot[e][1] # NULL => slot[e][1] \in Conns /\ slot[e][1] # c
    BY <2>2, PairTypes DEF IInv, SlotsClean
  <2> QED
    BY <1>0, <2>1, <2>3 DEF Slots, SlotsClean, FirstSlotIsFirstPlayers, Allocated, TypeOK
<1>2. ASSUME NEW e \in Envs, NEW p1 \in Fds, NEW p2 \in Fds, StartGame(e, p1, p2) PROVE Slots'
  <2>1. /\ env' = [env EXCEPT ![e] = <<p1, p2>>]
        /\ slot' = [slot EXCEPT ![e] = NoPorts]
        /\ uid' = uid
    BY <1>2 DEF StartGame, make_env
  <2>2. \A c \in Conns : mic[c] # "off" => mic'[c] # "off"
    BY <1>2 DEF StartGame, IInv, TypeOK
  <2>3. \A d \in Envs : slot[d][1] \in Conns \cup {NO_PORT} /\ slot[d][2] \in Conns \cup {NO_PORT}
    BY <1>0, PairTypes
  <2>4. \A d \in Envs : IF d = e THEN slot'[d] = NoPorts
                         ELSE slot'[d] = slot[d] /\ env'[d] = env[d]
    BY <2>1 DEF IInv, TypeOK, CollectionTypeOK
  <2>5. SlotsClean'
    <3>1. ASSUME NEW d \in Envs
          PROVE  /\ ~Allocated(d)' => slot'[d] = NoPorts
                 /\ \A i \in {1, 2} : slot'[d][i] # NO_PORT => mic'[slot'[d][i]] # "off"
      <4>1. CASE d = e
        BY <2>4, <4>1 DEF NoPorts
      <4>2. CASE d # e
        BY <1>0, <2>2, <2>3, <2>4, <4>2 DEF Slots, SlotsClean, Allocated
      <4> QED
        BY <4>1, <4>2
    <3> QED
      BY <3>1 DEF SlotsClean
  <2>6. FirstSlotIsFirstPlayers'
    BY <1>0, <2>1, <2>4 DEF Slots, FirstSlotIsFirstPlayers, Allocated, NoPorts
  <2> QED
    BY <2>5, <2>6 DEF Slots
<1>3. CASE Add
  BY <1>0, <1>3, SlotsFrame DEF Add
<1>4. ASSUME NEW f \in Fds, EndGame(f) PROVE Slots'
  <2>1. /\ table[f] \in Envs
        /\ env' = [env EXCEPT ![table[f]] = NULL]
        /\ slot' = [slot EXCEPT ![table[f]] = NoPorts]
        /\ uid' = uid /\ mic' = mic
    BY <1>4, RemoveEffect DEF EndGame
  <2>2. \A d \in Envs : IF d = table[f] THEN slot'[d] = NoPorts
                         ELSE slot'[d] = slot[d] /\ env'[d] = env[d]
    BY <2>1 DEF IInv, TypeOK, CollectionTypeOK
  <2> QED
    BY <1>0, <2>1, <2>2 DEF Slots, SlotsClean, FirstSlotIsFirstPlayers, Allocated, NoPorts
<1>5. ASSUME NEW c \in Conns, StopStreaming(c) PROVE Slots'
  <2>1. \A d \in Conns : mic[d] # "off" => mic'[d] # "off"
    BY <1>0, <1>5 DEF StopStreaming, TypeOK
  <2> QED
    BY <1>0, <1>5, <2>1, SlotsFrame DEF StopStreaming, gameVars, collectionVars
<1>6. CASE \E c \in Conns : Receive(c) \/ ReceiveShort(c)
  BY <1>0, <1>6, SlotsFrame DEF Receive, ReceiveShort, gameVars, collectionVars
<1>7. CASE SetClientAddr
  <2>1. /\ ptr \in Envs /\ datagram \in Conns
        /\ \A e \in Envs : e # ptr => slot'[e] = slot[e]
        /\ \A i \in {1, 2} : slot'[ptr][i] # slot[ptr][i] =>
               slot'[ptr][i] = datagram /\ i = PlayerIndex(ptr, uid[datagram])
    BY <1>7, StoreEffect
  <2>2. Allocated(ptr) /\ UNCHANGED <<env, uid, mic>>
    BY <1>7 DEF SetClientAddr, gameVars, collectionVars
  <2>3. mic[datagram] # "off"
    BY <1>7 DEF SetClientAddr, IInv, ListenerHolds
  <2>4. SlotsClean'
    BY <1>0, <2>1, <2>2, <2>3 DEF Slots, SlotsClean, Allocated
  <2>5. FirstSlotIsFirstPlayers'
    BY <1>0, <2>1, <2>2 DEF Slots, FirstSlotIsFirstPlayers, Allocated, PlayerIndex
  <2> QED
    BY <2>4, <2>5 DEF Slots
<1>8. CASE LookAgain \/ Drop \/ SetFreed \/ SendFreed \/ SocketFails
  BY <1>0, <1>8, SlotsFrame
  DEF LookAgain, Drop, SetFreed, SendFreed, SocketFails, gameVars, collectionVars
<1>9. CASE UNCHANGED vars
  BY <1>0, <1>9, SlotsFrame DEF vars, gameVars, collectionVars
<1>10. ASSUME NEW f \in Fds, StartFails(f) PROVE Slots'
  BY <1>0, <1>10, FailEffect, SlotsFrame
<1> QED
  BY <1>1, <1>2, <1>3, <1>4, <1>5, <1>6, <1>7, <1>8, <1>9, <1>10, StepCases

-----------------------------------------------------------------------------
\* The pointer: as long as its block is not freed, it is what the table has.
Listening == ListenerHolds /\ StaleIsSilent

LEMMA ListenerStep == ASSUME IInv, [Next]_vars PROVE Listening'
<1>0. Listening /\ TypeOK
  BY DEF IInv, Listening
<1> USE DEF Listening, ListenerHolds, StaleIsSilent, gcol_get, listenerVars, gameVars, collectionVars
<1>1. ASSUME NEW c \in Conns, NEW f \in Fds, Connect(c, f) PROVE Listening'
  <2>1. mic[c] = "off"
    BY <1>1 DEF Connect, IInv, UidsKnown
  <2>2. listener # "recv" => uid'[datagram] = uid[datagram]
    BY <1>0, <1>1, <2>1 DEF Connect, TypeOK
  <2>3. ptr # NULL => listener # "recv"
    BY <1>0
  <2> QED
    BY <1>0, <1>1, <2>2, <2>3 DEF Connect
<1>2. ASSUME NEW e \in Envs, NEW p1 \in Fds, NEW p2 \in Fds, StartGame(e, p1, p2) PROVE Listening'
  <2>1. \A c \in Conns : mic[c] # "off" => mic'[c] # "off"
    BY <1>0, <1>2 DEF StartGame, TypeOK
  <2>2. listener = "send" /\ stale /\ ptr # NULL => slot'[ptr] = NoPorts
    BY <1>0, <1>2 DEF StartGame, TypeOK
  <2> QED
    BY <1>0, <1>2, <2>1, <2>2 DEF StartGame
<1>3. CASE Add
  <2>1. ASSUME ptr # NULL, ~stale PROVE table'[uid[datagram]] = ptr
    <3>1. listener # "recv" /\ datagram \in Conns /\ uid[datagram] \in Fds
      BY <1>0, <2>1 DEF IInv, UidsKnown, TypeOK
    <3>2. table[uid[datagram]] = ptr
      BY <1>0, <2>1
    <3>3. uid[datagram] \notin Sockets(hand)
      BY <1>3, <2>1, <3>1, <3>2 DEF Add, IInv, GamesSound, Registered
    <3> QED
      BY <1>3, <3>1, <3>2, <3>3 DEF Add, gcol_add
  <2> QED
    BY <1>0, <1>3, <2>1 DEF Add
<1>4. ASSUME NEW f \in Fds, EndGame(f) PROVE Listening'
  <2>1. /\ table[f] \in Envs
        /\ table' = [g \in Fds |-> IF g \in Sockets(table[f]) THEN NULL ELSE table[g]]
        /\ table[f] # NULL
    BY <1>4, RemoveEffect DEF EndGame, Registered
  <2>2. ASSUME ptr # NULL, ~stale' PROVE table'[uid[datagram]] = ptr
    <3>1. listener # "recv" /\ datagram \in Conns /\ uid[datagram] \in Fds
      BY <1>0, <2>2 DEF IInv, UidsKnown, TypeOK
    <3>2. table[uid[datagram]] = ptr /\ ptr # table[f]
      BY <1>0, <1>4, <2>2 DEF EndGame
    <3>3. uid[datagram] \notin Sockets(table[f])
      BY <1>4, <3>1, <3>2 DEF EndGame, IInv, GamesSound
    <3> QED
      BY <2>1, <3>1, <3>2, <3>3
  <2>3. ASSUME listener = "send", stale', ptr # NULL PROVE slot'[ptr] = NoPorts
    BY <1>0, <1>4, <2>1, <2>3 DEF EndGame, TypeOK
  <2>4. stale' => stale \/ ptr = table[f]
    BY <1>4 DEF EndGame
  <2> QED
    BY <1>0, <1>4, <2>1, <2>2, <2>3, <2>4 DEF EndGame
<1>5. ASSUME NEW c \in Conns, StopStreaming(c) PROVE Listening'
  BY <1>0, <1>5 DEF StopStreaming, TypeOK
<1>6. ASSUME NEW c \in Conns, Receive(c) \/ ReceiveShort(c) PROVE Listening'
  BY <1>0, <1>6 DEF Receive, ReceiveShort
<1>7. CASE SetClientAddr \/ SetFreed
  BY <1>0, <1>7 DEF SetClientAddr, SetFreed
<1>8. CASE LookAgain
  BY <1>0, <1>8 DEF LookAgain
<1>9. CASE Drop \/ SendFreed
  BY <1>0, <1>9 DEF Drop, SendFreed
<1>10. CASE SocketFails \/ UNCHANGED vars
  BY <1>0, <1>10 DEF SocketFails, vars
<1>11. ASSUME NEW f \in Fds, StartFails(f) PROVE Listening'
  BY <1>0, <1>11, FailEffect
<1> QED
  BY <1>1, <1>2, <1>3, <1>4, <1>5, <1>6, <1>7, <1>8, <1>9, <1>10, <1>11, StepCases

-----------------------------------------------------------------------------
\* The invariant is inductive.
THEOREM Invariance == Spec => []IInv
<1>1. Init => IInv
  BY InitIInv
<1>2. IInv /\ [Next]_vars => IInv'
  <2> SUFFICES ASSUME IInv, [Next]_vars PROVE IInv'
    OBVIOUS
  <2> QED
    BY TypeStep, GamesStep, SlotsStep, ListenerStep DEF IInv, Slots, Listening
<1> QED
  BY <1>1, <1>2, PTL DEF Spec

\* The variables keep their types.
THEOREM TypeCorrect == Spec => []TypeOK
<1>1. IInv => TypeOK
  BY DEF IInv
<1> QED
  BY <1>1, Invariance, PTL

\* The first slot of a game is only ever that of a client that was told the
\* descriptor of the first player, with stale pointers and late datagrams.
THEOREM FirstSlotSafe == Spec => []FirstSlotIsFirstPlayers
<1>1. IInv => FirstSlotIsFirstPlayers
  BY DEF IInv
<1> QED
  BY <1>1, Invariance, PTL

\* The stale pointer of send_datagram finds no recipient.
THEOREM StaleSendIsSilent == Spec => []StaleIsSilent
<1>1. IInv => StaleIsSilent
  BY DEF IInv
<1> QED
  BY <1>1, Invariance, PTL

\* No two players of a block are the same descriptor, and the listener's
\* pointer, while not stale, is the game of the datagram's uid.
LEMMA LiveGame ==
    ASSUME IInv, ptr # NULL, ~stale
    PROVE  /\ ptr \in Envs /\ Allocated(ptr)
           /\ datagram \in Conns /\ uid[datagram] \in Sockets(ptr)
           /\ env[ptr][1] \in Fds /\ env[ptr][2] \in Fds /\ env[ptr][1] # env[ptr][2]
           /\ table[env[ptr][1]] = ptr /\ table[env[ptr][2]] = ptr
  <1>1. ptr \in Envs /\ datagram \in Conns /\ uid[datagram] \in Fds
    BY DEF IInv, TypeOK, ListenerHolds, UidsKnown
  <1>2. table[uid[datagram]] = ptr
    BY DEF IInv, ListenerHolds, gcol_get
  <1>3. Allocated(ptr) /\ uid[datagram] \in Sockets(ptr)
    BY <1>1, <1>2 DEF IInv, GamesSound, Registered
  <1>4. env[ptr][1] \in Fds /\ env[ptr][2] \in Fds
    BY <1>1, <1>3, PairTypes DEF IInv
  <1>5. \A g \in Fds : table[g] = ptr <=> g \in Sockets(ptr)
    BY <1>1, <1>2 DEF IInv, GamesSound, Registered
  <1> QED
    BY <1>1, <1>3, <1>4, <1>5 DEF IInv, GamesSound, Sockets

\* A stranger's address gets into the second slot only through a pointer that
\* became stale before the lock was taken.
THEOREM StraysOnlyByRace == Spec => StrayOnlyByRace
<1>1. IInv /\ [Next]_vars =>
        [\A e \in Envs : ~Strayed(e) /\ Strayed(e)' => stale /\ ptr = e]_vars
  <2> SUFFICES ASSUME IInv, [Next]_vars, NEW e \in Envs, ~Strayed(e), Strayed(e)'
               PROVE  stale /\ ptr = e
    OBVIOUS
  <2> USE DEF Strayed, Allocated, NO_PORT
  <2>1. slot[e][2] \in Conns \cup {NULL}
    BY PairTypes DEF IInv
  <2>2. ASSUME NEW c \in Conns, NEW f \in Fds, Connect(c, f) PROVE FALSE
    <3>1. uid[c] = NULL /\ uid' = [uid EXCEPT ![c] = f] /\ UNCHANGED <<env, slot>>
      BY <2>2 DEF Connect
    <3>2. slot[e][2] # c
      BY <2>1, <3>1, NullAssumption DEF IInv, SlotsClean, UidsKnown
    <3> QED
      BY <2>1, <3>1, <3>2 DEF IInv, TypeOK
  <2>3. ASSUME NEW d \in Envs, NEW p1 \in Fds, NEW p2 \in Fds, StartGame(d, p1, p2) PROVE FALSE
    BY <2>3 DEF StartGame, make_env, NoPorts, IInv, TypeOK, CollectionTypeOK
  <2>4. ASSUME NEW f \in Fds, EndGame(f) PROVE FALSE
    <3>1. table[f] \in Envs /\ env' = [env EXCEPT ![table[f]] = NULL]
      BY <2>4, RemoveEffect DEF EndGame
    <3> QED
      BY <2>4, <3>1 DEF EndGame, IInv, TypeOK, CollectionTypeOK
  <2>5. CASE SetClientAddr
    <3>1. /\ \A d \in Envs : d # ptr => slot'[d] = slot[d]
          /\ slot'[ptr][2] # slot[ptr][2] =>
                 slot'[ptr][2] = datagram /\ 2 = PlayerIndex(ptr, uid[datagram])
          /\ ptr # NULL /\ UNCHANGED <<env, uid>>
      BY <2>5, StoreEffect DEF SetClientAddr, gameVars, collectionVars
    <3>2. e = ptr /\ slot'[ptr][2] = datagram /\ uid[datagram] # env[ptr][1]
          /\ uid[datagram] # env[ptr][2]
      BY <3>1 DEF PlayerIndex
    <3> QED
      BY <3>1, <3>2, LiveGame DEF Sockets
  <2>6. CASE Add \/ (\E c \in Conns : StopStreaming(c)) \/ \E f \in Fds : StartFails(f)
    BY <2>6 DEF Add, StopStreaming, StartFails, gameVars, collectionVars
  <2>7. CASE \E c \in Conns : Receive(c) \/ ReceiveShort(c)
    BY <2>7 DEF Receive, ReceiveShort, gameVars, collectionVars
  <2>8. CASE LookAgain \/ Drop \/ SetFreed \/ SendFreed \/ SocketFails
    BY <2>8 DEF LookAgain, Drop, SetFreed, SendFreed, SocketFails, gameVars, collectionVars
  <2>9. CASE UNCHANGED vars
    BY <2>9 DEF vars, gameVars, collectionVars
  <2> QED
    BY <2>2, <2>3, <2>4, <2>5, <2>6, <2>7, <2>8, <2>9, StepCases
<1> QED
  BY <1>1, Invariance, PTL DEF Spec, StrayOnlyByRace

\* A voice goes from one player of a registered game to the other, but for
\* reused descriptors and for strays.
THEOREM VoicesStay == Spec => VoicesStayInGame
<1>1. IInv /\ [Next]_vars =>
        [\A s, r \in Conns : Relay(s, r) =>
            \/ Opponents(s, r)
            \/ Reused(s) \/ Reused(r)
            \/ Strayed(ptr)]_vars
  <2> SUFFICES ASSUME IInv, NEW s \in Conns, NEW r \in Conns, Relay(s, r),
                      ~Reused(s), ~Reused(r), ~Strayed(ptr)
               PROVE  Opponents(s, r)
    OBVIOUS
  <2> DEFINE i == PlayerIndex(ptr, uid[s])
  <2>1. ptr \in Envs /\ Allocated(ptr) /\ datagram = s /\ slot[ptr][3 - i] = r /\ i \in {1, 2}
    BY DEF Relay, Recipient, PlayerIndex, IInv, TypeOK
  <2>2. ~stale
    <3>1. r # NULL
      BY NullAssumption
    <3> QED
      BY <2>1, <3>1 DEF Relay, IInv, StaleIsSilent, NoPorts, NO_PORT
  <2>3. /\ uid[s] \in {env[ptr][1], env[ptr][2]}
        /\ env[ptr][1] \in Fds /\ env[ptr][2] \in Fds /\ env[ptr][1] # env[ptr][2]
        /\ table[env[ptr][1]] = ptr /\ table[env[ptr][2]] = ptr
    BY <2>1, <2>2, LiveGame DEF Relay, Sockets
  <2>4. uid[s] = env[ptr][i]
    BY <2>3 DEF PlayerIndex
  <2>5. uid[r] = env[ptr][3 - i]
    <3>1. r # NULL
      BY NullAssumption
    <3>2. CASE i = 2
      BY <2>1, <3>1, <3>2 DEF IInv, FirstSlotIsFirstPlayers, NO_PORT
    <3>3. CASE i = 1
      BY <2>1, <3>1, <3>3 DEF Strayed, NO_PORT
    <3> QED
      BY <2>1, <3>2, <3>3
  <2>6. \A c \in {s, r} : conn[uid[c]] = c
    <3> SUFFICES ASSUME NEW c \in {s, r} PROVE conn[uid[c]] = c
      OBVIOUS
    <3>1. uid[c] \in Fds /\ Registered(uid[c])
      BY <2>1, <2>3, <2>4, <2>5, NullAssumption DEF Registered
    <3>2. conn[uid[c]] \in Conns /\ uid[conn[uid[c]]] = uid[c]
      BY <3>1 DEF IInv, GamesSound, UidsKnown, Open, TypeOK, CollectionTypeOK
    <3> QED
      BY <3>2 DEF Reused
  <2>7. /\ uid[s] \in Fds /\ uid[r] \in Fds /\ uid[s] # uid[r]
        /\ table[uid[s]] = ptr /\ table[uid[r]] = ptr /\ ptr # NULL
    BY <2>1, <2>3, <2>4, <2>5, NullAssumption
  <2> QED
    BY <2>6, <2>7 DEF Opponents, Registered
<1> QED
  BY <1>1, Invariance, PTL DEF Spec, VoicesStayInGame

=============================================================================
