-------------------------- MODULE VoiceGamesProofs --------------------------
(***************************************************************************)
(* Proofs that the games of GameServer are games of VoiceServer, so that    *)
(* what VoiceServerProofs proves of any games holds of those the server     *)
(* plays.                                                                   *)
(***************************************************************************)
EXTENDS VoiceGames, GameServerProofs

\* A client has a uid when it has connected.
Numbered == \A c \in Conns : uid[c] = NULL <=> peer[c] = "absent"

\* Until its game starts its microphone is off.
Quiet ==
    /\ \A c \in Conns : peer[c] = "absent" => mic[c] = "off"
    /\ \A f \in lobby : mic[conn[f]] = "off"

\* What the listener's variables are functions on.
Maps ==
    /\ uid  = [c \in Conns |-> uid[c]]
    /\ mic  = [c \in Conns |-> mic[c]]
    /\ slot = [e \in Envs |-> slot[e]]
    /\ stale \in BOOLEAN

\* The inductive invariant of the two together.
BothInv == IInv /\ Numbered /\ Quiet /\ Maps

-----------------------------------------------------------------------------

\* A connection is made by Connect alone.
LEMMA AbsentStays ==
    ASSUME IInv, [Next]_vars, NEW c \in Conns
    PROVE  \/ \E f \in Fds : Connect(c, f)
           \/ peer[c] = "absent" <=> peer'[c] = "absent"
  <1>0. TypeOK /\ TableConsistent
    BY DEF IInv, Ownership
  <1>1. ASSUME NEW d \in Conns, NEW f \in Fds, Connect(d, f), d # c
        PROVE  peer'[c] = peer[c]
    BY <1>0, <1>1 DEF Connect, TypeOK
  <1>2. ASSUME NEW d \in Leavers, NEW how \in Leaves, Leave(d, how)
        PROVE  peer[c] = "absent" <=> peer'[c] = "absent"
    BY <1>0, <1>2, LeavesAssumption DEF Leave, TypeOK
  <1>3. ASSUME NEW f \in Fds, Removal(f)
        PROVE  peer[c] = "absent" <=> peer'[c] = "absent"
    <2>1. Registered(f) /\ Remove(f)
      BY <1>3, RemovalTells
    <2>2. \E e \in Envs : /\ table[f] = e /\ Sockets(e) \subseteq Fds
                          /\ GameConns(f) = {conn[g] : g \in Sockets(e)}
      BY <1>0, <2>1, RemoveEffect
    <2>3. \A d \in GameConns(f) : peer[d] # "absent"
      BY <2>1, <2>2 DEF IInv, Ownership, TableConsistent, OpenIsConnected, Open
    <2>4. peer' = [d \in Conns |-> IF d \in GameConns(f) THEN "gone" ELSE peer[d]]
      BY <2>1 DEF Remove
    <2> QED
      BY <2>3, <2>4
  <1>4. ASSUME NEW d \in Conns, NEW r \in Requests, Send(d, r)
        PROVE  peer' = peer
    BY <1>4 DEF Send
  <1>5. ASSUME NEW e \in Envs, NEW p1 \in Fds, NEW p2 \in Fds, NEW kind,
               Build(kind, e, p1, p2) \/ BuildFails(e, p1, p2)
        PROVE  peer' = peer
    BY <1>5 DEF Build, BuildFails
  <1>6. ASSUME NEW f \in Fds, Skip(f) \/ HandleShort(f) \/ HandleInvalid(f) \/ HandleMove(f)
        PROVE  peer' = peer
    BY <1>6 DEF Skip, HandleShort, HandleInvalid, HandleMove, clientVars
  <1>7. ASSUME Add \/ Signal \/ AddFreed \/ Arm \/ Wake \/ SelectClients \/ Dies \/ UNCHANGED vars
        PROVE  peer' = peer
    BY <1>7 DEF Add, Signal, AddFreed, Arm, Wake, SelectClients, Dies, vars, clientVars
  <1> QED
    BY <1>1, <1>2, <1>3, <1>4, <1>5, <1>6, <1>7
    DEF Next, ClientStep, PlexerStep, MainStep, Serve, Removal, PlexerKilled, MainKilledByOther,
        MainKilledByReader, MainCrashes

\* Only a start that fails starts a microphone without a game.
LEMMA FailsAlone ==
    ASSUME NEW f \in Fds, ReachesFirst(f)
    PROVE  /\ plexer = "idle" /\ plexer' = "add" /\ hand' \in Envs /\ ~Allocated(hand')
           /\ UNCHANGED <<conn, env, table, peer>>
           /\ f \in lobby /\ lobby' \subseteq lobby \ {f}
  BY DEF ReachesFirst, BuildFails, Pair, collectionVars

\* What a step of the games leaves alone, by what it does to the collection.
LEMMA VoicesStay ==
    ASSUME BothInv, GamesStep
    PROVE  /\ UNCHANGED <<listener, datagram, ptr, voice>> /\ voice = "up"
           /\ (\A c \in Conns : peer[c] = "absent" <=> peer'[c] = "absent") => uid' = uid
           /\ /\ Created # NULL \/ Created' = NULL
              /\ (plexer = "idle" => plexer' # "add") \/ ~\E f \in Fds : ReachesFirst(f)
              => mic' = mic
           /\ env' = env => slot' = slot
           /\ (\A e \in Envs : Allocated(e) => Allocated(e)') => stale' = stale
  <1>1. UNCHANGED <<listener, datagram, ptr, voice>> /\ voice = "up"
    BY DEF GamesStep
  <1>2. ASSUME \A c \in Conns : peer[c] = "absent" <=> peer'[c] = "absent" PROVE uid' = uid
    <2>1. uid' = [c \in Conns |-> uid[c]]
      BY <1>2 DEF GamesStep
    <2> QED
      BY <2>1 DEF BothInv, Maps
  <1>3. ASSUME Created # NULL \/ Created' = NULL,
               (plexer = "idle" => plexer' # "add") \/ ~\E f \in Fds : ReachesFirst(f)
        PROVE  mic' = mic
    <2>0. ~\E f \in Fds : ReachesFirst(f)
      BY <1>3, FailsAlone
    <2>1. mic' = [c \in Conns |-> mic[c]]
      BY <1>3, <2>0 DEF GamesStep
    <2> QED
      BY <2>1 DEF BothInv, Maps
  <1>4. ASSUME env' = env PROVE slot' = slot
    <2>1. slot' = [e \in Envs |-> slot[e]]
      BY <1>4 DEF GamesStep
    <2> QED
      BY <2>1 DEF BothInv, Maps
  <1>5. ASSUME \A e \in Envs : Allocated(e) => Allocated(e)' PROVE stale' = stale
    BY <1>5 DEF GamesStep, BothInv, Maps
  <1> QED
    BY <1>1, <1>2, <1>3, <1>4, <1>5

\* A start without a game changes no microphone but that of the client it reached.
LEMMA BuildOrFails ==
    ASSUME BothInv, GamesStep, Created' = NULL
    PROVE  \/ mic' = mic
           \/ \E f \in Fds : ReachesFirst(f) /\ mic' = [mic EXCEPT ![conn[f]] = "streaming"]
  <1>1. CASE mic' = [c \in Conns |-> mic[c]]
    BY <1>1 DEF BothInv, Maps
  <1> QED
    BY <1>1 DEF GamesStep

\* The kernel's lowest free number is what respond_uid tells.
LEMMA ConnectMaps ==
    ASSUME BothInv, BothInv', GamesStep, NEW c \in Conns, NEW f \in Fds, Connect(c, f)
    PROVE  V!Connect(c, f)
  <1>1. /\ conn' = [conn EXCEPT ![f] = c] /\ peer[c] = "absent"
        /\ peer' = [peer EXCEPT ![c] = "up"]
        /\ UNCHANGED <<env, table, plexer, hand>>
    BY DEF Connect, plexerVars
  <1>2. TypeOK
    BY DEF BothInv, IInv
  <1>3. \A g \in Fds : conn[g] # c
    BY <1>1, NullAssumption DEF BothInv, IInv, OpenIsConnected, Open
  <1>4. \A g \in Fds : conn'[g] = c <=> g = f
    BY <1>1, <1>2, <1>3 DEF TypeOK, CollectionTypeOK
  <1>5. DescriptorOf(c)' = f
    BY <1>4 DEF DescriptorOf
  <1>6. \A d \in Conns : d # c => peer'[d] = peer[d]
    BY <1>1, <1>2 DEF TypeOK
  <1>7. peer'[c] # "absent"
    BY <1>1, <1>2 DEF TypeOK
  <1>8. uid' = [uid EXCEPT ![c] = f]
    <2>1. uid' = [d \in Conns |-> IF d = c THEN f ELSE uid[d]]
      BY <1>1, <1>5, <1>6, <1>7 DEF GamesStep
    <2> QED
      BY <2>1 DEF BothInv, Maps
  <1>9. Created' = Created
    BY <1>1 DEF Created, Allocated
  <1>10. UNCHANGED <<mic, slot, listener, datagram, ptr, stale, voice>> /\ voice = "up"
    BY <1>1, <1>9, VoicesStay DEF Allocated
  <1>11. uid[c] = NULL /\ \A d \in Conns : d < c => uid[d] # NULL
    BY <1>1 DEF Connect, BothInv, Numbered
  <1>12. conn[f] = NULL /\ \A g \in Fds : g < f => conn[g] # NULL
    BY DEF Connect, Open
  <1> QED
    BY <1>1, <1>8, <1>9, <1>10, <1>11, <1>12
    DEF V!Connect, V!Up, V!Open, V!listenerVars

\* make_env clears the ports of a block nobody else has; the start update starts
\* both microphones.
LEMMA BuildMaps ==
    ASSUME BothInv, GamesStep, NEW e \in Envs, NEW p1 \in Fds, NEW p2 \in Fds, NEW kind,
           Build(kind, e, p1, p2)
    PROVE  V!StartGame(e, p1, p2)
  <1>1. /\ plexer = "idle" /\ plexer' = "add" /\ hand' = e
        /\ ~Allocated(e) /\ env' = [env EXCEPT ![e] = <<p1, p2>>]
        /\ p1 \in lobby /\ p2 \in lobby /\ p1 # p2
        /\ UNCHANGED <<conn, table, peer>>
    BY DEF Build, make_env, Pair
  <1>2. TypeOK
    BY DEF BothInv, IInv
  <1>3. env'[e] = <<p1, p2>> /\ \A d \in Envs : d # e => env'[d] = env[d]
    BY <1>1, <1>2 DEF TypeOK, CollectionTypeOK
  <1>4. <<p1, p2>> # NULL /\ env[e] = NULL /\ e # NULL
    BY <1>1, NullAssumption DEF Allocated
  <1>5. Created = NULL /\ Created' = e
    BY <1>1, <1>3, <1>4 DEF Created, Allocated
  <1>6. Sockets(Created)' = {p1, p2}
    BY <1>3, <1>5 DEF Sockets
  <1>7. mic' = [c \in Conns |-> IF c \in {conn[p1], conn[p2]} THEN "streaming" ELSE mic[c]]
    <2>1. ~\E f \in Fds : ReachesFirst(f)
      <3>1. env' # env
        BY <1>3, <1>4
      <3> QED
        BY <3>1, FailsAlone
    <2> QED
      BY <1>4, <1>5, <1>6, <2>1 DEF GamesStep
  <1>8. slot' = [slot EXCEPT ![e] = V!NoPorts]
    <2>1. \A d \in Envs : env'[d] = env[d] <=> d # e
      BY <1>3, <1>4
    <2>2. slot' = [d \in Envs |-> IF d # e THEN slot[d] ELSE V!NoPorts]
      BY <2>1 DEF GamesStep
    <2> QED
      BY <2>2 DEF BothInv, Maps
  <1>9. \A d \in Envs : Allocated(d) => Allocated(d)'
    BY <1>3, <1>4 DEF Allocated
  <1>10. UNCHANGED <<uid, listener, datagram, ptr, stale, voice>> /\ voice = "up"
    BY <1>1, <1>9, VoicesStay
  <1>11. /\ conn[p1] # NULL /\ conn[p2] # NULL
         /\ mic[conn[p1]] = "off" /\ mic[conn[p2]] = "off"
    BY <1>1, OpenFacts DEF BothInv, Quiet, Open
  <1> QED
    BY <1>1, <1>5, <1>7, <1>8, <1>10, <1>11
    DEF V!StartGame, V!Up, V!Waits, V!Open, V!make_env, V!Allocated, V!listenerVars, Allocated

\* gcol_add registers the block the plexer created.
LEMMA AddMaps ==
    ASSUME BothInv, GamesStep, Add
    PROVE  V!Add
  <1>1. /\ plexer = "add" /\ plexer' = "signal" /\ Allocated(hand) /\ gcol_add(hand)
        /\ UNCHANGED <<conn, env, peer>>
    BY DEF Add, clientVars
  <1>2. hand \in Envs /\ hand # NULL
    BY <1>1, NullAssumption DEF BothInv, IInv, Ownership, HandHeld
  <1>3. Created = hand /\ Created' = NULL
    BY <1>1 DEF Created
  <1>4. UNCHANGED <<uid, mic, slot, listener, datagram, ptr, stale, voice>> /\ voice = "up"
    BY <1>1, <1>2, <1>3, VoicesStay DEF Allocated
  <1>5. table' = [f \in Fds |-> IF f \in {env[hand][1], env[hand][2]} THEN hand ELSE table[f]]
    BY <1>1 DEF gcol_add, Sockets
  <1> QED
    BY <1>1, <1>2, <1>3, <1>4, <1>5
    DEF V!Add, V!Up, V!gcol_add, V!Sockets, V!listenerVars

\* Whatever ends a game ends it by gcol_remove, which frees the block that the
\* listener may hold.
LEMMA RemovalMaps ==
    ASSUME BothInv, [Next]_vars, GamesStep, NEW f \in Fds, Removal(f)
    PROVE  V!EndGame(f)
  <1>1. Registered(f) /\ Remove(f) /\ UNCHANGED <<lobby, plexer, hand>>
    BY RemovalTells DEF BothInv, plexerVars
  <1>2. TypeOK /\ TableConsistent
    BY DEF BothInv, IInv, Ownership
  <1>3. PICK e \in Envs :
           /\ table[f] = e /\ Allocated(e)
           /\ env' = [env EXCEPT ![e] = NULL]
    BY <1>1, <1>2, RemoveEffect
  <1>4. env'[e] = NULL /\ env[e] # NULL /\ \A d \in Envs : d # e => env'[d] = env[d]
    BY <1>2, <1>3 DEF TypeOK, CollectionTypeOK, Allocated
  <1>5. slot' = [slot EXCEPT ![table[f]] = V!NoPorts]
    <2>1. \A d \in Envs : env'[d] = env[d] <=> d # e
      BY <1>4
    <2>2. slot' = [d \in Envs |-> IF d # e THEN slot[d] ELSE V!NoPorts]
      BY <2>1 DEF GamesStep
    <2> QED
      BY <1>3, <2>2 DEF BothInv, Maps
  <1>6. stale' = (stale \/ ptr = table[f])
    <2>1. \A d \in Envs : Allocated(d) /\ ~Allocated(d)' <=> d = e
      BY <1>4 DEF Allocated
    <2>2. (\E d \in Envs : ptr = d /\ Allocated(d) /\ ~Allocated(d)') <=> ptr = e
      BY <2>1
    <2> QED
      BY <1>3, <2>2 DEF GamesStep
  <1>7. Created' = Created
    <2>1. CASE plexer = "add" /\ Allocated(hand)
      <3>1. hand # e
        <4>1. f \in Sockets(e) /\ f \in Fds
          BY <1>1, <1>3 DEF BothInv, IInv, Ownership, TableConsistent
        <4> QED
          BY <1>1, <2>1, <4>1 DEF BothInv, IInv, Ownership, DescriptorsOwnedOnce
      <3>2. hand \in Envs
        BY <2>1 DEF BothInv, IInv, Ownership, HandHeld
      <3> QED
        BY <1>1, <1>4, <2>1, <3>1, <3>2 DEF Created, Allocated
    <2>2. CASE ~(plexer = "add" /\ Allocated(hand))
      <3>1. plexer = "add" => hand \in Envs
        BY DEF BothInv, IInv, Ownership, HandHeld
      <3>2. ~(plexer' = "add" /\ Allocated(hand)')
        BY <1>1, <1>4, <2>2, <3>1 DEF Allocated
      <3> QED
        BY <2>2, <3>2 DEF Created
    <2> QED
      BY <2>1, <2>2
  <1>8. mic' = mic /\ UNCHANGED <<listener, datagram, ptr, voice>> /\ voice = "up"
    <2>1. Created # NULL \/ Created' = NULL
      BY <1>7
    <2> QED
      BY <1>1, <2>1, VoicesStay
  <1>9. uid' = uid
    <2>1. \A c \in Conns : peer[c] = "absent" <=> peer'[c] = "absent"
      <3> SUFFICES ASSUME NEW c \in Conns, NEW g \in Fds, Connect(c, g) PROVE FALSE
        BY AbsentStays DEF BothInv
      <3>1. table' = table
        BY DEF Connect
      <3>2. table'[f] = NULL
        BY <1>1, <1>2 DEF Remove, gcol_remove
      <3> QED
        BY <1>1, <3>1, <3>2 DEF Registered
    <2> QED
      BY <2>1, VoicesStay
  <1>10. gcol_remove(f)
    BY <1>1 DEF Remove
  <1>11. V!gcol_remove(f)
    BY <1>10 DEF gcol_remove, V!gcol_remove, get_other_uid, V!get_other_uid, Sockets, V!Sockets
  <1> QED
    BY <1>1, <1>5, <1>6, <1>7, <1>8, <1>9, <1>11
    DEF V!EndGame, V!Up, V!Registered, Registered, V!listenerVars

\* The client that was told of a start that fails has had no game.
LEMMA FailMaps ==
    ASSUME BothInv, GamesStep, NEW f \in Fds, ReachesFirst(f),
           mic' = [mic EXCEPT ![conn[f]] = "streaming"]
    PROVE  V!StartFails(f)
  <1>1. /\ plexer = "idle" /\ plexer' = "add" /\ ~Allocated(hand') /\ f \in lobby
        /\ UNCHANGED <<conn, env, table, peer>>
    BY FailsAlone
  <1>2. Created = NULL /\ Created' = NULL
    BY <1>1 DEF Created, Allocated
  <1>3. conn[f] # NULL /\ mic[conn[f]] = "off"
    BY <1>1, OpenFacts DEF BothInv, Quiet, Open
  <1>4. UNCHANGED <<uid, slot, listener, datagram, ptr, stale, voice>> /\ voice = "up"
    BY <1>1, VoicesStay DEF Allocated
  <1> QED
    BY <1>1, <1>2, <1>3, <1>4
    DEF V!StartFails, V!Up, V!Waits, V!Open, V!gameVars, V!collectionVars, V!listenerVars

\* Steps of the games that the listener does not notice.
LEMMA NothingMaps ==
    ASSUME BothInv, GamesStep, UNCHANGED <<conn, env, table>>, Created' = Created,
           \A c \in Conns : peer[c] = "absent" <=> peer'[c] = "absent",
           (plexer = "idle" => plexer' # "add") \/ ~\E f \in Fds : ReachesFirst(f)
    PROVE  UNCHANGED V!vars
  <1>1. UNCHANGED <<uid, mic, slot, listener, datagram, ptr, stale, voice>>
    <2>1. Created # NULL \/ Created' = NULL
      OBVIOUS
    <2>2. \A e \in Envs : Allocated(e) => Allocated(e)'
      BY DEF Allocated
    <2> QED
      BY <2>1, <2>2, VoicesStay
  <1> QED
    BY <1>1 DEF V!vars, V!gameVars, V!collectionVars, V!listenerVars

\* Every step of the games is one that VoiceServer has, or none.
LEMMA GamesMap ==
    ASSUME BothInv, BothInv', GamesStep
    PROVE  [V!Next]_V!vars
  <1>0. IInv /\ [Next]_vars
    BY DEF BothInv, GamesStep
  <1>1. ASSUME NEW c \in Conns, NEW f \in Fds, Connect(c, f) PROVE V!Next
    BY <1>1, ConnectMaps DEF V!Next, V!GameStep
  <1>2. ASSUME NEW e \in Envs, NEW p1 \in Fds, NEW p2 \in Fds, NEW kind \in Kinds,
               Build(kind, e, p1, p2)
        PROVE  V!Next
    BY <1>2, BuildMaps DEF V!Next, V!GameStep
  <1>3. CASE Add
    BY <1>3, AddMaps DEF V!Next, V!GameStep
  <1>4. ASSUME NEW f \in Fds, Removal(f) PROVE V!Next
    BY <1>0, <1>4, RemovalMaps DEF V!Next, V!GameStep
  <1>5. CASE /\ ~\E c \in Conns, f \in Fds : Connect(c, f)
             /\ UNCHANGED <<conn, env, table>> /\ Created' = Created
             /\ (plexer = "idle" => plexer' # "add") \/ ~\E f \in Fds : ReachesFirst(f)
    BY <1>0, <1>5, AbsentStays, NothingMaps
  <1>6. ASSUME ~\E c \in Conns, f \in Fds : Connect(c, f),
               NEW e \in Envs, NEW p1 \in Fds, NEW p2 \in Fds, BuildFails(e, p1, p2)
        PROVE  [V!Next]_V!vars
    <2>1. /\ plexer = "idle" /\ hand' = e /\ ~Allocated(e)
          /\ UNCHANGED <<conn, env, table>>
      BY <1>6 DEF BuildFails, collectionVars
    <2>2. Created = NULL /\ Created' = NULL
      BY <2>1 DEF Created, Allocated
    <2>3. ASSUME NEW f \in Fds, ReachesFirst(f), mic' = [mic EXCEPT ![conn[f]] = "streaming"]
          PROVE  V!Next
      BY <2>3, FailMaps DEF V!Next, V!GameStep
    <2>4. CASE mic' = mic
      <3>1. UNCHANGED <<uid, slot, listener, datagram, ptr, stale, voice>>
        BY <1>0, <1>6, <2>1, AbsentStays, VoicesStay DEF Allocated
      <3> QED
        BY <2>1, <2>2, <2>4, <3>1 DEF V!vars, V!gameVars, V!collectionVars, V!listenerVars
    <2> QED
      BY <2>2, <2>3, <2>4, BuildOrFails
  <1>7. ASSUME ~\E c \in Conns, f \in Fds : Connect(c, f), Signal
        PROVE  [V!Next]_V!vars
    <2>1. /\ plexer = "signal" /\ plexer' = "idle" /\ UNCHANGED <<conn, env, table>>
      BY <1>7 DEF Signal, collectionVars
    <2>2. Created' = Created
      BY <2>1 DEF Created
    <2> QED
      BY <1>5, <1>7, <2>1, <2>2
  <1>8. ASSUME ~\E c \in Conns, f \in Fds : Connect(c, f), UNCHANGED <<collectionVars, plexerVars>>
        PROVE  [V!Next]_V!vars
    <2>1. UNCHANGED <<conn, env, table, plexer, hand>>
      BY <1>8 DEF collectionVars, plexerVars
    <2>2. Created' = Created
      BY <2>1 DEF Created, Allocated
    <2> QED
      BY <1>5, <1>8, <2>1, <2>2
  <1> QED
    BY <1>0, <1>1, <1>2, <1>3, <1>4, <1>6, <1>7, <1>8, StepsListed

\* So is every step of the listener.
LEMMA VoicesMap ==
    ASSUME VoicesStep
    PROVE  V!Next
  BY DEF VoicesStep, V!Next, V!GameStep

-----------------------------------------------------------------------------
(* BothInv is an invariant.                                                 *)

\* At the start no client is connected and every microphone is off.
LEMMA BothInit == InitBoth => BothInv /\ V!Init
  <1> SUFFICES ASSUME InitBoth PROVE BothInv
    BY DEF InitBoth
  <1>1. IInv
    BY InvInit DEF InitBoth
  <1>2. Numbered /\ Quiet /\ Maps
    BY DEF InitBoth, Init, V!Init, Numbered, Quiet, Maps
  <1> QED
    BY <1>1, <1>2 DEF BothInv

\* The games keep it: a microphone starts only with the game of its client.
LEMMA GamesKeep ==
    ASSUME BothInv, GamesStep
    PROVE  BothInv'
  <1>0. IInv /\ [Next]_vars /\ TypeOK
    BY DEF BothInv, GamesStep, IInv
  <1>1. IInv'
    BY <1>0, InvStep
  <1>2. Maps'
    BY DEF GamesStep, Maps, BothInv
  <1>3. ASSUME NEW c \in Conns, NEW f \in Fds, Connect(c, f) PROVE Numbered' /\ Quiet'
    <2>1. /\ conn' = [conn EXCEPT ![f] = c] /\ peer[c] = "absent"
          /\ peer' = [peer EXCEPT ![c] = "up"] /\ lobby' = lobby \cup {f}
          /\ UNCHANGED <<env, plexer, hand>>
      BY <1>3 DEF Connect, plexerVars
    <2>2. conn'[f] = c /\ \A g \in Fds : g # f => conn'[g] = conn[g]
      BY <1>0, <2>1 DEF TypeOK, CollectionTypeOK
    <2>3. peer'[c] # "absent" /\ \A d \in Conns : d # c => peer'[d] = peer[d]
      BY <1>0, <2>1 DEF TypeOK
    <2>4. \A g \in Fds : conn'[g] = c <=> g = f
      BY <2>1, <2>2, NullAssumption DEF BothInv, IInv, OpenIsConnected, Open
    <2>5. DescriptorOf(c)' = f
      BY <2>4 DEF DescriptorOf
    <2>6. \A d \in Conns : uid'[d] = IF d = c THEN f ELSE uid[d]
      BY <2>1, <2>3, <2>5 DEF GamesStep
    <2>7. Numbered'
      BY <2>3, <2>6, UidAssumption DEF Numbered, BothInv
    <2>8. mic' = mic
      <3>1. Created' = Created
        BY <2>1 DEF Created, Allocated
      <3>2. Created # NULL \/ Created' = NULL
        BY <3>1
      <3> QED
        BY <2>1, <3>2, VoicesStay
    <2>9. Quiet'
      <3>1. \A g \in lobby : g \in Fds /\ g # f
        BY <1>0, <1>3, OpenFacts DEF Connect
      <3> QED
        BY <2>1, <2>2, <2>3, <2>8, <3>1 DEF Quiet, BothInv
    <2> QED
      BY <2>7, <2>9
  <1>4. ASSUME ~\E c \in Conns, f \in Fds : Connect(c, f)
        PROVE  /\ Numbered'
               /\ \A c \in Conns : peer[c] = "absent" <=> peer'[c] = "absent"
    <2>1. \A c \in Conns : peer[c] = "absent" <=> peer'[c] = "absent"
      BY <1>0, <1>4, AbsentStays
    <2>2. uid' = uid
      BY <2>1, VoicesStay
    <2> QED
      BY <2>1, <2>2 DEF Numbered, BothInv
  <1>5. ASSUME ~\E c \in Conns, f \in Fds : Connect(c, f),
               \A f \in lobby' : f \in lobby /\ conn'[f] = conn[f],
               mic' = mic
        PROVE  Quiet'
    BY <1>4, <1>5 DEF Quiet, BothInv
  <1>6. ASSUME ~\E c \in Conns, f \in Fds : Connect(c, f),
               NEW e \in Envs, NEW p1 \in Fds, NEW p2 \in Fds, NEW kind \in Kinds,
               Build(kind, e, p1, p2)
        PROVE  Quiet'
    <2>1. V!StartGame(e, p1, p2)
      BY <1>6, BuildMaps
    <2>2. mic' = [c \in Conns |-> IF c \in {conn[p1], conn[p2]} THEN "streaming" ELSE mic[c]]
      BY <2>1 DEF V!StartGame
    <2>3. /\ p1 \in lobby /\ p2 \in lobby /\ lobby' = lobby \ {p1, p2} /\ conn' = conn
      BY <1>6 DEF Build, Pair
    <2>4. \A f \in lobby' : /\ f \in lobby /\ conn[f] \in Conns
                           /\ conn[f] # conn[p1] /\ conn[f] # conn[p2]
      BY <1>0, <2>3, OpenFacts
    <2>5. \A f \in lobby' : mic'[conn'[f]] = "off"
      BY <2>2, <2>3, <2>4 DEF Quiet, BothInv
    <2>6. peer[conn[p1]] # "absent" /\ peer[conn[p2]] # "absent"
      BY <1>0, <2>3, OpenFacts DEF IInv, OpenIsConnected
    <2>7. \A c \in Conns : peer'[c] = "absent" => mic'[c] = "off"
      BY <1>4, <1>6, <2>2, <2>6 DEF Quiet, BothInv
    <2> QED
      BY <2>5, <2>7 DEF Quiet
  <1>7. ASSUME NEW e \in Envs, NEW p1 \in Fds, NEW p2 \in Fds, BuildFails(e, p1, p2)
        PROVE  Numbered' /\ Quiet'
    <2>1. /\ hand' = e /\ ~Allocated(e) /\ lobby' = lobby \ {p1, p2}
          /\ UNCHANGED <<conn, env, table, peer>> /\ plexer' # plexer
      BY <1>7 DEF BuildFails, collectionVars
    <2>2. Created' = NULL
      BY <2>1 DEF Created, Allocated
    <2>3. uid' = uid
      BY <2>1, VoicesStay
    <2>4. CASE mic' = mic
      BY <2>1, <2>3, <2>4 DEF Quiet, Numbered, BothInv
    <2>5. ASSUME NEW f \in Fds, ReachesFirst(f), mic' = [mic EXCEPT ![conn[f]] = "streaming"]
          PROVE  Numbered' /\ Quiet'
      <3>1. f \in lobby /\ lobby' \subseteq lobby \ {f}
        BY <2>5, FailsAlone
      <3>2. \A g \in lobby' : g \in lobby /\ conn[g] \in Conns /\ conn[g] # conn[f]
        BY <1>0, <3>1, OpenFacts
      <3>3. peer[conn[f]] # "absent"
        BY <1>0, <3>1, OpenFacts DEF IInv, OpenIsConnected
      <3>4. \A c \in Conns : c # conn[f] => mic'[c] = mic[c]
        BY <2>5 DEF BothInv, Maps
      <3> QED
        BY <2>1, <2>3, <3>2, <3>3, <3>4 DEF Quiet, Numbered, BothInv
    <2> QED
      BY <2>2, <2>4, <2>5, BuildOrFails
  <1>8. ASSUME Add
        PROVE  mic' = mic /\ \A g \in lobby' : g \in lobby /\ conn'[g] = conn[g]
    <2>1. V!Add
      BY <1>8, AddMaps
    <2>2. mic' = mic /\ conn' = conn /\ lobby' = lobby
      BY <1>8, <2>1 DEF V!Add, Add
    <2> QED
      BY <2>2
  <1>9. ASSUME NEW f \in Fds, Removal(f)
        PROVE  mic' = mic /\ \A g \in lobby' : g \in lobby /\ conn'[g] = conn[g]
    <2>1. V!EndGame(f)
      BY <1>0, <1>9, RemovalMaps
    <2>2. mic' = mic
      BY <2>1 DEF V!EndGame
    <2>3. Registered(f) /\ Remove(f) /\ lobby' = lobby
      BY <1>0, <1>9, RemovalTells
    <2>4. PICK e \in Envs :
             /\ table[f] = e
             /\ conn' = [g \in Fds |-> IF g \in Sockets(e) THEN NULL ELSE conn[g]]
      BY <1>0, <2>3, OpenFacts, RemoveEffect
    <2>5. \A g \in lobby : g \in Fds /\ ~Registered(g)
      BY <1>0, OpenFacts DEF DescriptorsOwnedOnce
    <2>6. \A g \in lobby : g \notin Sockets(e)
      BY <1>0, <2>3, <2>4, <2>5, OpenFacts DEF TableConsistent, Registered
    <2> QED
      BY <2>2, <2>3, <2>4, <2>5, <2>6
  <1>10. ASSUME Signal \/ UNCHANGED <<collectionVars, lobby, plexerVars>>
         PROVE  mic' = mic /\ \A g \in lobby' : g \in lobby /\ conn'[g] = conn[g]
    <2>1. conn' = conn /\ lobby' = lobby /\ (Created' = NULL \/ Created' = Created)
      BY <1>10 DEF Signal, Created, collectionVars, plexerVars, Allocated
    <2>2. Created # NULL \/ Created' = NULL
      BY <2>1
    <2>3. plexer = "idle" => plexer' # "add"
      BY <1>10 DEF Signal, plexerVars
    <2> QED
      BY <2>1, <2>2, <2>3, VoicesStay
  <1> QED
    BY <1>0, <1>1, <1>2, <1>3, <1>4, <1>5, <1>6, <1>7, <1>8, <1>9, <1>10, StepsListed DEF BothInv

\* The listener writes ports only.
LEMMA VoicesKeep ==
    ASSUME BothInv, VoicesStep
    PROVE  BothInv'
  <1>1. UNCHANGED vars
    BY DEF VoicesStep
  <1>2. IInv'
    BY <1>1, InvStep DEF BothInv
  <1>3. UNCHANGED <<conn, peer, lobby>>
    BY <1>1 DEF vars, collectionVars, clientVars
  <1>4. uid' = uid
    BY DEF VoicesStep, V!Receive, V!ReceiveShort, V!Process, V!SocketFails, V!StopStreaming,
           V!SetNoGame, V!SetClientAddr, V!SetFreed, V!LookAgain, V!SendNoGame,
           V!SendNoRecipient, V!SendFreed, V!Relay, V!Drop, V!gameVars
  <1>5. \/ mic' = mic
        \/ \E c \in Conns : mic[c] = "streaming" /\ mic' = [mic EXCEPT ![c] = "stopped"]
    BY DEF VoicesStep, V!Receive, V!ReceiveShort, V!Process, V!SocketFails, V!StopStreaming,
           V!SetNoGame, V!SetClientAddr, V!SetFreed, V!LookAgain, V!SendNoGame,
           V!SendNoRecipient, V!SendFreed, V!Relay, V!Drop
  <1>6. stale' \in {stale, FALSE}
    BY DEF VoicesStep, V!Receive, V!ReceiveShort, V!Process, V!SocketFails, V!StopStreaming,
           V!SetNoGame, V!SetClientAddr, V!SetFreed, V!LookAgain, V!SendNoGame,
           V!SendNoRecipient, V!SendFreed, V!Relay, V!Drop
  <1>7. slot' = [e \in Envs |-> slot'[e]]
    <2>1. slot' = slot \/ V!SetClientAddr
      BY DEF VoicesStep, V!Receive, V!ReceiveShort, V!Process, V!SocketFails, V!StopStreaming,
             V!SetNoGame, V!SetFreed, V!LookAgain, V!SendNoGame,
             V!SendNoRecipient, V!SendFreed, V!Relay, V!Drop
    <2>2. CASE V!SetClientAddr
      BY <2>2 DEF V!SetClientAddr, V!WithAddress, BothInv, Maps
    <2> QED
      BY <2>1, <2>2 DEF BothInv, Maps
  <1>8. Maps'
    BY <1>4, <1>5, <1>6, <1>7 DEF BothInv, Maps
  <1>9. \A d \in Conns : mic[d] = "off" => mic'[d] = "off"
    BY <1>5 DEF BothInv, Maps
  <1>10. \A f \in lobby : conn[f] \in Conns
    BY OpenFacts DEF BothInv
  <1> QED
    BY <1>2, <1>3, <1>4, <1>8, <1>9, <1>10 DEF BothInv, Numbered, Quiet

-----------------------------------------------------------------------------

\* The games that the plexer makes and the main thread ends are games of
\* VoiceServer: whatever voice_server.c does to any games it does to these.
THEOREM GamesAreVoiceGames == SpecBoth => ImplementsVoiceServer
  <1>1. InitBoth => BothInv /\ V!Init
    BY BothInit
  <1>2. BothInv /\ [NextBoth]_<<vars, voiceVars>> => BothInv'
    <2> SUFFICES ASSUME BothInv, [NextBoth]_<<vars, voiceVars>> PROVE BothInv'
      OBVIOUS
    <2>1. CASE GamesStep
      BY <2>1, GamesKeep
    <2>2. CASE VoicesStep
      BY <2>2, VoicesKeep
    <2>3. CASE UNCHANGED <<vars, voiceVars>>
      <3>1. IInv'
        BY <2>3, InvStep DEF BothInv
      <3> QED
        BY <2>3, <3>1 DEF BothInv, Numbered, Quiet, Maps, vars, voiceVars, collectionVars, clientVars
    <2> QED
      BY <2>1, <2>2, <2>3 DEF NextBoth
  <1>3. BothInv /\ BothInv' /\ [NextBoth]_<<vars, voiceVars>> => [V!Next]_V!vars
    <2> SUFFICES ASSUME BothInv, BothInv', [NextBoth]_<<vars, voiceVars>> PROVE [V!Next]_V!vars
      OBVIOUS
    <2>1. CASE UNCHANGED <<vars, voiceVars>>
      BY <2>1 DEF vars, voiceVars, collectionVars, plexerVars, Created, Allocated, V!vars,
                  V!gameVars, V!collectionVars, V!listenerVars
    <2> QED
      BY <2>1, GamesMap, VoicesMap DEF NextBoth
  <1> QED
    BY <1>1, <1>2, <1>3, PTL DEF SpecBoth, ImplementsVoiceServer, V!Spec

=============================================================================
