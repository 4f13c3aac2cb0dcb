-------------------------- MODULE GameServerProofs --------------------------
(***************************************************************************)
(* Proofs about GameServer for every number of descriptors, connections and *)
(* blocks, every queue bound and every choice of requests and failures: who *)
(* owns what, what clients are told, and where the main thread can block.   *)
(***************************************************************************)
EXTENDS GameServer, TLAPS

\* The program counters say what the plexer holds: a block while it is about
\* to register one, nothing otherwise.
HandHeld == IF plexer = "add" THEN hand \in Envs ELSE hand = NULL

\* An open descriptor is that of a connection that was made and not closed.
OpenIsConnected == \A f \in Fds : Open(f) => peer[conn[f]] \in {"up", "closed", "reset"}

\* Who holds which block and which descriptor.
Ownership == HandHeld /\ TableConsistent /\ DescriptorsOwnedOnce /\ EnvsAccounted

\* The inductive invariant: the properties that TLC checks one by one need
\* each other, and the two facts above.
IInv ==
    /\ TypeOK
    /\ Ownership
    /\ OpenIsConnected
    /\ NoLostWakeup
    /\ WatchedAreRegistered

-----------------------------------------------------------------------------
\* gcol_remove finds the two entries of the game, whichever player it is
\* called for.
LEMMA OtherUid ==
    ASSUME TypeOK, TableConsistent, NEW f \in Fds, Registered(f)
    PROVE  /\ table[f] \in Envs
           /\ get_other_uid(table[f], f) \in Fds
           /\ get_other_uid(table[f], f) # f
           /\ Sockets(table[f]) = {f, get_other_uid(table[f], f)}
           /\ Sockets(table[f]) \subseteq Fds
  <1> DEFINE e == table[f]
  <1>1. e \in Envs
    BY DEF TypeOK, CollectionTypeOK, Registered
  <1>2. env[e] \in Fds \X Fds
    BY <1>1 DEF TypeOK, CollectionTypeOK, TableConsistent, Allocated
  <1>3. env[e][1] \in Fds /\ env[e][2] \in Fds /\ env[e][1] # env[e][2]
    BY <1>1, <1>2 DEF TableConsistent
  <1>4. f \in {env[e][1], env[e][2]}
    BY DEF TableConsistent, Sockets
  <1> QED
    BY <1>1, <1>3, <1>4 DEF get_other_uid, Sockets

\* The types of what the actions write.
LEMMA TypeInit == Init => TypeOK
  BY DEF Init, TypeOK, CollectionTypeOK, gcol_init

LEMMA TellType ==
    ASSUME TypeOK, NEW C, NEW u \in {"start", "end", "opp"}
    PROVE  Tell(told, C, u) \in [Conns -> {"none", "start", "end", "opp", "quit"}]
  BY DEF Tell, TypeOK

LEMMA AdvanceType ==
    ASSUME TypeOK, NEW f \in Fds, Advance(f)
    PROVE  /\ main' \in {"arm", "serve"} /\ watch' \subseteq Fds /\ ready' \subseteq Fds
           /\ picked' \in [Fds -> Conns \cup {NULL}]
  BY DEF Advance, TypeOK

LEMMA RemoveType ==
    ASSUME TypeOK, TableConsistent, NEW f \in Fds, Registered(f), Remove(f)
    PROVE  /\ CollectionTypeOK'
           /\ peer' \in [Conns -> {"absent", "up", "closed", "reset", "gone"}]
           /\ inbox' \in [Conns -> Seq(RequestKinds)]
  <1>1. table[f] \in Envs
    BY OtherUid
  <1>2. CollectionTypeOK'
    BY <1>1 DEF Remove, gcol_remove, TypeOK, CollectionTypeOK
  <1>3. peer' \in [Conns -> {"absent", "up", "closed", "reset", "gone"}]
    BY DEF Remove, TypeOK
  <1>4. inbox' \in [Conns -> Seq(RequestKinds)]
    BY DEF Remove, TypeOK
  <1> QED
    BY <1>2, <1>3, <1>4

LEMMA ConsumeType ==
    ASSUME TypeOK, NEW f \in Fds, Open(f), inbox[conn[f]] # <<>>, Consume(f)
    PROVE  inbox' \in [Conns -> Seq(RequestKinds)]
  <1>1. conn[f] \in Conns
    BY DEF TypeOK, CollectionTypeOK, Open
  <1>2. Tail(inbox[conn[f]]) \in Seq(RequestKinds)
    BY <1>1 DEF TypeOK
  <1> QED
    BY <1>1, <1>2 DEF TypeOK, Consume

\* Every step keeps the variables in their types.
LEMMA TypeStep == ASSUME IInv, [Next]_vars PROVE TypeOK'
<1> USE DEF IInv, Ownership
<1>1. ASSUME NEW c \in Conns, NEW f \in Fds, Connect(c, f) PROVE TypeOK'
  BY <1>1 DEF Connect, TypeOK, CollectionTypeOK, plexerVars, mainVars
<1>2. ASSUME NEW c \in Conns, NEW r \in Requests, Send(c, r) PROVE TypeOK'
  <2>1. inbox' \in [Conns -> Seq(RequestKinds)]
    BY <1>2, RequestsAssumption DEF Send, TypeOK
  <2> QED
    BY <1>2, <2>1 DEF Send, TypeOK, CollectionTypeOK, collectionVars, plexerVars, mainVars
<1>3. ASSUME NEW c \in Leavers, NEW how \in Leaves, Leave(c, how) PROVE TypeOK'
  BY <1>3, LeavesAssumption
  DEF Leave, TypeOK, CollectionTypeOK, collectionVars, plexerVars, mainVars
<1>4. ASSUME NEW e \in Envs, NEW p1 \in Fds, NEW p2 \in Fds, NEW kind, Build(kind, e, p1, p2)
      PROVE TypeOK'
  BY <1>4, TellType DEF Build, make_env, TypeOK, CollectionTypeOK, mainVars
<1>5. ASSUME NEW e \in Envs, NEW p1 \in Fds, NEW p2 \in Fds, BuildFails(e, p1, p2)
      PROVE TypeOK'
  <2>1. told' \in [Conns -> {"none", "start", "end", "opp", "quit"}]
    BY <1>5, TellType DEF BuildFails
  <2> QED
    BY <1>5, <2>1 DEF BuildFails, TypeOK, CollectionTypeOK, collectionVars, mainVars
<1>6. CASE Add
  BY <1>6 DEF Add, gcol_add, HandHeld, TypeOK, CollectionTypeOK, clientVars, mainVars
<1>7. CASE Signal
  BY <1>7 DEF Signal, TypeOK, CollectionTypeOK, collectionVars, clientVars, mainVars
<1>8. CASE Arm
  BY <1>8 DEF Arm, TypeOK, CollectionTypeOK, collectionVars, clientVars, plexerVars
<1>9. CASE Wake
  BY <1>9 DEF Wake, TypeOK, CollectionTypeOK, collectionVars, clientVars, plexerVars
<1>10. CASE SelectClients
  BY <1>10
  DEF SelectClients, ReadableClients, Picks, TypeOK, CollectionTypeOK, collectionVars, clientVars,
      plexerVars
<1>11. ASSUME NEW f \in Fds, Skip(f) PROVE TypeOK'
  BY <1>11, AdvanceType
  DEF Skip, TypeOK, CollectionTypeOK, collectionVars, clientVars, plexerVars
<1>12. ASSUME NEW f \in Fds, Registered(f), Remove(f), Advance(f),
              told' \in [Conns -> {"none", "start", "end", "opp", "quit"}],
              UNCHANGED <<lobby, plexerVars, signal, server>>
       PROVE TypeOK'
  BY <1>12, AdvanceType, RemoveType DEF TypeOK, plexerVars
<1>13. ASSUME NEW f \in Fds, Registered(f), inbox[conn[f]] # <<>>, Consume(f), Advance(f),
              UNCHANGED <<collectionVars, peer, told, lobby, plexerVars, signal, server>>
       PROVE TypeOK'
  <2>1. Open(f)
    BY <1>13 DEF TableConsistent
  <2> QED
    BY <1>13, <2>1, AdvanceType, ConsumeType DEF TypeOK, CollectionTypeOK, collectionVars, plexerVars
<1>14. ASSUME NEW f \in Fds, HandleDisconnect(f) PROVE TypeOK'
  BY <1>12, <1>14, TellType DEF HandleDisconnect, ReadsEndOfFile, gcol_get, Registered
<1>15. ASSUME NEW f \in Fds, HandleQuit(f) PROVE TypeOK'
  BY <1>12, <1>15, TellType DEF HandleQuit, Reads, gcol_get, Registered
<1>16. ASSUME NEW f \in Fds, HandleShort(f) \/ HandleInvalid(f) \/ HandleMove(f) PROVE TypeOK'
  BY <1>13, <1>16 DEF HandleShort, HandleInvalid, HandleMove, Reads, gcol_get, Registered
<1>17. ASSUME NEW f \in Fds, HandleLastMove(f) \/ HandleMoveUnanswered(f) PROVE TypeOK'
  BY <1>12, <1>17, TellType DEF HandleLastMove, HandleMoveUnanswered, Reads, gcol_get, Registered
<1>18. CASE Dies
  BY <1>18 DEF Dies, TypeOK, CollectionTypeOK, collectionVars, clientVars, plexerVars, mainVars
<1>19. CASE AddFreed
  BY <1>19 DEF AddFreed, TypeOK, CollectionTypeOK, collectionVars, clientVars, plexerVars, mainVars
<1>20. CASE UNCHANGED vars
  BY <1>20 DEF vars, TypeOK, CollectionTypeOK, collectionVars, clientVars, plexerVars, mainVars
<1> QED
  BY <1>1, <1>2, <1>3, <1>4, <1>5, <1>6, <1>7, <1>8, <1>9, <1>10, <1>11, <1>14, <1>15, <1>16,
     <1>17, <1>18, <1>19, <1>20
  DEF Next, ClientStep, PlexerStep, MainStep, Serve, PlexerKilled, MainKilledByOther,
      MainKilledByReader, MainCrashes

-----------------------------------------------------------------------------
\* What a removal does to the collection, in terms of the game removed.
LEMMA RemoveEffect ==
    ASSUME TypeOK, TableConsistent, NEW f \in Fds, Registered(f), Remove(f)
    PROVE  \E e \in Envs :
        /\ table[f] = e /\ Allocated(e) /\ Sockets(e) \subseteq Fds /\ f \in Sockets(e)
        /\ table' = [g \in Fds |-> IF g \in Sockets(e) THEN NULL ELSE table[g]]
        /\ conn'  = [g \in Fds |-> IF g \in Sockets(e) THEN NULL ELSE conn[g]]
        /\ env'   = [env EXCEPT ![e] = NULL]
        /\ GameConns(f) = {conn[g] : g \in Sockets(e)}
  <1> DEFINE e == table[f]
             other == get_other_uid(e, f)
  <1>1. e \in Envs /\ other \in Fds /\ Sockets(e) = {f, other}
    BY OtherUid
  <1>2. GameConns(f) = {conn[g] : g \in Sockets(e)}
    BY <1>1 DEF GameConns, OtherConn
  <1>3. Allocated(e)
    BY DEF TableConsistent
  <1>4. /\ table' = [g \in Fds |-> IF g \in Sockets(e) THEN NULL ELSE table[g]]
        /\ conn'  = [g \in Fds |-> IF g \in Sockets(e) THEN NULL ELSE conn[g]]
        /\ env'   = [env EXCEPT ![e] = NULL]
    <2>1. Remove(f) => gcol_remove(f)
      BY DEF Remove
    <2> QED
      BY <1>1, <2>1 DEF gcol_remove
  <1> QED
    BY <1>1, <1>2, <1>3, <1>4

\* Steps that touch neither the collection nor who holds what.
LEMMA OwnershipFrame ==
    ASSUME Ownership, UNCHANGED <<collectionVars, lobby, plexerVars>>
    PROVE  Ownership'
  BY DEF Ownership, HandHeld, TableConsistent, DescriptorsOwnedOnce, EnvsAccounted, Registered,
         Allocated, Open, Sockets, collectionVars, plexerVars

LEMMA ConnectOwnership ==
    ASSUME IInv, NEW c \in Conns, NEW f \in Fds, Connect(c, f)
    PROVE  Ownership'
  <1> USE DEF Connect, plexerVars, Open, Registered, Allocated, Sockets
  <1>1. conn' = [conn EXCEPT ![f] = c] /\ conn[f] = NULL /\ c # NULL
    BY NullAssumption
  <1>2. \A g \in Fds : conn[g] # c
    BY <1>1, NullAssumption DEF IInv, OpenIsConnected
  <1>3. table[f] = NULL
    BY <1>1 DEF IInv, Ownership, TableConsistent
  <1>4. HandHeld'
    BY DEF IInv, Ownership, HandHeld
  <1>5. TableConsistent'
    BY <1>1 DEF IInv, TypeOK, CollectionTypeOK, Ownership, TableConsistent
  <1>6. DescriptorsOwnedOnce'
    <2>1. (\A g, h \in Fds : Open(g) /\ conn[g] = conn[h] => g = h)'
      BY <1>1, <1>2 DEF IInv, TypeOK, CollectionTypeOK, Ownership, DescriptorsOwnedOnce
    <2>2. (\A g \in lobby : Open(g) /\ ~Registered(g))'
      BY <1>1, <1>3 DEF IInv, TypeOK, CollectionTypeOK, Ownership, DescriptorsOwnedOnce
    <2>3. ASSUME plexer = "add", Allocated(hand)
          PROVE  /\ env[hand][1] # env[hand][2]
                 /\ (\A g \in Sockets(hand) : Open(g) /\ g \notin lobby /\ ~Registered(g))'
      <3>1. hand \in Envs /\ \A g \in Sockets(hand) : g \in Fds /\ g # f
        BY <1>1, <2>3 DEF IInv, TypeOK, CollectionTypeOK, Ownership, HandHeld, DescriptorsOwnedOnce
      <3> QED
        BY <1>1, <2>3, <3>1 DEF IInv, TypeOK, CollectionTypeOK, Ownership, DescriptorsOwnedOnce
    <2> QED
      BY <2>1, <2>2, <2>3 DEF DescriptorsOwnedOnce
  <1>7. EnvsAccounted'
    BY DEF IInv, Ownership, EnvsAccounted
  <1> QED
    BY <1>4, <1>5, <1>6, <1>7 DEF Ownership

LEMMA BuildOwnership ==
    ASSUME IInv, NEW e \in Envs, NEW p1 \in Fds, NEW p2 \in Fds, NEW kind,
           Build(kind, e, p1, p2)
    PROVE  Ownership'
  <1> USE DEF Build, Pair, make_env, Open, Registered, Allocated, Sockets
  <1>1. /\ env[e] = NULL /\ env' = [env EXCEPT ![e] = <<p1, p2>>] /\ <<p1, p2>> # NULL
        /\ p1 \in lobby /\ p2 \in lobby /\ p1 # p2
    BY NullAssumption
  <1>2. env'[e] = <<p1, p2>> /\ \A d \in Envs : d # e => env'[d] = env[d]
    BY <1>1 DEF IInv, TypeOK, CollectionTypeOK
  <1>3. \A f \in Fds : table[f] # e
    BY <1>1, NullAssumption DEF IInv, Ownership, TableConsistent
  <1>4. HandHeld'
    BY DEF HandHeld
  <1>5. TableConsistent'
    BY <1>2, <1>3 DEF IInv, TypeOK, CollectionTypeOK, Ownership, TableConsistent
  <1>6. DescriptorsOwnedOnce'
    BY <1>1, <1>2 DEF IInv, Ownership, DescriptorsOwnedOnce
  <1>7. EnvsAccounted'
    BY <1>1, <1>2, <1>3 DEF IInv, Ownership, EnvsAccounted
  <1> QED
    BY <1>4, <1>5, <1>6, <1>7 DEF Ownership

LEMMA BuildFailsOwnership ==
    ASSUME IInv, NEW e \in Envs, NEW p1 \in Fds, NEW p2 \in Fds, BuildFails(e, p1, p2)
    PROVE  Ownership'
  <1> USE DEF BuildFails, collectionVars, Open, Registered, Allocated, Sockets
  <1>1. HandHeld'
    BY DEF HandHeld
  <1>2. TableConsistent'
    BY DEF IInv, Ownership, TableConsistent
  <1>3. DescriptorsOwnedOnce'
    BY DEF IInv, Ownership, DescriptorsOwnedOnce
  <1>4. EnvsAccounted'
    BY DEF IInv, Ownership, EnvsAccounted
  <1> QED
    BY <1>1, <1>2, <1>3, <1>4 DEF Ownership

LEMMA AddOwnership == ASSUME IInv, Add PROVE Ownership'
  <1> USE DEF Add, gcol_add, Open, Registered, Allocated, Sockets
  <1>1. /\ hand \in Envs /\ hand # NULL /\ plexer = "add" /\ plexer' = "signal" /\ hand' = NULL
        /\ env[hand][1] # env[hand][2]
        /\ \A f \in Sockets(hand) : Open(f) /\ f \notin lobby /\ ~Registered(f)
    BY NullAssumption DEF IInv, Ownership, HandHeld, DescriptorsOwnedOnce
  <1>2. env[hand] \in Fds \X Fds /\ Sockets(hand) \subseteq Fds
    BY <1>1 DEF IInv, TypeOK, CollectionTypeOK
  <1>3. \A f \in Fds : table'[f] = IF f \in Sockets(hand) THEN hand ELSE table[f]
    OBVIOUS
  <1>4. \A f \in Fds : table[f] # hand
    BY <1>1, <1>2 DEF IInv, Ownership, TableConsistent
  <1>5. HandHeld'
    BY <1>1 DEF HandHeld
  <1>6. TableConsistent'
    <2>1. ASSUME NEW f \in Fds, f \in Sockets(hand)
          PROVE  /\ table'[f] = hand
                 /\ \A g \in Fds : table'[g] = hand <=> g \in Sockets(hand)
      BY <1>3, <1>4, <2>1
    <2>2. ASSUME NEW f \in Fds, f \notin Sockets(hand), table[f] # NULL, NEW g \in Fds
          PROVE  /\ table'[f] = table[f]
                 /\ table'[g] = table[f] <=> table[g] = table[f]
      BY <1>1, <1>3, <1>4, <2>2
    <2> QED
      BY <1>1, <1>3, <2>1, <2>2 DEF IInv, Ownership, TableConsistent
  <1>7. DescriptorsOwnedOnce'
    BY <1>1, <1>2, <1>3 DEF IInv, TypeOK, Ownership, DescriptorsOwnedOnce
  <1>8. EnvsAccounted'
    <2>1. ASSUME NEW d \in Envs, d = hand
          PROVE  Allocated(d)' /\ \E f \in Fds : table'[f] = d
      BY <1>1, <1>2, <1>3, <2>1
    <2>2. ASSUME NEW d \in Envs, d # hand
          PROVE  Allocated(d)' <=> \E f \in Fds : table'[f] = d
      <3>1. Allocated(d) <=> \E f \in Fds : table[f] = d
        BY <2>2 DEF IInv, Ownership, EnvsAccounted
      <3>2. \A f \in Fds : table'[f] = d <=> table[f] = d
        BY <1>1, <1>3, <2>2, NullAssumption
      <3> QED
        BY <3>1, <3>2
    <2> QED
      BY <1>1, <2>1, <2>2 DEF EnvsAccounted
  <1> QED
    BY <1>5, <1>6, <1>7, <1>8 DEF Ownership

LEMMA RemoveOwnership ==
    ASSUME IInv, NEW f \in Fds, Registered(f), Remove(f), UNCHANGED <<lobby, plexerVars>>
    PROVE  Ownership'
  <1>1. TypeOK /\ TableConsistent
    BY DEF IInv, Ownership
  <1>2. PICK e \in Envs :
        /\ table[f] = e /\ Allocated(e) /\ Sockets(e) \subseteq Fds /\ f \in Sockets(e)
        /\ table' = [g \in Fds |-> IF g \in Sockets(e) THEN NULL ELSE table[g]]
        /\ conn'  = [g \in Fds |-> IF g \in Sockets(e) THEN NULL ELSE conn[g]]
        /\ env'   = [env EXCEPT ![e] = NULL]
    BY <1>1, RemoveEffect
  <1> USE DEF plexerVars, Open, Registered
  <1>3. \A g \in Fds : table[g] = e <=> g \in Sockets(e)
    BY <1>1, <1>2 DEF TableConsistent
  <1>4. env'[e] = NULL /\ \A d \in Envs : d # e => env'[d] = env[d] /\ Sockets(d)' = Sockets(d)
    BY <1>1, <1>2 DEF TypeOK, CollectionTypeOK, Sockets
  <1>5. HandHeld'
    BY DEF IInv, Ownership, HandHeld
  <1>6. ASSUME NEW g \in Fds, Registered(g)'
        PROVE  table[g] \in Envs /\ table[g] # e /\ table'[g] = table[g] /\ g \notin Sockets(e)
    BY <1>1, <1>2, <1>3, <1>6 DEF TypeOK, CollectionTypeOK
  <1>7. TableConsistent'
    <2> SUFFICES ASSUME NEW g \in Fds, Registered(g)'
                 PROVE  /\ Allocated(table[g])' /\ (g \in Sockets(table[g]))'
                        /\ (env[table[g]][1] # env[table[g]][2])'
                        /\ (\A h \in Fds : table[h] = table[g] <=> h \in Sockets(table[g]))'
                        /\ (\A h \in Sockets(table[g]) : Open(h))'
      BY DEF TableConsistent
    <2> DEFINE d == table[g]
    <2>1. d \in Envs /\ d # e /\ table'[g] = d /\ d # NULL
      BY <1>6, NullAssumption
    <2>2. /\ Allocated(d) /\ g \in Sockets(d) /\ env[d][1] # env[d][2]
          /\ \A h \in Fds : table[h] = d <=> h \in Sockets(d)
          /\ \A h \in Sockets(d) : Open(h)
      BY <1>1, <2>1 DEF TableConsistent
    <2>3. Sockets(d) \subseteq Fds
      BY <1>1, <2>1, <2>2 DEF TypeOK, CollectionTypeOK, Sockets, Allocated
    <2>4. \A h \in Sockets(d) : h \notin Sockets(e)
      BY <1>3, <2>1, <2>2, <2>3
    <2>5. Allocated(d)' /\ (env[d][1] # env[d][2])'
      BY <1>4, <2>1, <2>2 DEF Allocated
    <2>6. \A h \in Fds : table'[h] = d <=> h \in Sockets(d)
      BY <1>2, <2>1, <2>2, <2>4
    <2>7. \A h \in Sockets(d) : conn'[h] # NULL
      BY <1>2, <2>2, <2>3, <2>4
    <2> QED
      BY <1>4, <2>1, <2>2, <2>5, <2>6, <2>7
  <1>8. DescriptorsOwnedOnce'
    <2>1. (\A g, h \in Fds : Open(g) /\ conn[g] = conn[h] => g = h)'
      BY <1>2 DEF IInv, Ownership, DescriptorsOwnedOnce
    <2>2. (\A g \in lobby : Open(g) /\ ~Registered(g))'
      BY <1>1, <1>2, <1>3, NullAssumption
      DEF IInv, Ownership, DescriptorsOwnedOnce, TypeOK, CollectionTypeOK
    <2>3. ASSUME plexer = "add", Allocated(hand)'
          PROVE  /\ (env[hand][1] # env[hand][2])'
                 /\ (\A g \in Sockets(hand) : Open(g) /\ g \notin lobby /\ ~Registered(g))'
      <3>1. hand \in Envs /\ hand # e /\ Allocated(hand) /\ Sockets(hand) \subseteq Fds
        BY <1>1, <1>4, <2>3
        DEF IInv, Ownership, HandHeld, Allocated, TypeOK, CollectionTypeOK, Sockets
      <3>2. /\ env[hand][1] # env[hand][2]
            /\ \A g \in Sockets(hand) : Open(g) /\ g \notin lobby /\ ~Registered(g)
        BY <2>3, <3>1 DEF IInv, Ownership, DescriptorsOwnedOnce
      <3>3. \A g \in Sockets(hand) : g \notin Sockets(e)
        BY <1>2, <1>3, <3>1, <3>2, NullAssumption
      <3>4. Sockets(hand)' = Sockets(hand) /\ (env[hand][1] # env[hand][2])'
        BY <1>4, <3>1, <3>2 DEF Sockets
      <3> QED
        BY <1>2, <3>1, <3>2, <3>3, <3>4
    <2> QED
      BY <2>1, <2>2, <2>3 DEF DescriptorsOwnedOnce
  <1>9. EnvsAccounted'
    <2>1. ~Allocated(e)' /\ ~(\E g \in Fds : table'[g] = e)
      BY <1>2, <1>3, <1>4, NullAssumption DEF Allocated
    <2>2. ASSUME NEW d \in Envs, d # e
          PROVE  /\ Allocated(d)' <=> Allocated(d)
                 /\ (\E g \in Fds : table'[g] = d) <=> (\E g \in Fds : table[g] = d)
      BY <1>2, <1>3, <1>4, <2>2, NullAssumption DEF Allocated
    <2> QED
      BY <2>1, <2>2 DEF IInv, Ownership, EnvsAccounted
  <1> QED
    BY <1>5, <1>7, <1>8, <1>9 DEF Ownership

\* Every step that is not one of the five above leaves ownership alone.
LEMMA OwnershipStep == ASSUME IInv, [Next]_vars PROVE Ownership'
<1>1. ASSUME NEW c \in Conns, NEW f \in Fds, Connect(c, f) PROVE Ownership'
  BY <1>1, ConnectOwnership
<1>2. ASSUME NEW e \in Envs, NEW p1 \in Fds, NEW p2 \in Fds, NEW kind,
             Build(kind, e, p1, p2) \/ BuildFails(e, p1, p2)
      PROVE  Ownership'
  BY <1>2, BuildOwnership, BuildFailsOwnership
<1>3. CASE Add
  BY <1>3, AddOwnership
<1>4. CASE Signal
  BY <1>4
  DEF Signal, collectionVars, IInv, Ownership, HandHeld, TableConsistent, DescriptorsOwnedOnce,
      EnvsAccounted, Registered, Allocated, Open, Sockets
<1>5. ASSUME NEW f \in Fds,
             \/ HandleDisconnect(f) \/ HandleQuit(f)
             \/ HandleLastMove(f) \/ HandleMoveUnanswered(f)
      PROVE  Registered(f) /\ Remove(f) /\ UNCHANGED <<lobby, plexerVars>>
  BY <1>5
  DEF HandleDisconnect, HandleQuit, HandleLastMove, HandleMoveUnanswered, ReadsEndOfFile, Reads,
      gcol_get, Registered
<1>6. ASSUME NEW f \in Fds,
             \/ HandleDisconnect(f) \/ HandleQuit(f)
             \/ HandleLastMove(f) \/ HandleMoveUnanswered(f)
      PROVE  Ownership'
  BY <1>5, <1>6, RemoveOwnership
<1>7. ASSUME NEW f \in Fds, Skip(f) \/ HandleShort(f) \/ HandleInvalid(f) \/ HandleMove(f)
      PROVE  UNCHANGED <<collectionVars, lobby, plexerVars>>
  BY <1>7 DEF Skip, HandleShort, HandleInvalid, HandleMove
<1>8. ASSUME NEW c, NEW r, Send(c, r) \/ Leave(c, r)
      PROVE  UNCHANGED <<collectionVars, lobby, plexerVars>>
  BY <1>8 DEF Send, Leave
<1>9. ASSUME Arm \/ Wake \/ SelectClients \/ Dies \/ AddFreed \/ UNCHANGED vars
      PROVE  UNCHANGED <<collectionVars, lobby, plexerVars>>
  BY <1>9 DEF Arm, Wake, SelectClients, Dies, AddFreed, vars, clientVars, plexerVars
<1>10. IInv => Ownership
  BY DEF IInv
<1> QED
  BY <1>1, <1>2, <1>3, <1>4, <1>6, <1>7, <1>8, <1>9, <1>10, OwnershipFrame
  DEF Next, ClientStep, PlexerStep, MainStep, Serve, PlexerKilled, MainKilledByOther,
      MainKilledByReader, MainCrashes

\* Only connections whose descriptors are closed become "gone".
LEMMA ConnectedStep == ASSUME IInv, [Next]_vars PROVE OpenIsConnected'
<1> USE DEF OpenIsConnected, Open
<1>1. OpenIsConnected /\ TypeOK /\ TableConsistent /\ DescriptorsOwnedOnce
  BY DEF IInv, Ownership
<1>2. ASSUME NEW c \in Conns, NEW f \in Fds, Connect(c, f) PROVE OpenIsConnected'
  BY <1>1, <1>2 DEF Connect, TypeOK, CollectionTypeOK
<1>3. ASSUME NEW c \in Leavers, NEW how \in Leaves, Leave(c, how) PROVE OpenIsConnected'
  BY <1>1, <1>3, LeavesAssumption DEF Leave, TypeOK, CollectionTypeOK, collectionVars
<1>4. ASSUME NEW f \in Fds, Registered(f), Remove(f) PROVE OpenIsConnected'
  <2>1. PICK e \in Envs :
          /\ conn'  = [g \in Fds |-> IF g \in Sockets(e) THEN NULL ELSE conn[g]]
          /\ GameConns(f) = {conn[g] : g \in Sockets(e)}
          /\ Sockets(e) \subseteq Fds
    BY <1>1, <1>4, RemoveEffect
  <2>2. peer' = [c \in Conns |-> IF c \in GameConns(f) THEN "gone" ELSE peer[c]]
    BY <1>4 DEF Remove
  <2>3. ASSUME NEW g \in Fds, Open(g)'
        PROVE  conn'[g] = conn[g] /\ conn[g] \in Conns /\ conn[g] \notin GameConns(f)
    BY <1>1, <2>1, <2>3 DEF TypeOK, CollectionTypeOK, DescriptorsOwnedOnce
  <2> QED
    BY <1>1, <2>2, <2>3
<1>5. ASSUME NEW f \in Fds,
             \/ HandleDisconnect(f) \/ HandleQuit(f)
             \/ HandleLastMove(f) \/ HandleMoveUnanswered(f)
      PROVE  Registered(f) /\ Remove(f)
  BY <1>5
  DEF HandleDisconnect, HandleQuit, HandleLastMove, HandleMoveUnanswered, ReadsEndOfFile, Reads,
      gcol_get, Registered
<1>6. ASSUME NEW f \in Fds, Skip(f) \/ HandleShort(f) \/ HandleInvalid(f) \/ HandleMove(f)
      PROVE  UNCHANGED <<conn, peer>>
  BY <1>6 DEF Skip, HandleShort, HandleInvalid, HandleMove, collectionVars, clientVars
<1>7. ASSUME NEW c, NEW r, Send(c, r) PROVE UNCHANGED <<conn, peer>>
  BY <1>7 DEF Send, collectionVars
<1>8. ASSUME NEW kind, NEW e, NEW p1, NEW p2, Build(kind, e, p1, p2) \/ BuildFails(e, p1, p2)
      PROVE  UNCHANGED <<conn, peer>>
  BY <1>8 DEF Build, BuildFails, collectionVars
<1>9. ASSUME \/ Add \/ Signal \/ Arm \/ Wake \/ SelectClients \/ Dies \/ AddFreed
             \/ UNCHANGED vars
      PROVE  UNCHANGED <<conn, peer>>
  BY <1>9
  DEF Add, Signal, Arm, Wake, SelectClients, Dies, AddFreed, vars, collectionVars, clientVars
<1>10. UNCHANGED <<conn, peer>> => OpenIsConnected'
  BY <1>1
<1> QED
  BY <1>2, <1>3, <1>4, <1>5, <1>6, <1>7, <1>8, <1>9, <1>10
  DEF Next, ClientStep, PlexerStep, MainStep, Serve, PlexerKilled, MainKilledByOther,
      MainKilledByReader, MainCrashes

\* A game is registered before its byte is written, and the set the main
\* thread sleeps on is built under the lock: the wakeup cannot be lost.
LEMMA WakeupStep == ASSUME IInv, [Next]_vars PROVE NoLostWakeup' /\ WatchedAreRegistered'
<1> USE DEF NoLostWakeup, WatchedAreRegistered, Registered, Open
<1>1. TypeOK /\ TableConsistent /\ DescriptorsOwnedOnce /\ NoLostWakeup /\ WatchedAreRegistered
  BY DEF IInv, Ownership
<1>2. ASSUME NEW c \in Conns, NEW f \in Fds, Connect(c, f)
      PROVE  NoLostWakeup' /\ WatchedAreRegistered'
  BY <1>1, <1>2, NullAssumption DEF Connect, TypeOK, CollectionTypeOK, plexerVars, mainVars
<1>3. CASE Add
  <2>1. \A f \in Fds : table[f] # NULL => table'[f] # NULL
    BY <1>1, <1>3, NullAssumption DEF Add, gcol_add, IInv, Ownership, HandHeld
  <2> QED
    BY <1>1, <1>3, <2>1 DEF Add, mainVars, TypeOK
<1>4. CASE Signal
  BY <1>1, <1>4 DEF Signal, collectionVars, mainVars, TypeOK
<1>5. CASE Arm
  BY <1>1, <1>5 DEF Arm, gcol_get, collectionVars, TableConsistent
<1>6. ASSUME NEW f \in Fds, Serve(f) PROVE main' # "select" \/ UNCHANGED vars \/ Dies
  BY <1>6
  DEF Serve, Skip, HandleDisconnect, HandleQuit, HandleShort, HandleInvalid, HandleMove,
      HandleLastMove, HandleMoveUnanswered, MainKilledByOther, MainKilledByReader, MainCrashes,
      Advance
<1>7. ASSUME NEW c, NEW r, Send(c, r) \/ Leave(c, r)
      PROVE  UNCHANGED <<collectionVars, plexerVars, signal, mainVars>>
  BY <1>7 DEF Send, Leave
<1>8. ASSUME NEW kind, NEW e, NEW p1, NEW p2, Build(kind, e, p1, p2) \/ BuildFails(e, p1, p2)
      PROVE  UNCHANGED <<conn, table, signal, mainVars>> /\ plexer # "signal"
  BY <1>8 DEF Build, BuildFails, collectionVars
<1>9. ASSUME Dies \/ AddFreed \/ UNCHANGED vars
      PROVE  UNCHANGED <<collectionVars, plexerVars, signal, mainVars>>
  BY <1>9 DEF Dies, AddFreed, vars
<1>10. UNCHANGED <<conn, table, signal, mainVars>> /\ (plexer = "signal" => plexer' = "signal")
         => NoLostWakeup' /\ WatchedAreRegistered'
  BY <1>1 DEF mainVars
<1>11. Wake \/ SelectClients => main' # "select"
  BY DEF Wake, SelectClients
<1>12. main' # "select" => NoLostWakeup' /\ WatchedAreRegistered'
  OBVIOUS
<1> QED
  BY <1>2, <1>3, <1>4, <1>5, <1>6, <1>7, <1>8, <1>9, <1>10, <1>11, <1>12
  DEF Next, ClientStep, PlexerStep, MainStep, PlexerKilled, collectionVars, plexerVars

LEMMA InvInit == Init => IInv
<1> SUFFICES ASSUME Init PROVE IInv
  OBVIOUS
<1>1. TypeOK
  BY TypeInit
<1>2. Ownership
  BY NullAssumption
  DEF Init, gcol_init, Ownership, HandHeld, TableConsistent, DescriptorsOwnedOnce, EnvsAccounted,
      Registered, Allocated, Open
<1>3. OpenIsConnected /\ NoLostWakeup /\ WatchedAreRegistered
  BY DEF Init, gcol_init, OpenIsConnected, NoLostWakeup, WatchedAreRegistered, Registered, Open
<1> QED
  BY <1>1, <1>2, <1>3 DEF IInv

LEMMA InvStep == IInv /\ [Next]_vars => IInv'
  BY TypeStep, OwnershipStep, ConnectedStep, WakeupStep DEF IInv

\* The invariant holds in every reachable state.
THEOREM Invariance == Spec => []IInv
  BY InvInit, InvStep, PTL DEF Spec

\* Every variable keeps its type.
THEOREM TypeCorrect == Spec => []TypeOK
  BY Invariance, PTL DEF IInv

\* gcol_add and gcol_remove keep the two entries of every game together, on a
\* block that is allocated and on descriptors that are open.
THEOREM TableAlwaysConsistent == Spec => []TableConsistent
<1>1. IInv => TableConsistent
  BY DEF IInv, Ownership
<1> QED
  BY <1>1, Invariance, PTL

\* A descriptor is in one place: the lobby, the plexer's hand, or one game.
THEOREM DescriptorsAlwaysOwnedOnce == Spec => []DescriptorsOwnedOnce
<1>1. IInv => DescriptorsOwnedOnce
  BY DEF IInv, Ownership
<1> QED
  BY <1>1, Invariance, PTL

\* Blocks are neither leaked nor freed twice.
THEOREM EnvsAlwaysAccounted == Spec => []EnvsAccounted
<1>1. IInv => EnvsAccounted
  BY DEF IInv, Ownership
<1> QED
  BY <1>1, Invariance, PTL

\* A main thread that sleeps on an old set has a byte in the pipe or coming.
THEOREM WakeupNeverLost == Spec => []NoLostWakeup
  BY Invariance, PTL DEF IInv

\* select is never given a descriptor that was closed.
THEOREM WatchedAlwaysRegistered == Spec => []WatchedAreRegistered
  BY Invariance, PTL DEF IInv

-----------------------------------------------------------------------------
\* Closing is the last thing that happens to a client, after it was told why.
LEMMA SilentCloseStep ==
    ASSUME IInv, Next, NEW f \in Fds, Open(f), conn'[f] # conn[f], peer[conn[f]] = "up"
    PROVE  told'[conn[f]] \in {"end", "opp", "quit"}
<1>1. TypeOK /\ TableConsistent /\ conn[f] \in Conns
  BY DEF IInv, Ownership, TypeOK, CollectionTypeOK, Open
<1>2. ASSUME NEW c \in Conns, NEW g \in Fds, Connect(c, g) PROVE FALSE
  BY <1>1, <1>2 DEF Connect, Open, TypeOK, CollectionTypeOK
<1>3. ASSUME UNCHANGED conn PROVE FALSE
  BY <1>3
<1>4. ASSUME NEW g \in Fds, Registered(g), Remove(g)
      PROVE  conn[f] \in {conn[g], OtherConn(g)}
  <2>1. PICK e \in Envs :
          /\ conn' = [h \in Fds |-> IF h \in Sockets(e) THEN NULL ELSE conn[h]]
          /\ GameConns(g) = {conn[h] : h \in Sockets(e)}
    BY <1>1, <1>4, RemoveEffect
  <2> QED
    BY <2>1 DEF GameConns
<1>5. ASSUME NEW g \in Fds, HandleDisconnect(g) PROVE told'[conn[f]] \in {"end", "opp", "quit"}
  BY <1>1, <1>4, <1>5
  DEF HandleDisconnect, ReadsEndOfFile, gcol_get, Registered, Tell, TypeOK
<1>6. ASSUME NEW g \in Fds, HandleQuit(g) PROVE told'[conn[f]] \in {"end", "opp", "quit"}
  BY <1>1, <1>4, <1>6 DEF HandleQuit, Reads, gcol_get, Registered, Tell, TypeOK
<1>7. ASSUME NEW g \in Fds, HandleLastMove(g) PROVE told'[conn[f]] \in {"end", "opp", "quit"}
  BY <1>1, <1>4, <1>7 DEF HandleLastMove, Reads, gcol_get, Registered, Tell, GameConns, TypeOK
<1>8. ASSUME NEW g \in Fds, HandleMoveUnanswered(g)
      PROVE  told'[conn[f]] \in {"end", "opp", "quit"}
  BY <1>1, <1>4, <1>8
  DEF HandleMoveUnanswered, Reads, gcol_get, Registered, Tell, CanFail, TypeOK
<1>9. ASSUME NEW g \in Fds, Skip(g) \/ HandleShort(g) \/ HandleInvalid(g) \/ HandleMove(g)
      PROVE  UNCHANGED conn
  BY <1>9 DEF Skip, HandleShort, HandleInvalid, HandleMove, collectionVars
<1>10. ASSUME NEW c, NEW r, Send(c, r) \/ Leave(c, r) PROVE UNCHANGED conn
  BY <1>10 DEF Send, Leave, collectionVars
<1>11. ASSUME NEW kind, NEW e, NEW p1, NEW p2, Build(kind, e, p1, p2) \/ BuildFails(e, p1, p2)
       PROVE  UNCHANGED conn
  BY <1>11 DEF Build, BuildFails, collectionVars
<1>12. ASSUME Add \/ Signal \/ Arm \/ Wake \/ SelectClients \/ Dies \/ AddFreed
       PROVE  UNCHANGED conn
  BY <1>12 DEF Add, Signal, Arm, Wake, SelectClients, Dies, AddFreed, collectionVars
<1> QED
  BY <1>2, <1>3, <1>5, <1>6, <1>7, <1>8, <1>9, <1>10, <1>11, <1>12
  DEF Next, ClientStep, PlexerStep, MainStep, Serve, PlexerKilled, MainKilledByOther,
      MainKilledByReader, MainCrashes

\* No client that is still there is closed on without having been told how the
\* game ended, unless it asked to quit.
THEOREM NeverClosesSilently == Spec => NoSilentClose
<1>1. IInv /\ [Next]_vars =>
        [\A f \in Fds : Open(f) /\ conn'[f] # conn[f] /\ peer[conn[f]] = "up" =>
             told'[conn[f]] \in {"end", "opp", "quit"}]_vars
  BY SilentCloseStep
<1> QED
  BY <1>1, Invariance, PTL DEF Spec, NoSilentClose

-----------------------------------------------------------------------------
(* What clients are told: FarewellCloses and StoryInOrder, on top of IInv.  *)

\* A client whose game is registered, or about to be.
InHand(f) == plexer = "add" /\ Allocated(hand) /\ f \in Sockets(hand)
InGame(f) == Registered(f) \/ InHand(f)

\* The plexer holds a block that a failed start freed.
Failed == plexer = "add" /\ ~Allocated(hand)

\* Clients are told nothing before there is a connection.
NothingBefore == \A c \in Conns : peer[c] = "absent" => told[c] = "none"

\* In the lobby they are told nothing either.
NothingInLobby == \A f \in lobby : told[conn[f]] = "none"

\* In a game a client that is there was told that it started, and no more.
StartInGame ==
    \A f \in Fds : InGame(f) =>
        /\ told[conn[f]] \in {"none", "start"}
        /\ peer[conn[f]] = "up" => told[conn[f]] = "start"

\* A descriptor is open for the lobby, for a game, or for a failed start.
OpenIsOwned == \A f \in Fds : Open(f) => f \in lobby \/ InGame(f) \/ Failed

StoryInv == NothingBefore /\ NothingInLobby /\ StartInGame /\ OpenIsOwned

-----------------------------------------------------------------------------
\* What the invariant of the collection says of open descriptors.
LEMMA OpenFacts ==
    ASSUME IInv
    PROVE  /\ TypeOK /\ TableConsistent /\ DescriptorsOwnedOnce
           /\ \A f \in Fds : Open(f) => conn[f] \in Conns
           /\ \A f \in lobby : f \in Fds /\ Open(f)
           /\ \A f \in Fds : InGame(f) => Open(f) /\ f \notin lobby
           /\ \A f, g \in Fds : Open(f) /\ conn[f] = conn[g] => f = g
  <1>1. TypeOK /\ TableConsistent /\ DescriptorsOwnedOnce
    BY DEF IInv, Ownership
  <1>2. \A f \in Fds : Open(f) => conn[f] \in Conns
    BY <1>1 DEF TypeOK, CollectionTypeOK, Open
  <1>3. \A f \in lobby : f \in Fds /\ Open(f)
    BY <1>1 DEF TypeOK, DescriptorsOwnedOnce
  <1>4. \A f \in Fds : InGame(f) => Open(f) /\ f \notin lobby
    BY <1>1 DEF InGame, InHand, TableConsistent, DescriptorsOwnedOnce
  <1>5. \A f, g \in Fds : Open(f) /\ conn[f] = conn[g] => f = g
    BY <1>1 DEF DescriptorsOwnedOnce
  <1> QED
    BY <1>1, <1>2, <1>3, <1>4, <1>5

\* The opponent of a registered client is a registered client.
LEMMA OtherIsInGame ==
    ASSUME IInv, NEW f \in Fds, Registered(f)
    PROVE  LET g == get_other_uid(table[f], f)
           IN  g \in Fds /\ Registered(g) /\ Open(g) /\ OtherConn(f) = conn[g]
  <1>1. TypeOK /\ TableConsistent
    BY OpenFacts
  <1>2. /\ table[f] \in Envs /\ get_other_uid(table[f], f) \in Fds
        /\ get_other_uid(table[f], f) \in Sockets(table[f])
    BY <1>1, OtherUid
  <1> QED
    BY <1>1, <1>2 DEF TableConsistent, Registered, OtherConn

\* The steps that end a game, each for a client that is registered.
Removal(f) == HandleDisconnect(f) \/ HandleQuit(f) \/ HandleLastMove(f) \/ HandleMoveUnanswered(f)

\* What a removal tells: its two clients only, "end" to those that are there.
LEMMA RemovalTells ==
    ASSUME IInv, NEW f \in Fds, Removal(f)
    PROVE  /\ Registered(f) /\ Remove(f) /\ UNCHANGED <<lobby, plexerVars>>
           /\ \A c \in Conns :
                 \/ told'[c] = told[c]
                 \/ c \in GameConns(f) /\ told'[c] \in {"opp", "quit"}
                 \/ c \in GameConns(f) /\ told'[c] = "end" /\ peer[c] = "up"
  <1>1. TypeOK
    BY OpenFacts
  <1>2. Registered(f) /\ Remove(f) /\ UNCHANGED <<lobby, plexerVars>>
    BY DEF Removal, HandleDisconnect, HandleQuit, HandleLastMove, HandleMoveUnanswered,
           ReadsEndOfFile, Reads, gcol_get, Registered
  <1>3. ASSUME NEW c \in Conns
        PROVE  \/ told'[c] = told[c]
               \/ c \in GameConns(f) /\ told'[c] \in {"opp", "quit"}
               \/ c \in GameConns(f) /\ told'[c] = "end" /\ peer[c] = "up"
    <2>1. CASE HandleDisconnect(f) \/ HandleMoveUnanswered(f)
      BY <2>1 DEF HandleDisconnect, HandleMoveUnanswered, Tell, GameConns
    <2>2. CASE HandleQuit(f)
      BY <1>1, <2>2 DEF HandleQuit, Tell, GameConns
    <2>3. CASE HandleLastMove(f)
      BY <2>3 DEF HandleLastMove, Tell
    <2> QED
      BY <2>1, <2>2, <2>3 DEF Removal
  <1> QED
    BY <1>2, <1>3

-----------------------------------------------------------------------------
(* The invariant, step by step.                                             *)

LEMMA StoryInit == Init => StoryInv
  BY DEF Init, gcol_init, StoryInv, NothingBefore, NothingInLobby, StartInGame, OpenIsOwned,
         InGame, InHand, Registered, Open

LEMMA ConnectStory ==
    ASSUME IInv, StoryInv, NEW c \in Conns, NEW f \in Fds, Connect(c, f)
    PROVE  StoryInv'
  <1>1. /\ conn' = [conn EXCEPT ![f] = c] /\ ~Open(f)
        /\ peer[c] = "absent" /\ peer' = [peer EXCEPT ![c] = "up"]
        /\ lobby' = lobby \cup {f}
        /\ UNCHANGED <<env, table, told, plexer, hand>>
    BY DEF Connect, plexerVars
  <1>2. \A g \in Fds : g # f => conn'[g] = conn[g]
    BY <1>1, OpenFacts DEF TypeOK, CollectionTypeOK
  <1>3. \A g \in Fds : Open(g) => g # f /\ conn[g] # c
    BY <1>1 DEF IInv, OpenIsConnected
  <1>4. conn'[f] = c
    BY <1>1, OpenFacts DEF TypeOK, CollectionTypeOK
  <1>5. NothingBefore'
    BY <1>1, OpenFacts DEF StoryInv, NothingBefore, TypeOK
  <1>6. NothingInLobby'
    BY <1>1, <1>2, <1>3, <1>4, OpenFacts DEF StoryInv, NothingBefore, NothingInLobby
  <1>7. \A g \in Fds : InGame(g)' <=> InGame(g)
    BY <1>1 DEF InGame, InHand, Registered, Allocated, Sockets
  <1>8. StartInGame'
    <2> SUFFICES ASSUME NEW g \in Fds, InGame(g)
                 PROVE  /\ told[conn'[g]] \in {"none", "start"}
                        /\ peer'[conn'[g]] = "up" => told[conn'[g]] = "start"
      BY <1>1, <1>7 DEF StartInGame
    <2>1. conn'[g] = conn[g] /\ conn[g] # c /\ conn[g] \in Conns
      BY <1>2, <1>3, OpenFacts
    <2> QED
      BY <1>1, <2>1, OpenFacts DEF StoryInv, StartInGame, TypeOK
  <1>9. OpenIsOwned'
    BY <1>1, <1>2, <1>7 DEF StoryInv, OpenIsOwned, Open, Failed, Allocated
  <1> QED
    BY <1>5, <1>6, <1>8, <1>9 DEF StoryInv

\* Clients that send, hang up or abort are told nothing.
LEMMA FrameStory ==
    ASSUME IInv, StoryInv, UNCHANGED <<collectionVars, told, lobby, plexerVars>>,
           \A c \in Conns : peer'[c] \in {"absent", "up"} => peer'[c] = peer[c]
    PROVE  StoryInv'
  <1> USE DEF collectionVars, plexerVars
  <1>1. NothingBefore' /\ NothingInLobby'
    BY DEF StoryInv, NothingBefore, NothingInLobby
  <1>2. \A f \in Fds : InGame(f)' <=> InGame(f)
    BY DEF InGame, InHand, Registered, Allocated, Sockets
  <1>3. StartInGame'
    BY <1>2, OpenFacts DEF StoryInv, StartInGame
  <1>4. OpenIsOwned'
    BY <1>2 DEF StoryInv, OpenIsOwned, Open, Failed, Allocated
  <1> QED
    BY <1>1, <1>3, <1>4 DEF StoryInv

\* What a pair of the lobby is told, when its game starts or does not.
LEMMA PairStory ==
    ASSUME IInv, StoryInv, NEW p1 \in Fds, NEW p2 \in Fds, Pair(p1, p2), plexer = "idle",
           NEW C \in SUBSET {conn[p1], conn[p2]}, NEW u, told' = Tell(told, C, u),
           UNCHANGED <<conn, table, peer>>, lobby' = lobby \ {p1, p2}
    PROVE  /\ NothingBefore' /\ NothingInLobby'
           /\ \A f \in Fds : Registered(f) => told'[conn[f]] = told[conn[f]]
  <1>1. /\ p1 \in lobby /\ p2 \in lobby /\ Open(p1) /\ Open(p2)
        /\ conn[p1] \in Conns /\ conn[p2] \in Conns
    BY OpenFacts DEF Pair
  <1>2. \A c \in Conns : told'[c] = IF c \in C /\ peer[c] = "up" THEN u ELSE told[c]
    BY DEF Tell
  <1>3. \A f \in Fds : Open(f) /\ f \notin {p1, p2} => conn[f] \notin C
    BY OpenFacts
  <1>4. NothingBefore'
    BY <1>2 DEF StoryInv, NothingBefore
  <1>5. NothingInLobby'
    BY <1>2, <1>3, OpenFacts DEF StoryInv, NothingInLobby
  <1>6. \A f \in Fds : Registered(f) => Open(f) /\ f \notin {p1, p2}
    BY <1>1, OpenFacts DEF InGame
  <1> QED
    BY <1>2, <1>3, <1>4, <1>5, <1>6, OpenFacts

LEMMA BuildStory ==
    ASSUME IInv, StoryInv, NEW e \in Envs, NEW p1 \in Fds, NEW p2 \in Fds, NEW kind,
           Build(kind, e, p1, p2)
    PROVE  StoryInv'
  <1>1. /\ Pair(p1, p2) /\ plexer = "idle" /\ plexer' = "add" /\ hand' = e
        /\ env' = [env EXCEPT ![e] = <<p1, p2>>]
        /\ told' = Tell(told, {conn[p1], conn[p2]}, "start")
        /\ lobby' = lobby \ {p1, p2} /\ UNCHANGED <<conn, table, peer>>
    BY DEF Build, make_env
  <1>2. /\ NothingBefore' /\ NothingInLobby'
        /\ \A f \in Fds : Registered(f) => told'[conn[f]] = told[conn[f]]
    BY <1>1, PairStory
  <1>3. env'[e] = <<p1, p2>> /\ <<p1, p2>> # NULL
    BY <1>1, OpenFacts, NullAssumption DEF TypeOK, CollectionTypeOK
  <1>4. \A f \in Fds : InGame(f)' <=> Registered(f) \/ f \in {p1, p2}
    BY <1>1, <1>3 DEF InGame, InHand, Registered, Allocated, Sockets
  <1>5. \A f \in {p1, p2} :
           /\ told'[conn[f]] \in {"none", "start"}
           /\ peer[conn[f]] = "up" => told'[conn[f]] = "start"
    <2>1. \A f \in {p1, p2} : told[conn[f]] = "none" /\ conn[f] \in Conns
      BY <1>1, OpenFacts DEF Pair, StoryInv, NothingInLobby
    <2> QED
      BY <1>1, <2>1 DEF Tell
  <1>6. StartInGame'
    BY <1>1, <1>2, <1>4, <1>5 DEF StoryInv, StartInGame, InGame
  <1>7. OpenIsOwned'
    BY <1>1, <1>4 DEF StoryInv, OpenIsOwned, Open, InGame, InHand, Failed
  <1> QED
    BY <1>2, <1>6, <1>7 DEF StoryInv

LEMMA BuildFailsStory ==
    ASSUME IInv, StoryInv, NEW e \in Envs, NEW p1 \in Fds, NEW p2 \in Fds,
           BuildFails(e, p1, p2)
    PROVE  StoryInv'
  <1>1. /\ Pair(p1, p2) /\ plexer = "idle" /\ plexer' = "add" /\ hand' = e /\ ~Allocated(e)
        /\ \E p \in {p1, p2} : told' = Tell(told, {conn[p]}, "opp")
        /\ lobby' = lobby \ {p1, p2} /\ UNCHANGED <<conn, env, table, peer>>
    BY DEF BuildFails, collectionVars
  <1>2. /\ NothingBefore' /\ NothingInLobby'
        /\ \A f \in Fds : Registered(f) => told'[conn[f]] = told[conn[f]]
    <2>1. PICK p \in {p1, p2} : told' = Tell(told, {conn[p]}, "opp")
      BY <1>1
    <2>2. {conn[p]} \in SUBSET {conn[p1], conn[p2]}
      OBVIOUS
    <2> QED
      BY <1>1, <2>1, <2>2, PairStory
  <1>3. ~Allocated(hand)'
    BY <1>1 DEF Allocated
  <1>4. StartInGame'
    BY <1>1, <1>2, <1>3 DEF StoryInv, StartInGame, InGame, InHand, Registered
  <1>5. OpenIsOwned'
    BY <1>1, <1>3 DEF OpenIsOwned, Failed
  <1> QED
    BY <1>2, <1>4, <1>5 DEF StoryInv

LEMMA AddStory == ASSUME IInv, StoryInv, Add PROVE StoryInv'
  <1>1. /\ plexer = "add" /\ plexer' = "signal" /\ Allocated(hand) /\ hand \in Envs
        /\ table' = [f \in Fds |-> IF f \in Sockets(hand) THEN hand ELSE table[f]]
        /\ UNCHANGED <<conn, env, peer, told, lobby>>
    BY DEF Add, gcol_add, clientVars, IInv, Ownership, HandHeld
  <1>2. \A f \in Fds : InGame(f)' <=> InGame(f)
    BY <1>1, NullAssumption DEF InGame, InHand, Registered
  <1>3. ~Failed
    BY <1>1 DEF Failed
  <1> QED
    BY <1>1, <1>2, <1>3
    DEF StoryInv, NothingBefore, NothingInLobby, StartInGame, OpenIsOwned, Open

LEMMA RemovalStory ==
    ASSUME IInv, StoryInv, NEW f \in Fds, Removal(f)
    PROVE  StoryInv'
  <1>1. /\ Registered(f) /\ Remove(f) /\ UNCHANGED <<lobby, plexer, hand>>
        /\ \A c \in Conns : c \notin GameConns(f) => told'[c] = told[c]
    BY RemovalTells DEF plexerVars
  <1>2. PICK e \in Envs :
          /\ table[f] = e /\ Allocated(e) /\ Sockets(e) \subseteq Fds /\ f \in Sockets(e)
          /\ table' = [g \in Fds |-> IF g \in Sockets(e) THEN NULL ELSE table[g]]
          /\ conn'  = [g \in Fds |-> IF g \in Sockets(e) THEN NULL ELSE conn[g]]
          /\ env'   = [env EXCEPT ![e] = NULL]
          /\ GameConns(f) = {conn[g] : g \in Sockets(e)}
    BY <1>1, OpenFacts, RemoveEffect
  <1>3. peer' = [c \in Conns |-> IF c \in GameConns(f) THEN "gone" ELSE peer[c]]
    BY <1>1 DEF Remove
  <1>4. \A g \in Sockets(e) : Registered(g) /\ Open(g)
    BY <1>1, <1>2, OpenFacts DEF TableConsistent, Registered
  <1>5. ASSUME NEW g \in Fds, g \notin Sockets(e)
        PROVE  /\ table'[g] = table[g] /\ conn'[g] = conn[g]
               /\ Open(g) => /\ conn[g] \in Conns /\ conn[g] \notin GameConns(f)
                             /\ told'[conn[g]] = told[conn[g]] /\ peer'[conn[g]] = peer[conn[g]]
    BY <1>1, <1>2, <1>3, <1>4, <1>5, OpenFacts
  <1>6. \A g \in Fds : g \in Sockets(e) => ~Open(g)' /\ ~Registered(g)'
    BY <1>2 DEF Open, Registered
  <1>7. ASSUME plexer = "add", Allocated(hand)
        PROVE  hand # e /\ \A g \in Sockets(hand) : g \in Fds /\ g \notin Sockets(e)
    <2>1. hand \in Envs /\ \A g \in Sockets(hand) : ~Registered(g)
      BY <1>7, OpenFacts DEF DescriptorsOwnedOnce, IInv, Ownership, HandHeld
    <2>2. Sockets(hand) \subseteq Fds
      BY <1>7, <2>1, OpenFacts DEF TypeOK, CollectionTypeOK, Allocated, Sockets
    <2> QED
      BY <1>2, <1>4, <2>1, <2>2
  <1>8. plexer = "add" => (Allocated(hand)' <=> Allocated(hand))
    <2>1. plexer = "add" => hand \in Envs
      BY DEF IInv, Ownership, HandHeld
    <2>2. \A d \in Envs : env'[d] = IF d = e THEN NULL ELSE env[d]
      BY <1>2, OpenFacts DEF TypeOK, CollectionTypeOK
    <2> QED
      BY <1>1, <1>7, <2>1, <2>2 DEF Allocated
  <1>9. ASSUME NEW g \in Fds
        PROVE  InHand(g)' <=> InHand(g)
    <2>1. plexer = "add" /\ Allocated(hand) => Sockets(hand)' = Sockets(hand)
      <3>1. plexer = "add" /\ Allocated(hand) => hand \in Envs /\ hand # e
        BY <1>7 DEF IInv, Ownership, HandHeld
      <3>2. plexer = "add" /\ Allocated(hand) => env'[hand] = env[hand]
        BY <1>2, <3>1, OpenFacts DEF TypeOK, CollectionTypeOK
      <3> QED
        BY <1>1, <3>2 DEF Sockets
    <2> QED
      BY <1>1, <1>8, <2>1 DEF InHand
  <1>10. \A g \in Fds : InGame(g)' => InGame(g) /\ g \notin Sockets(e)
    <2> SUFFICES ASSUME NEW g \in Fds, InGame(g)' PROVE InGame(g) /\ g \notin Sockets(e)
      OBVIOUS
    <2>1. CASE Registered(g)'
      BY <1>5, <1>6, <2>1 DEF InGame, Registered
    <2>2. CASE InHand(g)'
      BY <1>7, <1>9, <2>2 DEF InGame, InHand
    <2> QED
      BY <2>1, <2>2 DEF InGame
  <1>11. NothingBefore'
    BY <1>1, <1>3 DEF StoryInv, NothingBefore
  <1>12. NothingInLobby'
    <2>1. \A g \in lobby : g \in Fds /\ Open(g) /\ g \notin Sockets(e)
      BY <1>4, OpenFacts DEF InGame
    <2> QED
      BY <1>1, <1>5, <2>1 DEF StoryInv, NothingInLobby
  <1>13. StartInGame'
    BY <1>5, <1>10, OpenFacts DEF StoryInv, StartInGame
  <1>14. OpenIsOwned'
    <2> SUFFICES ASSUME NEW g \in Fds, Open(g)' PROVE (g \in lobby \/ InGame(g) \/ Failed)'
      BY DEF OpenIsOwned
    <2>1. g \notin Sockets(e) /\ Open(g) /\ table'[g] = table[g]
      BY <1>5, <1>6 DEF Open
    <2>2. g \in lobby \/ Registered(g) \/ InHand(g) \/ Failed
      BY <2>1 DEF StoryInv, OpenIsOwned, InGame
    <2> QED
      BY <1>1, <1>8, <1>9, <2>1, <2>2 DEF InGame, Registered, Failed
  <1> QED
    BY <1>11, <1>12, <1>13, <1>14 DEF StoryInv

\* Every step is one of six kinds, or tells nobody anything.
LEMMA StepsListed ==
    ASSUME IInv, [Next]_vars
    PROVE  \/ \E c \in Conns, f \in Fds : Connect(c, f)
           \/ \E e \in Envs, p1, p2 \in Fds, kind \in Kinds : Build(kind, e, p1, p2)
           \/ \E e \in Envs, p1, p2 \in Fds : BuildFails(e, p1, p2)
           \/ Add
           \/ Signal
           \/ \E f \in Fds : Removal(f)
           \/ /\ UNCHANGED <<collectionVars, told, lobby, plexerVars>>
              /\ \A c \in Conns : peer'[c] \in {"absent", "up"} => peer'[c] = peer[c]
  <1>1. ASSUME NEW c \in Conns, NEW r \in Requests, Send(c, r)
        PROVE  UNCHANGED <<collectionVars, told, lobby, plexerVars, peer>>
    BY <1>1 DEF Send
  <1>2. ASSUME NEW c \in Leavers, NEW how \in Leaves, Leave(c, how)
        PROVE  /\ UNCHANGED <<collectionVars, told, lobby, plexerVars>>
               /\ \A d \in Conns : peer'[d] \in {"absent", "up"} => peer'[d] = peer[d]
    BY <1>2, OpenFacts, LeavesAssumption DEF Leave, TypeOK
  <1>3. ASSUME NEW f \in Fds, Skip(f) \/ HandleShort(f) \/ HandleInvalid(f) \/ HandleMove(f)
        PROVE  UNCHANGED <<collectionVars, told, lobby, plexerVars, peer>>
    BY <1>3 DEF Skip, HandleShort, HandleInvalid, HandleMove, clientVars
  <1>4. ASSUME AddFreed \/ Arm \/ Wake \/ SelectClients \/ Dies \/ UNCHANGED vars
        PROVE  UNCHANGED <<collectionVars, told, lobby, plexerVars, peer>>
    BY <1>4 DEF AddFreed, Arm, Wake, SelectClients, Dies, vars, clientVars
  <1> QED
    BY <1>1, <1>2, <1>3, <1>4
    DEF Next, ClientStep, PlexerStep, MainStep, Serve, Removal, PlexerKilled, MainKilledByOther,
        MainKilledByReader, MainCrashes

LEMMA StoryStep == IInv /\ StoryInv /\ [Next]_vars => StoryInv'
  <1> SUFFICES ASSUME IInv, StoryInv, [Next]_vars PROVE StoryInv'
    OBVIOUS
  <1>1. CASE Signal
    <2>1. /\ UNCHANGED <<collectionVars, clientVars, lobby, hand>>
          /\ plexer = "signal" /\ plexer' = "idle"
      BY <1>1 DEF Signal
    <2> QED
      BY <2>1
      DEF StoryInv, NothingBefore, NothingInLobby, StartInGame, OpenIsOwned, Open, InGame, InHand,
          Failed, Registered, collectionVars, clientVars
  <1> QED
    BY <1>1, StepsListed, ConnectStory, FrameStory, BuildStory, BuildFailsStory, AddStory,
       RemovalStory

-----------------------------------------------------------------------------
(* The properties.                                                          *)

\* What clients were told fits where they are, in every reachable state.
THEOREM StoryInvariance == Spec => []StoryInv
  BY StoryInit, StoryStep, Invariance, PTL DEF Spec

\* A client that was told its game is over is in no game that goes on.
THEOREM FarewellAlwaysCloses == Spec => []FarewellCloses
  <1>1. IInv /\ StoryInv => FarewellCloses
    BY DEF FarewellCloses, StoryInv, NothingInLobby, StartInGame, OpenIsOwned, InGame, Failed
  <1> QED
    BY <1>1, StoryInvariance, Invariance, PTL

\* What changes when a client is told something.
LEMMA TellingStep ==
    ASSUME IInv, StoryInv, [Next]_vars, NEW c \in Conns, told'[c] # told[c]
    PROVE  \/ told[c] = "none" /\ told'[c] \in {"start", "opp", "quit"}
           \/ told[c] = "start" /\ told'[c] \in {"end", "opp", "quit"}
  <1>1. ASSUME NEW e \in Envs, NEW p1 \in Fds, NEW p2 \in Fds, NEW kind,
               Build(kind, e, p1, p2) \/ BuildFails(e, p1, p2)
        PROVE  told[c] = "none" /\ told'[c] \in {"start", "opp"}
    <2>1. Pair(p1, p2) /\ c \in {conn[p1], conn[p2]} /\ told'[c] \in {"start", "opp"}
      BY <1>1 DEF Build, BuildFails, Tell
    <2> QED
      BY <2>1 DEF Pair, StoryInv, NothingInLobby
  <1>2. ASSUME NEW f \in Fds, Removal(f)
        PROVE  \/ told[c] = "none" /\ told'[c] \in {"opp", "quit"}
               \/ told[c] = "start" /\ told'[c] \in {"end", "opp", "quit"}
    <2>1. /\ Registered(f) /\ c \in GameConns(f)
          /\ told'[c] \in {"opp", "quit"} \/ (told'[c] = "end" /\ peer[c] = "up")
      BY <1>2, RemovalTells
    <2>2. PICK g \in Fds : Registered(g) /\ conn[g] = c
      BY <2>1, OtherIsInGame DEF GameConns
    <2>3. told[c] \in {"none", "start"} /\ (peer[c] = "up" => told[c] = "start")
      BY <2>2 DEF StoryInv, StartInGame, InGame
    <2> QED
      BY <2>1, <2>3
  <1>3. ASSUME NEW d \in Conns, NEW f \in Fds, Connect(d, f) PROVE FALSE
    BY <1>3 DEF Connect
  <1>4. ASSUME Add \/ Signal PROVE FALSE
    BY <1>4 DEF Add, Signal, clientVars
  <1> QED
    BY <1>1, <1>2, <1>3, <1>4, StepsListed

\* A game starts once, ends at most once, and has no second ending.
THEOREM StoryAlwaysInOrder == Spec => StoryInOrder
  <1>1. IInv /\ StoryInv /\ [Next]_vars =>
          [\A c \in Conns : told'[c] # told[c] =>
               \/ told[c] = "none" /\ told'[c] \in {"start", "opp", "quit"}
               \/ told[c] = "start" /\ told'[c] \in {"end", "opp", "quit"}]_vars
    BY TellingStep
  <1> QED
    BY <1>1, StoryInvariance, Invariance, PTL DEF Spec, StoryInOrder

-----------------------------------------------------------------------------
(* Where the main thread can block: BlocksOnlyOnReuse, on top of IInv.      *)

\* The connections that select found were made before the pass.
PickedWereConnected == \A f \in ready : picked[f] \in Conns /\ peer[picked[f]] # "absent"

PassInv == PickedWereConnected /\ BlocksOnlyOnReuse

LEMMA PassInit == Init => PassInv
  BY DEF Init, PassInv, PickedWereConnected, BlocksOnlyOnReuse

\* A connection that takes over a descriptor is not the one select found there.
LEMMA ConnectPass ==
    ASSUME IInv, PassInv, NEW c \in Conns, NEW f \in Fds, Connect(c, f)
    PROVE  PassInv'
  <1>1. /\ peer[c] = "absent" /\ peer' = [peer EXCEPT ![c] = "up"]
        /\ conn' = [conn EXCEPT ![f] = c]
        /\ UNCHANGED <<inbox, ready, picked>>
    BY DEF Connect, mainVars
  <1>2. TypeOK
    BY OpenFacts
  <1>3. PickedWereConnected'
    BY <1>1, <1>2 DEF PassInv, PickedWereConnected, TypeOK
  <1>4. BlocksOnlyOnReuse'
    <2> SUFFICES ASSUME NEW g \in ready, Open(g)', picked[g] = conn'[g] PROVE Readable(g)'
      BY <1>1 DEF BlocksOnlyOnReuse
    <2>1. g \in Fds /\ g # f
      BY <1>1, <1>2 DEF PassInv, PickedWereConnected, TypeOK, CollectionTypeOK
    <2>2. conn'[g] = conn[g] /\ Open(g)
      BY <1>1, <1>2, <2>1 DEF TypeOK, CollectionTypeOK, Open
    <2>3. conn[g] # c
      BY <1>1, <2>1, <2>2 DEF IInv, OpenIsConnected
    <2>4. Readable(g)
      BY <2>2 DEF PassInv, BlocksOnlyOnReuse
    <2> QED
      BY <1>1, <1>2, <2>2, <2>3, <2>4 DEF Readable, TypeOK
  <1> QED
    BY <1>3, <1>4 DEF PassInv

\* What a client does only makes its descriptor readable.
LEMMA ClientPass ==
    ASSUME IInv, PassInv, NEW c \in Conns,
           \/ \E r \in Requests : Send(c, r)
           \/ \E how \in Leaves : Leave(c, how)
    PROVE  PassInv'
  <1>1. UNCHANGED <<conn, ready, picked>>
    BY DEF Send, Leave, collectionVars, mainVars
  <1>2. TypeOK
    BY OpenFacts
  <1>3. \A d \in Conns :
          /\ inbox[d] # <<>> => inbox'[d] # <<>>
          /\ peer[d] \in {"closed", "reset"} => peer'[d] \in {"closed", "reset"}
          /\ peer[d] # "absent" => peer'[d] # "absent"
    <2>1. ASSUME NEW r \in Requests, Send(c, r)
          PROVE  /\ peer' = peer
                 /\ \A d \in Conns : inbox[d] # <<>> => inbox'[d] # <<>>
      <3>1. Append(inbox[c], r) # <<>> /\ inbox' = [inbox EXCEPT ![c] = Append(inbox[c], r)]
        BY <1>2, <2>1, RequestsAssumption DEF Send, TypeOK
      <3> QED
        BY <1>2, <2>1, <3>1 DEF Send, TypeOK
    <2>2. ASSUME NEW how \in Leaves, Leave(c, how)
          PROVE  /\ inbox' = inbox
                 /\ how \in {"closed", "reset"} /\ peer' = [peer EXCEPT ![c] = how]
      BY <2>2, LeavesAssumption DEF Leave
    <2> QED
      BY <1>2, <2>1, <2>2 DEF TypeOK
  <1>4. PickedWereConnected'
    BY <1>1, <1>3 DEF PassInv, PickedWereConnected
  <1>5. BlocksOnlyOnReuse'
    <2> SUFFICES ASSUME NEW g \in ready, Open(g), picked[g] = conn[g] PROVE Readable(g)'
      BY <1>1 DEF BlocksOnlyOnReuse, Open
    <2>1. conn[g] \in Conns /\ Readable(g)
      BY DEF PassInv, PickedWereConnected, BlocksOnlyOnReuse
    <2> QED
      BY <1>1, <1>3, <2>1 DEF Readable
  <1> QED
    BY <1>4, <1>5 DEF PassInv

LEMMA SelectPass == ASSUME IInv, SelectClients PROVE PassInv'
  <1>1. /\ ready' = ReadableClients /\ UNCHANGED <<conn, peer, inbox>>
        /\ picked' = Picks(ReadableClients)
    BY DEF SelectClients, collectionVars, clientVars
  <1>2. \A f \in ReadableClients : f \in Fds /\ Open(f) /\ Readable(f)
    BY OpenFacts DEF ReadableClients, TypeOK
  <1>3. \A f \in ReadableClients : Picks(ReadableClients)[f] = conn[f]
    BY <1>2 DEF Picks
  <1>4. PickedWereConnected'
    BY <1>1, <1>2, <1>3, OpenFacts DEF PickedWereConnected, IInv, OpenIsConnected
  <1>5. BlocksOnlyOnReuse'
    BY <1>1, <1>2 DEF BlocksOnlyOnReuse, Readable
  <1> QED
    BY <1>4, <1>5 DEF PassInv

\* The descriptor that is served leaves the set, and what is taken from it, or
\* closed with it, is nobody else's.
LEMMA ServePass ==
    ASSUME IInv, PassInv, NEW f \in Fds, Registered(f), Advance(f),
           \/ Consume(f) /\ UNCHANGED <<conn, peer>>
           \/ Remove(f)
    PROVE  PassInv'
  <1>1. /\ ready' = ready \ {f}
        /\ \A g \in ready' : g \in Fds /\ picked'[g] = picked[g]
    BY OpenFacts DEF Advance, TypeOK
  <1>2. TypeOK /\ Open(f) /\ TableConsistent /\ conn[f] \in Conns
    BY OpenFacts DEF InGame
  <1>3. \A d \in Conns : peer[d] # "absent" => peer'[d] # "absent"
    BY <1>2 DEF Remove, TypeOK
  <1>4. PickedWereConnected'
    BY <1>1, <1>3 DEF PassInv, PickedWereConnected
  <1>5. ASSUME NEW g \in ready', Open(g)'
        PROVE  /\ Open(g) /\ conn'[g] = conn[g] /\ conn[g] \in Conns
               /\ peer'[conn[g]] = peer[conn[g]] /\ inbox'[conn[g]] = inbox[conn[g]]
    <2>1. CASE Consume(f) /\ UNCHANGED <<conn, peer>>
      <3>1. Open(g) /\ conn[g] \in Conns /\ conn[g] # conn[f]
        BY <1>1, <1>2, <1>5, <2>1, OpenFacts DEF Open
      <3> QED
        BY <1>2, <2>1, <3>1 DEF Consume, TypeOK
    <2>2. CASE Remove(f)
      <3>1. PICK e \in Envs :
              /\ Sockets(e) \subseteq Fds
              /\ conn' = [h \in Fds |-> IF h \in Sockets(e) THEN NULL ELSE conn[h]]
              /\ GameConns(f) = {conn[h] : h \in Sockets(e)}
        BY <1>2, <2>2, RemoveEffect
      <3>2. g \notin Sockets(e) /\ Open(g) /\ conn'[g] = conn[g] /\ conn[g] \in Conns
        BY <1>1, <1>5, <3>1, OpenFacts DEF Open
      <3>3. conn[g] \notin GameConns(f)
        BY <1>1, <3>1, <3>2, OpenFacts
      <3> QED
        BY <2>2, <3>2, <3>3 DEF Remove
    <2> QED
      BY <2>1, <2>2
  <1>6. BlocksOnlyOnReuse'
    BY <1>1, <1>5 DEF PassInv, BlocksOnlyOnReuse, Readable
  <1> QED
    BY <1>4, <1>6 DEF PassInv

LEMMA PassStep == IInv /\ PassInv /\ [Next]_vars => PassInv'
  <1> SUFFICES ASSUME IInv, PassInv, [Next]_vars PROVE PassInv'
    OBVIOUS
  <1>1. ASSUME UNCHANGED <<conn, peer, inbox, ready, picked>> PROVE PassInv'
    BY <1>1 DEF PassInv, PickedWereConnected, BlocksOnlyOnReuse, Open, Readable
  <1>2. ASSUME NEW c \in Leavers, NEW how \in Leaves, Leave(c, how) PROVE PassInv'
    BY <1>2, ClientPass, LeavesAssumption
  <1>3. ASSUME NEW e, NEW p1, NEW p2, NEW kind, Build(kind, e, p1, p2) \/ BuildFails(e, p1, p2)
        PROVE  UNCHANGED <<conn, peer, inbox, ready, picked>>
    BY <1>3 DEF Build, BuildFails, collectionVars, mainVars
  <1>4. ASSUME Add \/ AddFreed \/ Signal \/ Arm \/ Wake \/ Dies \/ UNCHANGED vars
        PROVE  UNCHANGED <<conn, peer, inbox, ready, picked>>
    BY <1>4 DEF Add, AddFreed, Signal, Arm, Wake, Dies, vars, collectionVars, clientVars, mainVars
  <1>5. ASSUME NEW f \in Fds, Skip(f) PROVE PassInv'
    <2>1. /\ ready' = ready \ {f} /\ UNCHANGED <<conn, peer, inbox>>
          /\ \A g \in ready' : picked'[g] = picked[g]
      BY <1>5, OpenFacts DEF Skip, Advance, TypeOK, collectionVars, clientVars
    <2> QED
      BY <2>1 DEF PassInv, PickedWereConnected, BlocksOnlyOnReuse, Open, Readable
  <1>6. ASSUME NEW f \in Fds, HandleShort(f) \/ HandleInvalid(f) \/ HandleMove(f) PROVE PassInv'
    BY <1>6, ServePass
    DEF HandleShort, HandleInvalid, HandleMove, Reads, gcol_get, Registered, collectionVars
  <1>7. ASSUME NEW f \in Fds, Removal(f) PROVE PassInv'
    BY <1>7, ServePass
    DEF Removal, HandleDisconnect, HandleQuit, HandleLastMove, HandleMoveUnanswered, Reads,
        ReadsEndOfFile, gcol_get, Registered
  <1> QED
    BY <1>1, <1>2, <1>3, <1>4, <1>5, <1>6, <1>7, ConnectPass, ClientPass, SelectPass
    DEF Next, ClientStep, PlexerStep, MainStep, Serve, Removal, PlexerKilled, MainKilledByOther,
        MainKilledByReader, MainCrashes

\* The main thread blocks in a read only on a descriptor that the pass it is in
\* closed and that another client was given since.
THEOREM BlocksOnlyOnReusedDescriptors == Spec => []BlocksOnlyOnReuse
  <1>1. PassInv => BlocksOnlyOnReuse
    BY DEF PassInv
  <1> QED
    BY <1>1, PassInit, PassStep, Invariance, PTL DEF Spec

=============================================================================
