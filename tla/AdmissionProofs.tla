-------------------------- MODULE AdmissionProofs --------------------------
(***************************************************************************)
(* Proofs about Admission for every set of clients: the semaphores agree    *)
(* with their lists, the handshaker holds one client at a time, which it    *)
(* has selected, the plexer leaves no pair waiting, each client is in one   *)
(* place, and the three threads together implement the lobby.               *)
(***************************************************************************)
EXTENDS Admission, Lists

\* receive_new_clients never finds the list empty, which would leave waits at
\* -1 and the thread in sem_wait for good.
WaitsOwed == hs = "rewait" => waits \in {0, 1}

\* The inductive invariant.
IInv ==
    /\ TypeOK
    /\ SemaphoresCount
    /\ WaitsOwed
    /\ HeldIsSelected
    /\ NobodyWaitsForSecond

\* Nobody is connected at first.
LEMMA InvInit == Init => IInv
<1> SUFFICES ASSUME Init PROVE IInv
  OBVIOUS
<1>1. TypeOK
  BY DEF Init, TypeOK, GameChoices, Games
<1>2. SemaphoresCount /\ WaitsOwed /\ HeldIsSelected /\ NobodyWaitsForSecond
  BY DEF Init, SemaphoresCount, WaitsOwed, HeldIsSelected, NobodyWaitsForSecond, Games
<1> QED
  BY <1>1, <1>2 DEF IInv

\* What the handshaker takes from the queue in one go: the first client is
\* kept, a second is popped as well and counted, the rest stays.
LEMMA ReceiveEffect ==
    ASSUME IInv, Receive
    PROVE  /\ newClients # <<>>
           /\ newClients' \in Seq(Clients)
           /\ clients' = Append(clients, Head(newClients))
           /\ clients' \in Seq(Clients) /\ Len(clients') = 1
           /\ waits' \in {0, 1}
           /\ newItems = Len(newClients') + waits'
           /\ forgotten' \subseteq Clients
  <1> DEFINE n == Len(newClients)
  <1>1. newClients \in Seq(Clients) /\ clients \in Seq(Clients) /\ n \in Nat /\ clients = <<>>
    BY DEF IInv, TypeOK, HeldIsSelected, Receive
  <1>2. newItems = n - 1 /\ n >= 1
    BY <1>1 DEF IInv, TypeOK, SemaphoresCount, Receive
  <1>3. \A i \in 1 .. n : newClients[i] \in Clients
    BY <1>1, ElementOfSeq
  <1>4. /\ newClients # <<>>
        /\ Append(clients, Head(newClients)) \in Seq(Clients)
        /\ Len(Append(clients, Head(newClients))) = 1
    <2>1. newClients # <<>> /\ Head(newClients) \in Clients
      BY <1>1, <1>2, HeadTailProperties
    <2> QED
      BY <1>1, <2>1, AppendProperties
  <1>5. CASE n = 1
    <2>1. newClients' = SubSeq(newClients, 2, 1) /\ waits' = 0 /\ forgotten' = forgotten
      BY <1>1, <1>5 DEF Receive, Popped
    <2>2. newClients' = <<>>
      BY <2>1, SubSeqEmpty
    <2>3. forgotten' \subseteq Clients
      BY <2>1 DEF IInv, TypeOK
    <2>4. clients' = Append(clients, Head(newClients))
      BY <1>5 DEF Receive, Popped
    <2> QED
      BY <1>1, <1>2, <1>5, <1>4, <2>1, <2>2, <2>3, <2>4
  <1>6. CASE n >= 2
    <2>1. Popped = 2
      BY <1>1, <1>6 DEF Popped
    <2>2. /\ newClients' = SubSeq(newClients, 2 + 1, n) /\ waits' = 2 - 1
          /\ forgotten' = forgotten \cup {newClients[2]}
          /\ clients' = Append(clients, Head(newClients))
      BY <2>1 DEF Receive
    <2>3. newClients' = SubSeq(newClients, 3, n) /\ waits' = 1
      BY <2>2
    <2>4. \A i \in 3 .. n : newClients[i] \in Clients
      BY <1>1, <1>3
    <2>5. newClients' \in Seq(Clients) /\ Len(newClients') = IF 3 <= n THEN n - 3 + 1 ELSE 0
      BY <1>1, <2>3, <2>4, SubSeqProperties
    <2>6. Len(newClients') = n - 2
      <3>1. CASE 3 <= n
        BY <1>1, <2>5, <3>1
      <3>2. CASE n = 2
        BY <2>5, <3>2
      <3>3. \A k \in Nat : k >= 2 => k = 2 \/ 3 <= k
        OBVIOUS
      <3> QED
        BY <1>1, <1>6, <3>1, <3>2, <3>3
    <2>7. forgotten' \subseteq Clients
      BY <1>1, <1>3, <1>6, <2>2 DEF IInv, TypeOK
    <2> QED
      BY <1>1, <1>2, <1>6, <1>4, <2>2, <2>3, <2>5, <2>6, <2>7
  <1> QED
    BY <1>1, <1>2, <1>5, <1>6

\* The plexer pops a record: its client and its game are of the right kinds.
LEMMA PlexNextEffect ==
    ASSUME IInv, PlexNext
    PROVE  /\ handshaked # <<>> /\ Head(handshaked) \in Handshaked
           /\ handshaked' \in Seq(Handshaked) /\ Len(handshaked') = Len(handshaked) - 1
           /\ Append(players[Head(handshaked).game_choice], Head(handshaked).client_fd)
                  \in Seq(Clients)
           /\ Len(Append(players[Head(handshaked).game_choice], Head(handshaked).client_fd))
                  = Len(players[Head(handshaked).game_choice]) + 1
  <1>1. handshaked \in Seq(Handshaked) /\ Len(handshaked) > 0
    BY DEF IInv, TypeOK, SemaphoresCount, PlexNext
  <1>2. /\ handshaked # <<>> /\ Head(handshaked) \in Handshaked
        /\ Tail(handshaked) \in Seq(Handshaked) /\ Len(Tail(handshaked)) = Len(handshaked) - 1
    BY <1>1, HeadTailProperties
  <1>3. /\ Head(handshaked).client_fd \in Clients
        /\ players[Head(handshaked).game_choice] \in Seq(Clients)
    BY <1>2 DEF IInv, TypeOK, Handshaked
  <1>4. handshaked' = Tail(handshaked)
    BY DEF PlexNext
  <1> QED
    BY <1>2, <1>3, <1>4, AppendProperties

\* A list with items is not the empty one.
LEMMA NotEmpty ==
    ASSUME NEW S, NEW s \in Seq(S), Len(s) > 0
    PROVE  s # <<>>
  BY EmptySeq

\* A list of one client is empty after a pop.
LEMMA TailOfOne ==
    ASSUME NEW S, NEW s \in Seq(S), Len(s) = 1
    PROVE  Tail(s) = <<>>
  <1>1. s # <<>>
    BY EmptySeq
  <1>2. Tail(s) \in Seq(S) /\ Len(Tail(s)) = 0
    BY <1>1, HeadTailProperties
  <1> QED
    BY <1>2, EmptySeq

\* A game is built of two clients, and its queue is then empty.
LEMMA BuildGameEffect ==
    ASSUME IInv, BuildGame
    PROVE  /\ plexer \in Games
           /\ games' \in Seq(Pairs)
           /\ players' = [players EXCEPT ![plexer] = <<>>]
  <1> DEFINE queue == players[plexer]
  <1>1. plexer \in Games /\ queue \in Seq(Clients) /\ Len(queue) = 2
    BY DEF IInv, TypeOK, NobodyWaitsForSecond, BuildGame
  <1>2. queue[1] \in Clients /\ queue[2] \in Clients
    BY <1>1, ElementOfSeq
  <1>3. Tail(Tail(queue)) = <<>>
    <2>1. queue # <<>>
      BY <1>1, NotEmpty
    <2>2. Tail(queue) \in Seq(Clients) /\ Len(Tail(queue)) = 1
      BY <1>1, <2>1, HeadTailProperties
    <2> QED
      BY <2>2, TailOfOne
  <1>4. [game |-> plexer, p1 |-> queue[1], p2 |-> queue[2]] \in Pairs
    BY <1>1, <1>2 DEF Pairs
  <1>5. games' \in Seq(Pairs)
    BY <1>4 DEF IInv, TypeOK, BuildGame
  <1> QED
    BY <1>1, <1>3, <1>5 DEF BuildGame

\* The client the handshaker shakes hands with is the only one it holds.
LEMMA ShakingEffect ==
    ASSUME IInv, NEW c \in Clients, Shaking(c)
    PROVE  clients \in Seq(Clients) /\ Len(clients) = 1 /\ Tail(clients) = <<>>
  <1>1. clients \in Seq(Clients) /\ Len(clients) <= 1 /\ clients # <<>>
    BY DEF IInv, TypeOK, HeldIsSelected, Shaking
  <1>2. Len(clients) \in Nat \ {0}
    BY <1>1, EmptySeq
  <1>3. \A k \in Nat \ {0} : k <= 1 => k = 1
    OBVIOUS
  <1>4. Len(clients) = 1
    BY <1>1, <1>2, <1>3
  <1> QED
    BY <1>1, <1>4, TailOfOne

-----------------------------------------------------------------------------
(* The invariant is kept by the clients, by the handshaker while it receives *)
(* and while it shakes hands, and by the plexer.                             *)

\* What clients do reaches the threads only through new_clients.
LEMMA ClientKeeps ==
    ASSUME IInv, ClientStep
    PROVE  IInv'
  <1>1. ASSUME NEW c \in Clients, Accept(c)
        PROVE  IInv'
    <2>1. newClients \in Seq(Clients) /\ newItems \in Nat
      BY DEF IInv, TypeOK
    <2>2. /\ newClients' \in Seq(Clients) /\ Len(newClients') = Len(newClients) + 1
          /\ newItems' = newItems + 1
      BY <1>1, <2>1, AppendProperties DEF Accept
    <2>3. TypeOK'
      BY <1>1, <2>1, <2>2
         DEF IInv, TypeOK, Accept, handshakeVars, handshakedVars, plexerVars
    <2>4. SemaphoresCount'
      BY <1>1, <2>1, <2>2
         DEF IInv, TypeOK, SemaphoresCount, Accept, handshakeVars, handshakedVars
    <2>5. WaitsOwed' /\ HeldIsSelected' /\ NobodyWaitsForSecond'
      BY <1>1 DEF IInv, WaitsOwed, HeldIsSelected, NobodyWaitsForSecond, Accept,
                  handshakeVars, plexerVars
    <2> QED
      BY <2>3, <2>4, <2>5 DEF IInv
  <1>2. ASSUME NEW c \in Clients, NEW m \in GameChoices, Choose(c, m)
        PROVE  IInv'
    <2>1. TypeOK'
      BY <1>2 DEF IInv, TypeOK, Choose, newVars, handshakeVars, handshakedVars, plexerVars
    <2>2. SemaphoresCount' /\ WaitsOwed' /\ HeldIsSelected' /\ NobodyWaitsForSecond'
      BY <1>2 DEF IInv, SemaphoresCount, WaitsOwed, HeldIsSelected, NobodyWaitsForSecond,
                  Choose, newVars, handshakeVars, handshakedVars, plexerVars
    <2> QED
      BY <2>1, <2>2 DEF IInv
  <1>3. ASSUME NEW c \in Clients, HangUp(c)
        PROVE  IInv'
    <2>1. TypeOK'
      BY <1>3 DEF IInv, TypeOK, HangUp, newVars, handshakeVars, handshakedVars, plexerVars
    <2>2. SemaphoresCount' /\ WaitsOwed' /\ HeldIsSelected' /\ NobodyWaitsForSecond'
      BY <1>3 DEF IInv, SemaphoresCount, WaitsOwed, HeldIsSelected, NobodyWaitsForSecond,
                  HangUp, newVars, handshakeVars, handshakedVars, plexerVars
    <2> QED
      BY <2>1, <2>2 DEF IInv
  <1> QED
    BY <1>1, <1>2, <1>3 DEF ClientStep

\* receive_new_clients and await_select.
LEMMA ReceivingKeeps ==
    ASSUME IInv, Wait \/ Receive \/ Rewait \/ Received \/ Select
    PROVE  IInv'
  <1>1. CASE Wait
    <2>1. TypeOK'
      BY <1>1 DEF IInv, TypeOK, Wait, netVars, handshakedVars, plexerVars
    <2>2. SemaphoresCount'
      BY <1>1 DEF IInv, TypeOK, SemaphoresCount, Wait, handshakedVars
    <2>3. WaitsOwed' /\ HeldIsSelected' /\ NobodyWaitsForSecond'
      BY <1>1 DEF IInv, WaitsOwed, HeldIsSelected, NobodyWaitsForSecond, Wait, plexerVars
    <2> QED
      BY <2>1, <2>2, <2>3 DEF IInv
  <1>2. CASE Receive
    <2>1. TypeOK'
      BY <1>2, ReceiveEffect DEF IInv, TypeOK, Receive, netVars, handshakedVars, plexerVars
    <2>2. SemaphoresCount'
      BY <1>2, ReceiveEffect DEF IInv, SemaphoresCount, Receive, handshakedVars
    <2>3. WaitsOwed' /\ HeldIsSelected' /\ NobodyWaitsForSecond'
      BY <1>2, ReceiveEffect
         DEF IInv, WaitsOwed, HeldIsSelected, NobodyWaitsForSecond, Receive, plexerVars
    <2> QED
      BY <2>1, <2>2, <2>3 DEF IInv
  <1>3. CASE Rewait
    <2>1. waits = 1 /\ waits' = 0
      BY <1>3 DEF IInv, WaitsOwed, Rewait
    <2>2. TypeOK'
      BY <1>3, <2>1 DEF IInv, TypeOK, Rewait, netVars, handshakedVars, plexerVars
    <2>3. SemaphoresCount'
      BY <1>3, <2>1 DEF IInv, TypeOK, SemaphoresCount, Rewait, handshakedVars
    <2>4. WaitsOwed' /\ HeldIsSelected' /\ NobodyWaitsForSecond'
      BY <1>3, <2>1
         DEF IInv, WaitsOwed, HeldIsSelected, NobodyWaitsForSecond, Rewait, plexerVars
    <2> QED
      BY <2>2, <2>3, <2>4 DEF IInv
  <1>4. CASE Received
    <2>1. TypeOK'
      BY <1>4 DEF IInv, TypeOK, Received, netVars, newVars, handshakedVars, plexerVars
    <2>2. SemaphoresCount'
      BY <1>4 DEF IInv, TypeOK, SemaphoresCount, Received, newVars, handshakedVars
    <2>3. WaitsOwed' /\ HeldIsSelected' /\ NobodyWaitsForSecond'
      BY <1>4 DEF IInv, WaitsOwed, HeldIsSelected, NobodyWaitsForSecond, Received, plexerVars
    <2> QED
      BY <2>1, <2>2, <2>3 DEF IInv
  <1>5. CASE Select
    <2>1. clients \in Seq(Clients) /\ Len(clients) = 1 /\ DOMAIN clients = {1}
      BY <1>5, LenProperties DEF IInv, TypeOK, HeldIsSelected, Select
    <2>2. clients[1] \in selector' /\ selector' \subseteq Clients
      BY <1>5, <2>1, ElementOfSeq DEF Select
    <2>3. TypeOK'
      BY <1>5, <2>2 DEF IInv, TypeOK, Select, netVars, newVars, handshakedVars, plexerVars
    <2>4. SemaphoresCount'
      BY <1>5 DEF IInv, TypeOK, SemaphoresCount, Select, newVars, handshakedVars
    <2>5. HeldIsSelected'
      BY <1>5, <2>1, <2>2 DEF HeldIsSelected, Select
    <2>6. WaitsOwed' /\ NobodyWaitsForSecond'
      BY <1>5 DEF IInv, WaitsOwed, NobodyWaitsForSecond, Select, plexerVars
    <2> QED
      BY <2>3, <2>4, <2>5, <2>6 DEF IInv
  <1> QED
    BY <1>1, <1>2, <1>3, <1>4, <1>5

\* handshake_clients and pass_handshaked_clients.
LEMMA ShakingKeeps ==
    ASSUME IInv,
           \/ \E c \in Clients : Welcome(c) \/ Refuse(c) \/ Drop(c) \/ Killed(c)
           \/ Shaken \/ Pass
    PROVE  IInv'
  <1>1. ASSUME NEW c \in Clients, Welcome(c)
        PROVE  IInv'
    <2>1. clients' = <<>> /\ clients' \in Seq(Clients)
      BY <1>1, ShakingEffect, EmptySeq DEF Welcome
    <2>2. [client_fd |-> c, game_choice |-> choice[c]] \in Handshaked
      BY <1>1 DEF Welcome, Handshaked
    <2>3. shaken' \in Seq(Handshaked)
      BY <1>1, <2>2, AppendProperties DEF IInv, TypeOK, Welcome
    <2>4. TypeOK'
      BY <1>1, <2>1, <2>3 DEF IInv, TypeOK, Welcome, newVars, handshakedVars, plexerVars
    <2>5. SemaphoresCount' /\ WaitsOwed' /\ HeldIsSelected' /\ NobodyWaitsForSecond'
      BY <1>1, <2>1 DEF IInv, SemaphoresCount, WaitsOwed, HeldIsSelected,
                        NobodyWaitsForSecond, Welcome, Shaking, newVars, handshakedVars, plexerVars
    <2> QED
      BY <2>4, <2>5 DEF IInv
  <1>2. ASSUME NEW c \in Clients, Refuse(c)
        PROVE  IInv'
    <2>1. clients' = Append(<<>>, c) /\ c \in selector
      BY <1>2, ShakingEffect DEF Refuse, Shaking
    <2>2. /\ clients' \in Seq(Clients) /\ Len(clients') = 1
          /\ DOMAIN clients' = {1} /\ clients'[1] = c
      BY <2>1
    <2>3. TypeOK'
      BY <1>2, <2>2
         DEF IInv, TypeOK, Refuse, GameChoices, newVars, handshakedVars, plexerVars
    <2>4. HeldIsSelected'
      BY <1>2, <2>1, <2>2 DEF HeldIsSelected, Refuse, Shaking
    <2>5. SemaphoresCount' /\ WaitsOwed' /\ NobodyWaitsForSecond'
      BY <1>2 DEF IInv, SemaphoresCount, WaitsOwed, NobodyWaitsForSecond, Refuse,
                  newVars, handshakedVars, plexerVars
    <2> QED
      BY <2>3, <2>4, <2>5 DEF IInv
  <1>3. ASSUME NEW c \in Clients, Drop(c)
        PROVE  IInv'
    <2>1. clients' = <<>> /\ clients' \in Seq(Clients)
      BY <1>3, ShakingEffect, EmptySeq DEF Drop
    <2>2. TypeOK'
      BY <1>3, <2>1 DEF IInv, TypeOK, Drop, netVars, newVars, handshakedVars, plexerVars
    <2>3. SemaphoresCount' /\ WaitsOwed' /\ HeldIsSelected' /\ NobodyWaitsForSecond'
      BY <1>3, <2>1 DEF IInv, SemaphoresCount, WaitsOwed, HeldIsSelected,
                        NobodyWaitsForSecond, Drop, Shaking, newVars, handshakedVars, plexerVars
    <2> QED
      BY <2>2, <2>3 DEF IInv
  <1>4. ASSUME NEW c \in Clients, Killed(c)
        PROVE  IInv'
    <2>1. TypeOK'
      BY <1>4 DEF IInv, TypeOK, Killed, netVars, newVars, handshakeVars, handshakedVars,
                  plexerVars
    <2>2. SemaphoresCount' /\ WaitsOwed' /\ HeldIsSelected' /\ NobodyWaitsForSecond'
      BY <1>4 DEF IInv, SemaphoresCount, WaitsOwed, HeldIsSelected, NobodyWaitsForSecond,
                  Killed, newVars, handshakeVars, handshakedVars, plexerVars
    <2> QED
      BY <2>1, <2>2 DEF IInv
  <1>5. CASE Shaken
    <2>1. TypeOK'
      BY <1>5 DEF IInv, TypeOK, Shaken, netVars, newVars, handshakedVars, plexerVars
    <2>2. SemaphoresCount' /\ WaitsOwed' /\ HeldIsSelected' /\ NobodyWaitsForSecond'
      BY <1>5 DEF IInv, SemaphoresCount, WaitsOwed, HeldIsSelected, NobodyWaitsForSecond,
                  Shaken, newVars, handshakedVars, plexerVars
    <2> QED
      BY <2>1, <2>2 DEF IInv
  <1>6. CASE Pass
    <2>1. /\ handshaked \in Seq(Handshaked) /\ shaken \in Seq(Handshaked)
          /\ hsItems \in Nat /\ hsItems = Len(handshaked)
      BY DEF IInv, TypeOK, SemaphoresCount
    <2>2. /\ handshaked' \in Seq(Handshaked) /\ hsItems' \in Nat
          /\ hsItems' = Len(handshaked')
      BY <1>6, <2>1, ConcatProperties, LenProperties DEF Pass
    <2>3. TypeOK'
      BY <1>6, <2>2 DEF IInv, TypeOK, Pass, netVars, newVars, plexerVars
    <2>4. SemaphoresCount'
      BY <1>6, <2>2 DEF IInv, SemaphoresCount, Pass, newVars
    <2>5. WaitsOwed' /\ HeldIsSelected' /\ NobodyWaitsForSecond'
      BY <1>6 DEF IInv, WaitsOwed, HeldIsSelected, NobodyWaitsForSecond, Pass, plexerVars
    <2> QED
      BY <2>3, <2>4, <2>5 DEF IInv
  <1> QED
    BY <1>1, <1>2, <1>3, <1>4, <1>5, <1>6

\* plex_next_client and build_game.
LEMMA PlexerKeeps ==
    ASSUME IInv, PlexerStep
    PROVE  IInv'
  <1>1. CASE PlexNext
    <2> DEFINE g     == Head(handshaked).game_choice
               queue == Append(players[g], Head(handshaked).client_fd)
    <2>1. g \in Games /\ plexer = "wait" /\ players \in [Games -> Seq(Clients)]
      BY <1>1, PlexNextEffect DEF IInv, TypeOK, Handshaked, PlexNext
    <2>2. /\ queue \in Seq(Clients) /\ Len(queue) = Len(players[g]) + 1
          /\ players[g] \in Seq(Clients)
      BY <1>1, <2>1, PlexNextEffect
    <2>3. players' = [players EXCEPT ![g] = queue]
      BY <1>1 DEF PlexNext
    <2>4. plexer' = IF Len(queue) = 2 THEN g ELSE "wait"
      BY <1>1 DEF PlexNext
    <2>5. Len(players[g]) \in Nat /\ \A h \in Games : Len(players[h]) <= 1
      BY <2>1, <2>2, LenProperties DEF IInv, NobodyWaitsForSecond, Games
    <2>6. hsItems' = hsItems - 1 /\ hsItems > 0 /\ hsItems = Len(handshaked)
      BY <1>1 DEF IInv, SemaphoresCount, PlexNext
    <2> HIDE DEF g, queue
    <2>7. TypeOK'
      <3>1. players' \in [Games -> Seq(Clients)]
        BY <2>1, <2>2, <2>3
      <3>2. hsItems' \in Nat
        BY <2>6 DEF IInv, TypeOK
      <3>3. plexer' \in {"wait"} \cup Games
        BY <2>1, <2>4
      <3>4. handshaked' \in Seq(Handshaked)
        BY <1>1, PlexNextEffect
      <3> QED
        BY <1>1, <3>1, <3>2, <3>3, <3>4
           DEF IInv, TypeOK, PlexNext, netVars, newVars, handshakeVars
    <2>8. SemaphoresCount'
      BY <1>1, <2>6, PlexNextEffect
         DEF IInv, SemaphoresCount, PlexNext, newVars, handshakeVars
    <2>9. NobodyWaitsForSecond'
      <3> SUFFICES ASSUME NEW h \in Games
                   PROVE  IF plexer' = h THEN Len(players'[h]) = 2 ELSE Len(players'[h]) <= 1
        BY DEF NobodyWaitsForSecond
      <3>1. CASE h # g
        <4>1. players'[h] = players[h] /\ plexer' # h
          BY <2>1, <2>3, <2>4, <3>1 DEF Games
        <4> QED
          BY <2>5, <4>1
      <3>2. CASE h = g
        <4>1. players'[h] = queue
          BY <2>1, <2>3, <3>2
        <4>2. Len(queue) = 2 <=> plexer' = h
          BY <2>1, <2>4, <3>2 DEF Games
        <4>3. Len(queue) <= 2 /\ Len(queue) \in Nat
          BY <2>1, <2>2, <2>5
        <4>4. \A k \in Nat : k <= 2 => k = 2 \/ k <= 1
          OBVIOUS
        <4> QED
          BY <4>1, <4>2, <4>3, <4>4
      <3> QED
        BY <3>1, <3>2
    <2>10. WaitsOwed' /\ HeldIsSelected'
      BY <1>1 DEF IInv, WaitsOwed, HeldIsSelected, PlexNext, handshakeVars
    <2> QED
      BY <2>7, <2>8, <2>9, <2>10 DEF IInv
  <1>2. CASE BuildGame
    <2>1. /\ plexer \in Games /\ games' \in Seq(Pairs) /\ plexer' = "wait"
          /\ players' = [players EXCEPT ![plexer] = <<>>]
      BY <1>2, BuildGameEffect DEF BuildGame
    <2>2. TypeOK'
      <3>1. players' \in [Games -> Seq(Clients)]
        BY <2>1, EmptySeq DEF IInv, TypeOK
      <3> QED
        BY <1>2, <2>1, <3>1 DEF IInv, TypeOK, BuildGame, netVars, newVars, handshakeVars,
                                handshakedVars
    <2>3. SemaphoresCount' /\ WaitsOwed' /\ HeldIsSelected'
      BY <1>2 DEF IInv, SemaphoresCount, WaitsOwed, HeldIsSelected, BuildGame, newVars,
                  handshakeVars, handshakedVars
    <2>4. NobodyWaitsForSecond'
      BY <2>1, EmptySeq DEF IInv, TypeOK, NobodyWaitsForSecond, Games
    <2> QED
      BY <2>2, <2>3, <2>4 DEF IInv
  <1> QED
    BY <1>1, <1>2 DEF PlexerStep

\* A stuttering step.
LEMMA StutterKeeps ==
    ASSUME IInv, UNCHANGED vars
    PROVE  IInv'
  <1>1. TypeOK'
    BY DEF IInv, TypeOK, vars, netVars, newVars, handshakeVars, handshakedVars, plexerVars
  <1>2. SemaphoresCount' /\ WaitsOwed' /\ HeldIsSelected' /\ NobodyWaitsForSecond'
    BY DEF IInv, SemaphoresCount, WaitsOwed, HeldIsSelected, NobodyWaitsForSecond, vars,
           newVars, handshakeVars, handshakedVars, plexerVars
  <1> QED
    BY <1>1, <1>2 DEF IInv

\* Every step keeps the invariant.
LEMMA InvStep == IInv /\ [Next]_vars => IInv'
  BY ClientKeeps, ReceivingKeeps, ShakingKeeps, PlexerKeeps, StutterKeeps
     DEF Next, HandshakerStep

-----------------------------------------------------------------------------
\* The inductive invariant holds in every reachable state.
THEOREM Invariance == Spec => []IInv
  BY InvInit, InvStep, PTL DEF Spec

\* Every variable keeps its type; in particular the semaphores are never
\* negative and a built game has two clients of the lobby.
THEOREM TypeCorrect == Spec => []TypeOK
  <1>1. IInv => TypeOK
    BY DEF IInv
  <1> QED
    BY Invariance, <1>1, PTL

\* The semaphores of both lists agree with the lists through every order of
\* pushes, pops and waits: no thread pops from an empty list, and none sleeps
\* while an item is there that it was not told of.
THEOREM SemaphoresAlwaysCount == Spec => []SemaphoresCount
  <1>1. IInv => SemaphoresCount
    BY DEF IInv
  <1> QED
    BY Invariance, <1>1, PTL

\* handshake_clients never takes a client select did not report, so that its
\* loop over the held clients ends.
THEOREM HeldAlwaysSelected == Spec => []HeldIsSelected
  <1>1. IInv => HeldIsSelected
    BY DEF IInv
  <1> QED
    BY Invariance, <1>1, PTL

\* The plexer starts a game as soon as two clients chose it.
THEOREM NobodyEverWaitsForSecond == Spec => []NobodyWaitsForSecond
  <1>1. IInv => NobodyWaitsForSecond
    BY DEF IInv
  <1> QED
    BY Invariance, <1>1, PTL

-----------------------------------------------------------------------------
(* Where each client is.                                                    *)

\* The descriptors in a list of handshakes, and the players of games.
Fds(s)     == [i \in DOMAIN s |-> s[i].client_fd]
Firsts(s)  == [i \in DOMAIN s |-> s[i].p1]
Seconds(s) == [i \in DOMAIN s |-> s[i].p2]

\* A name for each of the lists of Places.
Names == {"new", "held", "shaken", "handshaked", "TTT", "RPS", "first", "second"}

\* The lists, by name.
At(n) ==
    CASE n = "new"        -> newClients
      [] n = "held"       -> clients
      [] n = "shaken"     -> Fds(shaken)
      [] n = "handshaked" -> Fds(handshaked)
      [] n = "TTT"        -> players["TTT"]
      [] n = "RPS"        -> players["RPS"]
      [] n = "first"      -> Firsts(games)
      [] n = "second"     -> Seconds(games)
Where == [n \in Names |-> At(n)]

Connected == {c \in Clients : peer[c] # "absent"}

\* No client is in two lists nor twice in one; those that are in none are the
\* ones that were forgotten.
EachInOne ==
    /\ Apart(Where)
    /\ All(Where) = Connected \ forgotten
    /\ forgotten \subseteq Connected

\* The lists of descriptors are images of the lists the threads keep.
FdOf     == [h \in Handshaked |-> h.client_fd]
FirstOf  == [p \in Pairs |-> p.p1]
SecondOf == [p \in Pairs |-> p.p2]

LEMMA FdsImage ==
    ASSUME NEW s \in Seq(Handshaked)
    PROVE  Fds(s) = Image(FdOf, s)
  <1>1. \A i \in DOMAIN s : s[i] \in Handshaked
    BY LenProperties, ElementOfSeq
  <1> QED
    BY <1>1 DEF Fds, Image, FdOf

LEMMA PlayersImage ==
    ASSUME NEW s \in Seq(Pairs)
    PROVE  Firsts(s) = Image(FirstOf, s) /\ Seconds(s) = Image(SecondOf, s)
  <1>1. \A i \in DOMAIN s : s[i] \in Pairs
    BY LenProperties, ElementOfSeq
  <1> QED
    BY <1>1 DEF Firsts, Seconds, Image, FirstOf, SecondOf

\* Lists of handshakes, seen as lists of descriptors.
LEMMA FdsOf ==
    ASSUME NEW s \in Seq(Handshaked)
    PROVE  /\ Fds(s) \in Seq(Clients)
           /\ \A h \in Handshaked : Fds(Append(s, h)) = Append(Fds(s), h.client_fd)
           /\ s # <<>> => /\ Fds(s) # <<>> /\ Head(Fds(s)) = Head(s).client_fd
                          /\ Fds(Tail(s)) = Tail(Fds(s))
           /\ \A t \in Seq(Handshaked) : Fds(s \o t) = Fds(s) \o Fds(t)
  <1>1. \A h \in Handshaked : FdOf[h] = h.client_fd /\ FdOf[h] \in Clients
    BY DEF FdOf, Handshaked
  <1> HIDE DEF FdOf
  <1>2. Fds(s) \in Seq(Clients)
    BY <1>1, FdsImage, ImageType, Zenon
  <1>3. ASSUME NEW h \in Handshaked
        PROVE  Fds(Append(s, h)) = Append(Fds(s), h.client_fd)
    <2>1. Append(s, h) \in Seq(Handshaked)
      OBVIOUS
    <2>2. Image(FdOf, Append(s, h)) = Append(Image(FdOf, s), FdOf[h])
      BY ImageAppend
    <2> QED
      BY <1>1, <2>1, <2>2, FdsImage, Zenon
  <1>4. ASSUME s # <<>>
        PROVE  /\ Fds(s) # <<>> /\ Head(Fds(s)) = Head(s).client_fd
               /\ Fds(Tail(s)) = Tail(Fds(s))
    <2>1. Head(s) \in Handshaked /\ Tail(s) \in Seq(Handshaked)
      BY <1>4, HeadTailProperties
    <2> QED
      BY <1>1, <1>4, <2>1, FdsImage, ImageTail, ZenonT(30)
  <1>5. ASSUME NEW t \in Seq(Handshaked)
        PROVE  Fds(s \o t) = Fds(s) \o Fds(t)
    <2>1. s \o t \in Seq(Handshaked)
      OBVIOUS
    <2>2. Image(FdOf, s \o t) = Image(FdOf, s) \o Image(FdOf, t)
      BY ImageConcat
    <2> QED
      BY <2>1, <2>2, FdsImage, Zenon
  <1> QED
    BY <1>2, <1>3, <1>4, <1>5

\* The same for the two players of each pair.
LEMMA PlayersOf ==
    ASSUME NEW s \in Seq(Pairs)
    PROVE  /\ Firsts(s) \in Seq(Clients) /\ Seconds(s) \in Seq(Clients)
           /\ \A p \in Pairs : /\ Firsts(Append(s, p)) = Append(Firsts(s), p.p1)
                               /\ Seconds(Append(s, p)) = Append(Seconds(s), p.p2)
  <1>1. \A p \in Pairs : /\ FirstOf[p] = p.p1 /\ FirstOf[p] \in Clients
                         /\ SecondOf[p] = p.p2 /\ SecondOf[p] \in Clients
    BY DEF FirstOf, SecondOf, Pairs
  <1> HIDE DEF FirstOf, SecondOf
  <1>2. Firsts(s) \in Seq(Clients) /\ Seconds(s) \in Seq(Clients)
    BY <1>1, PlayersImage, ImageType, ZenonT(30)
  <1>3. ASSUME NEW p \in Pairs
        PROVE  /\ Firsts(Append(s, p)) = Append(Firsts(s), p.p1)
               /\ Seconds(Append(s, p)) = Append(Seconds(s), p.p2)
    <2>1. Append(s, p) \in Seq(Pairs)
      OBVIOUS
    <2>2. /\ Image(FirstOf, Append(s, p)) = Append(Image(FirstOf, s), FirstOf[p])
          /\ Image(SecondOf, Append(s, p)) = Append(Image(SecondOf, s), SecondOf[p])
      BY ImageAppend
    <2> QED
      BY <1>1, <2>1, <2>2, PlayersImage, Zenon
  <1> QED
    BY <1>2, <1>3

LEMMA NamesAre ==
    /\ "new" \in Names /\ "held" \in Names /\ "shaken" \in Names /\ "handshaked" \in Names
    /\ "first" \in Names /\ "second" \in Names /\ Games \subseteq Names
  BY DEF Names, Games

\* Every place is a list of clients.
LEMMA WhereType ==
    ASSUME TypeOK
    PROVE  Where \in [Names -> Seq(Clients)]
  <1>1. /\ Fds(shaken) \in Seq(Clients) /\ Fds(handshaked) \in Seq(Clients)
        /\ Firsts(games) \in Seq(Clients) /\ Seconds(games) \in Seq(Clients)
        /\ players["TTT"] \in Seq(Clients) /\ players["RPS"] \in Seq(Clients)
    BY FdsOf, PlayersOf DEF TypeOK, Games
  <1> QED
    BY <1>1 DEF TypeOK, Where, At, Names

\* The same clients in lists that are apart still.
Rearranges(L, M) == Apart(M) /\ All(M) = All(L)

\* A client moves from one list to another, or leaves its list.
LEMMA MovesClient ==
    ASSUME NEW L \in [Names -> Seq(Clients)], Apart(L), NEW a \in Names, NEW b \in Names,
           L[a] # <<>>, NEW c, c = Head(L[a])
    PROVE  /\ Push(Pop(L, a), b, c) \in [Names -> Seq(Clients)]
           /\ Rearranges(L, Push(Pop(L, a), b, c))
  BY Moves DEF Rearranges

LEMMA LeavesClient ==
    ASSUME NEW L \in [Names -> Seq(Clients)], Apart(L), NEW a \in Names,
           L[a] # <<>>, NEW c, c = Head(L[a])
    PROVE  Apart(Pop(L, a)) /\ c \in All(L) /\ All(Pop(L, a)) = All(L) \ {c}
  BY Leaves

\* At first nobody is anywhere.
LEMMA EachInOneInit == Init => EachInOne
  <1> SUFFICES ASSUME Init PROVE EachInOne
    OBVIOUS
  <1>1. \A n \in Names : Where[n] = <<>>
    BY DEF Init, Where, At, Names, Fds, Firsts, Seconds, Games
  <1>2. DOMAIN Where = Names /\ DOMAIN <<>> = {}
    BY DEF Where
  <1>3. Apart(Where) /\ All(Where) = {}
    BY <1>1, <1>2 DEF Apart, All, Members
  <1>4. Connected = {} /\ forgotten = {}
    BY DEF Init, Connected
  <1> QED
    BY <1>3, <1>4 DEF EachInOne

\* A step that leaves the lists alone.
LEMMA SameWhere ==
    ASSUME UNCHANGED <<newClients, clients, shaken, handshaked, players, games>>
    PROVE  Where' = Where
  BY DEF Where, At, Fds, Firsts, Seconds

\* A step that, besides, connects and forgets nobody.
LEMMA SamePlaces ==
    ASSUME EachInOne, UNCHANGED <<newClients, clients, shaken, handshaked, players, games>>,
           UNCHANGED forgotten, Connected' = Connected
    PROVE  EachInOne'
  BY SameWhere DEF EachInOne

\* A client that connects was nowhere.
LEMMA AcceptPlaces ==
    ASSUME IInv, EachInOne, NEW c \in Clients, Accept(c)
    PROVE  EachInOne'
  <1>1. Where \in [Names -> Seq(Clients)]
    BY WhereType DEF IInv
  <1>2. Where' = Push(Where, "new", c)
    <2>1. newClients' = Append(newClients, c)
      BY DEF Accept
    <2>2. UNCHANGED <<clients, shaken, handshaked, players, games>>
      BY DEF Accept, handshakeVars, handshakedVars, plexerVars
    <2> QED
      BY <2>1, <2>2, ZenonT(60) DEF Where, At, Names, Push, Fds, Firsts, Seconds
  <1>3. Connected' = Connected \cup {c} /\ c \notin Connected /\ forgotten' = forgotten
    BY DEF Accept, Connected, IInv, TypeOK
  <1>4. c \notin All(Where)
    BY <1>3 DEF EachInOne
  <1>5. Apart(Where') /\ All(Where') = All(Where) \cup {c}
    <2>1. Apart(Where)
      BY DEF EachInOne
    <2>2. Apart(Push(Where, "new", c)) /\ All(Push(Where, "new", c)) = All(Where) \cup {c}
      BY <1>1, <1>4, <2>1, NamesAre, Joins, SMTT(30)
    <2> QED
      BY <1>2, <2>2
  <1> QED
    BY <1>3, <1>5 DEF EachInOne

\* receive_new_clients: the first client of the queue is held, a second one is
\* in no list any more.
LEMMA ReceivePlaces ==
    ASSUME IInv, EachInOne, Receive
    PROVE  EachInOne'
  <1> DEFINE c == Head(newClients)
             n == Len(newClients)
             M == Push(Pop(Where, "new"), "held", c)
  <1>1. Where \in [Names -> Seq(Clients)] /\ newClients \in Seq(Clients)
    BY WhereType DEF IInv, TypeOK
  <1>2. newClients # <<>> /\ clients' = Append(clients, c)
    BY ReceiveEffect
  <1>3. n \in Nat \ {0}
    BY <1>1, <1>2, EmptySeq
  <1>4. Where["new"] = newClients /\ Where["held"] = clients
    BY DEF Where, At, Names
  <1>5. M \in [Names -> Seq(Clients)] /\ Apart(M) /\ All(M) = All(Where)
    <2>1. /\ Where \in [Names -> Seq(Clients)] /\ Apart(Where)
          /\ Where["new"] # <<>> /\ c = Head(Where["new"])
      BY <1>1, <1>2, <1>4 DEF EachInOne
    <2> HIDE DEF c
    <2>2. M \in [Names -> Seq(Clients)] /\ Rearranges(Where, M)
      BY <2>1, NamesAre, MovesClient
    <2> QED
      BY <2>2 DEF Rearranges
  <1>6. M["new"] = Tail(newClients)
    BY <1>1, <1>4 DEF Push, Pop, Names
  <1>7. UNCHANGED <<shaken, handshaked, players, games>> /\ Connected' = Connected
    BY DEF Receive, handshakedVars, plexerVars, netVars, Connected
  <1>8. newClients' = SubSeq(newClients, Popped + 1, n)
    BY DEF Receive
  <1>9. CASE n = 1
    <2>1. newClients' = Tail(newClients) /\ forgotten' = forgotten
      <3>1. Popped = 1
        BY <1>9 DEF Popped
      <3>2. Tail(newClients) = SubSeq(newClients, 2, n)
        BY <1>1, <1>2, TailIsSubSeq
      <3> QED
        BY <1>8, <3>1, <3>2 DEF Receive
    <2>2. Where' = M
      BY <1>2, <1>7, <2>1, ZenonT(60) DEF Where, At, Names, Push, Pop, Fds, Firsts, Seconds
    <2> QED
      BY <1>5, <1>7, <2>1, <2>2 DEF EachInOne
  <1>10. CASE n >= 2
    <2>1. Popped = 2 /\ forgotten' = forgotten \cup {newClients[2]}
      BY <1>1, <1>10 DEF Popped, Receive
    <2>2. /\ Tail(newClients) \in Seq(Clients) /\ Len(Tail(newClients)) = n - 1
          /\ \A i \in 1..(n - 1) : Tail(newClients)[i] = newClients[i + 1]
      BY <1>1, <1>2, HeadTailProperties
    <2>3. Tail(newClients) # <<>> /\ Head(Tail(newClients)) = newClients[2]
      <3> DEFINE t == Tail(newClients)
      <3>1. Len(t) > 0 /\ 1 \in 1..(n - 1) /\ t[1] = newClients[2]
        BY <1>3, <1>10, <2>2
      <3>2. t \in Seq(Clients)
        BY <2>2
      <3> HIDE DEF t
      <3>3. t # <<>> /\ Head(t) = t[1]
        BY <3>1, <3>2, NotEmpty
      <3> QED
        BY <3>1, <3>3 DEF t
    <2>4. newClients' = Tail(Tail(newClients))
      <3> DEFINE s == Tail(newClients)
                 t == Tail(s)
      <3>1. /\ t \in Seq(Clients) /\ Len(t) = n - 2
            /\ \A i \in 1..(n - 2) : t[i] = s[i + 1]
        BY <2>2, <2>3, <1>3, <1>10, HeadTailProperties
      <3>2. \A i \in 1..(n - 2) : t[i] = newClients[i + 2]
        BY <1>3, <2>2, <3>1
      <3>3. newClients' \in Seq(Clients) /\ newClients' = SubSeq(newClients, 3, n)
        BY <1>8, <2>1, ReceiveEffect
      <3>4. \A i \in 3..n : newClients[i] \in Clients
        BY <1>1, <1>3, ElementOfSeq
      <3>5. /\ Len(newClients') = IF 3 <= n THEN n - 3 + 1 ELSE 0
            /\ \A i \in 1..(n - 3 + 1) : newClients'[i] = newClients[3 + i - 1]
        BY <1>3, <3>3, <3>4, SubSeqProperties
      <3>6. Len(newClients') = Len(t)
        BY <1>3, <1>10, <3>1, <3>5
      <3>7. \A i \in 1..Len(newClients') : newClients'[i] = t[i]
        BY <1>3, <1>10, <3>1, <3>2, <3>5, <3>6
      <3> HIDE DEF s, t
      <3>8. newClients' = t
        BY <3>1, <3>3, <3>6, <3>7, SeqEqual
      <3> QED
        BY <3>8 DEF s, t
    <2>5. Where' = Pop(M, "new")
      <3>1. M = [Where EXCEPT !["new"] = Tail(newClients), !["held"] = clients']
        <4>1. Pop(Where, "new")["held"] = clients
          BY <1>1, <1>4 DEF Pop, Names
        <4> QED
          BY <1>2, <1>4, <4>1 DEF Push, Pop
      <3>2. Pop(M, "new") = [M EXCEPT !["new"] = newClients']
        BY <1>6, <2>4 DEF Pop
      <3> HIDE DEF M
      <3>3. Pop(M, "new") = [Where EXCEPT !["new"] = newClients', !["held"] = clients']
        BY <1>1, <3>1, <3>2
      <3> QED
        <4>1. /\ Fds(shaken)' = Fds(shaken) /\ Fds(handshaked)' = Fds(handshaked)
              /\ Firsts(games)' = Firsts(games) /\ Seconds(games)' = Seconds(games)
              /\ players' = players
          BY <1>7
        <4>2. Where' = [Where EXCEPT !["new"] = newClients', !["held"] = clients']
          BY <4>1 DEF Where, At, Names
        <4> QED
          BY <3>3, <4>2
    <2>6. Apart(Where') /\ All(Where') = All(M) \ {newClients[2]}
      <3> HIDE DEF M
      <3>1. M["new"] # <<>> /\ Head(M["new"]) = newClients[2]
        BY <1>6, <2>3
      <3>2. Apart(Pop(M, "new")) /\ All(Pop(M, "new")) = All(M) \ {Head(M["new"])}
        BY <1>5, <3>1, NamesAre, LeavesClient
      <3> QED
        BY <2>5, <3>1, <3>2
    <2>7. newClients[2] \in All(M)
      <3> HIDE DEF M
      <3>1. M["new"] # <<>> /\ Head(M["new"]) = newClients[2]
        BY <1>6, <2>3
      <3>2. Head(M["new"]) \in All(M)
        BY <1>5, <3>1, NamesAre, LeavesClient
      <3> QED
        BY <3>1, <3>2
    <2> QED
      BY <1>5, <1>7, <2>1, <2>6, <2>7 DEF EachInOne
  <1>11. \A k \in Nat \ {0} : k = 1 \/ k >= 2
    OBVIOUS
  <1> QED
    BY <1>3, <1>9, <1>10, <1>11

\* The client that shakes hands goes on, stays, or is forgotten.
LEMMA ShakePlaces ==
    ASSUME IInv, EachInOne, NEW c \in Clients, Welcome(c) \/ Refuse(c) \/ Drop(c) \/ Killed(c)
    PROVE  EachInOne'
  <1>1. Where \in [Names -> Seq(Clients)] /\ Where["held"] = clients
    BY WhereType DEF IInv, Where, At, Names
  <1>2. CASE Welcome(c)
    <2> DEFINE h == [client_fd |-> c, game_choice |-> choice[c]]
               M == Push(Pop(Where, "held"), "shaken", c)
    <2>1. /\ clients # <<>> /\ c = Head(clients) /\ clients' = Tail(clients)
          /\ h \in Handshaked /\ h.client_fd = c /\ shaken' = Append(shaken, h)
      BY <1>2 DEF Welcome, Shaking, Handshaked
    <2>2. Fds(shaken') = Append(Fds(shaken), c)
      BY <2>1, FdsOf DEF IInv, TypeOK
    <2>3. UNCHANGED <<newClients, handshaked, players, games, forgotten>> /\ Connected' = Connected
      BY <1>2 DEF Welcome, newVars, handshakedVars, plexerVars, Connected
    <2>4. Where' = M
      BY <2>1, <2>2, <2>3, ZenonT(60) DEF Where, At, Names, Push, Pop, Fds, Firsts, Seconds
    <2>5. Apart(M) /\ All(M) = All(Where)
      <3>1. /\ Where \in [Names -> Seq(Clients)] /\ Apart(Where)
            /\ Where["held"] # <<>> /\ c = Head(Where["held"])
        BY <1>1, <2>1 DEF EachInOne
      <3>2. Rearranges(Where, M)
        BY <3>1, NamesAre, MovesClient
      <3> QED
        BY <3>2 DEF Rearranges
    <2> QED
      BY <2>3, <2>4, <2>5 DEF EachInOne
  <1>3. CASE Refuse(c)
    <2>1. clients' = Append(<<>>, c) /\ c = Head(clients)
      BY <1>3, ShakingEffect DEF Refuse, Shaking
    <2>2. clients' = clients
      <3>1. clients \in Seq(Clients) /\ Len(clients) = 1
        BY <1>3, ShakingEffect DEF Refuse
      <3> QED
        BY <2>1, <3>1
    <2>3. UNCHANGED <<newClients, shaken, handshaked, players, games, forgotten>>
      BY <1>3 DEF Refuse, newVars, handshakedVars, plexerVars
    <2>4. Connected' = Connected
      BY <1>3 DEF Refuse, Connected
    <2> QED
      BY <2>2, <2>3, <2>4, SamePlaces
  <1>4. CASE Drop(c)
    <2>1. /\ clients # <<>> /\ c = Head(clients) /\ clients' = Tail(clients)
          /\ forgotten' = forgotten \cup {c}
      BY <1>4 DEF Drop, Shaking
    <2>2. UNCHANGED <<newClients, shaken, handshaked, players, games>> /\ Connected' = Connected
      BY <1>4 DEF Drop, netVars, newVars, handshakedVars, plexerVars, Connected
    <2>3. Where' = Pop(Where, "held")
      BY <2>1, <2>2, ZenonT(60) DEF Where, At, Names, Pop, Fds, Firsts, Seconds
    <2>4. Apart(Where') /\ c \in All(Where) /\ All(Where') = All(Where) \ {c}
      BY <1>1, <2>1, <2>3, NamesAre, LeavesClient DEF EachInOne
    <2> QED
      BY <2>1, <2>2, <2>4 DEF EachInOne
  <1>5. CASE Killed(c)
    <2>1. /\ UNCHANGED <<newClients, clients, shaken, handshaked, players, games, forgotten>>
          /\ Connected' = Connected
      BY <1>5 DEF Killed, netVars, newVars, handshakeVars, handshakedVars, plexerVars, Connected
    <2> QED
      BY <2>1, SamePlaces
  <1> QED
    BY <1>2, <1>3, <1>4, <1>5

\* pass_handshaked_clients empties one list into the other.
LEMMA PassPlaces ==
    ASSUME IInv, EachInOne, Pass
    PROVE  EachInOne'
  <1>1. /\ Where \in [Names -> Seq(Clients)]
        /\ Where["shaken"] = Fds(shaken) /\ Where["handshaked"] = Fds(handshaked)
    BY WhereType DEF IInv, Where, At, Names
  <1>2. Fds(shaken') = <<>> /\ Fds(handshaked') = Fds(handshaked) \o Fds(shaken)
    <2>1. shaken' = <<>> /\ handshaked' = handshaked \o shaken
      BY DEF Pass
    <2>2. Fds(<<>>) = <<>>
      BY DEF Fds
    <2> QED
      BY <2>1, <2>2, FdsOf DEF IInv, TypeOK
  <1>3. UNCHANGED <<newClients, clients, players, games, forgotten>> /\ Connected' = Connected
    BY DEF Pass, netVars, newVars, plexerVars, Connected
  <1>4. Where' = Pour(Where, "shaken", "handshaked")
    BY <1>2, <1>3, ZenonT(60) DEF Where, At, Names, Pour, Firsts, Seconds
  <1>5. Apart(Where') /\ All(Where') = All(Where)
    <2> DEFINE W == Where
    <2>1. W \in [Names -> Seq(Clients)] /\ Apart(W)
      BY <1>1 DEF EachInOne
    <2>2. "shaken" \in Names /\ "handshaked" \in Names
      BY NamesAre
    <2> HIDE DEF W
    <2>3. /\ Apart(Pour(W, "shaken", "handshaked"))
          /\ All(Pour(W, "shaken", "handshaked")) = All(W)
      BY <2>1, <2>2, Pours
    <2> QED
      BY <1>4, <2>3 DEF W
  <1> QED
    BY <1>3, <1>5 DEF EachInOne

\* plex_next_client moves a client to the queue of its game.
LEMMA PlexNextPlaces ==
    ASSUME IInv, EachInOne, PlexNext
    PROVE  EachInOne'
  <1> DEFINE h == Head(handshaked)
             g == h.game_choice
             c == h.client_fd
  <1>1. handshaked # <<>> /\ h \in Handshaked /\ g \in Games /\ g \in Names
    BY PlexNextEffect DEF Handshaked, Games, Names
  <1>2. /\ Where \in [Names -> Seq(Clients)]
        /\ Where["handshaked"] = Fds(handshaked) /\ Where[g] = players[g]
    BY <1>1, WhereType DEF IInv, Where, At, Names, Games
  <1>3. /\ Fds(handshaked) # <<>> /\ Head(Fds(handshaked)) = c
        /\ Fds(handshaked') = Tail(Fds(handshaked))
    BY <1>1, FdsOf DEF IInv, TypeOK, PlexNext
  <1>4. /\ players' = [players EXCEPT ![g] = Append(players[g], c)]
        /\ players \in [Games -> Seq(Clients)]
    BY DEF PlexNext, IInv, TypeOK
  <1>5. UNCHANGED <<newClients, clients, shaken, games, forgotten>> /\ Connected' = Connected
    BY DEF PlexNext, netVars, newVars, handshakeVars, Connected
  <1> HIDE DEF h, g, c
  <1>6. Where' = Push(Pop(Where, "handshaked"), g, c)
    BY <1>1, <1>2, <1>3, <1>4, <1>5, ZenonT(60)
       DEF Where, At, Names, Push, Pop, Games, Firsts, Seconds
  <1>7. Apart(Where') /\ All(Where') = All(Where)
    <2>1. /\ Where \in [Names -> Seq(Clients)] /\ Apart(Where) /\ g \in Names
          /\ Where["handshaked"] # <<>> /\ c = Head(Where["handshaked"])
      BY <1>1, <1>2, <1>3 DEF EachInOne
    <2>2. Rearranges(Where, Push(Pop(Where, "handshaked"), g, c))
      BY <2>1, NamesAre, MovesClient
    <2> QED
      BY <1>6, <2>2 DEF Rearranges
  <1> QED
    BY <1>5, <1>7 DEF EachInOne

\* build_game makes the two clients of a queue the players of a game.
LEMMA BuildGamePlaces ==
    ASSUME IInv, EachInOne, BuildGame
    PROVE  EachInOne'
  <1> DEFINE q == players[plexer]
             p == [game |-> plexer, p1 |-> q[1], p2 |-> q[2]]
             L == Push(Pop(Where, plexer), "first", Head(q))
             M == Push(Pop(L, plexer), "second", Head(Tail(q)))
  <1>1. plexer \in Games /\ plexer \in Names /\ q \in Seq(Clients) /\ Len(q) = 2
    BY DEF IInv, TypeOK, NobodyWaitsForSecond, BuildGame, Games, Names
  <1>2. q # <<>> /\ Head(q) = q[1]
    BY <1>1, NotEmpty
  <1>3. Tail(q) \in Seq(Clients) /\ Tail(q) # <<>> /\ Head(Tail(q)) = q[2]
    <2>1. /\ Tail(q) \in Seq(Clients) /\ Len(Tail(q)) = 1
          /\ \A i \in 1..1 : Tail(q)[i] = q[i + 1]
      BY <1>1, <1>2, HeadTailProperties
    <2> DEFINE t == Tail(q)
    <2>2. t \in Seq(Clients) /\ Len(t) > 0 /\ t[1] = q[2]
      BY <2>1
    <2> HIDE DEF t
    <2>3. t # <<>> /\ Head(t) = t[1]
      BY <2>2, NotEmpty
    <2> QED
      BY <2>2, <2>3 DEF t
  <1>4. /\ p \in Pairs /\ games' = Append(games, p)
        /\ players' = [players EXCEPT ![plexer] = Tail(Tail(q))]
        /\ players \in [Games -> Seq(Clients)]
    <2>1. q[1] \in Clients /\ q[2] \in Clients
      BY <1>1, ElementOfSeq
    <2> QED
      BY <1>1, <2>1 DEF Pairs, BuildGame, IInv, TypeOK
  <1>5. /\ Firsts(games') = Append(Firsts(games), Head(q))
        /\ Seconds(games') = Append(Seconds(games), Head(Tail(q)))
    BY <1>2, <1>3, <1>4, PlayersOf DEF IInv, TypeOK
  <1>6. /\ UNCHANGED <<newClients, clients, shaken, handshaked, forgotten>>
        /\ Connected' = Connected
    BY DEF BuildGame, netVars, newVars, handshakeVars, handshakedVars, Connected
  <1>7. Where \in [Names -> Seq(Clients)] /\ Where[plexer] = q
    BY <1>1, WhereType DEF IInv, Where, At, Names, Games
  <1>8. L \in [Names -> Seq(Clients)] /\ Apart(L) /\ All(L) = All(Where)
    <2>1. /\ Where \in [Names -> Seq(Clients)] /\ Apart(Where) /\ plexer \in Names
          /\ Where[plexer] # <<>> /\ Head(q) = Head(Where[plexer])
      BY <1>1, <1>2, <1>7 DEF EachInOne
    <2> HIDE DEF q
    <2>2. L \in [Names -> Seq(Clients)] /\ Rearranges(Where, L)
      BY <2>1, NamesAre, MovesClient
    <2> QED
      BY <2>2 DEF Rearranges
  <1>9. L[plexer] = Tail(q) /\ L["second"] = Seconds(games) /\ L["first"] = Append(Firsts(games), Head(q))
    BY <1>1, <1>7 DEF Push, Pop, Where, At, Names, Games
  <1>10. Where' = M
    <2>1. L = [Where EXCEPT ![plexer] = Tail(q), !["first"] = Firsts(games')]
      <3>1. Pop(Where, plexer)["first"] = Firsts(games)
        BY <1>1, <1>7 DEF Pop, Where, At, Names, Games
      <3> QED
        BY <1>5, <1>7, <3>1 DEF Push, Pop
    <2>2. M = [L EXCEPT ![plexer] = Tail(Tail(q)), !["second"] = Seconds(games')]
      <3> HIDE DEF L
      <3>1. Pop(L, plexer)["second"] = Seconds(games)
        BY <1>1, <1>8, <1>9 DEF Pop, Names, Games
      <3> QED
        BY <1>5, <1>9, <3>1 DEF Push, Pop
    <2> HIDE DEF L, M
    <2>3. M = [Where EXCEPT ![plexer] = Tail(Tail(q)), !["first"] = Firsts(games'),
                            !["second"] = Seconds(games')]
      BY <1>1, <1>7, <2>1, <2>2 DEF Games
    <2>4. players'[plexer] = Tail(Tail(q)) /\ \A g \in Games \ {plexer} : players'[g] = players[g]
      BY <1>1, <1>4
    <2>5. CASE plexer = "TTT"
      BY <1>6, <2>3, <2>4, <2>5 DEF Where, At, Names, Games, Fds
    <2>6. CASE plexer = "RPS"
      BY <1>6, <2>3, <2>4, <2>6 DEF Where, At, Names, Games, Fds
    <2> QED
      BY <1>1, <2>5, <2>6 DEF Games
  <1>11. Apart(M) /\ All(M) = All(L)
    <2> HIDE DEF L
    <2>1. /\ L \in [Names -> Seq(Clients)] /\ Apart(L) /\ plexer \in Names
          /\ L[plexer] # <<>> /\ Head(Tail(q)) = Head(L[plexer])
      BY <1>1, <1>3, <1>8, <1>9
    <2> HIDE DEF q
    <2>2. Rearranges(L, M)
      BY <2>1, NamesAre, MovesClient
    <2> QED
      BY <2>2 DEF Rearranges
  <1> QED
    BY <1>6, <1>8, <1>10, <1>11 DEF EachInOne

\* Every step keeps each client in one place.
LEMMA EachInOneStep == IInv /\ EachInOne /\ [Next]_vars => EachInOne'
  <1> SUFFICES ASSUME IInv, EachInOne, [Next]_vars
               PROVE  EachInOne'
    OBVIOUS
  <1>1. CASE ClientStep
    <2>1. ASSUME NEW c \in Clients, NEW m \in GameChoices, Choose(c, m)
          PROVE  EachInOne'
      BY <2>1, SamePlaces
         DEF Choose, newVars, handshakeVars, handshakedVars, plexerVars, Connected
    <2>2. ASSUME NEW c \in Clients, HangUp(c)
          PROVE  EachInOne'
      <3>1. Connected' = Connected
        BY <2>2 DEF HangUp, Connected, IInv, TypeOK
      <3> QED
        BY <2>2, <3>1, SamePlaces DEF HangUp, newVars, handshakeVars, handshakedVars, plexerVars
    <2> QED
      BY <1>1, <2>1, <2>2, AcceptPlaces DEF ClientStep
  <1>2. CASE Wait \/ Rewait \/ Received \/ Select \/ Shaken
    BY <1>2, SamePlaces
       DEF Wait, Rewait, Received, Select, Shaken, netVars, newVars, handshakeVars,
           handshakedVars, plexerVars, Connected
  <1>3. CASE UNCHANGED vars
    BY <1>3, SamePlaces
       DEF vars, netVars, newVars, handshakeVars, handshakedVars, plexerVars, Connected
  <1> QED
    BY <1>1, <1>2, <1>3, ReceivePlaces, ShakePlaces, PassPlaces, PlexNextPlaces, BuildGamePlaces
       DEF Next, HandshakerStep, PlexerStep

\* Lists that are apart, one after the other.
LEMMA OneMore ==
    ASSUME NEW S, NEW s \in Seq(S), Distinct(s), NEW t \in Seq(S), Distinct(t),
           NEW X, Members(s) = X, X \cap Members(t) = {}
    PROVE  s \o t \in Seq(S) /\ Distinct(s \o t) /\ Members(s \o t) = X \cup Members(t)
  BY ConcatProperties, MembersConcat, DistinctConcat

\* What is said of the lists holds of their concatenation.
LEMMA EachInOneIsOnePlace ==
    ASSUME TypeOK, EachInOne
    PROVE  OnePlace
  <1> DEFINE W(n) == Where[n]
             X(n) == Members(Where[n])
             s2 == W("new") \o W("held")
             s3 == s2 \o W("shaken")
             s4 == s3 \o W("handshaked")
             s5 == s4 \o W("TTT")
             s6 == s5 \o W("RPS")
             s7 == s6 \o W("first")
             s8 == s7 \o W("second")
  <1>1. Where \in [Names -> Seq(Clients)] /\ DOMAIN Where = Names
    BY WhereType
  <1>2. \A n \in Names : W(n) \in Seq(Clients) /\ Distinct(W(n))
    BY <1>1 DEF EachInOne, Apart, Distinct
  <1>3. \A m, n \in Names : m # n => X(m) \cap X(n) = {}
    BY <1>1 DEF EachInOne, Apart, Members
  <1>4. Places = s8
    BY DEF Places, Where, At, Names, Fds, Firsts, Seconds
  <1>5. All(Where) = X("new") \cup X("held") \cup X("shaken") \cup X("handshaked")
                     \cup X("TTT") \cup X("RPS") \cup X("first") \cup X("second")
    BY <1>1 DEF All, Names
  <1> HIDE DEF W, X
  <1>10. \A n \in Names : Members(W(n)) = X(n)
    BY DEF W, X
  <1>12. s2 \in Seq(Clients) /\ Distinct(s2) /\ Members(s2) = X("new") \cup X("held")
    BY <1>2, <1>3, <1>10, OneMore DEF Names
  <1> HIDE DEF s2
  <1>13. /\ s3 \in Seq(Clients) /\ Distinct(s3)
         /\ Members(s3) = X("new") \cup X("held") \cup X("shaken")
    BY <1>2, <1>3, <1>10, <1>12, OneMore DEF Names
  <1> HIDE DEF s3
  <1>14. /\ s4 \in Seq(Clients) /\ Distinct(s4)
         /\ Members(s4) = X("new") \cup X("held") \cup X("shaken") \cup X("handshaked")
    BY <1>2, <1>3, <1>10, <1>13, OneMore DEF Names
  <1> HIDE DEF s4
  <1>15. /\ s5 \in Seq(Clients) /\ Distinct(s5)
         /\ Members(s5) = X("new") \cup X("held") \cup X("shaken") \cup X("handshaked")
                          \cup X("TTT")
    BY <1>2, <1>3, <1>10, <1>14, OneMore DEF Names
  <1> HIDE DEF s5
  <1>16. /\ s6 \in Seq(Clients) /\ Distinct(s6)
         /\ Members(s6) = X("new") \cup X("held") \cup X("shaken") \cup X("handshaked")
                          \cup X("TTT") \cup X("RPS")
    BY <1>2, <1>3, <1>10, <1>15, OneMore DEF Names
  <1> HIDE DEF s6
  <1>17. /\ s7 \in Seq(Clients) /\ Distinct(s7)
         /\ Members(s7) = X("new") \cup X("held") \cup X("shaken") \cup X("handshaked")
                          \cup X("TTT") \cup X("RPS") \cup X("first")
    BY <1>2, <1>3, <1>10, <1>16, OneMore DEF Names
  <1> HIDE DEF s7
  <1>18. Distinct(s8) /\ Members(s8) = All(Where)
    BY <1>2, <1>3, <1>5, <1>10, <1>17, OneMore DEF Names
  <1> QED
    BY <1>4, <1>18 DEF OnePlace, Distinct, Members, EachInOne, Connected

\* No client is in two places of the three threads at once, and one that was
\* accepted is in one of them, unless the handshaker let go of it: through
\* every order of accepts, pops, refusals, passes and pairings.
THEOREM OnePlaceAlways == Spec => []OnePlace
  <1>1. IInv /\ EachInOne => OnePlace
    BY EachInOneIsOnePlace DEF IInv
  <1> QED
    BY Invariance, EachInOneInit, EachInOneStep, <1>1, PTL DEF Spec

-----------------------------------------------------------------------------
(* The threads implement the lobby.                                         *)

\* What a handshake adds to the queue of g, and the queues the lobby sees.
ChoosesGame(g) == [h \in Handshaked |-> IF h.game_choice = g THEN <<h.client_fd>> ELSE <<>>]
WaitingFor(g) == players[g] \o ChoseGame(handshaked, g) \o ChoseGame(shaken, g)
Waiting == [g \in Games |-> WaitingFor(g)]

LEMMA ChosenType ==
    ASSUME NEW g
    PROVE  \A h \in Handshaked :
              /\ ChoosesGame(g)[h] = IF h.game_choice = g THEN <<h.client_fd>> ELSE <<>>
              /\ ChoosesGame(g)[h] \in Seq(Clients)
  <1>1. \A h \in Handshaked : h.client_fd \in Clients
    BY DEF Handshaked
  <1>2. \A c \in Clients : <<c>> \in Seq(Clients)
    OBVIOUS
  <1>3. <<>> \in Seq(Clients)
    OBVIOUS
  <1> QED
    BY <1>1, <1>2, <1>3 DEF ChoosesGame

LEMMA ChoseImage ==
    ASSUME NEW g, NEW s \in Seq(Handshaked)
    PROVE  ChoseGame(s, g) = FlattenSeq(Image(ChoosesGame(g), s))
  <1>1. \A i \in DOMAIN s : s[i] \in Handshaked
    BY LenProperties, ElementOfSeq
  <1>2. [i \in DOMAIN s |-> IF s[i].game_choice = g THEN <<s[i].client_fd>> ELSE <<>>]
        = Image(ChoosesGame(g), s)
    BY <1>1 DEF Image, ChoosesGame
  <1> QED
    BY <1>2 DEF ChoseGame

LEMMA ChoseType ==
    ASSUME NEW g, NEW s \in Seq(Handshaked)
    PROVE  ChoseGame(s, g) \in Seq(Clients) /\ Image(ChoosesGame(g), s) \in Seq(Seq(Clients))
  <1> DEFINE f == ChoosesGame(g)
  <1>1. \A h \in Handshaked : f[h] \in Seq(Clients)
    BY ChosenType
  <1> HIDE DEF f
  <1>2. Image(f, s) \in Seq(Seq(Clients))
    BY <1>1, ImageType
  <1>3. FlattenSeq(Image(f, s)) \in Seq(Clients)
    BY <1>2, FlattenType
  <1> QED
    BY <1>2, <1>3, ChoseImage DEF f

\* One more handshake, and two lists of them.
LEMMA ChoseAppend ==
    ASSUME NEW g, NEW s \in Seq(Handshaked), NEW h \in Handshaked
    PROVE  ChoseGame(Append(s, h), g)
           = ChoseGame(s, g) \o (IF h.game_choice = g THEN <<h.client_fd>> ELSE <<>>)
  <1> DEFINE f == ChoosesGame(g)
             v == Image(f, s)
  <1>1. /\ Append(s, h) \in Seq(Handshaked)
        /\ v \in Seq(Seq(Clients)) /\ f[h] \in Seq(Clients)
    <2>1. v \in Seq(Seq(Clients))
      BY ChoseType
    <2>2. f[h] \in Seq(Clients)
      BY ChosenType
    <2>3. Append(s, h) \in Seq(Handshaked)
      OBVIOUS
    <2> QED
      BY <2>1, <2>2, <2>3
  <1>2. Image(f, Append(s, h)) = Append(v, f[h])
    BY ImageAppend
  <1>3. ChoseGame(Append(s, h), g) = FlattenSeq(Append(v, f[h]))
    BY <1>1, <1>2, ChoseImage
  <1>4. ChoseGame(s, g) = FlattenSeq(v)
    BY ChoseImage
  <1>5. f[h] = IF h.game_choice = g THEN <<h.client_fd>> ELSE <<>>
    BY ChosenType
  <1> HIDE DEF f, v
  <1>6. FlattenSeq(Append(v, f[h])) = FlattenSeq(v) \o f[h]
    BY <1>1, FlattenAppend
  <1> QED
    BY <1>3, <1>4, <1>5, <1>6

LEMMA ChoseConcat ==
    ASSUME NEW g, NEW s \in Seq(Handshaked), NEW t \in Seq(Handshaked)
    PROVE  ChoseGame(s \o t, g) = ChoseGame(s, g) \o ChoseGame(t, g)
  <1> DEFINE f == ChoosesGame(g)
             v == Image(f, s)
             w == Image(f, t)
  <1>1. s \o t \in Seq(Handshaked) /\ v \in Seq(Seq(Clients)) /\ w \in Seq(Seq(Clients))
    BY ChoseType
  <1>2. Image(f, s \o t) = v \o w
    BY ImageConcat
  <1>3. ChoseGame(s \o t, g) = FlattenSeq(v \o w)
    BY <1>1, <1>2, ChoseImage
  <1>4. ChoseGame(s, g) = FlattenSeq(v) /\ ChoseGame(t, g) = FlattenSeq(w)
    BY ChoseImage
  <1> HIDE DEF f, v, w
  <1>5. FlattenSeq(v \o w) = FlattenSeq(v) \o FlattenSeq(w)
    BY <1>1, FlattenConcat
  <1> QED
    BY <1>3, <1>4, <1>5

LEMMA ChoseNone ==
    ASSUME NEW g
    PROVE  ChoseGame(<<>>, g) = <<>>
  <1>1. Image(ChoosesGame(g), <<>>) = <<>>
    BY DEF Image
  <1>2. <<>> \in Seq(Handshaked)
    OBVIOUS
  <1> QED
    BY <1>1, <1>2, ChoseImage, FlattenNone

LEMMA ChoseHead ==
    ASSUME NEW g, NEW s \in Seq(Handshaked), s # <<>>
    PROVE  ChoseGame(s, g)
           = (IF Head(s).game_choice = g THEN <<Head(s).client_fd>> ELSE <<>>)
             \o ChoseGame(Tail(s), g)
  <1> DEFINE h == Head(s)
             t == Tail(s)
             o == IF h.game_choice = g THEN <<h.client_fd>> ELSE <<>>
  <1>1. h \in Handshaked /\ t \in Seq(Handshaked) /\ s = <<h>> \o t
    BY HeadAndTail
  <1> HIDE DEF h, t
  <1>2. <<h>> \in Seq(Handshaked) /\ <<>> \in Seq(Handshaked) /\ Append(<<>>, h) = <<h>>
    BY <1>1
  <1>3. ChoseGame(<<h>>, g) = ChoseGame(<<>>, g) \o o
    BY <1>1, <1>2, ChoseAppend, ZenonT(60)
  <1>4. o \in Seq(Clients)
    BY <1>1 DEF Handshaked
  <1>5. ChoseGame(<<h>>, g) = o
    <2> HIDE DEF o
    <2> QED
      BY <1>3, <1>4, ChoseNone
  <1>6. ChoseGame(s, g) = ChoseGame(<<h>>, g) \o ChoseGame(t, g)
    <2> DEFINE u == <<h>>
    <2>1. u \in Seq(Handshaked)
      BY <1>2
    <2> HIDE DEF u
    <2>2. ChoseGame(u \o t, g) = ChoseGame(u, g) \o ChoseGame(t, g)
      BY <1>1, <2>1, ChoseConcat
    <2> QED
      BY <1>1, <2>2 DEF u
  <1> QED
    BY <1>5, <1>6 DEF h, t

\* The clients that chose a game are among those in the list.
LEMMA ChoseMembers ==
    ASSUME NEW g, NEW s \in Seq(Handshaked)
    PROVE  Members(ChoseGame(s, g)) \subseteq Members(Fds(s))
  <1> DEFINE P == {t \in Seq(Handshaked) : Members(ChoseGame(t, g)) \subseteq Members(Fds(t))}
  <1>1. <<>> \in P
    <2>1. <<>> \in Seq(Handshaked) /\ Members(<<>>) = {}
      BY DEF Members
    <2> QED
      BY <2>1, ChoseNone
  <1>2. ASSUME NEW t \in Seq(Handshaked), NEW h \in Handshaked, t \in P
        PROVE  Append(t, h) \in P
    <2> DEFINE o == IF h.game_choice = g THEN <<h.client_fd>> ELSE <<>>
               c == h.client_fd
               u == ChoseGame(t, g)
               v == Fds(t)
    <2>1. c \in Clients /\ Append(t, h) \in Seq(Handshaked)
      BY DEF Handshaked
    <2>2. o \in Seq(Clients) /\ Members(o) \subseteq {c}
      BY <2>1 DEF Members
    <2>3. u \in Seq(Clients) /\ v \in Seq(Clients) /\ Members(u) \subseteq Members(v)
      BY <1>2, ChoseType, FdsOf
    <2>4. ChoseGame(Append(t, h), g) = u \o o
      BY ChoseAppend
    <2>5. Fds(Append(t, h)) = Append(v, c)
      BY FdsOf
    <2> HIDE DEF o, u, v, c
    <2>6. Members(u \o o) = Members(u) \cup Members(o)
      BY <2>2, <2>3, MembersConcat
    <2>7. Append(v, c) = v \o <<c>> /\ <<c>> \in Seq(Clients)
      BY <2>1, <2>3, AppendIsConcat
    <2>8. Members(<<c>>) = {c}
      BY DEF Members
    <2>9. Members(Append(v, c)) = Members(v) \cup {c}
      <3> DEFINE w == <<c>>
      <3>1. w \in Seq(Clients)
        BY <2>7
      <3> HIDE DEF w
      <3>2. Members(v \o w) = Members(v) \cup Members(w)
        BY <2>3, <3>1, MembersConcat
      <3> QED
        BY <2>7, <2>8, <3>2 DEF w
    <2>10. Members(ChoseGame(Append(t, h), g)) \subseteq Members(Fds(Append(t, h)))
      BY <2>2, <2>3, <2>4, <2>5, <2>6, <2>9
    <2> QED
      BY <2>1, <2>10
  <1> HIDE DEF P
  <1>3. Seq(Handshaked) \subseteq P
    BY <1>1, <1>2, SequenceInduction
  <1> QED
    BY <1>3 DEF P

\* The parts of a queue are lists of clients.
LEMMA WaitingType ==
    ASSUME TypeOK, NEW g \in Games
    PROVE  /\ players[g] \in Seq(Clients) /\ ChoseGame(handshaked, g) \in Seq(Clients)
           /\ ChoseGame(shaken, g) \in Seq(Clients)
           /\ WaitingFor(g) \in Seq(Clients)
  <1>1. players[g] \in Seq(Clients)
    BY DEF TypeOK
  <1>2. ChoseGame(handshaked, g) \in Seq(Clients)
    BY ChoseType DEF TypeOK
  <1>3. ChoseGame(shaken, g) \in Seq(Clients)
    BY ChoseType DEF TypeOK
  <1>4. WaitingFor(g) \in Seq(Clients)
    BY <1>1, <1>2, <1>3 DEF WaitingFor
  <1> QED
    BY <1>1, <1>2, <1>3, <1>4

\* The client whose hand is shaken is in no queue and in no game.
LEMMA HeldIsElsewhere ==
    ASSUME TypeOK, EachInOne, clients # <<>>, NEW c, c = Head(clients)
    PROVE  /\ \A g \in Games : c \notin Members(WaitingFor(g))
           /\ c \notin Members(Firsts(games)) /\ c \notin Members(Seconds(games))
  <1> DEFINE X(n) == Members(Where[n])
  <1>1. Where \in [Names -> Seq(Clients)] /\ DOMAIN Where = Names
    BY WhereType
  <1>2. \A m, n \in Names : m # n => X(m) \cap X(n) = {}
    BY <1>1 DEF EachInOne, Apart, Members
  <1>3. /\ X("held") = Members(clients) /\ X("shaken") = Members(Fds(shaken))
        /\ X("handshaked") = Members(Fds(handshaked))
        /\ X("first") = Members(Firsts(games)) /\ X("second") = Members(Seconds(games))
        /\ \A g \in Games : X(g) = Members(players[g])
    BY DEF Where, At, Names, Games
  <1>4. c \in Members(clients)
    <2>1. clients \in Seq(Clients) /\ Len(clients) \in Nat \ {0}
      BY EmptySeq DEF TypeOK
    <2>2. c = clients[1] /\ 1 \in DOMAIN clients
      BY <2>1, LenProperties
    <2> QED
      BY <2>2 DEF Members
  <1> HIDE DEF X
  <1>5. \A n \in Names \ {"held"} : c \notin X(n)
    BY <1>2, <1>3, <1>4, NamesAre
  <1>6. ASSUME NEW g \in Games PROVE c \notin Members(WaitingFor(g))
    <2> DEFINE p == players[g]
               q == ChoseGame(handshaked, g)
               r == ChoseGame(shaken, g)
    <2>1. p \in Seq(Clients) /\ q \in Seq(Clients) /\ r \in Seq(Clients)
      BY WaitingType
    <2>2. Members(q) \subseteq X("handshaked") /\ Members(r) \subseteq X("shaken")
      BY <1>3, ChoseMembers DEF TypeOK
    <2>3. Members(p) = X(g) /\ g \in Names \ {"held"}
      BY <1>3, NamesAre DEF Games
    <2>4. WaitingFor(g) = (p \o q) \o r
      BY DEF WaitingFor
    <2> HIDE DEF p, q, r
    <2>5. p \o q \in Seq(Clients) /\ Members(p \o q) = Members(p) \cup Members(q)
      BY <2>1, MembersConcat
    <2> DEFINE u == p \o q
    <2>6. u \in Seq(Clients) /\ Members(u) = Members(p) \cup Members(q)
      BY <2>5
    <2>7. WaitingFor(g) = u \o r
      BY <2>4
    <2> HIDE DEF u
    <2>8. Members(u \o r) = Members(u) \cup Members(r)
      BY <2>1, <2>6, MembersConcat
    <2>9. c \notin X("handshaked") /\ c \notin X("shaken") /\ c \notin X(g)
      BY <1>5, <2>3, NamesAre
    <2> QED
      BY <2>2, <2>3, <2>6, <2>7, <2>8, <2>9
  <1>7. c \notin X("first") /\ c \notin X("second")
    BY <1>5, NamesAre
  <1> QED
    BY <1>3, <1>6, <1>7

\* A welcome is an arrival in the lobby.
LEMMA WelcomeArrives ==
    ASSUME IInv, EachInOne, NEW c \in Clients, Welcome(c), NEW g \in Games, g = choice[c]
    PROVE  Lobby!Arrive(c, g)
  <1> DEFINE h == [client_fd |-> c, game_choice |-> g]
  <1>1. /\ c = Head(clients) /\ clients # <<>> /\ h \in Handshaked
        /\ shaken' = Append(shaken, h) /\ UNCHANGED <<handshaked, players, games>>
    BY DEF Welcome, Shaking, Handshaked, handshakedVars, plexerVars
  <1>2. /\ \A k \in Games : c \notin Members(WaitingFor(k))
        /\ c \notin Members(Firsts(games)) /\ c \notin Members(Seconds(games))
    BY <1>1, HeldIsElsewhere DEF IInv
  <1>3. \A k \in Games : \A i \in DOMAIN WaitingFor(k) : WaitingFor(k)[i] # c
    BY <1>2 DEF Members
  <1>4. \A i \in DOMAIN games : c \notin {games[i].p1, games[i].p2}
    BY <1>2 DEF Members, Firsts, Seconds
  <1>5. ASSUME NEW k \in Games
        PROVE  WaitingFor(k)' = IF k = g THEN Append(WaitingFor(k), c) ELSE WaitingFor(k)
    <2> DEFINE p == players[k] \o ChoseGame(handshaked, k)
               r == ChoseGame(shaken, k)
               o == IF h.game_choice = k THEN <<h.client_fd>> ELSE <<>>
    <2>1. p \in Seq(Clients) /\ r \in Seq(Clients)
      BY WaitingType DEF IInv
    <2>2. WaitingFor(k) = p \o r
      BY DEF WaitingFor
    <2>3. ChoseGame(shaken', k) = r \o o
      <3>1. shaken \in Seq(Handshaked)
        BY DEF IInv, TypeOK
      <3> HIDE DEF h
      <3> QED
        BY <1>1, <3>1, ChoseAppend
    <2>4. WaitingFor(k)' = p \o (r \o o)
      BY <1>1, <2>3 DEF WaitingFor
    <2>5. CASE k = g
      <3>1. o = <<c>>
        BY <2>5
      <3> HIDE DEF o, p, r
      <3>2. r \o <<c>> = Append(r, c)
        BY <2>1, AppendIsConcat
      <3>3. p \o Append(r, c) = Append(p \o r, c)
        BY <2>1, AppendConcat
      <3> QED
        BY <2>2, <2>4, <2>5, <3>1, <3>2, <3>3
    <2>6. CASE k # g
      <3>1. o = <<>>
        BY <2>6
      <3> HIDE DEF o, p, r
      <3>2. r \o <<>> = r
        BY <2>1, ConcatEmptySeq
      <3> QED
        BY <2>2, <2>4, <2>6, <3>1, <3>2
    <2> QED
      BY <2>5, <2>6
  <1> HIDE DEF h
  <1>6. Waiting' = [Waiting EXCEPT ![g] = Append(@, c)]
    BY <1>1, <1>5 DEF Waiting
  <1>7. /\ \A k \in Games : \A i \in DOMAIN Waiting[k] : Waiting[k][i] # c
        /\ UNCHANGED games
    BY <1>1, <1>3 DEF Waiting
  <1> QED
    BY <1>1, <1>4, <1>6, <1>7 DEF Lobby!Arrive, Waiting, WaitingFor

\* A queue of two before another list.
LEMMA TwoAndMore ==
    ASSUME NEW S, NEW s \in Seq(S), Len(s) = 2, NEW t \in Seq(S)
    PROVE  /\ Tail(Tail(s)) = <<>> /\ Tail(Tail(s \o t)) = t
           /\ Len(s \o t) >= 2 /\ (s \o t)[1] = s[1] /\ (s \o t)[2] = s[2]
  <1> DEFINE u == s \o t
             v == Tail(u)
             w == Tail(v)
  <1>1. /\ u \in Seq(S) /\ Len(u) = 2 + Len(t) /\ u[1] = s[1] /\ u[2] = s[2]
        /\ Len(t) \in Nat /\ \A i \in 1..Len(t) : u[i + 2] = t[i]
    <2>1. Len(t) \in Nat
      BY LenProperties
    <2>2. /\ s \o t \in Seq(S) /\ Len(s \o t) = Len(s) + Len(t)
          /\ \A i \in 1..(Len(s) + Len(t)) :
                (s \o t)[i] = IF i <= Len(s) THEN s[i] ELSE t[i - Len(s)]
      BY ConcatProperties
    <2> HIDE DEF u
    <2>5. u \in Seq(S) /\ Len(u) = 2 + Len(t)
      BY <2>2 DEF u
    <2>6. \A i \in 1..(2 + Len(t)) : u[i] = IF i <= 2 THEN s[i] ELSE t[i - 2]
      BY <2>2 DEF u
    <2>3. u[1] = s[1] /\ u[2] = s[2]
      BY <2>1, <2>6
    <2>4. \A i \in 1..Len(t) : u[i + 2] = t[i]
      BY <2>1, <2>6
    <2> QED
      BY <2>1, <2>3, <2>4, <2>5
  <1> HIDE DEF u
  <1>2. u # <<>>
    BY <1>1, EmptySeq
  <1>3. v \in Seq(S) /\ Len(v) = 1 + Len(t) /\ \A i \in 1..(1 + Len(t)) : v[i] = u[i + 1]
    BY <1>1, <1>2, HeadTailProperties
  <1> HIDE DEF v
  <1>4. v # <<>>
    BY <1>1, <1>3, EmptySeq
  <1>5. w \in Seq(S) /\ Len(w) = Len(t) /\ \A i \in 1..Len(t) : w[i] = v[i + 1]
    BY <1>1, <1>3, <1>4, HeadTailProperties
  <1>6. \A i \in 1..Len(w) : w[i] = t[i]
    BY <1>1, <1>3, <1>5
  <1> HIDE DEF w
  <1>7. w = t
    BY <1>5, <1>6, SeqEqual
  <1>8. Tail(Tail(s)) = <<>>
    <2>1. s # <<>>
      <3>1. Len(s) > 0
        OBVIOUS
      <3> QED
        BY <3>1, NotEmpty
    <2>2. Tail(s) \in Seq(S) /\ Len(Tail(s)) = 1
      BY <2>1, HeadTailProperties
    <2> QED
      BY <2>2, TailOfOne
  <1> QED
    BY <1>1, <1>7, <1>8, SMTT(30) DEF u, v, w

\* A game that is built is a match of the two that waited longest.
LEMMA BuildGameMatches ==
    ASSUME IInv, BuildGame, NEW g \in Games, g = plexer
    PROVE  Lobby!Match(g)
  <1> DEFINE s == players[g]
             a == ChoseGame(handshaked, g)
             b == ChoseGame(shaken, g)
  <1>1. /\ Len(s) = 2
        /\ games' = Append(games, [game |-> g, p1 |-> s[1], p2 |-> s[2]])
        /\ players' = [players EXCEPT ![g] = Tail(Tail(s))]
        /\ UNCHANGED <<handshaked, shaken>>
    BY DEF BuildGame, IInv, TypeOK, NobodyWaitsForSecond, handshakeVars, handshakedVars
  <1>2. s \in Seq(Clients) /\ a \in Seq(Clients) /\ b \in Seq(Clients)
    BY WaitingType DEF IInv
  <1>3. WaitingFor(g) = (s \o a) \o b
    BY DEF WaitingFor
  <1>4. players' = [players EXCEPT ![g] = <<>>]
    <2> HIDE DEF s
    <2>1. Tail(Tail(s)) = <<>>
      BY <1>1, <1>2, TwoAndMore
    <2> QED
      BY <1>1, <2>1
  <1>5. players'[g] = <<>> /\ \A k \in Games : k # g => players'[k] = players[k]
    BY <1>4 DEF IInv, TypeOK
  <1>6. WaitingFor(g)' = (<<>> \o a) \o b
    BY <1>1, <1>5 DEF WaitingFor
  <1>7. \A k \in Games : k # g => WaitingFor(k)' = WaitingFor(k)
    BY <1>1, <1>5 DEF WaitingFor
  <1> HIDE DEF s, a, b
  <1>8. a \o b \in Seq(Clients) /\ (s \o a) \o b = s \o (a \o b)
    BY <1>2, ConcatAssociative
  <1>9. <<>> \o a = a
    BY <1>2, ConcatEmptySeq
  <1> DEFINE t == a \o b
             w == s \o t
  <1>10. t \in Seq(Clients) /\ WaitingFor(g) = w /\ WaitingFor(g)' = t
    BY <1>3, <1>6, <1>8, <1>9
  <1> HIDE DEF t
  <1>11. Tail(Tail(w)) = t /\ Len(w) >= 2 /\ w[1] = s[1] /\ w[2] = s[2]
    BY <1>1, <1>2, <1>10, TwoAndMore
  <1> HIDE DEF w
  <1>12. Waiting[g] = w
    BY <1>10 DEF Waiting
  <1>13. Waiting' = [Waiting EXCEPT ![g] = Tail(Tail(@))]
    BY <1>7, <1>10, <1>11, <1>12 DEF Waiting
  <1>14. games' = Append(games, [game |-> g, p1 |-> Waiting[g][1], p2 |-> Waiting[g][2]])
    BY <1>1, <1>11, <1>12
  <1> QED
    BY <1>11, <1>12, <1>13, <1>14 DEF Lobby!Match, Lobby!CanMatch, Waiting, WaitingFor

\* The plexer moves a client from one part of its queue to the one before.
LEMMA PlexNextWaits ==
    ASSUME IInv, PlexNext
    PROVE  UNCHANGED <<Waiting, games>>
  <1> DEFINE h == Head(handshaked)
             g == h.game_choice
             c == h.client_fd
  <1>1. handshaked # <<>> /\ h \in Handshaked /\ g \in Games /\ c \in Clients
    BY PlexNextEffect DEF Handshaked
  <1>2. /\ players' = [players EXCEPT ![g] = Append(players[g], c)]
        /\ handshaked' = Tail(handshaked) /\ UNCHANGED <<shaken, games>>
        /\ players \in [Games -> Seq(Clients)]
    BY DEF PlexNext, handshakeVars, IInv, TypeOK
  <1> SUFFICES ASSUME NEW k \in Games PROVE WaitingFor(k)' = WaitingFor(k)
    BY <1>2 DEF Waiting
  <1> DEFINE p == players[k]
             q == ChoseGame(handshaked, k)
             u == ChoseGame(Tail(handshaked), k)
             r == ChoseGame(shaken, k)
  <1>3. p \in Seq(Clients) /\ q \in Seq(Clients) /\ r \in Seq(Clients)
    BY WaitingType DEF IInv
  <1>4. handshaked \in Seq(Handshaked) /\ Tail(handshaked) \in Seq(Handshaked)
    BY <1>1, HeadTailProperties DEF IInv, TypeOK
  <1>5. u \in Seq(Clients)
    BY <1>4, ChoseType
  <1>6. q = (IF g = k THEN <<c>> ELSE <<>>) \o u
    BY <1>1, <1>4, ChoseHead
  <1>7. WaitingFor(k) = (p \o q) \o r
    BY DEF WaitingFor
  <1>8. WaitingFor(k)' = (players'[k] \o u) \o r
    BY <1>2 DEF WaitingFor
  <1>9. players'[k] = IF g = k THEN Append(p, c) ELSE p
    BY <1>2
  <1> HIDE DEF p, q, u, r, c, g
  <1>10. CASE g = k
    <2> DEFINE o == <<c>>
    <2>1. o \in Seq(Clients) /\ Append(p, c) = p \o o
      BY <1>1, <1>3, AppendIsConcat
    <2>2. q = o \o u /\ players'[k] = p \o o
      BY <1>6, <1>9, <1>10, <2>1
    <2> HIDE DEF o
    <2>3. (p \o o) \o u = p \o (o \o u)
      <3>1. p \in Seq(Clients) /\ o \in Seq(Clients) /\ u \in Seq(Clients)
        BY <1>3, <1>5, <2>1
      <3> QED
        BY <3>1, ConcatAssociative
    <2> QED
      BY <1>7, <1>8, <2>2, <2>3
  <1>11. CASE g # k
    <2>1. q = <<>> \o u /\ <<>> \o u = u /\ players'[k] = p
      BY <1>5, <1>6, <1>9, <1>11, ConcatEmptySeq
    <2> QED
      BY <1>7, <1>8, <2>1
  <1> QED
    BY <1>10, <1>11

\* So does the handshaker when it passes its clients on.
LEMMA PassWaits ==
    ASSUME IInv, Pass
    PROVE  UNCHANGED <<Waiting, games>>
  <1>1. /\ handshaked' = handshaked \o shaken /\ shaken' = <<>> /\ UNCHANGED <<players, games>>
        /\ handshaked \in Seq(Handshaked) /\ shaken \in Seq(Handshaked)
    BY DEF Pass, plexerVars, IInv, TypeOK
  <1> SUFFICES ASSUME NEW k \in Games PROVE WaitingFor(k)' = WaitingFor(k)
    BY <1>1 DEF Waiting
  <1> DEFINE p == players[k]
             q == ChoseGame(handshaked, k)
             r == ChoseGame(shaken, k)
  <1>2. p \in Seq(Clients) /\ q \in Seq(Clients) /\ r \in Seq(Clients)
    BY WaitingType DEF IInv
  <1>3. ChoseGame(handshaked', k) = q \o r
    BY <1>1, ChoseConcat
  <1>4. ChoseGame(shaken', k) = <<>>
    BY <1>1, ChoseNone
  <1>5. WaitingFor(k)' = (p \o (q \o r)) \o <<>>
    BY <1>1, <1>3, <1>4 DEF WaitingFor
  <1>6. WaitingFor(k) = (p \o q) \o r
    BY DEF WaitingFor
  <1> HIDE DEF p, q, r
  <1>7. p \o (q \o r) \in Seq(Clients) /\ (p \o q) \o r = p \o (q \o r)
    BY <1>2, ConcatAssociative
  <1>8. (p \o (q \o r)) \o <<>> = p \o (q \o r)
    BY <1>7, ConcatEmptySeq
  <1> QED
    BY <1>5, <1>6, <1>7, <1>8

\* The lobby is empty at first, and each step of the threads is a step of the
\* lobby or none.
LEMMA LobbyInit == Init => Lobby!MatchmakingInit
  <1> SUFFICES ASSUME Init PROVE Lobby!MatchmakingInit
    OBVIOUS
  <1>1. \A g \in Games : WaitingFor(g) = <<>>
    <2> SUFFICES ASSUME NEW g \in Games PROVE WaitingFor(g) = <<>>
      OBVIOUS
    <2>1. players[g] = <<>> /\ handshaked = <<>> /\ shaken = <<>>
      BY DEF Init
    <2> QED
      BY <2>1, ChoseNone DEF WaitingFor
  <1>2. games = <<>>
    BY DEF Init
  <1> QED
    BY <1>1, <1>2 DEF Lobby!MatchmakingInit, WaitingFor

LEMMA LobbyStep ==
    IInv /\ EachInOne /\ [Next]_vars => [Lobby!MatchmakingNext]_<<Waiting, games>>
  <1> SUFFICES ASSUME IInv, EachInOne, [Next]_vars
               PROVE  [Lobby!MatchmakingNext]_<<Waiting, games>>
    OBVIOUS
  <1>1. ASSUME UNCHANGED <<players, handshaked, shaken, games>>
        PROVE  UNCHANGED <<Waiting, games>>
    BY <1>1 DEF Waiting, WaitingFor
  <1>2. CASE ClientStep
    BY <1>1, <1>2
       DEF ClientStep, Accept, Choose, HangUp, handshakeVars, handshakedVars, plexerVars
  <1>3. CASE Wait \/ Rewait \/ Received \/ Select \/ Shaken
    BY <1>1, <1>3
       DEF Wait, Rewait, Received, Select, Shaken, handshakedVars, plexerVars
  <1>4. CASE Receive
    BY <1>1, <1>4 DEF Receive, handshakedVars, plexerVars
  <1>5. ASSUME NEW c \in Clients, Welcome(c)
        PROVE  Lobby!MatchmakingNext
    <2>1. choice[c] \in Games
      BY <1>5 DEF Welcome
    <2>2. PICK g \in Games : g = choice[c]
      BY <2>1
    <2>3. Lobby!Arrive(c, g)
      BY <1>5, <2>2, WelcomeArrives
    <2> QED
      BY <2>3 DEF Lobby!MatchmakingNext
  <1>6. ASSUME NEW c \in Clients, Refuse(c) \/ Drop(c) \/ Killed(c)
        PROVE  UNCHANGED <<Waiting, games>>
    BY <1>1, <1>6 DEF Refuse, Drop, Killed, handshakeVars, handshakedVars, plexerVars
  <1>7. CASE BuildGame
    <2>1. plexer \in Games
      BY <1>7 DEF BuildGame, IInv, TypeOK
    <2>2. PICK g \in Games : g = plexer
      BY <2>1
    <2>3. Lobby!Match(g)
      BY <1>7, <2>2, BuildGameMatches
    <2> QED
      BY <2>3 DEF Lobby!MatchmakingNext
  <1>8. CASE UNCHANGED vars
    BY <1>1, <1>8 DEF vars, handshakeVars, handshakedVars, plexerVars
  <1> QED
    BY <1>2, <1>3, <1>4, <1>5, <1>6, <1>7, <1>8, PlexNextWaits, PassWaits
       DEF Next, HandshakerStep, PlexerStep

\* Whatever the order of accepts, choices, passes and pairings, the threads
\* pair clients as the lobby promises: by game, in the order of their
\* handshakes, each of them once.
THEOREM MatchmakingImplemented == Spec => ImplementsMatchmaking
  <1>1. IInv /\ EachInOne /\ [Next]_vars
        => [Lobby!MatchmakingNext]_<<[g \in Games |-> players[g] \o ChoseGame(handshaked, g)
                                                     \o ChoseGame(shaken, g)], games>>
    BY LobbyStep DEF Waiting, WaitingFor
  <1> QED
    BY LobbyInit, <1>1, Invariance, EachInOneInit, EachInOneStep, PTL
       DEF Spec, ImplementsMatchmaking, Lobby!MatchmakingSpec
=============================================================================
