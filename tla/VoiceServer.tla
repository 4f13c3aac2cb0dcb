----------------------------- MODULE VoiceServer -----------------------------
(***************************************************************************)
(* The voice listener thread (lib_voice_server/voice_server.c with          *)
(* voice_chat_prot/voice_prot.c) against the game collection, which the     *)
(* plexer thread and the main thread change meanwhile, and the clients'     *)
(* AudioChat.java.                                                          *)
(*                                                                          *)
(* Every client has a UDP socket of its own, so an address is the           *)
(* connection it belongs to.  Its datagrams carry the descriptor the client *)
(* was told; the network loses, duplicates, delays and reorders them.  When *)
(* games begin and end is free here: GameServer says why they do.           *)
(***************************************************************************)
EXTENDS GameCollection

VARIABLES
    uid,       \* what respond_uid told each client
    mic,       \* AudioChat of each client: off, streaming, stopped
    hand,      \* the block gcol_create is about to register, or NULL
    slot,      \* voice_sockets of each block; NULL is NO_PORT
    listener,  \* where the listener is: recv, store, again, send
    datagram,  \* the client whose datagram the listener holds
    ptr,       \* game_env, the pointer the listener read from the table
    stale,     \* history: the block was freed since the pointer was read
    server     \* up, exited or corrupt (undefined behaviour)

gameVars     == <<collectionVars, uid, hand>>
listenerVars == <<listener, datagram, ptr>>
vars == <<gameVars, mic, slot, listenerVars, stale, server>>

NO_PORT == NULL
NoPorts == <<NO_PORT, NO_PORT>>

TypeOK ==
    /\ CollectionTypeOK
    /\ uid      \in [Conns -> Fds \cup {NULL}]
    /\ mic      \in [Conns -> {"off", "streaming", "stopped"}]
    /\ hand     \in Envs \cup {NULL}
    /\ slot     \in [Envs -> (Conns \cup {NO_PORT}) \X (Conns \cup {NO_PORT})]
    /\ listener \in {"recv", "store", "again", "send"}
    /\ datagram \in Conns \cup {NULL}
    /\ ptr      \in Envs \cup {NULL}
    /\ stale    \in BOOLEAN
    /\ server   \in {"up", "exited", "corrupt"}

Init ==
    /\ gcol_init
    /\ uid      = [c \in Conns |-> NULL]
    /\ mic      = [c \in Conns |-> "off"]
    /\ hand     = NULL
    /\ slot     = [e \in Envs |-> NoPorts]
    /\ listener = "recv"
    /\ datagram = NULL
    /\ ptr      = NULL
    /\ stale    = FALSE
    /\ server   = "up"

Up == server = "up"

Registered(f) == table[f] # NULL

-----------------------------------------------------------------------------
(* Connections and games come and go.                                       *)

\* Mutant: the client is told a number of its own.
Connect_TellsOther(c, f) ==
    /\ Up
    /\ uid[c] = NULL
    /\ \A d \in Conns : d < c => uid[d] # NULL
    /\ ~Open(f)
    /\ \A g \in Fds : g < f => Open(g)
    /\ conn' = [conn EXCEPT ![f] = c]
    /\ uid'  = [uid EXCEPT ![c] = c]
    /\ UNCHANGED <<env, table, mic, hand, slot, listenerVars, stale, server>>

\* Accepted on the lowest free descriptor, and told it as its uid.
Connect(c, f) ==
    /\ Up
    /\ uid[c] = NULL
    /\ \A d \in Conns : d < c => uid[d] # NULL
    /\ ~Open(f)
    /\ \A g \in Fds : g < f => Open(g)
    /\ conn' = [conn EXCEPT ![f] = c]
    /\ uid'  = [uid EXCEPT ![c] = f]
    /\ UNCHANGED <<env, table, mic, hand, slot, listenerVars, stale, server>>

\* Clients that wait for a game.
Waits(f) == Open(f) /\ mic[conn[f]] = "off"

\* make_env and start_game, with no lock: a client starts its microphone when
\* it reads the start update.
StartGame(e, p1, p2) ==
    /\ Up
    /\ hand = NULL
    /\ Waits(p1) /\ Waits(p2) /\ p1 # p2
    /\ make_env(e, p1, p2)
    /\ slot' = [slot EXCEPT ![e] = NoPorts]
    /\ mic'  = [c \in Conns |-> IF c \in {conn[p1], conn[p2]} THEN "streaming" ELSE mic[c]]
    /\ hand' = e
    /\ UNCHANGED <<conn, table, uid, listenerVars, stale, server>>

\* rps's start_game reaches the first player and not the second: the first
\* streams until it reads that its opponent left.  What becomes of the block,
\* which is freed and then registered, is in GameServer.
StartFails(f) ==
    /\ Up
    /\ hand = NULL
    /\ Waits(f)
    /\ mic' = [mic EXCEPT ![conn[f]] = "streaming"]
    /\ UNCHANGED <<gameVars, slot, listenerVars, stale, server>>

Add ==
    /\ Up
    /\ hand # NULL
    /\ gcol_add(hand)
    /\ hand' = NULL
    /\ UNCHANGED <<conn, env, uid, mic, slot, listenerVars, stale, server>>

\* Mutant: the ports are left in the block.
EndGame_KeepsPorts(f) ==
    /\ Up
    /\ Registered(f)
    /\ gcol_remove(f)
    /\ stale' = (stale \/ ptr = table[f])
    /\ UNCHANGED <<uid, mic, hand, slot, listenerVars, server>>

\* gcol_remove: the ports are cleared before the block is freed.
EndGame(f) ==
    /\ Up
    /\ Registered(f)
    /\ gcol_remove(f)
    /\ slot'  = [slot EXCEPT ![table[f]] = NoPorts]
    /\ stale' = (stale \/ ptr = table[f])
    /\ UNCHANGED <<uid, mic, hand, listenerVars, server>>

\* onStop: the player leaves the activity, maybe long after its game.
StopStreaming(c) ==
    /\ mic[c] = "streaming"
    /\ mic' = [mic EXCEPT ![c] = "stopped"]
    /\ UNCHANGED <<gameVars, slot, listenerVars, stale, server>>

-----------------------------------------------------------------------------
(* The listener.                                                            *)

\* recv_voice, then the look into the table that set_client_addr takes before
\* the lock.  Once a client has streamed, one of its datagrams may arrive at
\* any time, more than once, or never.
Receive(c) ==
    /\ Up
    /\ listener = "recv"
    /\ mic[c] # "off"
    /\ datagram' = c
    /\ ptr'      = gcol_get(uid[c])
    /\ stale'    = FALSE
    /\ listener' = "store"
    /\ UNCHANGED <<gameVars, mic, slot, server>>

\* A recording shorter than the header: the buffer is zeroed, so the uid is
\* 0, for which no game is ever registered.
ReceiveShort(c) ==
    /\ Up
    /\ listener = "recv"
    /\ mic[c] # "off"
    /\ datagram' = c
    /\ ptr'      = NULL
    /\ stale'    = FALSE
    /\ listener' = "store"
    /\ UNCHANGED <<gameVars, mic, slot, server>>

\* The listener drops the datagram and goes back to recv_voice.
Drop ==
    /\ listener' = "recv"
    /\ datagram' = NULL
    /\ ptr'      = NULL
    /\ stale'    = FALSE
    /\ UNCHANGED <<gameVars, mic, slot, server>>

SetNoGame ==
    /\ Up
    /\ listener = "store"
    /\ ptr = NULL
    /\ Drop

\* Mutant: the players are mixed up.
PlayerIndex_Swapped(e, u) == IF env[e][1] = u THEN 2 ELSE 1

\* Mutant: the first player is who is not the second.
PlayerIndex_ElseFirst(e, u) == IF env[e][2] = u THEN 2 ELSE 1

\* The second player is who is not the first.
PlayerIndex(e, u) == IF env[e][1] = u THEN 1 ELSE 2

\* The slots once the address of c is put where its uid says.
WithAddress(e, c) ==
    [slot EXCEPT ![e] = IF PlayerIndex(e, uid[c]) = 1 THEN <<c, slot[e][2]>>
                                                      ELSE <<slot[e][1], c>>]

\* Mutant: a datagram from a known address is dropped.
SetClientAddr_NewOnly ==
    /\ Up
    /\ listener = "store"
    /\ ptr # NULL /\ Allocated(ptr)
    /\ \/ /\ slot[ptr][PlayerIndex(ptr, uid[datagram])] = NO_PORT
          /\ slot' = WithAddress(ptr, datagram)
          /\ listener' = "again"
          /\ ptr'   = NULL
          /\ stale' = FALSE
          /\ UNCHANGED <<gameVars, mic, datagram, server>>
       \/ /\ slot[ptr][PlayerIndex(ptr, uid[datagram])] # NO_PORT
          /\ Drop

\* set_client_addr under the lock, through a pointer read before it: the
\* first datagram fixes the address.
SetClientAddr ==
    /\ Up
    /\ listener = "store"
    /\ ptr # NULL /\ Allocated(ptr)
    /\ slot' = IF slot[ptr][PlayerIndex(ptr, uid[datagram])] # NO_PORT THEN slot
               ELSE WithAddress(ptr, datagram)
    /\ listener' = "again"
    /\ ptr'   = NULL
    /\ stale' = FALSE
    /\ UNCHANGED <<gameVars, mic, datagram, server>>

\* The block was freed: the address is written where nobody looks (make_env
\* clears the ports), or over what the heap keeps there.  make_env takes no
\* lock, so that it can also be given the block while the listener is between
\* voice_server.c:33 and :42, and have any of its fields overwritten: "corrupt"
\* stands for that too.
SetFreed ==
    /\ Up
    /\ listener = "store"
    /\ ptr # NULL /\ ~Allocated(ptr)
    /\ server' \in {"up", "corrupt"}
    /\ listener' = "again"
    /\ ptr'   = NULL
    /\ stale' = FALSE
    /\ UNCHANGED <<gameVars, mic, slot, datagram>>

\* send_datagram looks into the table again, before it takes the lock again.
LookAgain ==
    /\ Up
    /\ listener = "again"
    /\ ptr'      = gcol_get(uid[datagram])
    /\ listener' = "send"
    /\ UNCHANGED <<gameVars, mic, slot, datagram, stale, server>>

\* Mutant: send_datagram takes the index of the sender.
Recipient_Echo == slot[ptr][PlayerIndex(ptr, uid[datagram])]

\* The slot of the player that did not send the datagram.
Recipient == slot[ptr][3 - PlayerIndex(ptr, uid[datagram])]

SendNoGame ==
    /\ Up
    /\ listener = "send"
    /\ ptr = NULL
    /\ Drop

\* The other player has not been heard of yet.
SendNoRecipient ==
    /\ Up
    /\ listener = "send"
    /\ ptr # NULL /\ Allocated(ptr)
    /\ Recipient = NO_PORT
    /\ Drop

\* send_voice of the datagram of s to the address of r.
Relay(s, r) ==
    /\ Up
    /\ listener = "send"
    /\ ptr # NULL /\ Allocated(ptr)
    /\ datagram = s
    /\ Recipient = r
    /\ Drop

\* The freed block is read: its ports were cleared, or the heap has put
\* something there, to which sendto fails, so that the process exits.
SendFreed ==
    /\ Up
    /\ listener = "send"
    /\ ptr # NULL /\ ~Allocated(ptr)
    /\ server' \in {"up", "exited", "corrupt"}
    /\ listener' = "recv"
    /\ datagram' = NULL
    /\ ptr'      = NULL
    /\ stale'    = FALSE
    /\ UNCHANGED <<gameVars, mic, slot>>

\* recvfrom or sendto returns -1: recv_ and send_ exit the process.
SocketFails ==
    /\ Up
    /\ \/ listener = "recv"
       \/ listener = "send" /\ ptr # NULL /\ Allocated(ptr) /\ Recipient # NO_PORT
    /\ server' = "exited"
    /\ UNCHANGED <<gameVars, mic, slot, listenerVars, stale>>

-----------------------------------------------------------------------------
GameStep ==
    \/ \E c \in Conns, f \in Fds : Connect(c, f)
    \/ \E e \in Envs, p1, p2 \in Fds : StartGame(e, p1, p2)
    \/ \E f \in Fds : StartFails(f)
    \/ Add
    \/ \E f \in Fds : EndGame(f)
    \/ \E c \in Conns : StopStreaming(c)

Process ==
    \/ SetNoGame \/ SetClientAddr \/ SetFreed
    \/ LookAgain
    \/ SendNoGame \/ SendNoRecipient \/ SendFreed
    \/ \E s, r \in Conns : Relay(s, r)

Next ==
    \/ GameStep
    \/ \E c \in Conns : Receive(c) \/ ReceiveShort(c)
    \/ Process
    \/ SocketFails

Spec == Init /\ [][Next]_vars

\* The listener is a thread that runs; of a client that goes on streaming one
\* datagram after the other gets through.
FairSpec ==
    /\ Spec
    /\ WF_vars(Process)
    /\ \A c \in Conns : SF_vars(Receive(c) /\ mic[c] = "streaming")

-----------------------------------------------------------------------------
(* What makes the relay correct.                                            *)

\* The two players of a registered game.
Opponents(s, r) ==
    LET f == uid[s] g == uid[r] IN
    /\ f \in Fds /\ g \in Fds /\ f # g
    /\ conn[f] = s /\ conn[g] = r
    /\ Registered(f) /\ table[f] = table[g]

\* Another client was, or had been, told the same descriptor.
Reused(c) == \E d \in Conns \ {c} : uid[d] = uid[c]

\* The second slot holds the address of a client that is not the second player
\* and never had its descriptor.
Strayed(e) == Allocated(e) /\ slot[e][2] # NO_PORT /\ uid[slot[e][2]] # env[e][2]

\* set_client_addr takes whoever is not the first player for the second, also
\* through a stale pointer: so the first slot, to which the voice of the second
\* player goes, only ever holds a client that was told the first descriptor.
\* The critical section is one step here.  make_env, which takes no lock, can
\* run inside it only for a block that was freed before: SetFreed, "corrupt",
\* after which nothing is claimed.
FirstSlotIsFirstPlayers ==
    \A e \in Envs : Allocated(e) /\ slot[e][1] # NO_PORT => uid[slot[e][1]] = env[e][1]

\* The second slot gets the address of somebody else's client in one way only:
\* the game of that client was removed, and its block given to this game,
\* between gcol_get and gcol_lock (voice_server.c:23-25).  A block that is freed
\* by then and given away inside the critical section (:33-:42), for which
\* make_env needs no lock, is SetFreed's "corrupt": nothing is claimed after it.
StrayOnlyByRace ==
    [][\A e \in Envs : ~Strayed(e) /\ Strayed(e)' => stale /\ ptr = e]_vars

\* The same race in send_datagram (voice_server.c:55-56) sends nothing to
\* anybody: gcol_remove and make_env clear the ports, and it is the listener
\* itself that would fill them again.
StaleIsSilent ==
    listener = "send" /\ stale /\ ptr # NULL => slot[ptr] = NoPorts

\* A voice goes from one player of a registered game to the other, unless a
\* descriptor of the two was another client's too, whose datagrams are taken
\* for the player's, or the block was strayed into.
VoicesStayInGame ==
    [][\A s, r \in Conns : Relay(s, r) =>
           \/ Opponents(s, r)
           \/ Reused(s) \/ Reused(r)
           \/ Strayed(ptr)]_vars

\* The two players of a game that goes on, both streaming.  Nobody else
\* had the descriptor of r, and no stranger's address is in the game.
OnTheLine(s, r) ==
    /\ Up
    /\ Opponents(s, r)
    /\ mic[s] = "streaming" /\ mic[r] = "streaming"
    /\ ~Reused(r)
    /\ ~Strayed(table[uid[s]])

\* Players that go on streaming hear each other, again and again, however many
\* datagrams are lost, short, late or sent for games that are over.
OpponentIsHeard ==
    \A s, r \in Conns :
        <>[]OnTheLine(s, r) => []<><<Relay(s, r)>>_vars

=============================================================================
