----------------------------- MODULE VoiceGames -----------------------------
(***************************************************************************)
(* The games of GameServer and the listener of VoiceServer in one process:  *)
(* the three threads share the game collection, and each may end the        *)
(* process.  VoiceServer lets games begin and end as they like; here they   *)
(* do what the plexer and the main thread make them do.                     *)
(***************************************************************************)
EXTENDS GameServer

VARIABLES uid, mic, slot, listener, datagram, ptr, stale,  \* as in VoiceServer
          voice  \* what the listener made of the process: up, exited or corrupt

voiceVars == <<uid, mic, slot, listener, datagram, ptr, stale, voice>>

\* The block gcol_create is about to register, unless the start failed and it
\* was freed.
Created == IF plexer = "add" /\ Allocated(hand) THEN hand ELSE NULL

DescriptorOf(c) == CHOOSE f \in Fds : conn[f] = c

V == INSTANCE VoiceServer WITH hand <- Created, server <- voice

InitBoth == Init /\ V!Init

\* The start that fails at the second player, when the first was told already.
ReachesFirst(f) ==
    \E e \in Envs, g \in Fds :
        /\ BuildFails(e, f, g)
        /\ CanWrite(conn[f]) /\ CanFail(conn[g])
        /\ told' = Tell(told, {conn[f]}, "opp")

\* A step of the games, and what it means to the clients' microphones and to
\* the ports in the blocks: respond_uid tells a client its descriptor, the
\* start update starts its microphone, make_env clears the ports, and so does
\* gcol_remove, behind the listener's back.
GamesStep ==
    /\ voice = "up"
    /\ Next
    /\ uid' = [c \in Conns |->
                  IF peer[c] = "absent" /\ peer'[c] # "absent"
                  THEN DescriptorOf(c)' ELSE uid[c]]
    /\ \/ mic' = [c \in Conns |->
                    IF /\ Created = NULL /\ Created' # NULL
                       /\ \E f \in Sockets(Created)' : conn[f] = c
                    THEN "streaming" ELSE mic[c]]
       \/ \E f \in Fds : ReachesFirst(f) /\ mic' = [mic EXCEPT ![conn[f]] = "streaming"]
    /\ slot' = [e \in Envs |-> IF env'[e] = env[e] THEN slot[e] ELSE V!NoPorts]
    /\ stale' = (stale \/ \E e \in Envs : ptr = e /\ Allocated(e) /\ ~Allocated(e)')
    /\ UNCHANGED <<listener, datagram, ptr, voice>>

\* A step of the listener, or of a client that stops streaming.
VoicesStep ==
    /\ UNCHANGED vars
    /\ \/ Up /\ \/ \E c \in Conns : V!Receive(c) \/ V!ReceiveShort(c)
                \/ V!Process
                \/ V!SocketFails
       \/ \E c \in Conns : V!StopStreaming(c)

NextBoth == GamesStep \/ VoicesStep

SpecBoth == InitBoth /\ [][NextBoth]_<<vars, voiceVars>>

-----------------------------------------------------------------------------

\* What GameServer makes of its games VoiceServer lets happen to them.
ImplementsVoiceServer == V!Spec

=============================================================================
