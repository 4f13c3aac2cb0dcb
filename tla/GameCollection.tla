--------------------------- MODULE GameCollection ---------------------------
(***************************************************************************)
(* lib/game_collection.c: the table that maps the descriptor of a player to *)
(* the environment of the game it plays, and the heap blocks and kernel     *)
(* descriptors the table refers to.  The operators are the transitions of   *)
(* the C functions; GameServer says who calls them and when.                *)
(***************************************************************************)
EXTENDS Naturals, FiniteSets

CONSTANTS Fds,    \* descriptors that accepted connections can get
          Conns,  \* TCP connections, numbered as they are accepted
          Envs,   \* heap blocks malloc can return for a game_environment
          NULL    \* no connection, no block, no environment

MIN_FD   == 4     \* utils.h
MAX_CONN == 255   \* game_server.h

ASSUME FdsAssumption   == Fds \subseteq MIN_FD .. MAX_CONN - 1
ASSUME ConnsAssumption == Conns \subseteq Nat
ASSUME NullAssumption  == NULL \notin Conns \cup Envs \cup (Fds \X Fds)
ASSUME UidAssumption   == NULL \notin Fds

VARIABLES conn,   \* kernel: the connection behind each descriptor
          env,    \* heap: the two game_sockets of each block, NULL if free
          table   \* gcol_games

collectionVars == <<conn, env, table>>

CollectionTypeOK ==
    /\ conn  \in [Fds -> Conns \cup {NULL}]
    /\ env   \in [Envs -> (Fds \X Fds) \cup {NULL}]
    /\ table \in [Fds -> Envs \cup {NULL}]

Open(f)      == conn[f] # NULL
Allocated(e) == env[e] # NULL
Sockets(e)   == {env[e][1], env[e][2]}

gcol_init ==
    /\ conn  = [f \in Fds |-> NULL]
    /\ env   = [e \in Envs |-> NULL]
    /\ table = [f \in Fds |-> NULL]

\* The environment registered for a descriptor; no lock is taken.
gcol_get(f) == table[f]

get_other_uid(e, f) == IF env[e][1] = f THEN env[e][2] ELSE env[e][1]

\* make_env: a block for the players p1 and p2.
make_env(e, p1, p2) ==
    /\ ~Allocated(e)
    /\ env' = [env EXCEPT ![e] = <<p1, p2>>]

\* gcol_add: under the lock, both players are mapped to the block.
gcol_add(e) ==
    table' = [f \in Fds |-> IF f \in Sockets(e) THEN e ELSE table[f]]

\* Mutant: the entry of the other player is forgotten.
gcol_remove_KeepsOther(f) ==
    LET e == table[f] IN
    /\ table' = [table EXCEPT ![f] = NULL]
    /\ conn'  = [g \in Fds |-> IF g \in Sockets(e) THEN NULL ELSE conn[g]]
    /\ env'   = [env EXCEPT ![e] = NULL]

\* Mutant: the block is not freed.
gcol_remove_Leaks(f) ==
    LET e == table[f] IN
    /\ table' = [g \in Fds |-> IF g \in Sockets(e) THEN NULL ELSE table[g]]
    /\ conn'  = [g \in Fds |-> IF g \in Sockets(e) THEN NULL ELSE conn[g]]
    /\ UNCHANGED env

\* gcol_remove: under the lock, both entries are cleared, both descriptors
\* closed and the block freed.
gcol_remove(f) ==
    LET e == table[f]
        other == get_other_uid(e, f)
    IN  /\ table' = [g \in Fds |-> IF g \in {f, other} THEN NULL ELSE table[g]]
        /\ conn'  = [g \in Fds |-> IF g \in Sockets(e) THEN NULL ELSE conn[g]]
        /\ env'   = [env EXCEPT ![e] = NULL]

=============================================================================
