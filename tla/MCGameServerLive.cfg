\* Two games at a time, moves, and one that leaves; threads are fair.
SPECIFICATION FairSpec
CONSTANTS
    Fds = {4, 5, 6, 7}
    Conns = {1, 2, 3, 4}
    Envs = {e1, e2}
    NULL = NULL
    Kinds = {"TTT"}
    Requests = {"move"}
    Leavers = {4}
    Leaves = {"closed"}
    MaxInbox = 1
CHECK_DEADLOCK FALSE
PROPERTIES
    PlayersServed
