\* A player that is gone when its game is to start.
SPECIFICATION Spec
CONSTANTS
    Fds = {4, 5}
    Conns = {1, 2}
    Envs = {e1, e2}
    NULL = NULL
    Kinds = {"RPS"}
    Requests = {"move"}
    Leavers = {1, 2}
    Leaves = {"closed", "reset"}
    MaxInbox = 1
SYMMETRY Symmetry
CHECK_DEADLOCK FALSE
INVARIANT
    RegistersAllocated
