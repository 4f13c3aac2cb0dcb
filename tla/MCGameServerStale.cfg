\* Consecutive games on the same descriptors.
SPECIFICATION Spec
CONSTANTS
    Fds = {4, 5}
    Conns = {1, 2, 3, 4}
    Envs = {e1, e2}
    NULL = NULL
    Kinds = {"TTT"}
    Requests = {"move"}
    Leavers = {}
    Leaves = {}
    MaxInbox = 1
SYMMETRY Symmetry
CHECK_DEADLOCK FALSE
INVARIANT
    ServeNeverBlocks
