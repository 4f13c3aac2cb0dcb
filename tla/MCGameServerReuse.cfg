\* One pair of descriptors that consecutive games reuse, both kinds of game.
SPECIFICATION Spec
CONSTANTS
    Fds = {4, 5}
    Conns = {1, 2, 3, 4}
    Envs = {e1, e2}
    NULL = NULL
    Kinds = {"TTT", "RPS"}
    Requests = {"move", "quit"}
    Leavers = {1, 2, 3, 4}
    Leaves = {"closed", "reset"}
    MaxInbox = 1
SYMMETRY Symmetry
CHECK_DEADLOCK FALSE
INVARIANTS
    TypeOK
    TableConsistent
    DescriptorsOwnedOnce
    EnvsAccounted
    NoLostWakeup
    WatchedAreRegistered
    BlocksOnlyOnReuse
