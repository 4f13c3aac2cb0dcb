\* One game, every request a client can send, every way to leave.
SPECIFICATION Spec
CONSTANTS
    Fds = {4, 5}
    Conns = {1, 2}
    Envs = {e1, e2}
    NULL = NULL
    Kinds = {"TTT", "RPS"}
    Requests = {"move", "quit", "invalid", "short", "empty"}
    Leavers = {1, 2}
    Leaves = {"closed", "reset"}
    MaxInbox = 1
SYMMETRY Symmetry
CHECK_DEADLOCK FALSE
INVARIANTS
    FarewellCloses
PROPERTIES
    NoSilentClose
    StoryInOrder
