\* Games on three descriptors with a listener that any client keeps busy.
SPECIFICATION SpecBoth
CONSTANTS
    Fds = {4, 5, 6}
    Conns = {1, 2, 3}
    Envs = {e1, e2}
    NULL = NULL
    Kinds = {"TTT", "RPS"}
    Requests = {"move"}
    Leavers = {1, 2}
    Leaves = {"closed"}
    MaxInbox = 1
SYMMETRY Symmetry
CHECK_DEADLOCK FALSE
PROPERTIES
    ImplementsVoiceServer
