\* Two clients in the queue when the handshaker looks.
SPECIFICATION Spec
CONSTANTS
    Clients = {4, 5, 6}
CHECK_DEADLOCK FALSE
INVARIANT
    NobodyForgotten
