\* Clients that leave or choose in the end, fair threads.
SPECIFICATION DecisiveSpec
CONSTANTS
    Clients = {4, 5, 6}
CHECK_DEADLOCK FALSE
PROPERTIES
    EveryClientIsTaken
    EveryPairPlays
