\* Games one after the other, on reused descriptors and on others, in blocks
\* that are reused, with players of old games that go on streaming.
SPECIFICATION FairSpec
CONSTANTS
    Fds = {4, 5, 6}
    Conns = {1, 2, 3, 4}
    Envs = {e1, e2}
    NULL = NULL
CHECK_DEADLOCK FALSE
INVARIANTS
    TypeOK
    FirstSlotIsFirstPlayers
    StaleIsSilent
PROPERTIES
    StrayOnlyByRace
    VoicesStayInGame
    OpponentIsHeard
