\* Clients that choose, are refused, leave at any time.
SPECIFICATION Spec
CONSTANTS
    Clients = {4, 5, 6, 7}
CHECK_DEADLOCK FALSE
INVARIANTS
    TypeOK
    OnePlace
    SemaphoresCount
    HeldIsSelected
    NobodyWaitsForSecond
PROPERTIES
    ImplementsMatchmaking
