CONSTANTS
    Requests <- MCRequests
    Openings <- MCOpenings
    Pauses = {7, 8}
    MaxSent = 3
    MaxAnswers = 4
SPECIFICATION Spec
INVARIANTS
    TypeOK
    HeldForItsRest
PROPERTIES
    ImplementsRequestStream
    ServerKeepsUp
CHECK_DEADLOCK FALSE
