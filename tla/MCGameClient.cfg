CONSTANTS
    Cells = {1, 2, 3}
    LineLength = 2
    Results = {1, 2}
    Threads = {1, 2}
    MaxPosted = 2
SPECIFICATION FairSpec
INVARIANTS
    TypeOK
    PageInStep
PROPERTIES
    EndingIsShown
CHECK_DEADLOCK FALSE
