SPECIFICATION FairSpec
CONSTANTS
    Sessions = {"s1", "s2"}
    MaxRequests = 3
    Ops <- AllOps
    Yields = TRUE
INVARIANTS
    EveryRequestHasOnePlace
    TurnsDoNotOverlap
PROPERTIES
    EverythingIsAnswered
CONSTRAINT UpToRenaming
CHECK_DEADLOCK FALSE
