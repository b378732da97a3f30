SPECIFICATION FairExchange
CONSTANTS
    MaxRequests = 3
    MaxStops = 2
    SpawnFails = TRUE
    Sessions = {"s1", "s2"}
    Convs = {"discovery", "patch", "goal"}
    Contexts = {"c1", "c2"}
    MaxTurns = 2
    MaxToolCalls = 1
    MaxThreads = 1
CONSTRAINT UpToRenaming
INVARIANTS
    NoRequestIsStranded
    ChainsAreWhole
PROPERTIES
    CallbacksAreRun
    EveryHttpTurnEnds
CHECK_DEADLOCK FALSE
