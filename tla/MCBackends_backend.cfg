SPECIFICATION Spec
CONSTANTS
    Adapters = {"codex", "claude", "stdio"}
    Sessions = {"s1", "s2"}
    Contexts = {"c1", "c2"}
    MaxAsks = 2
    MaxSpeculations = 1
    MaxFaults = 1
    Faults = {"crash", "garble", "refuse"}
    MaxLanes = 4
INVARIANTS ContextIsKnown CancelledWorkStops
PROPERTIES AnswersAreOwn EveryTurnEnds
CONSTRAINT UpToRenaming
CHECK_DEADLOCK FALSE
