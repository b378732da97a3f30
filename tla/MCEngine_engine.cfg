SPECIFICATION FairSpec
CONSTANTS
    ClientActions <- EditorActions
    Replies = {"Any"}
    BackendKinds <- BackendCards
    PatchIds = {"p_1"}
    FileOps = TRUE
    MaxHunks = 2
    MaxProposals = 3
    MaxGen = 4
    Prefetching = TRUE
    LateReports = TRUE
INVARIANTS
    SpeculationIsSound
    SessionIsCoherent
    EditorIsCurrent

    
CHECK_DEADLOCK FALSE
