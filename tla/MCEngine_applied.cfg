SPECIFICATION Spec
CONSTANTS
    ClientActions <- EditorActions
    Replies <- TextReplies
    BackendKinds <- BackendCards
    PatchIds = {"p_1"}
    FileOps = FALSE
    MaxHunks = 1
    MaxProposals = 2
    MaxGen = 5
    Prefetching = TRUE
    LateReports = FALSE
INVARIANT
    AppliedNeverPendingAgain
CHECK_DEADLOCK FALSE
