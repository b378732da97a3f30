SPECIFICATION Spec
CONSTANTS
    ClientActions <- ProtocolActions
    Replies <- AllReplies
    BackendKinds <- AllBackendCards
    PatchIds = {"p_1"}
    FileOps = FALSE
    MaxHunks = 2
    MaxProposals = 3
    MaxGen = 4
    Prefetching = FALSE
    LateReports = FALSE
INVARIANTS
    LiveTurnIsCurrent
    ReviewIsInOrder
PROPERTIES
    RefusalKeepsTheContract
    AcceptanceNamesTheProposal
    ImplementsReview
CHECK_DEADLOCK FALSE
