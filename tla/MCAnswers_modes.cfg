SPECIFICATION AnswersSpec
CONSTANTS
    Files <- MCFiles
    MaxAttempts = 3
    MaxGrants = 2
    MaxHunks = 2
    Replies <- MCReplies
    MaxUnread = 2
    PreviewLimit = 12
    PreviewMin = 2
    PreviewStep = 2
    Modes <- MCModes
    Documents <- MCDocuments
    Trees <- MCTrees
    NameOrder <- MCNameOrder
    Root <- MCRoot
    ToolCalls <- MCToolCalls
    Ignored = {"target"}
    MaxReadLines = 2
    MaxReadBytes = 3
    MaxSearchFiles = 3
    MaxResults = 4
    MaxEntries = 2
    Walk <- MCWalk
    Skipped = {"target"}
    TestPaths = {"users_test"}
    PathTerms <- MCPathTerms
    PathCost <- MCPathCost
    Compound = {"register_user"}
    Length <- MCLength
    FileTexts <- MCFileTexts
    Projects <- MCProjects
    Plans <- MCPlans
    MaxTerms = 2
    MaxEdits = 2
CONSTRAINT FilesChangeUnderThePlainCall
INVARIANT ModesAreStrict
CHECK_DEADLOCK FALSE
