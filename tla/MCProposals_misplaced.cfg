SPECIFICATION PSpec
CONSTANTS
    MaxReviewHunks = 2
    MaxChangedLines = 2
    Imports = {"import"}
    Mentions <- MCMentions
    Declares <- MCDeclares
    Replies <- MCReplies
    Active <- MCActive
    NewPath <- MCNewPath
    MaxEdits = 1
    Trees <- MCTrees
    Proposals <- MCProposed
    Universe <- MCUniverse
    MaxFileOps = 2
    MaxChanges = 2
INVARIANT AppliedIsExact
CHECK_DEADLOCK FALSE
