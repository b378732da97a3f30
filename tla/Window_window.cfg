SPECIFICATION Spec
CONSTANTS
    ThinkingEnabled = TRUE
    StrayKeys = FALSE
    MaxRequests = 4
    MaxTexts = 2
    MaxQuestions = 1
INVARIANTS ReportsAreTrue LateResultsAreIgnored TextIsKept
PROPERTIES OneTurnAtATime QuestionsComeFirst BarrierFalls
CHECK_DEADLOCK FALSE
