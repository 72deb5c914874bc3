SPECIFICATION FairAgentSpec
CONSTANTS
    Calls = {c1, c2, c3, c4}
    HandoffLimits = {1, 3}
    MaxParallel = 2
    RetryCount = 1
    MaxIterations = 2
INVARIANTS
    LimitsKept
    AnswerWasShown
PROPERTIES
    EverythingReturns
CHECK_DEADLOCK FALSE
