SPECIFICATION Spec
CONSTANTS
    Store = "sqlite"
    Workers = {w1, w2}
    TriggerMessages = 4
    KeepRecent = 2
    Window = 4
    maxSummaryBatchMessages = 5
    MaxAttempts = 2
    MaxSequence = 9
    MaxFaults = 1
INVARIANTS
    SummaryIsFaithful
    NothingForgotten
PROPERTIES
    BorderAdvances
CHECK_DEADLOCK FALSE
