SPECIFICATION FairSpec
CONSTANTS
    j1 = j1
    Job = {j1}
    OfConversation = {j1}
    NoJob = NoJob
    Worker = {w1, w2, w3}
    NoWorker = NoWorker
    MaxAttempts = 3
    MaxRetries = 1
    Faults <- AnyFault
INVARIANTS
    Fenced
PROPERTIES
    PromiseSpec
    JobsSettle
CHECK_DEADLOCK FALSE
