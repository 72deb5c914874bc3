SPECIFICATION Spec
CONSTANTS
    t1 = t1
    t2 = t2
    key = key
    old = old
    new = new
    secret = secret
    Turns = {t1, t2}
    Workers = {w1, w2}
    Kinds = {"semantic", "episodic"}
    Keys = {key}
    NoKey = NoKey
    Contents = {old, new, secret}
    Sensitive = {secret}
    UserText = user
    Candidates <- MCCandidates
    MaxAttempts = 2
    MaxMemories = 3
    MaxFaults = 1
    MaxRequests = 1
    BatchSize = 1
INVARIANTS
    CompletedIsCaptured
PROPERTIES
    OnlyReindexLeavesStaleVectors
    JobsSettle
CHECK_DEADLOCK FALSE
