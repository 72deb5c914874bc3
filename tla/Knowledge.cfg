SPECIFICATION Spec
CONSTANTS
    Contents = {c1, c2}
    Workers = {w1, w2}
    None = None
    MaxDocuments = 3
    MaxDeletions = 3
    MaxFaults = 1
INVARIANTS
    NewestIsServed
    CompletedWasStored
PROPERTIES
    UploadsSettle
CHECK_DEADLOCK FALSE
