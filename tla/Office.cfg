SPECIFICATION FairSpec
CONSTANTS
    Draft = {d1, d2}
    d1 = d1
    d2 = d2
    NoDraft = NoDraft
    KindOf <- EmailAndCalendar
    Process = {p1, p2}
    NoProcess = NoProcess
    Caller = {c1, c2}
    Remote = {r1, r2}
    NoRemote = NoRemote
    MaxAttempt = 2
    BatchSize = 1
    Faults <- CommitFaults
INVARIANTS
    CompletedTookEffect
PROPERTIES
    EffectSpec
    AttemptsEnd
CHECK_DEADLOCK FALSE
