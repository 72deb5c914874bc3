SPECIFICATION Spec
CONSTANTS
    Tabs = {t1, t2}
    None = None
    DailyQuota <- Quotas
    UploadSizes = {0, 2}
    MaxUpload = 3
    Unit = 4
    Rate = 1
    Burst = 1
    ForgetAfter = 2
    MaxLogins = 1
    MaxSessions = 2
    MaxRequests = 3
    MaxClock = 3
    MaxFaults = 1
INVARIANTS
    LoggedOutStaysOut
    OneSessionPerLogin
    AdmittedWithinQuota
    RateKept
SYMMETRY Symmetry
CHECK_DEADLOCK FALSE
