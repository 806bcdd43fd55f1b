SPECIFICATION Spec
CONSTANTS
    StartOf <- mcStartOf
    Invalid <- mcNoneInvalid
    N = 11
    MaxRecords = 100
    MaxRequests = 20
    MaxRounds = 20
    RetryBase = 1
    RetryMax = 2
    RetryCap = 1
    AgeCap = 1
    SyncInterval = 1
    BackoffBase = 1
    BackoffMax = 2
    MaxCrashes = 0
    Faults = FALSE
    SessionFaults = FALSE
INVARIANTS
    HealthyCycleCompletes
