SPECIFICATION Spec
CONSTANTS
    StartOf <- mcStartOf
    Invalid <- mcOneInvalid
    N = 3
    MaxRecords = 2
    MaxRequests = 3
    MaxRounds = 2
    RetryBase = 1
    RetryMax = 1
    RetryCap = 0
    AgeCap = 0
    SyncInterval = 0
    BackoffBase = 1
    BackoffMax = 1
    MaxCrashes = 1
    Faults = TRUE
    SessionFaults = FALSE
PROPERTIES
    NothingLost
    PenaltyDeserved
