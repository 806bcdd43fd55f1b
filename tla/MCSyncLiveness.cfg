SPECIFICATION Spec
CONSTANTS
    StartOf <- mcStartOf
    Invalid <- mcOneInvalid
    N = 2
    MaxRecords = 2
    MaxRequests = 2
    MaxRounds = 2
    RetryBase = 1
    RetryMax = 2
    RetryCap = 1
    AgeCap = 1
    SyncInterval = 1
    BackoffBase = 1
    BackoffMax = 2
    MaxCrashes = 0
    Faults = TRUE
    SessionFaults = TRUE
PROPERTIES
    EventuallySynced
