SPECIFICATION Spec
CONSTANTS
    Counts <- mcCounts
    MaxBad = 2
    MaxRequests = 20
    Failures = TRUE
INVARIANTS
    Partition
    BlameIsExact
    BudgetSuffices
