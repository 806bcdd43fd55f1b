SPECIFICATION Spec
CONSTANTS
    editor = editor
    mail = mail
    NoWindow = NoWindow
    Windows <- mcWindows
    Processes <- mcProcesses
    ProcessOf <- mcProcessOf
    Excluded <- mcNoneExcluded
    MinDuration = 1
    MaxBacks = 1
    MaxTime = 3
    MaxSessions = 3
    MaxWakes = 1
    MaxPauses = 0
INVARIANTS
    QuietWhenSuspended
    NoRowSpansSuspension
    NoRecordLost
    RowsDisjoint
    RowsWellFormed
