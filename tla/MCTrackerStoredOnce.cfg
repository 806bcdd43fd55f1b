SPECIFICATION Spec
CONSTANTS
    editor = editor
    mail = mail
    NoWindow = NoWindow
    Windows <- mcWindows
    Processes <- mcProcesses
    ProcessOf <- mcProcessOf
    Excluded <- mcNoneExcluded
    MinDuration = 1
    MaxBacks = 0
    MaxTime = 3
    MaxSessions = 3
    MaxWakes = 1
    MaxPauses = 1
INVARIANTS
    StoredOnce
