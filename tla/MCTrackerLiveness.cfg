SPECIFICATION Spec
CONSTANTS
    editor = editor
    mail = mail
    NoWindow = NoWindow
    Windows <- mcWindows
    Processes <- mcProcesses
    ProcessOf <- mcOneProcess
    Excluded <- mcNoneExcluded
    MinDuration = 0
    MaxBacks = 0
    MaxTime = 1
    MaxSessions = 2
    MaxWakes = 1
    MaxPauses = 1
PROPERTIES
    SuspendClosesRecord
    ExitCompletes
    FollowsForeground
