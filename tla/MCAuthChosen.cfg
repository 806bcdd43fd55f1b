SPECIFICATION Spec
CONSTANTS
    Users = {u1, u2}
    NoUser = NoUser
    Threads = {gui, cloud}
    gui = gui
    NoThread = NoThread
    MaxIssues = 3
    Accounts = TRUE
    Omits <- mcFull
    Faults <- mcNoFaults
INVARIANTS
    SessionIsChosen
