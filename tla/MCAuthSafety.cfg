SPECIFICATION Spec
CONSTANTS
    Users = {u1}
    NoUser = NoUser
    Threads = {gui, cloud}
    gui = gui
    NoThread = NoThread
    MaxIssues = 3
    Accounts = TRUE
    Omits <- mcOmits
    Faults <- mcTokenFaults
INVARIANTS
    DeservedLogout
    DiskMatchesMemory
PROPERTIES
    CallReturns
