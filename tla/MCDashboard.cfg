CONSTANTS
    Cores = {k1}  Ifaces = {e1}  Pids = {q1}  Thresholds = {50, 100}  MaxPoints = 1  MaxAlerts = 1
    Word = 16  LastClock = 3
    Logical = 2  Readings = {0, 846, 850}  FixedDrives <- mcDrives  Cards = {n1}
    HourMarks = 2  Offset <- mcOffset  FirstHour = 34  LastHour = 39  HistApps = {a1}
    UsageLimit = 1  RecentLimit = 1  MaxHistRows = 2
    Looks = {1, 2}  Default = 1
    DashUsers = {u1}  Guest = Guest  Peers = {d1, d2}  Self = Self  NoPeer = NoPeer
    MaxDashJobs = 2  MaxDialogs = 1
SPECIFICATION Spec
INVARIANTS
    PartsTypeOK
    
    ShownIsCurrent
    WeekIsWhole
PROPERTIES
    KeyOutlivesSave
    LogoutTakesEffect
CHECK_DEADLOCK FALSE
