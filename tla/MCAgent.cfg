CONSTANTS
    Accounts = {u1, u2}  LimitSet = {1}  MAX_LIMITS = 1  NoOne = NoOne
    Procs = {a, b}  DayLen = 4  Zone = 1  min_duration_sec = 1  DAILY_APP_SUMMARY_MAX = 1  LastTick = 7
    SyncInterval = 1  BackupInterval = 1  LimitsInterval = 2  MaxBackoff = 3  FirstBackoff = 1
    BACKUP_KEEP_COUNT = 2  LastTime = 3  MaxRows = 3
    Low = 1  High = 2  Hand = {0}  MaxToken = 2
    MaxSaves = 2
    Users = {u1, u2}  Nobody = Nobody
    AppVersion <- mcApp  Releases <- mcReleases  MaxChecks = 2  MaxAttempts = 2  Clicks = {k1}
    MaxValue = 2  MaxObjects = 2  OutSize = 9  ObjSize = 14
    Hosts = {h1, h2}  NoHost = NoHost  MaxBody = 1  HttpRequests = 2
    DeviceIds = {i1, i2, i3}  NoId = NoId  Garbled = Garbled  DeviceLabels = {l1}  Unnamed = Unnamed
    MACHINES_MAX = 1  MaxStarts = 4
SPECIFICATION Spec
INVARIANTS
    PartsTypeOK
    ForcedAreOwn
    
    SkipIsSafe
    FilesAreCurrent
    OldTokenIsDead
    PanelIsTrue
    
    
    CarriedOutAsAsked
    
PROPERTIES
    LimitsReachTheWatch
    SaveKeepsTheRest
CHECK_DEADLOCK FALSE
