----------------------------- MODULE AgentProofs -----------------------------
(***************************************************************************)
(* Proofs about the parts of the agent that MCAgent checks side by side,   *)
(* for every value of their constants.  A part is taken by itself:         *)
(* LimitsSpec and its likes are its initial states and its steps, and      *)
(* PartsRunByThemselves shows that the composition MCAgent explores is a   *)
(* behaviour of each of them, so that what is proved of a part holds there *)
(* too.                                                                    *)
(***************************************************************************)
EXTENDS MCAgent, DataTheorems

LimitsSpec == alInit /\ [][alNext]_alVars
TotalsSpec == dtInit /\ [][dtNext]_dtVars
SettingsSpec == stInit /\ [][stNext]_stVars
HttpSpec == hcInit /\ [][hcNext]_hcVars
LoopSpec == clInit /\ [][clNext]_clVars
RemoteSpec == rvInit /\ [][rvNext]_rvVars
PanelSpec == cpInit /\ [][cpNext]_cpVars
TasksSpec == ttInit /\ [][ttNext]_ttVars
DeviceSpec == diInit /\ [][diNext]_diVars
TextSpec == jtInit /\ [][jtNext]_jtVars

\* A step of the composition is a step of one part and leaves the others, so
\* what is proved of the parts holds of MCAgent's behaviours.
LEMMA PartsRunByThemselves ==
    Spec => /\ LimitsSpec /\ TotalsSpec /\ SettingsSpec /\ HttpSpec /\ LoopSpec
            /\ RemoteSpec /\ PanelSpec /\ TasksSpec /\ DeviceSpec /\ TextSpec
<1>1. Init => jtInit /\ alInit /\ dtInit /\ stInit /\ hcInit /\ clInit /\ rvInit /\ cpInit /\ ttInit /\ diInit
  BY DEF Init
<1>2. [Next]_vars => [alNext]_alVars
  BY DEF Next, vars
<1>3. [Next]_vars => [stNext]_stVars
  BY DEF Next, vars
<1>4. [Next]_vars => [hcNext]_hcVars
  BY DEF Next, vars
<1>5. [Next]_vars => [clNext]_clVars
  BY DEF Next, vars
<1>6. [Next]_vars => [rvNext]_rvVars
  BY DEF Next, vars
<1>7. [Next]_vars => [cpNext]_cpVars
  BY DEF Next, vars
<1>8. [Next]_vars => [ttNext]_ttVars
  BY DEF Next, vars
<1>9. [Next]_vars => [diNext]_diVars
  BY DEF Next, vars
<1>10. [Next]_vars => [dtNext]_dtVars
  BY DEF Next, vars
<1>11. [Next]_vars => [jtNext]_jtVars
  BY DEF Next, vars
<1> QED
  BY <1>1, <1>2, <1>3, <1>4, <1>5, <1>6, <1>7, <1>8, <1>9, <1>10, <1>11, PTL
     DEF Spec, LimitsSpec, TotalsSpec, SettingsSpec, HttpSpec, LoopSpec, RemoteSpec, PanelSpec, TasksSpec,
         DeviceSpec, TextSpec

-----------------------------------------------------------------------------
(* The limits' cache.                                                      *)

\* The rows of a holding are those of its account.
OwnRows(held) == \A r \in held.lims : r[1] = held.user

\* What keeps one child's limits from another: the server's rows of an account
\* are its own, and so is the answer a pull carries with the copied account.
LimitsInv ==
    /\ DOMAIN alSet = Accounts
    /\ \A u \in Accounts : \A r \in alSet[u] : r[1] = u
    /\ alPull = [at |-> alPull.at, held |-> [user |-> alPull.held.user, lims |-> alPull.held.lims]]
    /\ alPull.held.user \in Accounts \cup {NoOne}
    /\ alPull.at # "idle" => alPull.held.user \in Accounts
    /\ alMe \in Accounts \cup {NoOne}
    /\ OwnRows(alPull.held) /\ OwnRows(alForced) /\ OwnRows(alCache.held) /\ OwnRows(alDisk)

\* Every step of the cloud, watch and GUI threads keeps LimitsInv.
LEMMA LimitsStep == LimitsInv /\ [alNext]_alVars => LimitsInv'
<1> SUFFICES ASSUME LimitsInv, [alNext]_alVars PROVE LimitsInv'
  OBVIOUS
<1> USE DEF LimitsInv
<1>1. ASSUME NEW u \in Accounts, LogIn(u) PROVE LimitsInv'
  BY <1>1 DEF LogIn, OwnRows
<1>2. ASSUME NEW u \in Accounts, NEW lims \in SUBSET ({u} \X LimitSet), ParentSets(u, lims)
      PROVE LimitsInv'
  <2>1. \A r \in lims : r[1] = u
    OBVIOUS
  <2> QED
    BY <1>2, <2>1 DEF ParentSets, OwnRows
<1>3. CASE LogOut
  BY <1>3 DEF LogOut, OwnRows
<1>4. CASE NetworkChanges
  BY <1>4 DEF NetworkChanges, OwnRows
<1>5. CASE AgentRestart
  BY <1>5 DEF AgentRestart, OwnRows, Idle, Nothing
<1>6. CASE RefreshBegin
  BY <1>6 DEF RefreshBegin, OwnRows
<1>7. CASE fetchLimits
  <2> DEFINE u == alPull.held.user
             rows == parseLimitsResponse(IF alMe = u THEN alSet[u] ELSE {})
  <2>1. \A r \in rows : r[1] = u
    BY <1>7 DEF fetchLimits, parseLimitsResponse
  <2>2. alPull' = [at |-> "answered", held |-> [user |-> u, lims |-> rows]]
    BY <1>7 DEF fetchLimits
  <2>3. u \in Accounts
    BY <1>7 DEF fetchLimits
  <2> HIDE DEF u, rows
  <2> QED
    BY <1>7, <2>1, <2>2, <2>3 DEF fetchLimits, OwnRows
<1>8. CASE fetchFails
  BY <1>8 DEF fetchFails, OwnRows, Idle, Nothing
<1>9. CASE RefreshStore
  BY <1>9 DEF RefreshStore, saveCacheToDisk, OwnRows, Idle, Nothing
<1>10. CASE CheckBegin
  BY <1>10 DEF CheckBegin, OwnRows
<1>11. CASE applimits_get_my_limits
  BY <1>11 DEF applimits_get_my_limits, loadCacheFromDiskLocked, OwnRows
<1>12. CASE UNCHANGED alVars
  BY <1>12 DEF alVars, OwnRows
<1> QED
  BY <1>1, <1>2, <1>3, <1>4, <1>5, <1>6, <1>7, <1>8, <1>9, <1>10, <1>11, <1>12 DEF alNext

\* No child is held to another's limits: whatever logins overtake a pull of the
\* cloud thread or a check of the watch thread, what is enforced, cached and in
\* limits.cache was set for the account it is kept under
\* (applimits_refresh_my_limits, applimits_get_my_limits).
THEOREM LimitsAreOwn == LimitsSpec => []ForcedAreOwn
<1>1. alInit => LimitsInv
  BY DEF alInit, LimitsInv, OwnRows, Idle, Nothing
<1>2. LimitsInv => ForcedAreOwn
  BY DEF LimitsInv, ForcedAreOwn, OwnRows
<1> QED
  BY <1>1, <1>2, LimitsStep, PTL DEF LimitsSpec

\* The file follows the cache over every step, also when a write fails or the
\* agent ends between two of them.
LEMMA DiskStep == DiskFollowsCache /\ [alNext]_alVars => DiskFollowsCache'
<1> SUFFICES ASSUME DiskFollowsCache, [alNext]_alVars PROVE DiskFollowsCache'
  OBVIOUS
<1> USE DEF DiskFollowsCache
<1>1. CASE \/ \E u \in Accounts : LogIn(u) \/ \E lims \in SUBSET ({u} \X LimitSet) : ParentSets(u, lims)
           \/ LogOut \/ NetworkChanges \/ RefreshBegin \/ fetchLimits \/ fetchFails \/ CheckBegin
           \/ UNCHANGED alVars
  BY <1>1 DEF LogIn, ParentSets, LogOut, NetworkChanges, RefreshBegin, fetchLimits, fetchFails,
              CheckBegin, alVars
<1>2. CASE AgentRestart
  BY <1>2 DEF AgentRestart
<1>3. CASE RefreshStore
  BY <1>3 DEF RefreshStore, saveCacheToDisk
<1>4. CASE applimits_get_my_limits
  BY <1>4 DEF applimits_get_my_limits, loadCacheFromDiskLocked
<1> QED
  BY <1>1, <1>2, <1>3, <1>4 DEF alNext

-----------------------------------------------------------------------------
(* The settings.                                                           *)

\* There is one settings.ini or none, and unless the last write failed it holds
\* what a running program has in memory.
SettingsInv ==
    /\ settings_ini # {} => \E s : settings_ini = {s}
    /\ RestartFindsSettings

\* The three pages' saves write what they leave in memory.
LEMMA UpdateStep ==
    ASSUME NEW s, NEW reg \in BOOLEAN, NEW ok \in BOOLEAN, SettingsInv, settings_update(s, reg, ok)
    PROVE  SettingsInv'
BY DEF SettingsInv, RestartFindsSettings, settings_update, settings_save, writeFileAtomic

\* Every start, stop, edit and save keeps SettingsInv.
LEMMA SettingsStep == SettingsInv /\ [stNext]_stVars => SettingsInv'
<1> SUFFICES ASSUME SettingsInv, [stNext]_stVars PROVE SettingsInv'
  OBVIOUS
<1>1. CASE StartAgent
  <2> PICK ok1 \in BOOLEAN, ok2 \in BOOLEAN : settings_load(ok1, ok2)
    BY <1>1 DEF StartAgent
  <2> DEFINE read == applyIniValues(settings_ini)
             file == IF settings_ini = {} THEN settings_save({}, read, ok1) ELSE settings_ini
             new == [read EXCEPT !.token = generateRemoteViewToken]
  <2>1. settings_ini # {} => settings_ini = {read}
    BY DEF SettingsInv, applyIniValues
  <2>2. settings_ini = {} => read.token = 0
    BY DEF applyIniValues, setDefaults
  <2>3. CASE read.token # 0
    <3>1. settings_ini' = {read} /\ g_settings' = read
      BY <2>1, <2>2, <2>3 DEF settings_load
    <3> QED
      BY <3>1 DEF SettingsInv, RestartFindsSettings
  <2>4. CASE read.token = 0
    <3>1. /\ g_settings' = new /\ stFailed' = ~ok2
          /\ settings_ini' = settings_save(file, new, ok2)
      BY <2>4 DEF settings_load
    <3>2. file # {} => \E s : file = {s}
      BY <2>1 DEF settings_save, writeFileAtomic
    <3> HIDE DEF file, new
    <3> QED
      BY <3>1, <3>2 DEF SettingsInv, RestartFindsSettings, settings_save, writeFileAtomic
  <2> QED
    BY <2>3, <2>4
<1>2. CASE StopAgent
  BY <1>2 DEF StopAgent, SettingsInv, RestartFindsSettings
<1>3. CASE EditFile
  BY <1>3 DEF EditFile, SettingsInv, RestartFindsSettings
<1>4. CASE EditPage
  BY <1>4 DEF EditPage, SettingsInv, RestartFindsSettings
<1>5. CASE onRegenerateToken
  BY <1>5 DEF onRegenerateToken, SettingsInv, RestartFindsSettings
<1>6. ASSUME NEW reg \in BOOLEAN, NEW ok \in BOOLEAN,
             onSaveSettings(reg, ok) \/ onSaveSupabase(reg, ok) \/ onSaveRemoteView(reg, ok)
      PROVE  SettingsInv'
  BY <1>6, UpdateStep DEF onSaveSettings, onSaveSupabase, onSaveRemoteView
<1>7. CASE UNCHANGED stVars
  BY <1>7 DEF stVars, SettingsInv, RestartFindsSettings
<1> QED
  BY <1>1, <1>2, <1>3, <1>4, <1>5, <1>6, <1>7 DEF stNext

\* A restart finds what the program held: the limits' cache with its account in
\* limits.cache (saveCacheToDisk), and the settings with the generated token in
\* settings.ini (settings_load, settings_update), unless the last write failed.
THEOREM RestartsFindEverything == Spec => []FilesAreCurrent
<1>1. alInit => DiskFollowsCache
  BY DEF alInit, DiskFollowsCache
<1>2. stInit => SettingsInv
  BY DEF stInit, SettingsInv, RestartFindsSettings
<1>3. DiskFollowsCache /\ SettingsInv => FilesAreCurrent
  BY DEF FilesAreCurrent, SettingsInv
<1> QED
  BY <1>1, <1>2, <1>3, DiskStep, SettingsStep, PartsRunByThemselves, PTL
     DEF LimitsSpec, SettingsSpec

\* A page saves over what the other pages saved: a step of a running program
\* changes the settings by the fields of one page at most, however old the
\* fields of the others are (onSave of the three pages).
THEOREM PagesKeepTheRest == SettingsSpec => SaveKeepsTheRest
<1> DEFINE changed == {f \in Fields : g_settings'[f] # g_settings[f]}
           OnePage == \E p \in DOMAIN PageFields : changed \subseteq PageFields[p]
<1>1. DOMAIN PageFields = {"settings", "supabase", "remote"}
  BY DEF PageFields
<1>2. ASSUME NEW p \in DOMAIN PageFields, NEW reg, NEW ok,
             settings_update(WithFields(g_settings, PageFields[p]), reg, ok)
      PROVE  OnePage
  <2>1. \A f \in Fields \ PageFields[p] : g_settings'[f] = g_settings[f]
    BY <1>2 DEF settings_update, WithFields
  <2> QED
    BY <2>1
<1>3. ASSUME stUp, stUp', [stNext]_stVars PROVE OnePage
  <2>1. CASE g_settings' = g_settings
    BY <2>1, <1>1
  <2>2. ASSUME NEW reg \in BOOLEAN, NEW ok \in BOOLEAN,
               onSaveSettings(reg, ok) \/ onSaveSupabase(reg, ok) \/ onSaveRemoteView(reg, ok)
        PROVE  OnePage
    <3> PageFields.settings = PageFields["settings"] /\ PageFields.supabase = PageFields["supabase"]
        /\ PageFields.remote = PageFields["remote"]
      OBVIOUS
    <3> HIDE DEF OnePage
    <3> QED
      BY <1>1, <1>2, <2>2 DEF onSaveSettings, onSaveSupabase, onSaveRemoteView
  <2> QED
    BY <1>3, <2>1, <2>2
       DEF stNext, StartAgent, StopAgent, EditFile, EditPage, onRegenerateToken, stVars
<1>4. [stNext]_stVars => [stUp /\ stUp' => OnePage]_stVars
  BY <1>3
<1> QED
  BY <1>4, PTL DEF SettingsSpec, SaveKeepsTheRest

-----------------------------------------------------------------------------
(* The HTTP client.                                                        *)

\* A request that may not be repeated has one attempt, and before it is sent
\* nobody has carried it out; what is sent goes to the host asked for.
HttpInv ==
    /\ hcReq = [host |-> hcReq.host, idempotent |-> hcReq.idempotent, left |-> hcReq.left]
    /\ hcReq.left \in Nat /\ hcDone.times \in Nat
    /\ ~hcReq.idempotent => /\ hcReq.left = 0
                            /\ hcAt \in {"connect", "send"} => hcDone.times = 0
                            /\ hcDone.times <= 1
    /\ hcAt = "send" => t_conn = hcReq.host
    /\ hcDone.by \subseteq {hcReq.host}

\* Every step of a request keeps HttpInv.
LEMMA HttpStep == HttpInv /\ [hcNext]_hcVars => HttpInv'
<1> SUFFICES ASSUME HttpInv, [hcNext]_hcVars PROVE HttpInv'
  OBVIOUS
<1> USE DEF HttpInv
<1>1. ASSUME NEW h \in Hosts, NEW i \in BOOLEAN, httpsRequest(h, i) PROVE HttpInv'
  BY <1>1 DEF httpsRequest, Attempts
<1>2. CASE OpenRequest
  BY <1>2 DEF OpenRequest, ensure
<1>3. CASE SendRequest
  BY <1>3 DEF SendRequest
<1>4. CASE ReadBody
  BY <1>4 DEF ReadBody
<1>5. CASE RetryOrGiveUp
  BY <1>5 DEF RetryOrGiveUp
<1>6. CASE UNCHANGED hcVars
  BY <1>6 DEF hcVars
<1> QED
  BY <1>1, <1>2, <1>3, <1>4, <1>5, <1>6 DEF hcNext

\* A request that may not be repeated is carried out at most once, and by the
\* host it was made for, through lost answers, kept connections and changes of
\* the host in the settings (httpsRequest, Connection::ensure).
THEOREM RequestsAreCarriedOutAsAsked == HttpSpec => []CarriedOutAsAsked
<1>1. hcInit => HttpInv
  BY DEF hcInit, HttpInv
<1>2. HttpInv => CarriedOutAsAsked
  BY DEF HttpInv, CarriedOutAsAsked
<1> QED
  BY <1>1, <1>2, HttpStep, PTL DEF HttpSpec

-----------------------------------------------------------------------------
(* The snapshots of the cloud loop.                                        *)

\* The changes of the table before this connection.
EarlierRows == clRows - clChanges

\* A snapshot is of the moment its counter was read, or later.
Covers(rows, changes) == rows \in Nat /\ changes + EarlierRows <= rows /\ rows <= clRows

\* While the clock runs forward the file being written will sort last, and the
\* file of the counter kept in memory survived every clean-up.
SnapshotInv ==
    /\ clRows \in Nat /\ clChanges \in Nat /\ clSaved \in Int /\ clNow \in Nat /\ clJumped \in BOOLEAN
    /\ clExport = [changes |-> clExport.changes, name |-> clExport.name, rows |-> clExport.rows,
                   first |-> clExport.first]
    /\ clExport.changes \in Nat /\ clExport.name \in Nat
    /\ clAt \in {"export", "move"} => clExport.changes <= clChanges
    /\ clAt = "move" => Covers(clExport.rows, clExport.changes)
    /\ \A f \in clFiles : f.name \in Nat
    /\ ~clJumped => /\ \A f \in clFiles : f.name <= clNow
                    /\ clAt \in {"export", "move"} =>
                         /\ clExport.name <= clNow
                         /\ \A f \in clFiles : f.name <= clExport.name
                    /\ clSaved >= 0 => \E f \in clFiles : Covers(f.rows, clSaved)

\* The newest file survives cleanupOldBackups.
LEMMA NewestIsKept ==
    ASSUME NEW files, NEW file \in files, \A f \in files : ~(f.name > file.name)
    PROVE  file \in cleanupOldBackups(files)
<1>1. {g \in files : g.name > file.name} = {}
  OBVIOUS
<1>2. Cardinality({g \in files : g.name > file.name}) < BACKUP_KEEP_COUNT
  BY <1>1, FS_EmptySet, LoopAssumption
<1> QED
  BY <1>2 DEF cleanupOldBackups

\* Every step of the loop, of the watch thread and of the clock keeps it.
LEMMA SnapshotStep == SnapshotInv /\ [clNext]_clVars => SnapshotInv'
<1> SUFFICES ASSUME SnapshotInv, [clNext]_clVars PROVE SnapshotInv'
  OBVIOUS
<1> USE DEF SnapshotInv, Covers, EarlierRows
<1>1. CASE RowStored
  BY <1>1 DEF RowStored
<1>2. CASE SetBack
  BY <1>2 DEF SetBack
<1>3. CASE LoopRestart
  BY <1>3 DEF LoopRestart, NoExport
<1>4. CASE SyncTurn
  BY <1>4 DEF SyncTurn
<1>5. CASE LimitsTurn
  BY <1>5 DEF LimitsTurn
<1>6. CASE BackupTurn
  BY <1>6 DEF BackupTurn, SnapshotBegin, db_change_counter
<1>7. CASE db_export_json
  BY <1>7 DEF db_export_json
<1>8. CASE SnapshotDone
  <2> DEFINE file == [name |-> clExport.name, rows |-> clExport.rows]
             files == {f \in clFiles : f.name # file.name} \cup {file}
  <2>1. /\ clAt = "move" /\ clFiles' = cleanupOldBackups(files)
        /\ clSaved' = clExport.changes /\ clExport' = NoExport
        /\ UNCHANGED <<clNow, clRows, clChanges, clJumped>>
        /\ clAt' \in {"sync", "prune"}
    BY <1>8 DEF SnapshotDone, AfterSnapshot
  <2>2. clFiles' \subseteq files
    BY <2>1 DEF cleanupOldBackups
  <2>3. ~clJumped => file \in clFiles'
    BY <2>1, NewestIsKept
  <2>4. file.name = clExport.name /\ file.rows = clExport.rows
    OBVIOUS
  <2>5. \A f \in files : f.name \in Nat /\ (~clJumped => f.name <= clNow)
    BY <2>1
  <2> HIDE DEF file, files
  <2> QED
    BY <2>1, <2>2, <2>3, <2>4, <2>5 DEF NoExport
<1>9. CASE SnapshotFails
  BY <1>9 DEF SnapshotFails, AfterSnapshot, NoExport
<1>10. CASE PruneTurn
  BY <1>10 DEF PruneTurn
<1>11. CASE SleepTurn
  BY <1>11 DEF SleepTurn
<1>12. CASE UNCHANGED clVars
  BY <1>12 DEF clVars
<1> QED
  BY <1>1, <1>2, <1>3, <1>4, <1>5, <1>6, <1>7, <1>8, <1>9, <1>10, <1>11, <1>12 DEF clNext

\* Where the loop starts.
LEMMA SnapshotStart == clInit => SnapshotInv
<1> SUFFICES ASSUME clInit PROVE SnapshotInv
  OBVIOUS
<1>1. clExport = [changes |-> 0, name |-> 0, rows |-> 0, first |-> TRUE]
  BY DEF clInit, NoExport
<1>2. clSaved \in Int /\ ~(clSaved >= 0)
  BY DEF clInit
<1>3. /\ clAt = "start" /\ clNow = 0 /\ clRows = 0 /\ clChanges = 0
        /\ clFiles = {} /\ clJumped = FALSE
  BY DEF clInit
<1> QED
  BY <1>1, <1>2, <1>3 DEF SnapshotInv

\* A snapshot is skipped only when a file holds everything, as long as the
\* clock was not set back: rows stored while an export runs, failed exports,
\* restarts and the clean-up by name leave no row without a copy and without a
\* reason to make one (backup_create_snapshot reads the counter first).
THEOREM SkippedSnapshotsAreSafe == LoopSpec => []SkipIsSafe
<1>1. SnapshotInv => SkipIsSafe
  BY DEF SnapshotInv, SkipIsSafe, Covers, EarlierRows
<1> QED
  BY <1>1, SnapshotStart, SnapshotStep, PTL DEF LoopSpec

-----------------------------------------------------------------------------
(* Remote View.                                                            *)

\* As long as no stop gave up: there is one accept thread at most, the one the
\* page waits for; it is gone when the page starts the next; and what it is
\* about to answer was read since the page's last change of the settings, or is
\* not sent before the wait ends.
RemoteInv ==
    /\ rvTypeOK
    /\ ~rvLate =>
        /\ \A s, t \in rvThreads : s = t
        /\ \A t \in rvThreads : t.id = g_thread
        /\ g_running => g_thread # 0
        /\ rvGui = "wait" => ~g_running
        /\ rvGui = "start" => ~g_running /\ rvThreads = {}
        /\ rvGui \in {"idle", "stop"} /\ ~g_running => rvThreads = {}
        /\ rvGui = "idle" => \A t \in rvThreads : t.at = "answer" => t.read = rvSettings /\ rvSettings.on

\* A thread goes on: no thread is added.
LEMMA ThreadStep ==
    ASSUME NEW t \in rvThreads, RemoteInv, ThreadOnly,
           NEW u \in Thread, Goes(t, u), u.id = t.id,
           u.at = "answer" => u.read = rvSettings /\ rvSettings.on
    PROVE  RemoteInv'
<1>1. rvTypeOK'
  BY DEF RemoteInv, rvTypeOK, ThreadOnly, Goes
<1>2. CASE rvLate
  BY <1>1, <1>2 DEF RemoteInv, ThreadOnly
<1>3. CASE ~rvLate
  <2>1. rvThreads = {t} /\ rvThreads' = {u}
    BY <1>3 DEF RemoteInv, Goes
  <2> QED
    BY <1>1, <1>3, <2>1 DEF RemoteInv, ThreadOnly
<1> QED
  BY <1>2, <1>3

\* A thread ends, which it does when the flag is down.
LEMMA ThreadEnds ==
    ASSUME NEW t \in rvThreads, RemoteInv, ThreadOnly, ~g_running, rvThreads' = rvThreads \ {t}
    PROVE  RemoteInv'
BY DEF RemoteInv, rvTypeOK, ThreadOnly

\* Every step of the threads and of the page keeps RemoteInv.
LEMMA RemoteStep == RemoteInv /\ [rvNext]_rvVars => RemoteInv'
<1> SUFFICES ASSUME RemoteInv, [rvNext]_rvVars PROVE RemoteInv'
  OBVIOUS
<1>0. rvTypeOK
  BY DEF RemoteInv
<1>1. ASSUME NEW t \in rvThreads,
             acceptLoop(t) \/ AcceptFails(t) \/ Connect(t) \/ handleClient(t) \/ sendResponse(t)
      PROVE  RemoteInv'
  <2> t \in Thread
    BY <1>0 DEF rvTypeOK
  <2>1. CASE acceptLoop(t)
    <3> DEFINE u == [t EXCEPT !.at = "accept", !.socket = g_listen_socket]
    <3>1. u \in Thread /\ u.id = t.id /\ u.at # "answer"
      BY <1>0 DEF rvTypeOK, Thread
    <3> HIDE DEF u
    <3>2. CASE g_running /\ Goes(t, u)
      BY <2>1, <3>1, <3>2, ThreadStep DEF acceptLoop
    <3>3. CASE ~g_running /\ rvThreads' = rvThreads \ {t}
      BY <2>1, <3>3, ThreadEnds DEF acceptLoop
    <3> QED
      BY <2>1, <3>2, <3>3 DEF acceptLoop, u
  <2> DEFINE v == [t EXCEPT !.at = "loop"]
             w == [t EXCEPT !.at = "recv"]
             x == [t EXCEPT !.at = "answer", !.read = rvSettings]
  <2>2. v \in Thread /\ v.id = t.id /\ v.at # "answer"
    BY DEF Thread
  <2>3. w \in Thread /\ w.id = t.id /\ w.at # "answer"
    BY DEF Thread
  <2>4. x \in Thread /\ x.id = t.id /\ x.read = rvSettings
    BY <1>0 DEF Thread, rvTypeOK
  <2> HIDE DEF v, w, x
  <2>5. ThreadOnly /\ Goes(t, v) => RemoteInv'
    BY <2>2, ThreadStep
  <2>6. CASE AcceptFails(t)
    BY <2>5, <2>6, ThreadEnds DEF AcceptFails, v
  <2>7. CASE Connect(t)
    BY <2>3, <2>7, ThreadStep DEF Connect, w
  <2>8. CASE handleClient(t)
    <3>1. CASE rvSettings.on /\ Goes(t, x)
      BY <2>4, <2>8, <3>1, ThreadStep DEF handleClient
    <3> QED
      BY <2>5, <2>8, <3>1 DEF handleClient, v, x
  <2>9. CASE sendResponse(t)
    BY <2>5, <2>9 DEF sendResponse, v
  <2> QED
    BY <1>1, <2>1, <2>6, <2>7, <2>8, <2>9
<1>2. ASSUME NEW on \in BOOLEAN, NEW ok \in BOOLEAN, onSaveRemote(on, ok) PROVE RemoteInv'
  <2>1. rvTypeOK'
    BY <1>0, <1>2, RemoteAssumption DEF rvTypeOK, onSaveRemote
  <2> QED
    BY <1>2, <2>1 DEF RemoteInv, onSaveRemote
<1>3. CASE remoteview_stop
  <2>1. rvTypeOK'
    <3>1. 0 \in Sockets
      BY RemoteAssumption DEF Sockets
    <3> QED
      BY <1>0, <1>3, <3>1 DEF rvTypeOK, remoteview_stop
  <2> QED
    BY <1>3, <2>1 DEF RemoteInv, rvTypeOK, remoteview_stop
<1>4. CASE WaitForThread
  <2>1. rvTypeOK'
    BY <1>0, <1>4, RemoteAssumption DEF rvTypeOK, WaitForThread, ThreadIds, ThreadEnded
  <2> QED
    BY <1>4, <2>1 DEF RemoteInv, WaitForThread, ThreadEnded
<1>5. ASSUME NEW bound \in BOOLEAN, remoteview_start(bound) PROVE RemoteInv'
  <2> DEFINE i == rvSaves + 1
             t == NewThread(i)
  <2>1. i \in ThreadIds /\ i \in Sockets /\ i # 0
    BY <1>0, RemoteAssumption DEF rvTypeOK, ThreadIds, Sockets
  <2>2. t \in Thread /\ t.id = i /\ t.at = "loop"
    BY <2>1, RemoteAssumption DEF NewThread, Thread, Sockets
  <2>3. CASE UNCHANGED <<g_running, g_listen_socket, g_thread, rvThreads>>
    BY <1>5, <2>3 DEF RemoteInv, rvTypeOK, remoteview_start
  <2>4. CASE /\ g_running' = TRUE /\ g_listen_socket' = i /\ g_thread' = i
             /\ rvThreads' = rvThreads \cup {t}
    <3> HIDE DEF i, t
    <3>1. rvTypeOK'
      BY <1>0, <1>5, <2>1, <2>2, <2>4 DEF rvTypeOK, remoteview_start
    <3>2. ~rvLate => rvThreads' = {t}
      BY <1>5, <2>4 DEF RemoteInv, remoteview_start
    <3> QED
      BY <1>5, <2>1, <2>2, <2>4, <3>1, <3>2 DEF RemoteInv, remoteview_start
  <2> QED
    BY <1>5, <2>3, <2>4 DEF remoteview_start
<1>6. CASE UNCHANGED rvVars
  BY <1>6 DEF RemoteInv, rvTypeOK, rvVars
<1> QED
  BY <1>1, <1>2, <1>3, <1>4, <1>5, <1>6 DEF rvNext

\* Where Remote View starts.
LEMMA RemoteStart == rvInit => RemoteInv
<1> SUFFICES ASSUME rvInit PROVE RemoteInv
  OBVIOUS
<1>1. NewThread(1) \in Thread /\ NewThread(1).id = 1 /\ NewThread(1).at = "loop"
  BY RemoteAssumption DEF NewThread, Thread, ThreadIds, Sockets
<1>2. rvSettings.on \in BOOLEAN /\ rvSettings \in [on : BOOLEAN, token : 0..MaxSaves]
  BY RemoteAssumption DEF rvInit
<1>0. /\ 0 \in Sockets /\ 1 \in Sockets /\ 0 \in ThreadIds /\ 1 \in ThreadIds
      /\ rvGui = "idle" /\ rvSaves = 0 /\ rvSaves \in 0..MaxSaves /\ rvLate = FALSE
  BY RemoteAssumption DEF rvInit, Sockets, ThreadIds
<1>3. CASE rvSettings.on
  <2>1. g_thread = 1 /\ g_listen_socket = 1 /\ rvThreads = {NewThread(1)} /\ g_running = TRUE
    BY <1>2, <1>3 DEF rvInit
  <2>2. rvTypeOK
    BY <1>0, <1>1, <1>2, <2>1 DEF rvTypeOK
  <2>3. \A t \in rvThreads : t = NewThread(1)
    BY <2>1
  <2>4. \A t \in rvThreads : t.id = 1 /\ t.at # "answer"
    BY <1>1, <2>3
  <2> QED
    BY <1>0, <2>1, <2>2, <2>3, <2>4 DEF RemoteInv
<1>4. CASE ~rvSettings.on
  <2>1. g_thread = 0 /\ g_listen_socket = 0 /\ rvThreads = {} /\ g_running = FALSE
    BY <1>2, <1>4 DEF rvInit
  <2> QED
    BY <1>0, <1>2, <1>4, <2>1 DEF RemoteInv, rvTypeOK
<1> QED
  BY <1>3, <1>4

\* A token replaced by a Save, or a server switched off by it, opens nothing
\* once the page is done, for any number of saves and whatever clients do,
\* unless the stop gave up waiting (remoteview_stop before remoteview_start).
THEOREM ReplacedTokenIsDead == RemoteSpec => []OldTokenIsDead
<1>1. RemoteInv => OldTokenIsDead
  <2> SUFFICES ASSUME RemoteInv, rvGui = "idle", ~rvLate
               PROVE  /\ Cardinality(rvThreads) <= 1
                      /\ \A t \in rvThreads : t.at = "answer" => t.read = rvSettings /\ rvSettings.on
    BY DEF OldTokenIsDead
  <2>1. \A s, t \in rvThreads : s = t
    BY DEF RemoteInv
  <2>2. Cardinality(rvThreads) <= 1
    <3>1. CASE rvThreads = {}
      BY <3>1, FS_EmptySet
    <3>2. CASE rvThreads # {}
      <4> PICK t : t \in rvThreads
        BY <3>2
      <4>1. rvThreads = {t}
        BY <2>1
      <4>2. Cardinality({t}) = 1
        BY FS_Singleton
      <4>3. Cardinality(rvThreads) = 1
        BY <4>1, <4>2
      <4> QED
        BY <4>3
    <3> QED
      BY <3>1, <3>2
  <2> QED
    BY <2>2 DEF RemoteInv
<1> QED
  BY <1>1, RemoteStart, RemoteStep, PTL DEF RemoteSpec

-----------------------------------------------------------------------------
(* The control panel.                                                      *)

\* The sidebar hides one of the family pages; the menu that is open knows the
\* role of the settings; and the handler of a logout has left the account page
\* without an account.
PanelInv ==
    /\ cpTypeOK
    /\ cpPanel.hidden \in {{"ParentLink"}, {"Family"}}
    /\ cpMenu.open => cpMenu.role = app_role
    /\ cpBox = "loggedOut" => cpSession = Nobody /\ cpPanel.shown["Account"] = Nobody
    /\ PanelIsTrue

\* What a refresh of a row does.
LEMMA RefreshRowIs ==
    ASSUME NEW p \in Panel, NEW row \in Pages, NEW sess \in Account
    PROVE  /\ RefreshRow(p, row, sess) \in Panel
           /\ RefreshRow(p, row, sess).row = p.row
           /\ RefreshRow(p, row, sess).hidden = p.hidden
           /\ RefreshRow(p, row, sess).paused = p.paused
           /\ \A r \in AccountPages :
                 RefreshRow(p, row, sess).shown[r] = IF r = row THEN sess ELSE p.shown[r]
BY DEF RefreshRow, refreshOverview, LoginPageRefresh, LoginPage, ParentLinkRefresh, FamilyRefreshed,
       Panel, Pages, AccountPages

\* What a change of the row does: the page now in front shows the session, and
\* the others what they showed.
LEMMA SetCurrentRowIs ==
    ASSUME NEW p \in Panel, NEW row \in Pages, NEW sess \in Account
    PROVE  LET q == setCurrentRow(p, row, sess)
           IN  /\ q \in Panel /\ q.row = row /\ q.hidden = p.hidden /\ q.paused = p.paused
               /\ \A r \in AccountPages :
                     q.shown[r] = IF r = row /\ p.row # row THEN sess ELSE p.shown[r]
<1> DEFINE at == [p EXCEPT !.row = row]
<1>1. at \in Panel /\ at.row = row /\ at.hidden = p.hidden /\ at.paused = p.paused /\ at.shown = p.shown
  BY DEF Panel
<1> HIDE DEF at
<1>2. CASE p.row = row
  BY <1>2 DEF setCurrentRow
<1>3. CASE p.row # row
  <2>1. setCurrentRow(p, row, sess) = RefreshRow(at, row, sess)
    BY <1>3 DEF setCurrentRow, onSidebarRowChanged, at
  <2> QED
    BY <1>1, <1>3, <2>1, RefreshRowIs
<1> QED
  BY <1>2, <1>3

\* What a look at the role does: one of the family pages is hidden, and is not
\* in front; a page that comes to the front by it is the overview, refreshed.
LEMMA VisibilityIs ==
    ASSUME NEW p \in Panel, NEW role \in Roles, NEW sess \in Account
    PROVE  LET q == refreshSidebarVisibility(p, role, sess)
           IN  /\ q \in Panel /\ q.paused = p.paused
               /\ q.hidden = IF role = "parent" THEN {"ParentLink"} ELSE {"Family"}
               /\ q.row \notin q.hidden
               /\ \/ q.row = p.row /\ \A r \in AccountPages : q.shown[r] = p.shown[r]
                  \/ /\ q.row = "Overview"
                     /\ \A r \in AccountPages :
                           q.shown[r] = IF r = "Overview" THEN sess ELSE p.shown[r]
<1> DEFINE hid == IF role = "parent" THEN {"ParentLink"} ELSE {"Family"}
           h == [p EXCEPT !.hidden = hid]
<1>1. hid \in {{"ParentLink"}, {"Family"}} /\ hid \in SUBSET Pages /\ "Overview" \notin hid
      /\ "Overview" \in Pages
  BY DEF Pages
<1>2. h \in Panel /\ h.row = p.row /\ h.hidden = hid /\ h.paused = p.paused /\ h.shown = p.shown
  BY <1>1 DEF Panel
<1>3. refreshSidebarVisibility(p, role, sess)
        = IF h.row \in hid THEN setCurrentRow(h, "Overview", sess) ELSE h
  BY DEF refreshSidebarVisibility
<1> HIDE DEF h, hid
<1>4. hid = IF role = "parent" THEN {"ParentLink"} ELSE {"Family"}
  BY DEF hid
<1> QED
  BY <1>1, <1>2, <1>3, <1>4, SetCurrentRowIs

\* What openTo does: the page asked for is in front and shows the session; any
\* other page shows what it showed, or the session.
LEMMA OpenToIs ==
    ASSUME NEW p \in Panel, NEW page \in Pages, NEW role \in Roles, NEW sess \in Account
    PROVE  LET q == openTo(p, page, role, sess)
           IN  /\ q \in Panel /\ q.paused = p.paused /\ q.row = page
               /\ q.hidden = IF role = "parent" THEN {"ParentLink"} ELSE {"Family"}
               /\ page \in AccountPages => q.shown[page] = sess
               /\ \A r \in AccountPages : q.shown[r] \in {sess, p.shown[r]}
<1> DEFINE v == refreshSidebarVisibility(p, role, sess)
           w == RefreshRow(v, page, sess)
<1>1. /\ v \in Panel /\ v.paused = p.paused
      /\ v.hidden = IF role = "parent" THEN {"ParentLink"} ELSE {"Family"}
      /\ \A r \in AccountPages : v.shown[r] \in {sess, p.shown[r]}
  BY VisibilityIs
<1>2. openTo(p, page, role, sess) = setCurrentRow(w, page, sess)
  BY DEF openTo, pageToRow
<1> HIDE DEF v
<1>3. /\ w \in Panel /\ w.paused = p.paused /\ w.hidden = v.hidden
      /\ \A r \in AccountPages : w.shown[r] = IF r = page THEN sess ELSE v.shown[r]
  BY <1>1, RefreshRowIs
<1> HIDE DEF w
<1> QED
  BY <1>1, <1>2, <1>3, SetCurrentRowIs

\* The menu after a rebuild.
LEMMA RebuildIs ==
    ASSUME NEW m \in Menu, NEW sess \in Account, NEW role \in Roles, NEW paused \in BOOLEAN
    PROVE  LET n == rebuildMenu(m, sess, role, paused)
           IN  /\ n \in Menu /\ n.account = sess /\ n.role = role /\ n.paused = paused
               /\ n.open = m.open
BY DEF rebuildMenu, Menu

\* What a login or a logout on the account page refreshes: the three others.
LEMMA LoggedIs ==
    ASSUME NEW p \in Panel, NEW sess \in Account
    PROVE  LET q == onLoggedInOrOut(p, sess)
           IN  /\ q \in Panel /\ q.row = p.row /\ q.hidden = p.hidden /\ q.paused = p.paused
               /\ \A r \in AccountPages : q.shown[r] = IF r = "Account" THEN p.shown[r] ELSE sess
<1> DEFINE a == RefreshRow(p, "Overview", sess)
           b == RefreshRow(a, "ParentLink", sess)
           c == RefreshRow(b, "Family", sess)
<1>1. "Overview" \in Pages /\ "ParentLink" \in Pages /\ "Family" \in Pages
  BY DEF Pages
<1>2. onLoggedInOrOut(p, sess) = c
  BY DEF onLoggedInOrOut, RefreshRow
<1>3. /\ a \in Panel /\ a.row = p.row /\ a.hidden = p.hidden /\ a.paused = p.paused
      /\ \A r \in AccountPages : a.shown[r] = IF r = "Overview" THEN sess ELSE p.shown[r]
  BY <1>1, RefreshRowIs
<1> HIDE DEF a
<1>4. /\ b \in Panel /\ b.row = p.row /\ b.hidden = p.hidden /\ b.paused = p.paused
      /\ \A r \in AccountPages : b.shown[r] = IF r = "ParentLink" THEN sess ELSE a.shown[r]
  BY <1>1, <1>3, RefreshRowIs
<1> HIDE DEF b
<1>5. /\ c \in Panel /\ c.row = p.row /\ c.hidden = p.hidden /\ c.paused = p.paused
      /\ \A r \in AccountPages : c.shown[r] = IF r = "Family" THEN sess ELSE b.shown[r]
  BY <1>1, <1>4, RefreshRowIs
<1> HIDE DEF c
<1> QED
  BY <1>2, <1>3, <1>4, <1>5 DEF AccountPages

\* A page opened from the tray.
LEMMA TrayStep ==
    ASSUME PanelInv, NEW page \in Pages,
           page \notin (IF app_role = "parent" THEN {"ParentLink"} ELSE {"Family"}),
           cpPanel' = openTo(cpPanel, page, app_role, cpSession), cpChanged' = FALSE,
           cpMenu' \in Menu, cpMenu'.paused = m_paused, cpMenu'.open => cpMenu'.role = app_role,
           UNCHANGED <<cpSession, app_role, m_paused, cpBox>>
    PROVE  PanelInv'
<1>1. cpTypeOK
  BY DEF PanelInv
<1>2. /\ cpPanel' \in Panel /\ cpPanel'.paused = cpPanel.paused /\ cpPanel'.row = page
      /\ cpPanel'.hidden = IF app_role = "parent" THEN {"ParentLink"} ELSE {"Family"}
      /\ page \in AccountPages => cpPanel'.shown[page] = cpSession
      /\ \A r \in AccountPages : cpPanel'.shown[r] \in {cpSession, cpPanel.shown[r]}
  BY <1>1, OpenToIs DEF cpTypeOK
<1>3. cpTypeOK'
  BY <1>1, <1>2 DEF cpTypeOK
<1>4. "Account" \in AccountPages
  BY DEF AccountPages
<1> QED
  BY <1>2, <1>3, <1>4
     DEF PanelInv, PanelIsTrue, FrontPageIsListed, TurnedPageIsCurrent, PauseIsShown

\* Every step of the tray, the window and the cloud thread keeps PanelInv.
LEMMA PanelStep == PanelInv /\ [cpNext]_cpVars => PanelInv'
<1> SUFFICES ASSUME PanelInv, [cpNext]_cpVars PROVE PanelInv'
  OBVIOUS
<1>0. cpTypeOK
  BY DEF PanelInv
<1> USE DEF PanelIsTrue, FrontPageIsListed, TurnedPageIsCurrent, PauseIsShown
<1>a. "Overview" \in Pages /\ "Account" \in Pages /\ "Account" \in AccountPages
      /\ "Overview" \notin {"ParentLink"} /\ "Overview" \notin {"Family"}
  BY DEF Pages, AccountPages
<1>1. ASSUME NEW left \in BOOLEAN, onActivated(left) PROVE PanelInv'
  <2> DEFINE m == [rebuildMenu(cpMenu, cpSession, app_role, m_paused) EXCEPT !.open = ~left]
  <2>1. m \in Menu /\ m.role = app_role /\ m.paused = m_paused
    BY <1>0 DEF cpTypeOK, rebuildMenu, Menu
  <2>2. cpMenu' = m
    BY <1>1 DEF onActivated
  <2> HIDE DEF m
  <2>3. CASE left
    BY <1>1, <1>a, <2>1, <2>2, <2>3, TrayStep DEF onActivated
  <2>4. CASE ~left
    BY <1>0, <1>1, <2>1, <2>2, <2>4 DEF onActivated, PanelInv, cpTypeOK
  <2> QED
    BY <2>3, <2>4
<1>2. ASSUME NEW page \in Pages, TrayOpens(page) PROVE PanelInv'
  <2> DEFINE m == [cpMenu EXCEPT !.open = FALSE]
  <2>1. m \in Menu /\ m.role = cpMenu.role /\ m.paused = cpMenu.paused /\ m.open = FALSE
    BY <1>0 DEF cpTypeOK, Menu
  <2>2. cpMenu' = m
    BY <1>2 DEF TrayOpens
  <2> HIDE DEF m
  <2>3. page \notin (IF app_role = "parent" THEN {"ParentLink"} ELSE {"Family"})
    BY <1>0, <1>2 DEF TrayOpens, TrayPages, PanelInv, cpTypeOK, Roles
  <2>4. cpMenu'.paused = m_paused /\ cpMenu'.open = FALSE /\ cpMenu' \in Menu
    BY <2>1, <2>2 DEF PanelInv
  <2> QED
    BY <1>2, <2>3, <2>4, TrayStep DEF TrayOpens
<1>3. ASSUME NEW row \in Pages, RowClicked(row) PROVE PanelInv'
  <2>1. /\ cpPanel' \in Panel /\ cpPanel'.row = row /\ cpPanel'.hidden = cpPanel.hidden
        /\ cpPanel'.paused = cpPanel.paused /\ row \notin cpPanel.hidden
        /\ row \in AccountPages => cpPanel'.shown[row] = cpSession
    BY <1>0, <1>3, SetCurrentRowIs DEF RowClicked, cpTypeOK
  <2> QED
    BY <1>0, <1>3, <2>1 DEF RowClicked, WindowFree, PanelInv, cpTypeOK
<1>4. CASE OverviewLogin
  <2>1. /\ cpPanel' \in Panel /\ cpPanel'.row = "Account" /\ cpPanel'.hidden = cpPanel.hidden
        /\ cpPanel'.paused = cpPanel.paused /\ cpPanel'.shown["Account"] = cpSession
    BY <1>0, <1>4, <1>a, SetCurrentRowIs DEF OverviewLogin, cpTypeOK
  <2> QED
    BY <1>0, <1>4, <2>1 DEF OverviewLogin, WindowFree, PanelInv, cpTypeOK
<1>5. CASE MenuDismissed
  BY <1>0, <1>5 DEF MenuDismissed, PanelInv, cpTypeOK, Menu
<1>6. CASE onTrayLogout
  <2> DEFINE m == [rebuildMenu(cpMenu, Nobody, app_role, m_paused) EXCEPT !.open = FALSE]
  <2>1. Nobody \in Account
    BY DEF Account
  <2>2. m \in Menu /\ m.role = app_role /\ m.paused = m_paused
    BY <1>0, <2>1 DEF cpTypeOK, rebuildMenu, Menu
  <2>3. cpMenu' = m
    BY <1>6 DEF onTrayLogout
  <2> HIDE DEF m
  <2> QED
    BY <1>0, <1>6, <2>1, <2>2, <2>3 DEF onTrayLogout, PanelInv, cpTypeOK
<1>7. CASE onTogglePause
  <2> DEFINE m == [rebuildMenu(cpMenu, cpSession, app_role, ~m_paused) EXCEPT !.open = FALSE]
             q == [cpPanel EXCEPT !.paused = ~m_paused]
  <2>1. m \in Menu /\ m.role = app_role /\ m.paused = (~m_paused)
    BY <1>0 DEF cpTypeOK, rebuildMenu, Menu
  <2>2. q \in Panel /\ q.row = cpPanel.row /\ q.hidden = cpPanel.hidden /\ q.shown = cpPanel.shown
        /\ q.paused = (~m_paused)
    BY <1>0 DEF cpTypeOK, Panel
  <2>3. cpMenu' = m /\ cpPanel' = q /\ m_paused' = (~m_paused)
    BY <1>7 DEF onTogglePause, setPaused
  <2> HIDE DEF m, q
  <2> QED
    BY <1>0, <1>7, <2>1, <2>2, <2>3 DEF onTogglePause, PanelInv, cpTypeOK
<1>8. CASE SessionLost
  BY <1>0, <1>8 DEF SessionLost, PanelInv, cpTypeOK, Account
<1>9. ASSUME NEW u \in Users, Attempt(u) PROVE PanelInv'
  BY <1>0, <1>9 DEF Attempt, WindowFree, PanelInv, cpTypeOK, Account
<1>10. CASE AskLogout
  BY <1>0, <1>10 DEF AskLogout, WindowFree, PanelInv, cpTypeOK
<1>11. CASE LogoutConfirmed
  <2> DEFINE q == LoginPageRefresh(cpPanel, Nobody)
  <2>1. q \in Panel /\ q.row = cpPanel.row /\ q.hidden = cpPanel.hidden /\ q.paused = cpPanel.paused
        /\ q.shown["Account"] = Nobody
    BY <1>0 DEF cpTypeOK, Panel, LoginPageRefresh, LoginPage, AccountPages, Account
  <2>2. cpPanel' = q
    BY <1>11 DEF LogoutConfirmed
  <2> HIDE DEF q
  <2> QED
    BY <1>0, <1>11, <2>1, <2>2 DEF LogoutConfirmed, PanelInv, cpTypeOK, Account
<1>12. ASSUME NEW role \in Roles, NEW ok \in BOOLEAN, SettingsSaved(role, ok) PROVE PanelInv'
  BY <1>0, <1>12 DEF SettingsSaved, WindowFree, PanelInv, cpTypeOK
<1>13. CASE BoxClosed
  <2> DEFINE sess == cpSession
             l == RefreshRow(cpPanel, "Account", sess)
             v == refreshSidebarVisibility(cpPanel, app_role, sess)
  <2>1. cpPanel \in Panel /\ cpMenu \in Menu /\ sess \in Account /\ app_role \in Roles
        /\ m_paused \in BOOLEAN
    BY <1>0 DEF cpTypeOK
  <2>2. cpMenu' \in Menu /\ cpMenu'.open = FALSE /\ cpMenu'.paused = m_paused
    BY <1>13, <2>1, RebuildIs DEF BoxClosed, PanelInv, Menu
  <2>3. CASE cpBox = "loggedIn"
    <3>1. cpPanel' = onLoggedInOrOut(l, sess)
      BY <1>13, <2>3 DEF BoxClosed, RefreshRow
    <3>2. /\ l \in Panel /\ l.row = cpPanel.row /\ l.hidden = cpPanel.hidden
          /\ l.paused = cpPanel.paused /\ l.shown["Account"] = sess
      BY <1>a, <2>1, RefreshRowIs
    <3> HIDE DEF l
    <3>3. /\ cpPanel' \in Panel /\ cpPanel'.row = cpPanel.row /\ cpPanel'.hidden = cpPanel.hidden
          /\ cpPanel'.paused = cpPanel.paused /\ \A r \in AccountPages : cpPanel'.shown[r] = sess
      BY <2>1, <3>1, <3>2, LoggedIs
    <3> QED
      BY <1>0, <1>13, <2>2, <2>3, <3>3 DEF BoxClosed, PanelInv, cpTypeOK
  <2>4. CASE cpBox = "loggedOut"
    <3>1. cpPanel' = onLoggedInOrOut(cpPanel, sess)
      BY <1>13, <2>4 DEF BoxClosed
    <3>2. /\ cpPanel' \in Panel /\ cpPanel'.row = cpPanel.row /\ cpPanel'.hidden = cpPanel.hidden
          /\ cpPanel'.paused = cpPanel.paused /\ \A r \in AccountPages : cpPanel'.shown[r] = sess
      BY <2>1, <2>4, <3>1, LoggedIs DEF PanelInv
    <3> QED
      BY <1>0, <1>13, <2>2, <2>4, <3>2 DEF BoxClosed, PanelInv, cpTypeOK
  <2>5. CASE cpBox = "saved"
    <3>1. cpPanel' = RefreshRow(v, "Overview", sess)
      BY <1>13, <2>5 DEF BoxClosed, onSettingsSaved, RefreshRow
    <3>2. /\ v \in Panel /\ v.paused = cpPanel.paused /\ v.row \notin v.hidden
          /\ v.hidden \in {{"ParentLink"}, {"Family"}}
          /\ \/ v.row = cpPanel.row /\ \A r \in AccountPages : v.shown[r] = cpPanel.shown[r]
             \/ v.row = "Overview"
      BY <2>1, VisibilityIs
    <3> HIDE DEF v
    <3>3. /\ cpPanel' \in Panel /\ cpPanel'.row = v.row /\ cpPanel'.hidden = v.hidden
          /\ cpPanel'.paused = v.paused
          /\ \A r \in AccountPages : cpPanel'.shown[r] = IF r = "Overview" THEN sess ELSE v.shown[r]
      BY <1>a, <2>1, <3>1, <3>2, RefreshRowIs
    <3>4. cpChanged' = cpChanged /\ UNCHANGED <<cpSession, app_role, m_paused>> /\ cpBox' = "none"
      BY <1>13, <2>5 DEF BoxClosed
    <3>5. TurnedPageIsCurrent'
      BY <3>2, <3>3, <3>4 DEF PanelInv
    <3> QED
      BY <1>0, <2>2, <3>2, <3>3, <3>4, <3>5 DEF PanelInv, cpTypeOK
  <2>6. CASE cpBox \notin {"loggedIn", "loggedOut", "saved"}
    <3>1. cpPanel' = cpPanel
      BY <1>13, <2>6 DEF BoxClosed
    <3> QED
      BY <1>0, <1>13, <2>2, <2>6, <3>1 DEF BoxClosed, PanelInv, cpTypeOK
  <2> QED
    BY <2>3, <2>4, <2>5, <2>6
<1>14. CASE UNCHANGED cpVars
  BY <1>14 DEF cpVars, PanelInv, cpTypeOK
<1> QED
  BY <1>1, <1>2, <1>3, <1>4, <1>5, <1>6, <1>7, <1>8, <1>9, <1>10, <1>11, <1>12, <1>13, <1>14 DEF cpNext

\* Where the window starts.
LEMMA PanelStart == cpInit => PanelInv
<1> SUFFICES ASSUME cpInit PROVE PanelInv
  OBVIOUS
<1> DEFINE p == [row |-> "Overview", hidden |-> {}, shown |-> [r \in AccountPages |-> cpSession],
                 paused |-> FALSE]
<1>1. cpSession \in Account /\ app_role \in Roles
  BY DEF cpInit
<1>2. p \in Panel /\ p.row = "Overview" /\ p.paused = FALSE
      /\ \A r \in AccountPages : p.shown[r] = cpSession
  BY <1>1 DEF Panel, Pages
<1>3. cpPanel = refreshSidebarVisibility(p, app_role, cpSession)
  BY DEF cpInit, ControlPanelWindow
<1> HIDE DEF p
<1>4. /\ cpPanel \in Panel /\ cpPanel.paused = FALSE /\ cpPanel.row \notin cpPanel.hidden
      /\ cpPanel.hidden \in {{"ParentLink"}, {"Family"}}
      /\ \A r \in AccountPages : cpPanel.shown[r] = cpSession
  BY <1>1, <1>2, <1>3, VisibilityIs
<1>5. cpMenu \in Menu /\ cpMenu.paused = FALSE /\ cpMenu.open = FALSE
  BY <1>1 DEF cpInit, Menu
<1>6. m_paused = FALSE /\ cpChanged = FALSE /\ cpBox \in {"welcome", "none"}
  BY DEF cpInit
<1> QED
  BY <1>1, <1>4, <1>5, <1>6
     DEF PanelInv, cpTypeOK, PanelIsTrue, FrontPageIsListed, TurnedPageIsCurrent, PauseIsShown

\* The window and the menu tell the truth: the page in front is listed, shows
\* the session of the user's last turn to it, and the three copies of the pause
\* flag agree, whatever the order of logins, lost sessions, saved roles, boxes
\* and pauses (openTo, refreshSidebarVisibility, onTogglePause).
THEOREM WindowAndMenuAreTrue == PanelSpec => []PanelIsTrue
<1>1. PanelInv => PanelIsTrue
  BY DEF PanelInv
<1> QED
  BY <1>1, PanelStart, PanelStep, PTL DEF PanelSpec

-----------------------------------------------------------------------------
(* Update checks.                                                          *)

\* v is newer than a: at the first part that differs it has the larger number.
Newer(v, a) == \E i \in 1..Len(v) : /\ Part(v, i) > Part(a, i)
                                    /\ \A j \in 1..i - 1 : Part(v, j) = Part(a, j)

\* compareVersions says which of two versions is newer, whatever their lengths.
LEMMA CompareIsNewer ==
    ASSUME NEW v \in Seq(Nat), NEW a \in Seq(Nat), compareVersions(v, a) > 0
    PROVE  Newer(v, a)
<1> DEFINE n == IF Len(v) > Len(a) THEN Len(v) ELSE Len(a)
           D == {i \in 1..n : Part(v, i) # Part(a, i)}
           i == CHOOSE k \in D : \A j \in D : k <= j
<1>1. compareVersions(v, a) = IF D = {} THEN 0 ELSE Part(v, i) - Part(a, i)
  BY DEF compareVersions
<1>2. Len(v) \in Nat /\ Len(a) \in Nat /\ n \in Nat /\ Len(v) <= n
  OBVIOUS
<1>3. \A k \in 1..n : Part(v, k) \in Nat /\ Part(a, k) \in Nat /\ (k > Len(v) => Part(v, k) = 0)
  BY <1>2 DEF Part
<1> HIDE DEF n
<1>4. D # {} /\ D \in SUBSET Nat
  BY <1>1, <1>2
<1>5. i \in D /\ \A j \in D : i <= j
  BY <1>4, LeastExists
<1> HIDE DEF i
<1>6. i \in 1..n /\ Part(v, i) > Part(a, i)
  BY <1>1, <1>3, <1>4, <1>5
<1>7. i \in 1..Len(v)
  <2>1. /\ Part(v, i) \in Nat /\ Part(a, i) \in Nat
        /\ i > Len(v) => Part(v, i) = 0
    BY <1>3, <1>6
  <2> QED
    BY <1>2, <1>6, <2>1
<1>8. \A j \in 1..i - 1 : Part(v, j) = Part(a, j)
  <2> TAKE j \in 1..i - 1
  <2>1. j \in 1..n /\ ~(i <= j)
    BY <1>2, <1>6
  <2> QED
    BY <1>5, <2>1
<1> QED
  BY <1>6, <1>7, <1>8 DEF Newer

\* The number of requests under way is what tells whether one must still
\* answer.
TasksInv == ttChecks \in Nat /\ ChecksAreSound

\* Every step of the checks, the timers and the answers keeps TasksInv.
LEMMA TasksStep == TasksInv /\ [ttNext]_ttVars => TasksInv'
<1> SUFFICES ASSUME TasksInv, [ttNext]_ttVars PROVE TasksInv'
  OBVIOUS
<1> USE DEF TasksInv, ChecksAreSound, CheckComesBack
<1>1. CASE UNCHANGED upVars
  BY <1>1 DEF upVars, OffersAreNewer
<1>2. CASE TimedCheck
  BY <1>2 DEF TimedCheck, checkNow, OffersAreNewer
<1>3. CASE onCheckForUpdates
  BY <1>3 DEF onCheckForUpdates, checkNow, OffersAreNewer
<1>4. CASE onReply
  <2>1. ttChecks' \in Nat /\ ttOffered'
    BY <1>4 DEF onReply, onUpdateCheckFailed, onUpdateAvailable, onUpdateUpToDate
  <2>2. CASE UNCHANGED ttDownload
    BY <2>1, <2>2 DEF OffersAreNewer
  <2>3. ASSUME NEW v \in Releases, compareVersions(v, AppVersion) > 0, ttDownload' = {v}
        PROVE  OffersAreNewer'
    BY <2>3, CompareIsNewer, TasksAssumption DEF OffersAreNewer, Newer
  <2> QED
    BY <1>4, <2>1, <2>2, <2>3 DEF onReply, onUpdateCheckFailed, onUpdateAvailable, onUpdateUpToDate
<1> QED
  BY <1>1, <1>2, <1>3, <1>4 DEF ttNext, Updates, ttVars

\* Only newer versions are ever offered, and the menu's check can be asked for
\* again once nothing is under way, however timed and asked-for checks and
\* their answers overtake each other, for versions of any length
\* (compareVersions, onReply and its three handlers).
THEOREM UpdateChecksAreSound == TasksSpec => []ChecksAreSound
<1>1. ttInit => TasksInv
  BY DEF ttInit, TasksInv, ChecksAreSound, CheckComesBack, OffersAreNewer
<1>2. TasksInv => ChecksAreSound
  BY DEF TasksInv
<1> QED
  BY <1>1, <1>2, TasksStep, PTL DEF TasksSpec

-----------------------------------------------------------------------------
(* The machine's identity.                                                 *)

\* Unless an id was lost or drawn by both programs at once: a program that has
\* its id has the file's, one that has drawn an id has the machine to itself
\* until it has written it, and the account knows the file's id or none.
DeviceInv ==
    /\ deviceFile = [id |-> deviceFile.id, label |-> deviceFile.label]
    /\ agentDev = [stage |-> agentDev.stage, id |-> agentDev.id, label |-> agentDev.label]
    /\ dashDev = [stage |-> dashDev.stage, id |-> dashDev.id, label |-> dashDev.label]
    /\ agentDev.stage \in Stages /\ dashDev.stage \in Stages
    /\ agentDev.stage = "drawn" => agentDev.id \in DeviceIds
    /\ dashDev.stage = "drawn" => dashDev.id \in DeviceIds
    /\ ~apart =>
        /\ agentDev.stage = "on" => agentDev.id = deviceFile.id /\ deviceFile.id \in DeviceIds
        /\ dashDev.stage = "on" => dashDev.id = deviceFile.id /\ deviceFile.id \in DeviceIds
        /\ agentDev.stage = "drawn" => deviceFile.id \notin DeviceIds /\ dashDev.stage = "off"
        /\ dashDev.stage = "drawn" => deviceFile.id \notin DeviceIds /\ agentDev.stage = "off"
        /\ \/ heartbeats = <<>>
           \/ /\ deviceFile.id \in DeviceIds
              /\ \E h : heartbeats = <<h>> /\ h.id = deviceFile.id

\* A row is put in the place of the only one.
LEMMA OneRowStays ==
    ASSUME NEW h, NEW host, heartbeats = <<h>>, Upsert(h.id, host)
    PROVE  heartbeats' = <<[id |-> h.id, host |-> host]>>
<1> DEFINE row == <<[id |-> h.id, host |-> host]>>
<1>1. Len(heartbeats) = 1 /\ heartbeats[1] = h
  OBVIOUS
<1>2. heartbeats' = row \o RemoveAt(heartbeats, 1)
  BY <1>1 DEF Upsert
<1>3. RemoveAt(<<h>>, 1) = <<>>
  <2>1. SubSeq(<<h>>, 1, 0) = <<>> /\ SubSeq(<<h>>, 2, 1) = <<>>
    OBVIOUS
  <2> QED
    BY <2>1 DEF RemoveAt
<1>4. row \o <<>> = row
  OBVIOUS
<1>5. heartbeats' = row \o RemoveAt(<<h>>, 1)
  BY <1>2
<1> HIDE DEF row
<1>6. heartbeats' = row
  BY <1>3, <1>4, <1>5
<1> QED
  BY <1>6 DEF row

\* The first row.
LEMMA FirstRowComes ==
    ASSUME NEW id, NEW host, heartbeats = <<>>, Upsert(id, host)
    PROVE  heartbeats' = <<[id |-> id, host |-> host]>>
BY DEF Upsert

\* A report of a program that has its id.
LEMMA ReportStep ==
    ASSUME DeviceInv, NEW id, NEW host, Upsert(id, host),
           ~apart => id = deviceFile.id /\ deviceFile.id \in DeviceIds,
           UNCHANGED <<deviceFile, agentDev, dashDev, apart>>
    PROVE  DeviceInv'
<1>1. CASE apart
  BY <1>1 DEF DeviceInv
<1>2. CASE ~apart
  <2>1. heartbeats' = <<[id |-> id, host |-> host]>>
    BY <1>2, OneRowStays, FirstRowComes DEF DeviceInv
  <2>2. \E h : heartbeats' = <<h>> /\ h.id = id
    BY <2>1
  <2> QED
    BY <1>2, <2>2 DEF DeviceInv
<1> QED
  BY <1>1, <1>2

\* What a start of either program reads: the file's id, or a drawn one.
LEMMA StartReads ==
    ASSUME DeviceInv, NEW p, p \in loadOrCreate(readDeviceFile) \/ p \in loadConfig(readDeviceFile)
    PROVE  /\ p = [stage |-> p.stage, id |-> p.id, label |-> p.label] /\ p.id \in DeviceIds
           /\ IF deviceFile.id \in DeviceIds THEN p.stage = "on" /\ p.id = deviceFile.id
                                             ELSE p.stage = "drawn"
<1>1. readDeviceFile.id = IF deviceFile.id \in DeviceIds THEN deviceFile.id ELSE NoId
  BY DEF DeviceInv, readDeviceFile
<1> QED
  BY <1>1, DeviceAssumption DEF loadOrCreate, loadConfig, Drawn

\* Every step of the two programs keeps DeviceInv.
LEMMA DeviceStep == DeviceInv /\ [diNext]_diVars => DeviceInv'
<1> SUFFICES ASSUME DeviceInv, [diNext]_diVars PROVE DeviceInv'
  OBVIOUS
<1>1. CASE AgentReads
  <2>1. /\ agentDev' = [stage |-> agentDev'.stage, id |-> agentDev'.id, label |-> agentDev'.label]
        /\ agentDev'.id \in DeviceIds
        /\ IF deviceFile.id \in DeviceIds THEN agentDev'.stage = "on" /\ agentDev'.id = deviceFile.id
                                          ELSE agentDev'.stage = "drawn"
    BY <1>1, StartReads DEF AgentReads
  <2> QED
    BY <1>1, <2>1 DEF AgentReads, DeviceInv, Stages
<1>2. CASE DashReads
  <2>1. /\ dashDev' = [stage |-> dashDev'.stage, id |-> dashDev'.id, label |-> dashDev'.label]
        /\ dashDev'.id \in DeviceIds
        /\ IF deviceFile.id \in DeviceIds THEN dashDev'.stage = "on" /\ dashDev'.id = deviceFile.id
                                          ELSE dashDev'.stage = "drawn"
    BY <1>2, StartReads DEF DashReads
  <2> QED
    BY <1>2, <2>1 DEF DashReads, DeviceInv, Stages
<1>3. CASE AgentWrites
  <2>1. agentDev' = [stage |-> "on", id |-> agentDev.id, label |-> agentDev.label]
    BY <1>3 DEF AgentWrites, DeviceInv
  <2>2. /\ agentDev' = [stage |-> agentDev'.stage, id |-> agentDev'.id, label |-> agentDev'.label]
        /\ agentDev'.stage = "on" /\ agentDev'.id = agentDev.id
    BY <2>1
  <2>3. /\ agentDev.stage = "drawn" /\ agentDev.id \in DeviceIds
        /\ UNCHANGED <<dashDev, heartbeats>>
        /\ ~apart => dashDev.stage = "off" /\ heartbeats = <<>>
    BY <1>3 DEF AgentWrites, DeviceInv
  <2>4. /\ deviceFile' = [id |-> deviceFile'.id, label |-> deviceFile'.label]
        /\ ~apart' => ~apart /\ deviceFile'.id = agentDev.id
    <3> PICK done \in BOOLEAN : writeDeviceFile(agentDev, done)
      BY <1>3 DEF AgentWrites
    <3>1. CASE done
      <4>1. deviceFile' = [id |-> agentDev.id, label |-> agentDev.label] /\ (~apart' => ~apart)
        BY <3>1 DEF writeDeviceFile
      <4> QED
        BY <4>1
    <3>2. CASE ~done
      <4>1. deviceFile' = deviceFile /\ apart'
        BY <3>2 DEF writeDeviceFile
      <4> QED
        BY <4>1 DEF DeviceInv
    <3> QED
      BY <3>1, <3>2
  <2>5. /\ dashDev = [stage |-> dashDev.stage, id |-> dashDev.id, label |-> dashDev.label]
        /\ dashDev.stage \in Stages /\ (dashDev.stage = "drawn" => dashDev.id \in DeviceIds)
    BY DEF DeviceInv
  <2> QED
    BY <2>2, <2>3, <2>4, <2>5 DEF DeviceInv, Stages
<1>4. CASE DashWrites
  <2>1. dashDev' = [stage |-> "on", id |-> dashDev.id, label |-> dashDev.label]
    BY <1>4 DEF DashWrites, DeviceInv
  <2>2. /\ dashDev' = [stage |-> dashDev'.stage, id |-> dashDev'.id, label |-> dashDev'.label]
        /\ dashDev'.stage = "on" /\ dashDev'.id = dashDev.id
    BY <2>1
  <2>3. /\ dashDev.stage = "drawn" /\ dashDev.id \in DeviceIds
        /\ UNCHANGED <<agentDev, heartbeats>>
        /\ ~apart => agentDev.stage = "off" /\ heartbeats = <<>>
    BY <1>4 DEF DashWrites, DeviceInv
  <2>4. /\ deviceFile' = [id |-> deviceFile'.id, label |-> deviceFile'.label]
        /\ ~apart' => ~apart /\ deviceFile'.id = dashDev.id
    <3> PICK done \in BOOLEAN : writeDeviceFile(dashDev, done)
      BY <1>4 DEF DashWrites
    <3>1. CASE done
      <4>1. deviceFile' = [id |-> dashDev.id, label |-> dashDev.label] /\ (~apart' => ~apart)
        BY <3>1 DEF writeDeviceFile
      <4> QED
        BY <4>1
    <3>2. CASE ~done
      <4>1. deviceFile' = deviceFile /\ apart'
        BY <3>2 DEF writeDeviceFile
      <4> QED
        BY <4>1 DEF DeviceInv
    <3> QED
      BY <3>1, <3>2
  <2>5. /\ agentDev = [stage |-> agentDev.stage, id |-> agentDev.id, label |-> agentDev.label]
        /\ agentDev.stage \in Stages /\ (agentDev.stage = "drawn" => agentDev.id \in DeviceIds)
    BY DEF DeviceInv
  <2> QED
    BY <2>2, <2>3, <2>4, <2>5 DEF DeviceInv, Stages
<1>5. CASE AgentEnds
  BY <1>5 DEF AgentEnds, Off, DeviceInv, Stages
<1>6. CASE DashEnds
  BY <1>6 DEF DashEnds, Off, DeviceInv, Stages
<1>7. CASE machines_push_heartbeat
  <2>1. ~apart => agentDev.id = deviceFile.id /\ deviceFile.id \in DeviceIds
    BY <1>7 DEF machines_push_heartbeat, DeviceInv
  <2> QED
    BY <1>7, <2>1, ReportStep DEF machines_push_heartbeat
<1>8. CASE DashPushHeartbeat
  <2>1. ~apart => dashDev.id = deviceFile.id /\ deviceFile.id \in DeviceIds
    BY <1>8 DEF DashPushHeartbeat, DeviceInv
  <2> QED
    BY <1>8, <2>1, ReportStep DEF DashPushHeartbeat
<1>9. CASE ListMachines \/ UNCHANGED diVars
  BY <1>9 DEF ListMachines, diVars, DeviceInv
<1> QED
  BY <1>1, <1>2, <1>3, <1>4, <1>5, <1>6, <1>7, <1>8, <1>9 DEF diNext

\* Agent and dashboard are one machine to the account, over any number of
\* starts and ends of both in any order, unless a write of device.id failed or
\* both drew an id before either had written it (loadOrCreate, load).
THEOREM AccountSeesOneMachine == DeviceSpec => []OneMachine
<1>1. diInit => DeviceInv
  BY DEF diInit, DeviceInv, Off, Stages
<1>2. DeviceInv => OneMachine
  <2> SUFFICES ASSUME DeviceInv, ~apart PROVE Len(heartbeats) <= 1
    BY DEF OneMachine
  <2>1. heartbeats = <<>> \/ \E h : heartbeats = <<h>>
    BY DEF DeviceInv
  <2> QED
    BY <2>1
<1> QED
  BY <1>1, <1>2, DeviceStep, PTL DEF DeviceSpec

-----------------------------------------------------------------------------
(* The seconds of today.                                                   *)

LogRow == [proc : Procs, start : Nat, dur : Nat]

\* What the queries make of some rows: the durations of those that began on
\* the day that began at T, and the part of the others that lies in it.
SeenSum(rows, p, T) ==
    SumOf([k \in DOMAIN rows |-> rows[k].dur],
          {k \in {j \in DOMAIN rows : rows[j].start >= T} : rows[k].proc = p})
LatePart(r, p, T) == IF r.proc = p /\ r.start < T /\ r.start + r.dur > T THEN r.start + r.dur - T ELSE 0
LateSum(rows, p, T) == SumOf([k \in DOMAIN rows |-> LatePart(rows[k], p, T)], DOMAIN rows)

\* The part of one row that lies in the day.
InDay(r, p, T) == IF r.proc = p /\ r.start >= T THEN r.dur ELSE LatePart(r, p, T)

\* The part of the open record that lies in the day.
OpenPart(p) == IF dtOpen = <<>> \/ dtOpen[1] # p THEN 0
               ELSE dtNow - (IF dtOpen[2] > todayStart THEN dtOpen[2] ELSE todayStart)

\* The model's sums are sums.
LEMMA RowSum == ASSUME NEW f, NEW S PROVE SumOfRows(f, S) = SumOf(f, S)
BY DEF SumOfRows, SumOf

\* The positions of a list of rows, and those of one that is longer.
LEMMA RowPositions ==
    ASSUME NEW rows \in Seq(LogRow)
    PROVE  /\ IsFiniteSet(DOMAIN rows) /\ Len(rows) + 1 \notin DOMAIN rows
           /\ \A k \in DOMAIN rows : rows[k] \in LogRow
           /\ \A r \in LogRow : /\ DOMAIN Append(rows, r) = DOMAIN rows \cup {Len(rows) + 1}
                                /\ Append(rows, r)[Len(rows) + 1] = r
                                /\ \A k \in DOMAIN rows : Append(rows, r)[k] = rows[k]
<1>1. DOMAIN rows = 1..Len(rows) /\ Len(rows) \in Nat
  OBVIOUS
<1>2. IsFiniteSet(DOMAIN rows)
  BY <1>1, FS_Interval
<1> QED
  BY <1>1, <1>2

\* The part of a row in a day is a number of seconds.
LEMMA PartType ==
    ASSUME NEW r \in LogRow, NEW p, NEW T \in Int
    PROVE  LatePart(r, p, T) \in Nat /\ InDay(r, p, T) \in Nat
BY DEF LatePart, InDay, LogRow

\* So are the sums of such parts.
LEMMA SumsType ==
    ASSUME NEW rows \in Seq(LogRow), NEW p, NEW T \in Int
    PROVE  SeenSum(rows, p, T) \in Nat /\ LateSum(rows, p, T) \in Nat
<1> DEFINE f == [k \in DOMAIN rows |-> rows[k].dur]
           g == [k \in DOMAIN rows |-> LatePart(rows[k], p, T)]
           S == {k \in {j \in DOMAIN rows : rows[j].start >= T} : rows[k].proc = p}
<1>1. IsFiniteSet(DOMAIN rows) /\ IsFiniteSet(S)
  BY RowPositions, FS_Subset
<1>2. \A k \in S : f[k] \in Nat
  BY RowPositions DEF LogRow
<1>3. \A k \in DOMAIN rows : g[k] \in Nat
  BY RowPositions, PartType
<1>4. SeenSum(rows, p, T) = SumOf(f, S) /\ LateSum(rows, p, T) = SumOf(g, DOMAIN rows)
  BY DEF SeenSum, LateSum
<1> HIDE DEF f, g, S
<1> QED
  BY <1>1, <1>2, <1>3, <1>4, SumType

\* A row more adds its part of the day.
LEMMA SumsOfAppend ==
    ASSUME NEW rows \in Seq(LogRow), NEW r \in LogRow, NEW p, NEW T \in Int
    PROVE  SeenSum(Append(rows, r), p, T) + LateSum(Append(rows, r), p, T)
             = SeenSum(rows, p, T) + LateSum(rows, p, T) + InDay(r, p, T)
<1> DEFINE more == Append(rows, r)
           n == Len(rows) + 1
           f == [k \in DOMAIN rows |-> rows[k].dur]
           g == [k \in DOMAIN rows |-> LatePart(rows[k], p, T)]
           f2 == [k \in DOMAIN more |-> more[k].dur]
           g2 == [k \in DOMAIN more |-> LatePart(more[k], p, T)]
           S == {k \in {j \in DOMAIN rows : rows[j].start >= T} : rows[k].proc = p}
           S2 == {k \in {j \in DOMAIN more : more[j].start >= T} : more[k].proc = p}
<1>1. /\ IsFiniteSet(DOMAIN rows) /\ n \notin DOMAIN rows
      /\ \A k \in DOMAIN rows : rows[k] \in LogRow
      /\ DOMAIN more = DOMAIN rows \cup {n} /\ more[n] = r
      /\ \A k \in DOMAIN rows : more[k] = rows[k]
  BY RowPositions
<1>2. IsFiniteSet(S) /\ n \notin S
  BY <1>1, FS_Subset
<1> HIDE DEF more, n
<1>3. S2 = IF r.start >= T /\ r.proc = p THEN S \cup {n} ELSE S
  BY <1>1
<1>4. f2[n] = r.dur /\ r.dur \in Nat /\ \A k \in S : f[k] \in Nat /\ f2[k] = f[k]
  BY <1>1 DEF LogRow
<1>5. g2[n] = LatePart(r, p, T) /\ \A k \in DOMAIN rows : g[k] \in Nat /\ g2[k] = g[k]
  BY <1>1, PartType
<1>6. /\ SeenSum(rows, p, T) = SumOf(f, S) /\ SeenSum(more, p, T) = SumOf(f2, S2)
      /\ LateSum(rows, p, T) = SumOf(g, DOMAIN rows) /\ LateSum(more, p, T) = SumOf(g2, DOMAIN more)
  BY DEF SeenSum, LateSum
<1> HIDE DEF f, g, f2, g2, S, S2
<1>7. LateSum(more, p, T) = LateSum(rows, p, T) + LatePart(r, p, T)
  <2>1. LatePart(r, p, T) \in Nat
    BY PartType
  <2> QED
    BY <1>1, <1>5, <1>6, <2>1, SumAdd
<1>8. SeenSum(more, p, T) = SeenSum(rows, p, T) + (IF r.start >= T /\ r.proc = p THEN r.dur ELSE 0)
  <2>1. CASE r.start >= T /\ r.proc = p
    <3>1. SumOf(f2, S \cup {n}) = SumOf(f, S) + f2[n]
      BY <1>2, <1>4, SumAdd
    <3> QED
      BY <1>3, <1>4, <1>6, <2>1, <3>1
  <2>2. CASE ~(r.start >= T /\ r.proc = p)
    <3>1. SumOf(f2, S) = SumOf(f, S)
      BY <1>2, <1>4, SumEqual
    <3>2. SeenSum(rows, p, T) \in Nat
      BY SumsType
    <3> QED
      BY <1>3, <1>6, <2>2, <3>1, <3>2
  <2> QED
    BY <2>1, <2>2
<1>9. SeenSum(rows, p, T) \in Nat /\ LateSum(rows, p, T) \in Nat /\ LatePart(r, p, T) \in Nat /\ r.dur \in Nat
  BY <1>4, SumsType, PartType
<1>10. r.proc = p /\ r.start >= T => LatePart(r, p, T) = 0
  BY DEF LatePart, LogRow
<1>11. SeenSum(more, p, T) + LateSum(more, p, T) = SeenSum(rows, p, T) + LateSum(rows, p, T) + InDay(r, p, T)
  BY <1>7, <1>8, <1>9, <1>10 DEF InDay
<1> QED
  BY <1>11 DEF more

\* Rows that ended before the day have no part in it.
LEMMA OldRowsDoNotCount ==
    ASSUME NEW rows \in Seq(LogRow), NEW p, NEW T \in Int,
           \A k \in DOMAIN rows : rows[k].start + rows[k].dur < T
    PROVE  SeenSum(rows, p, T) = 0 /\ LateSum(rows, p, T) = 0
<1> DEFINE f == [k \in DOMAIN rows |-> rows[k].dur]
           g == [k \in DOMAIN rows |-> LatePart(rows[k], p, T)]
           S == {k \in {j \in DOMAIN rows : rows[j].start >= T} : rows[k].proc = p}
<1>1. IsFiniteSet(DOMAIN rows) /\ IsFiniteSet(S)
  BY RowPositions, FS_Subset
<1>2. ASSUME NEW k \in DOMAIN rows PROVE rows[k].start < T /\ LatePart(rows[k], p, T) = 0
  <2>1. rows[k] \in LogRow /\ rows[k].start + rows[k].dur < T
    BY RowPositions
  <2> QED
    BY <2>1 DEF LatePart, LogRow
<1>3. (\A k \in S : f[k] = 0) /\ (\A k \in DOMAIN rows : g[k] = 0)
  <2>1. \A k \in DOMAIN rows : rows[k].start \in Nat
    BY RowPositions DEF LogRow
  <2> QED
    BY <1>2, <2>1
<1>4. SeenSum(rows, p, T) = SumOf(f, S) /\ LateSum(rows, p, T) = SumOf(g, DOMAIN rows)
  BY DEF SeenSum, LateSum
<1> HIDE DEF f, g, S
<1> QED
  BY <1>1, <1>3, <1>4, SumOfZeros

\* Local midnight: now is in the day that began at todayStart.
LEMMA Midnight ==
    ASSUME NEW t \in Nat
    PROVE  LET T == LocalDay(t) * DayLen - Zone IN
           /\ T \in Int /\ T <= t /\ t < T + DayLen
           /\ LocalDay(t + 1) # LocalDay(t) => LocalDay(t + 1) * DayLen - Zone = t + 1
<1> DEFINE a == t + Zone
           d == a \div DayLen
           e == (a + 1) \div DayLen
<1>1. a \in Int /\ DayLen \in Nat /\ DayLen > 0 /\ Zone \in Int
  BY DayAssumption
<1>2. LocalDay(t) = d /\ LocalDay(t + 1) = e
  <2>1. (t + 1) + Zone = a + 1
    BY <1>1
  <2> QED
    BY <2>1 DEF LocalDay
<1> HIDE DEF a
<1>3. d \in Int /\ a = DayLen * d + (a % DayLen) /\ a % DayLen \in 0..DayLen - 1
  BY <1>1
<1>4. e \in Int /\ a + 1 = DayLen * e + ((a + 1) % DayLen) /\ (a + 1) % DayLen \in 0..DayLen - 1
  BY <1>1
<1> HIDE DEF d, e
<1>5. d * DayLen <= a /\ a < d * DayLen + DayLen /\ d * DayLen \in Int /\ d * DayLen = DayLen * d
  BY <1>1, <1>3
<1>6. e * DayLen <= a + 1 /\ a + 1 < e * DayLen + DayLen /\ e * DayLen \in Int /\ e * DayLen = DayLen * e
  BY <1>1, <1>4
<1>7. ASSUME e # d PROVE e * DayLen = a + 1
  <2>1. \A x, y \in Int : x < y => x * DayLen + DayLen <= y * DayLen
    BY <1>1
  <2>2. ~(e < d)
    BY <1>1, <1>3, <1>4, <1>5, <1>6, <2>1
  <2>3. d < e
    BY <1>3, <1>4, <1>7, <2>2
  <2>4. d * DayLen + DayLen <= e * DayLen
    BY <1>3, <1>4, <2>1, <2>3
  <2> QED
    BY <1>1, <1>5, <1>6, <2>4
<1> QED
  BY <1>1, <1>2, <1>5, <1>7 DEF a

\* What a limit sees of today, and what it never does.
Counted(p) == SeenSum(dtRows, p, todayStart) + LateSum(dtRows, p, todayStart) + OpenPart(p)

LogTypes ==
    /\ dtNow \in Nat /\ dtNow <= LastTick
    /\ dtOpen = <<>> \/ dtOpen \in Procs \X (0..dtNow)
    /\ dtRows \in Seq(LogRow) /\ \A k \in DOMAIN dtRows : dtRows[k].start + dtRows[k].dur <= dtNow
    /\ dtUsed \in [Procs -> Nat] /\ \A p \in Procs : dtUsed[p] <= dtNow - todayStart

\* Records are of the past, and each second of today is in one of three sums.
DayInv ==
    /\ LogTypes
    /\ \A p \in Procs : /\ Counted(p) <= dtUsed[p]
                        /\ min_duration_sec <= 1 => Counted(p) = dtUsed[p]

\* Now is in today.
LEMMA TodayBegan == LogTypes => todayStart \in Int /\ todayStart <= dtNow /\ dtNow < todayStart + DayLen
BY Midnight DEF LogTypes, todayStart

\* The part of the open record is a number of seconds.
LEMMA OpenType == ASSUME LogTypes, NEW p PROVE OpenPart(p) \in Nat
<1>1. todayStart \in Int /\ todayStart <= dtNow /\ dtNow \in Nat
  BY TodayBegan DEF LogTypes
<1>2. dtOpen = <<>> \/ dtOpen[2] \in 0..dtNow
  BY DEF LogTypes
<1> QED
  BY <1>1, <1>2 DEF OpenPart

\* What closing does to the rows: the record that is stored has the part of the
\* day that the open one had; one that is dropped was shorter than the minimum.
LEMMA ClosedKeeps ==
    ASSUME LogTypes, NEW p
    PROVE  LET sum(rows) == SeenSum(rows, p, todayStart) + LateSum(rows, p, todayStart) IN
           /\ Closed \in Seq(LogRow) /\ \A k \in DOMAIN Closed : Closed[k].start + Closed[k].dur <= dtNow
           /\ sum(Closed) <= sum(dtRows) + OpenPart(p)
           /\ min_duration_sec <= 1 => sum(Closed) = sum(dtRows) + OpenPart(p)
<1> DEFINE T == todayStart
           r == [proc |-> dtOpen[1], start |-> dtOpen[2], dur |-> dtNow - dtOpen[2]]
           stored == dtOpen # <<>> /\ dtNow - dtOpen[2] >= min_duration_sec
<1>1. T \in Int /\ T <= dtNow /\ dtNow \in Nat /\ dtRows \in Seq(LogRow) /\ min_duration_sec \in Nat
  BY TodayBegan, DayAssumption DEF LogTypes
<1>2. SeenSum(dtRows, p, T) \in Nat /\ LateSum(dtRows, p, T) \in Nat /\ OpenPart(p) \in Nat
  BY <1>1, SumsType, OpenType
<1>3. CASE stored
  <2>1. dtOpen[1] \in Procs /\ dtOpen[2] \in 0..dtNow
    BY <1>3 DEF LogTypes
  <2>2. r \in LogRow /\ r.start + r.dur = dtNow
    BY <1>1, <2>1 DEF LogRow
  <2>3. Closed = Append(dtRows, r)
    BY <1>3 DEF Closed
  <2>4. InDay(r, p, T) = OpenPart(p)
    BY <1>1, <1>3, <2>1 DEF InDay, LatePart, OpenPart
  <2> HIDE DEF r, T, stored
  <2>5. SeenSum(Closed, p, T) + LateSum(Closed, p, T)
          = SeenSum(dtRows, p, T) + LateSum(dtRows, p, T) + OpenPart(p)
    BY <1>1, <2>2, <2>3, <2>4, SumsOfAppend
  <2>6. \A k \in DOMAIN Closed : Closed[k].start + Closed[k].dur <= dtNow
    <3>1. /\ DOMAIN Closed = DOMAIN dtRows \cup {Len(dtRows) + 1} /\ Closed[Len(dtRows) + 1] = r
          /\ \A k \in DOMAIN dtRows : Closed[k] = dtRows[k]
      BY <1>1, <2>2, <2>3, RowPositions
    <3> QED
      BY <1>1, <2>2, <3>1 DEF LogTypes
  <2>7. Closed \in Seq(LogRow)
    BY <1>1, <2>2, <2>3
  <2> QED
    BY <1>2, <2>5, <2>6, <2>7 DEF T
<1>4. CASE ~stored
  <2>1. Closed = dtRows
    BY <1>4 DEF Closed
  <2>2. min_duration_sec <= 1 => OpenPart(p) = 0
    <3>1. CASE dtOpen = <<>>
      BY <3>1 DEF OpenPart
    <3>2. CASE dtOpen # <<>>
      <4>1. dtOpen[2] \in 0..dtNow /\ dtNow - dtOpen[2] < min_duration_sec
        BY <1>1, <1>4, <3>2 DEF LogTypes
      <4> QED
        BY <1>1, <4>1 DEF OpenPart
    <3> QED
      BY <3>1, <3>2
  <2> HIDE DEF T
  <2> QED
    BY <1>1, <1>2, <2>1, <2>2 DEF LogTypes, T
<1> QED
  BY <1>3, <1>4

\* A record ends and another, or none, begins.
LEMMA ChangeKeeps ==
    ASSUME DayInv, dtRows' = Closed, UNCHANGED <<dtNow, dtUsed>>,
           dtOpen' = <<>> \/ \E p \in Procs : dtOpen' = <<p, dtNow>>
    PROVE  DayInv'
<1>1. todayStart' = todayStart /\ todayStart \in Int /\ todayStart <= dtNow /\ dtNow \in Nat
  BY TodayBegan DEF todayStart, LocalDay, DayInv, LogTypes
<1>2. LogTypes'
  <2>1. dtOpen' = <<>> \/ dtOpen' \in Procs \X (0..dtNow)
    BY <1>1
  <2>2. Closed \in Seq(LogRow) /\ \A k \in DOMAIN Closed : Closed[k].start + Closed[k].dur <= dtNow
    BY ClosedKeeps DEF DayInv
  <2> QED
    BY <1>1, <2>1, <2>2 DEF DayInv, LogTypes
<1>3. \A p : OpenPart(p)' = 0
  BY <1>1 DEF OpenPart
<1>4. ASSUME NEW p \in Procs
      PROVE  Counted(p)' <= dtUsed'[p] /\ (min_duration_sec <= 1 => Counted(p)' = dtUsed'[p])
  <2> DEFINE a == SeenSum(dtRows, p, todayStart) + LateSum(dtRows, p, todayStart)
             b == SeenSum(Closed, p, todayStart) + LateSum(Closed, p, todayStart)
  <2>1. b <= a + OpenPart(p) /\ (min_duration_sec <= 1 => b = a + OpenPart(p))
    BY ClosedKeeps DEF DayInv
  <2>2. a \in Nat /\ b \in Nat /\ OpenPart(p) \in Nat /\ dtUsed[p] \in Nat
    <3>1. dtRows \in Seq(LogRow) /\ Closed \in Seq(LogRow) /\ LogTypes /\ dtUsed \in [Procs -> Nat]
      BY ClosedKeeps DEF DayInv, LogTypes
    <3>2. a \in Nat
      BY <1>1, <3>1, SumsType
    <3>3. b \in Nat
      BY <1>1, <3>1, SumsType
    <3>4. OpenPart(p) \in Nat /\ dtUsed[p] \in Nat
      BY <3>1, OpenType
    <3> QED
      BY <3>2, <3>3, <3>4
  <2>3. Counted(p) = a + OpenPart(p)
    BY DEF Counted
  <2>4. Counted(p)' = b + OpenPart(p)'
    BY <1>1 DEF Counted
  <2>5. Counted(p) <= dtUsed[p] /\ (min_duration_sec <= 1 => Counted(p) = dtUsed[p])
    BY DEF DayInv
  <2> HIDE DEF a, b
  <2> QED
    BY <1>3, <2>1, <2>2, <2>3, <2>4, <2>5
<1> QED
  BY <1>2, <1>4 DEF DayInv

\* A second passes: it is one of today's, or the first of another day.
LEMMA SecondKeeps == DayInv /\ SecondPasses => DayInv'
<1> SUFFICES ASSUME DayInv, SecondPasses PROVE DayInv'
  OBVIOUS
<1>1. dtNow' = dtNow + 1 /\ dtNow' <= LastTick /\ dtOpen' = dtOpen /\ dtRows' = dtRows
  BY DayAssumption DEF SecondPasses, DayInv, LogTypes
<1>2. todayStart \in Int /\ todayStart <= dtNow /\ dtNow \in Nat /\ dtRows \in Seq(LogRow) /\ LogTypes
  BY TodayBegan DEF DayInv, LogTypes
<1>3. todayStart' = LocalDay(dtNow + 1) * DayLen - Zone
  BY <1>1 DEF todayStart
<1>4. dtOpen' = <<>> \/ dtOpen' \in Procs \X (0..dtNow')
  BY <1>1, <1>2 DEF LogTypes
<1>5. \A k \in DOMAIN dtRows : /\ dtRows[k] \in LogRow /\ dtRows[k].start + dtRows[k].dur <= dtNow
  BY <1>2, RowPositions DEF LogTypes
<1>6. \A k \in DOMAIN dtRows : dtRows[k].start + dtRows[k].dur <= dtNow + 1
  BY <1>2, <1>5 DEF LogRow
<1>7. CASE LocalDay(dtNow + 1) # LocalDay(dtNow)
  <2>1. dtUsed' = [p \in Procs |-> 0]
    BY <1>1, <1>7 DEF SecondPasses
  <2>2. todayStart' = dtNow + 1
    BY <1>2, <1>3, <1>7, Midnight
  <2>3. LogTypes'
    BY <1>1, <1>2, <1>4, <1>6, <2>1, <2>2 DEF LogTypes
  <2>4. \A k \in DOMAIN dtRows : dtRows[k].start + dtRows[k].dur < dtNow + 1
    BY <1>2, <1>5 DEF LogRow
  <2>5. ASSUME NEW p \in Procs PROVE Counted(p)' = 0
    <3>1. SeenSum(dtRows, p, dtNow + 1) = 0 /\ LateSum(dtRows, p, dtNow + 1) = 0
      BY <1>2, <2>4, OldRowsDoNotCount
    <3>2. dtOpen = <<>> \/ dtOpen[2] \in 0..dtNow
      BY <1>2 DEF LogTypes
    <3>3. OpenPart(p)' = 0
      BY <1>1, <1>2, <2>2, <3>2 DEF OpenPart
    <3> QED
      BY <1>1, <2>2, <3>1, <3>3 DEF Counted
  <2> QED
    BY <2>1, <2>3, <2>5 DEF DayInv
<1>8. CASE LocalDay(dtNow + 1) = LocalDay(dtNow)
  <2>1. todayStart' = todayStart
    BY <1>3, <1>8 DEF todayStart
  <2>2. dtUsed' = IF dtOpen = <<>> THEN dtUsed ELSE [dtUsed EXCEPT ![dtOpen[1]] = @ + 1]
    BY <1>1, <1>8 DEF SecondPasses
  <2>3. /\ dtUsed \in [Procs -> Nat] /\ \A p \in Procs : dtUsed[p] <= dtNow - todayStart
        /\ dtOpen = <<>> \/ (dtOpen[1] \in Procs /\ dtOpen[2] \in 0..dtNow)
    BY <1>2 DEF LogTypes
  <2>4. /\ dtUsed' \in [Procs -> Nat]
        /\ \A p \in Procs : dtUsed'[p] = dtUsed[p] + (IF dtOpen # <<>> /\ dtOpen[1] = p THEN 1 ELSE 0)
    BY <2>2, <2>3
  <2>5. LogTypes'
    <3>1. ASSUME NEW p \in Procs PROVE dtUsed'[p] <= dtNow' - todayStart'
      BY <1>1, <1>2, <2>1, <2>3, <2>4
    <3> QED
      BY <1>1, <1>2, <1>4, <1>6, <2>4, <3>1 DEF LogTypes
  <2>6. ASSUME NEW p \in Procs
        PROVE  Counted(p)' <= dtUsed'[p] /\ (min_duration_sec <= 1 => Counted(p)' = dtUsed'[p])
    <3>1. OpenPart(p)' = OpenPart(p) + (IF dtOpen # <<>> /\ dtOpen[1] = p THEN 1 ELSE 0)
      BY <1>1, <1>2, <2>1, <2>3 DEF OpenPart
    <3> DEFINE a == SeenSum(dtRows, p, todayStart) + LateSum(dtRows, p, todayStart)
    <3>2. a \in Nat /\ OpenPart(p) \in Nat /\ dtUsed[p] \in Nat
      BY <1>2, <2>3, SumsType, OpenType
    <3>3. Counted(p) = a + OpenPart(p) /\ Counted(p)' = a + OpenPart(p)'
      BY <1>1, <2>1 DEF Counted
    <3>4. Counted(p) <= dtUsed[p] /\ (min_duration_sec <= 1 => Counted(p) = dtUsed[p])
      BY DEF DayInv
    <3> HIDE DEF a
    <3> QED
      BY <2>4, <3>1, <3>2, <3>3, <3>4
  <2> QED
    BY <2>5, <2>6 DEF DayInv
<1> QED
  BY <1>7, <1>8

\* Every step keeps the sums right.
LEMMA DayStep == DayInv /\ [dtNext]_dtVars => DayInv'
<1> SUFFICES ASSUME DayInv, [dtNext]_dtVars PROVE DayInv'
  OBVIOUS
<1>1. CASE Leave
  BY <1>1, ChangeKeeps DEF Leave
<1>2. ASSUME NEW p \in Procs, Use(p) PROVE DayInv'
  BY <1>2, ChangeKeeps DEF Use
<1>3. CASE UNCHANGED dtVars
  BY <1>3 DEF dtVars, DayInv, LogTypes, Counted, OpenPart, todayStart, LocalDay
<1> QED
  BY <1>1, <1>2, <1>3, SecondKeeps DEF dtNext

\* What the invariant says is what the limit check computes.
LEMMA SumsAreTotals ==
    ASSUME LogTypes, NEW p PROVE usedToday(p) + Unseen(p) = Counted(p)
<1>1. usedToday(p) = SeenSum(dtRows, p, todayStart) + OpenPart(p)
  BY RowSum DEF usedToday, db_get_today_seconds, Total, RowsSince, SeenSum, OpenPart
<1>2. Unseen(p) = LateSum(dtRows, p, todayStart)
  BY RowSum DEF Unseen, LateSum, LatePart
<1>3. todayStart \in Int /\ dtRows \in Seq(LogRow)
  BY TodayBegan DEF LogTypes
<1>4. SeenSum(dtRows, p, todayStart) \in Nat /\ LateSum(dtRows, p, todayStart) \in Nat /\ OpenPart(p) \in Nat
  BY <1>3, SumsType, OpenType
<1> QED
  BY <1>1, <1>2, <1>4 DEF Counted

\* Today's seconds of a process are a number; 0 without a row of today.
LEMMA TodaySeconds ==
    ASSUME LogTypes, NEW p
    PROVE  /\ db_get_today_seconds(p) \in Nat
           /\ p \notin {dtRows[k].proc : k \in RowsSince(todayStart)} => db_get_today_seconds(p) = 0
<1> DEFINE f == [k \in DOMAIN dtRows |-> dtRows[k].dur]
           S == {k \in RowsSince(todayStart) : dtRows[k].proc = p}
<1>1. db_get_today_seconds(p) = SumOf(f, S)
  BY RowSum DEF db_get_today_seconds, Total
<1>2. dtRows \in Seq(LogRow)
  BY DEF LogTypes
<1>3. IsFiniteSet(S)
  BY <1>2, RowPositions, FS_Subset DEF RowsSince
<1>4. \A k \in S : f[k] \in Nat
  BY <1>2, RowPositions DEF RowsSince, LogRow
<1>5. p \notin {dtRows[k].proc : k \in RowsSince(todayStart)} => S = {}
  OBVIOUS
<1> HIDE DEF f, S
<1>6. SumOf(f, S) \in Nat
  BY <1>3, <1>4, SumType
<1>7. S = {} => SumOf(f, S) = 0
  BY <1>3, SumOfZeros
<1> QED
  BY <1>1, <1>5, <1>6, <1>7

\* Both reports begin alike, and what is cut off was used no longer.
LEMMA ReportsAgree == LogTypes => ReportKeepsTop
<1> SUFFICES ASSUME LogTypes PROVE ReportKeepsTop
  OBVIOUS
<1> DEFINE seen == {dtRows[k].proc : k \in RowsSince(todayStart)}
           key == [p \in Procs |-> db_get_today_seconds(p)]
           Sorted(s) == \A i, j \in DOMAIN s :
                            i < j => db_get_today_seconds(s[i]) >= db_get_today_seconds(s[j])
           all == CHOOSE s \in SetToSeqs(seen) : Sorted(s)
           L == Cardinality(seen)
           m == IF Cardinality(Procs) < DAILY_APP_SUMMARY_MAX THEN Cardinality(Procs) ELSE DAILY_APP_SUMMARY_MAX
           a == IF L < m THEN L ELSE m
           b == IF L < 15 THEN L ELSE 15
<1>1. dtRows \in Seq(LogRow) /\ seen \in SUBSET Procs
  <2>1. \A k \in DOMAIN dtRows : dtRows[k] \in LogRow
    BY RowPositions DEF LogTypes
  <2> QED
    BY <2>1 DEF LogTypes, RowsSince, LogRow
<1>2. IsFiniteSet(seen) /\ L \in Nat /\ Cardinality(Procs) \in Nat
  BY <1>1, DayAssumption, FS_Subset, FS_CardinalityType
<1>3. \A x \in seen : key[x] \in Nat /\ key[x] = db_get_today_seconds(x)
  BY <1>1, TodaySeconds
<1> HIDE DEF seen, key
<1>4. \A q : IsRanking(q, seen, key) => q \in SetToSeqs(seen) /\ Sorted(q)
  <2> SUFFICES ASSUME NEW q, IsRanking(q, seen, key) PROVE q \in SetToSeqs(seen) /\ Sorted(q)
    OBVIOUS
  <2>1. q \in SetToSeqs(seen)
    BY DEF IsRanking, SetToSeqs
  <2>2. DOMAIN q = 1..L /\ \A i \in 1..L : q[i] \in seen
    BY DEF IsRanking
  <2> QED
    BY <1>3, <2>1, <2>2 DEF IsRanking
<1>5. all \in SetToSeqs(seen) /\ Sorted(all)
  <2>1. \E q : IsRanking(q, seen, key)
    BY <1>2, <1>3, RankingExists
  <2>2. \E s \in SetToSeqs(seen) : Sorted(s)
    BY <1>4, <2>1
  <2> HIDE DEF Sorted
  <2> QED
    BY <2>2
<1> HIDE DEF all
<1>6. all \in [1..L -> seen] /\ \A i, j \in 1..L : i # j => all[i] # all[j]
  BY <1>5 DEF SetToSeqs
<1>7. \A i, j \in 1..L : i < j => key[all[i]] >= key[all[j]]
  BY <1>3, <1>5, <1>6
<1>8. IsRanking(all, seen, key)
  BY <1>6, <1>7 DEF IsRanking
<1>9. Len(all) = L /\ all \in Seq(seen)
  BY <1>2, <1>6
<1>10. a \in Nat /\ b \in Nat /\ a <= L /\ b <= L /\ a <= b
  BY <1>2, DayAssumption
<1>11. \A n : Report(n) = SubSeq(all, 1, IF L < n THEN L ELSE n)
  BY <1>9 DEF Report, all, seen
<1>12. db_get_today_app_summary(Cardinality(Procs)) = SubSeq(all, 1, a)
  BY <1>11 DEF db_get_today_app_summary
<1>13. db_build_daily_summary_text = SubSeq(all, 1, b)
  BY <1>11 DEF db_build_daily_summary_text
<1> HIDE DEF a, b, L, m
<1>14. SubSeq(all, 1, a) = [i \in 1..a |-> all[i]] /\ SubSeq(all, 1, b) = [i \in 1..b |-> all[i]]
  BY <1>9, <1>10
<1> DEFINE rep == [i \in 1..a |-> all[i]]
           text == [i \in 1..b |-> all[i]]
<1>15. IsPrefix(rep, text)
  <2>1. Len(rep) = a /\ Len(text) = b
    BY <1>10
  <2>2. SubSeq(rep, 1, a) = rep /\ SubSeq(text, 1, a) = rep
    <3>1. rep \in Seq(seen) /\ text \in Seq(seen)
      <4>1. (\A i \in 1..a : all[i] \in seen) /\ (\A i \in 1..b : all[i] \in seen)
        BY <1>2, <1>6, <1>10
      <4> QED
        BY <1>10, <4>1
    <3>2. SubSeq(rep, 1, a) = [i \in 1..a |-> rep[i]]
      BY <1>10, <2>1, <3>1
    <3>3. SubSeq(text, 1, a) = [i \in 1..a |-> text[i]]
      BY <1>10, <2>1, <3>1
    <3> QED
      BY <1>10, <3>2, <3>3
  <2> HIDE DEF rep, text
  <2> QED
    BY <1>10, <2>1, <2>2 DEF IsPrefix
<1>16. ASSUME NEW p \in Procs \ Range(rep), NEW q \in Range(rep)
       PROVE  db_get_today_seconds(p) <= db_get_today_seconds(q)
  <2>1. PICK j \in 1..a : q = all[j]
    BY DEF Range
  <2>2. j \in 1..L /\ q \in seen /\ db_get_today_seconds(q) = key[q] /\ key[q] \in Nat
    <3>1. j \in 1..L
      BY <1>2, <1>10
    <3> QED
      BY <1>3, <1>6, <2>1, <3>1
  <2>3. CASE p \notin seen
    <3>1. db_get_today_seconds(p) = 0
      BY <2>3, TodaySeconds DEF seen
    <3> QED
      BY <2>2, <3>1
  <2>4. CASE p \in seen
    <3>1. PICK i \in 1..L : all[i] = p
      BY <1>2, <1>8, <2>4, RankingIsWhole DEF L
    <3>2. i \notin 1..a
      BY <3>1 DEF Range
    <3>3. j < i
      BY <1>2, <1>10, <2>1, <3>1, <3>2
    <3>4. key[p] <= key[q]
      BY <1>3, <1>7, <2>1, <2>2, <2>4, <3>1, <3>3
    <3> QED
      BY <1>3, <2>2, <2>4, <3>4
  <2> QED
    BY <2>3, <2>4
<1> QED
  BY <1>12, <1>13, <1>14, <1>15, <1>16 DEF ReportKeepsTop

\* Where the log starts.
LEMMA DayStart == dtInit => DayInv
<1> SUFFICES ASSUME dtInit PROVE DayInv
  OBVIOUS
<1>1. /\ dtNow = 0 /\ dtOpen = <<>> /\ dtRows = <<>> /\ dtRows \in Seq(LogRow) /\ DOMAIN dtRows = {}
      /\ dtUsed \in [Procs -> Nat] /\ \A p \in Procs : dtUsed[p] = 0
  BY DEF dtInit
<1>2. todayStart \in Int /\ todayStart <= 0
  BY <1>1, Midnight DEF todayStart
<1>3. LogTypes
  BY <1>1, <1>2, DayAssumption DEF LogTypes
<1>4. ASSUME NEW p \in Procs PROVE Counted(p) = 0
  <2>1. SeenSum(dtRows, p, todayStart) = 0 /\ LateSum(dtRows, p, todayStart) = 0
    BY <1>1, <1>2, OldRowsDoNotCount
  <2>2. OpenPart(p) = 0
    BY <1>1 DEF OpenPart
  <2> QED
    BY <2>1, <2>2 DEF Counted
<1> QED
  BY <1>1, <1>3, <1>4 DEF DayInv

\* The seconds of today are counted right at every moment, over local midnight
\* too: the limit check never counts one too many, and misses only records
\* below the minimum and what follows midnight in a record that was open at it;
\* the tray's and the overview's reports agree and drop what was used least
\* (activity_check_limits, db_get_today_seconds, db_get_today_app_summary).
THEOREM SecondsOfToday == TotalsSpec => []TotalsAreRight
<1>1. DayInv => TotalsAreRight
  <2> SUFFICES ASSUME DayInv PROVE TotalsAreRight
    OBVIOUS
  <2>1. ReportKeepsTop
    BY ReportsAgree DEF DayInv
  <2>2. CountsToday
    BY SumsAreTotals DEF DayInv, CountsToday
  <2> QED
    BY <2>1, <2>2 DEF TotalsAreRight
<1> QED
  BY <1>1, DayStart, DayStep, PTL DEF TotalsSpec

-----------------------------------------------------------------------------
(* Texts.  json_escape, json_extract_string and the scan for the end of an *)
(* object are loops over characters, here recursive functions (see         *)
(* DataTheorems); an escape of a value is passed and read as a whole,      *)
(* character of the value by character, and the objects of a response lie  *)
(* one behind the other.                                                   *)

\* The escape of the first k characters.
Esc(v, k) == FlattenSeq([i \in 1..k |-> EscapeOne(v[i])])

\* An escape is one of three forms, and so is what it reads back as.
LEMMA EscapeForms ==
    ASSUME NEW c \in Chars
    PROVE  /\ EscapeOne(c) \in Seq(Letters) /\ Decoded(c) \in Seq(Letters)
           /\ \/ \E x \in {"q", "b", "n"} : EscapeOne(c) = <<"b", x>> /\ Decoded(c) = <<x>>
              \/ /\ c = "ctl" /\ EscapeOne(c) = <<"b", "u", "0", "0", "1", "f">>
                 /\ Decoded(c) = <<"u", "0", "0", "1", "f">>
              \/ c \in {"close", "o"} /\ EscapeOne(c) = <<c>> /\ Decoded(c) = <<c>>
<1>1. CASE c = "q"
  <2>1. EscapeOne(c) = <<"b", "q">> /\ Decoded(c) = <<"q">>
    BY <1>1 DEF EscapeOne, Decoded
  <2>2. <<"b", "q">> \in Seq(Letters) /\ <<"q">> \in Seq(Letters)
    BY DEF Letters
  <2> QED
    BY <1>1, <2>1, <2>2
<1>2. CASE c = "b"
  <2>1. EscapeOne(c) = <<"b", "b">> /\ Decoded(c) = <<"b">>
    BY <1>2 DEF EscapeOne, Decoded
  <2>2. <<"b", "b">> \in Seq(Letters) /\ <<"b">> \in Seq(Letters)
    BY DEF Letters
  <2> QED
    BY <1>2, <2>1, <2>2
<1>3. CASE c = "lf"
  <2>1. EscapeOne(c) = <<"b", "n">> /\ Decoded(c) = <<"n">>
    BY <1>3 DEF EscapeOne, Decoded
  <2>2. <<"b", "n">> \in Seq(Letters) /\ <<"n">> \in Seq(Letters)
    BY DEF Letters
  <2> QED
    BY <1>3, <2>1, <2>2
<1>4. CASE c = "ctl"
  <2>1. EscapeOne(c) = <<"b", "u", "0", "0", "1", "f">> /\ Decoded(c) = <<"u", "0", "0", "1", "f">>
    BY <1>4 DEF EscapeOne, Decoded
  <2>2. <<"b", "u", "0", "0", "1", "f">> \in Seq(Letters) /\ <<"u", "0", "0", "1", "f">> \in Seq(Letters)
    BY DEF Letters
  <2> QED
    BY <1>4, <2>1, <2>2
<1>5. CASE c = "close"
  <2>1. EscapeOne(c) = <<"close">> /\ Decoded(c) = <<"close">>
    BY <1>5 DEF EscapeOne, Decoded
  <2>2. <<"close">> \in Seq(Letters) /\ <<"close">> \in Seq(Letters)
    BY DEF Letters
  <2> QED
    BY <1>5, <2>1, <2>2
<1>6. CASE c = "o"
  <2>1. EscapeOne(c) = <<"o">> /\ Decoded(c) = <<"o">>
    BY <1>6 DEF EscapeOne, Decoded
  <2>2. <<"o">> \in Seq(Letters) /\ <<"o">> \in Seq(Letters)
    BY DEF Letters
  <2> QED
    BY <1>6, <2>1, <2>2
<1> QED
  BY <1>1, <1>2, <1>3, <1>4, <1>5, <1>6 DEF Chars

\* A value is escaped character by character.
LEMMA EscapeGrows ==
    ASSUME NEW v \in Seq(Chars)
    PROVE  /\ Esc(v, 0) = << >> /\ jsonEscape(v) = Esc(v, Len(v))
           /\ \A k \in 0..Len(v) : Esc(v, k) \in Seq(Letters) /\ jsonEscape(SubSeq(v, 1, k)) = Esc(v, k)
           /\ \A k \in 1..Len(v) : Esc(v, k) = Esc(v, k - 1) \o EscapeOne(v[k])
<1> DEFINE n == Len(v)
           f == [i \in 1..n |-> EscapeOne(v[i])]
<1>1. n \in Nat /\ \A i \in 1..n : v[i] \in Chars
  BY LenProperties, ElementOfSeq
<1>2. f \in [1..n -> Seq(Letters)]
  BY <1>1, EscapeForms
<1>3. \A k \in 0..n : \A i \in 1..k : f[i] = EscapeOne(v[i])
  BY <1>1
<1> HIDE DEF f
<1>4. \A k \in 0..n : [i \in 1..k |-> f[i]] = [i \in 1..k |-> EscapeOne(v[i])]
  BY <1>3
<1>5. \A k \in 0..n : Joined(f, k) = Esc(v, k)
  BY <1>4 DEF Joined, Esc
<1>6. /\ Joined(f, 0) = << >>
      /\ \A k \in 0..n : Joined(f, k) \in Seq(Letters)
      /\ \A k \in 1..n : Joined(f, k) = Joined(f, k - 1) \o f[k]
  BY <1>1, <1>2, JoinedGrows
<1>7. \A k \in 1..n : k \in 0..n /\ k - 1 \in 0..n /\ f[k] = EscapeOne(v[k])
  BY <1>1 DEF f
<1>8. ASSUME NEW k \in 0..n PROVE jsonEscape(SubSeq(v, 1, k)) = Esc(v, k)
  <2> DEFINE u == SubSeq(v, 1, k)
  <2>1. Len(u) = k /\ \A i \in 1..k : u[i] = v[i]
    BY <1>1
  <2> HIDE DEF u
  <2>2. [i \in 1..Len(u) |-> EscapeOne(u[i])] = [i \in 1..k |-> EscapeOne(v[i])]
    BY <2>1
  <2> QED
    BY <2>2 DEF jsonEscape, Esc, u
<1>9. jsonEscape(v) = Esc(v, n)
  BY DEF jsonEscape, Esc
<1>10. 0 \in 0..n
  BY <1>1
<1> QED
  BY <1>5, <1>6, <1>7, <1>8, <1>9, <1>10

-----------------------------------------------------------------------------
(* The end of an object.                                                   *)

\* The states of the loop that looks for it.
ScanStates == [p : Nat, str : BOOLEAN, depth : Int]

\* One turn of that loop, which does nothing once the end is found.
ScanOne(t, p, st) ==
    IF st.p > Len(t) \/ (st.p > p /\ st.depth = 0 /\ ~st.str) THEN st ELSE StepInside(t, st)

\* F holds its states.
IsScan(F, t, p) ==
    F = [k \in 0..Len(t) + 1 |-> IF k = 0 THEN [p |-> p, str |-> FALSE, depth |-> 0]
                                 ELSE ScanOne(t, p, F[k - 1])]

\* ObjectEnd is read off them.
LEMMA EndIsScanned ==
    ASSUME NEW t, NEW p PROVE ObjectEnd(t, p) = (CHOOSE F : IsScan(F, t, p))[Len(t) + 1].p
BY DEF ObjectEnd, IsScan, ScanOne

\* A turn leads from a state to a state.
LEMMA ScanOneType ==
    ASSUME NEW t, NEW p, NEW st \in ScanStates
    PROVE  StepInside(t, st) \in ScanStates /\ ScanOne(t, p, st) \in ScanStates
<1> DEFINE c == At(t, st.p)
<1>1. st.p \in Nat /\ st.p + 1 \in Nat /\ st.p + 2 \in Nat /\ st.str \in BOOLEAN /\ st.depth \in Int
      /\ st = [p |-> st.p, str |-> st.str, depth |-> st.depth]
  BY DEF ScanStates
<1>2. (c = "q") \in BOOLEAN /\ (c # "q") \in BOOLEAN
  BY Zenon
<1>3. st.depth + (IF c = "open" THEN 1 ELSE IF c = "close" THEN -1 ELSE 0) \in Int
  BY <1>1
<1>4. StepInside(t, st) \in ScanStates
  <2>1. CASE st.str
    <3>1. CASE c = "b" /\ At(t, st.p + 1) # "nul"
      BY <1>1, <2>1, <3>1 DEF StepInside, ScanStates
    <3>2. CASE ~(c = "b" /\ At(t, st.p + 1) # "nul")
      <4>1. StepInside(t, st) = [st EXCEPT !.p = @ + 1, !.str = (c # "q")]
        BY <2>1, <3>2 DEF StepInside
      <4> DEFINE b == (c # "q")
      <4>2. b \in BOOLEAN
        BY <1>2
      <4> HIDE DEF b
      <4>3. [st EXCEPT !.p = @ + 1, !.str = b] \in ScanStates
        BY <1>1, <4>2 DEF ScanStates
      <4> QED
        BY <4>1, <4>3 DEF b
    <3> QED
      BY <3>1, <3>2
  <2>2. CASE ~st.str
    <3> DEFINE b == (c = "q")
               d == st.depth + (IF c = "open" THEN 1 ELSE IF c = "close" THEN -1 ELSE 0)
    <3>1. StepInside(t, st) = [p |-> st.p + 1, str |-> b, depth |-> d]
      BY <2>2 DEF StepInside
    <3>2. b \in BOOLEAN /\ d \in Int
      BY <1>2, <1>3
    <3> HIDE DEF b, d
    <3> QED
      BY <1>1, <3>1, <3>2 DEF ScanStates
  <2> QED
    BY <2>1, <2>2
<1> QED
  BY <1>4 DEF ScanOne

\* The loop's states, turn by turn.
LEMMA ScanIs ==
    ASSUME NEW t, Len(t) \in Nat, NEW p \in Nat
    PROVE  \E F : /\ F[0] = [p |-> p, str |-> FALSE, depth |-> 0]
                  /\ \A k \in 1..Len(t) + 1 : F[k] = ScanOne(t, p, F[k - 1])
                  /\ ObjectEnd(t, p) = F[Len(t) + 1].p
<1> DEFINE n == Len(t) + 1
           a == [p |-> p, str |-> FALSE, depth |-> 0]
           G == [q \in Nat \X ScanStates |-> ScanOne(t, p, q[2])]
<1>1. n \in Nat /\ a \in ScanStates
  BY LenProperties DEF ScanStates
<1>2. G \in [Nat \X ScanStates -> ScanStates]
  BY ScanOneType
<1> HIDE DEF n, a
<1>3. PICK H \in [0..n -> ScanStates] : IsLoop(H, a, G, n)
  <2> HIDE DEF G
  <2> QED
    BY <1>1, <1>2, LoopExists
<1>4. IsScan(H, t, p)
  <2>1. ASSUME NEW k \in 0..n PROVE H[k] = IF k = 0 THEN a ELSE ScanOne(t, p, H[k - 1])
    <3>1. CASE k = 0
      BY <1>3, <3>1 DEF IsLoop
    <3>2. CASE k # 0
      <4>1. k \in Nat /\ k - 1 \in 0..n
        BY <1>1, <3>2
      <4>2. H[k] = G[<<k, H[k - 1]>>] /\ <<k, H[k - 1]>> \in Nat \X ScanStates
        <5> HIDE DEF G
        <5> QED
          BY <1>3, <3>2, <4>1 DEF IsLoop
      <4> QED
        BY <3>2, <4>2
    <3> QED
      BY <3>1, <3>2
  <2>2. H = [k \in 0..n |-> IF k = 0 THEN a ELSE ScanOne(t, p, H[k - 1])]
    BY <2>1
  <2> QED
    BY <2>2 DEF IsScan, n, a
<1> DEFINE F == CHOOSE x : IsScan(x, t, p)
<1>5. IsScan(F, t, p)
  BY <1>4
<1>6. ObjectEnd(t, p) = F[n].p
  BY EndIsScanned DEF n
<1> HIDE DEF F
<1>7. F = [k \in 0..n |-> IF k = 0 THEN a ELSE ScanOne(t, p, F[k - 1])]
  BY <1>5 DEF IsScan, n, a
<1>8. F[0] = a /\ \A k \in 1..n : F[k] = ScanOne(t, p, F[k - 1])
  <2>1. 0 \in 0..n /\ \A k \in 1..n : k \in 0..n /\ k # 0
    BY <1>1
  <2> QED
    BY <1>7, <2>1
<1> QED
  BY <1>6, <1>8 DEF n, a

\* F holds the states of the scan of the object at p.
IsScanned(F, t, p) ==
    /\ F[0] = [p |-> p, str |-> FALSE, depth |-> 0]
    /\ \A k \in 1..Len(t) + 1 : F[k] = ScanOne(t, p, F[k - 1])

\* The scan comes to st, and each turn before it took a character at least.
ScanAt(F, t, p, st) == \E k \in 0..Len(t) + 1 : F[k] = st /\ k <= st.p - p

\* A state inside the string of an object, and one outside.
Inside(q) == [p |-> q, str |-> TRUE, depth |-> 1]
Outside(q, d) == [p |-> q, str |-> FALSE, depth |-> d]

\* What a text holds is met at its place.
LEMMA HoldsAt ==
    ASSUME NEW t, NEW p, NEW w, Holds(t, p, w), Len(t) \in Nat
    PROVE  \A j \in 1..Len(w) : At(t, p + j - 1) = w[j] /\ p + j - 1 \in 1..Len(t)
<1> SUFFICES ASSUME NEW j \in 1..Len(w) PROVE At(t, p + j - 1) = w[j] /\ p + j - 1 \in 1..Len(t)
  OBVIOUS
<1>1. p + j - 1 \in 1..Len(t) /\ t[p + j - 1] = w[j]
  BY DEF Holds
<1> HIDE DEF Holds
<1> QED
  BY <1>1 DEF At

\* The scan goes on from a state that is not its last.
LEMMA ScanGoes ==
    ASSUME NEW t, Len(t) \in Nat, NEW p \in Nat, p >= 1, NEW F, IsScanned(F, t, p),
           NEW st \in ScanStates, ScanAt(F, t, p, st), st.p \in p..Len(t),
           ~(st.p > p /\ st.depth = 0 /\ ~st.str), NEW nx, nx = StepInside(t, st), nx.p \in Nat, nx.p >= st.p + 1
    PROVE  ScanAt(F, t, p, nx)
<1>1. PICK k \in 0..Len(t) + 1 : F[k] = st /\ k <= st.p - p
  BY DEF ScanAt
<1>2. st.p \in Nat /\ ~(st.p > Len(t)) /\ k + 1 \in 1..Len(t) + 1 /\ k + 1 \in 0..Len(t) + 1
      /\ (k + 1) - 1 = k /\ k + 1 <= nx.p - p
  BY <1>1 DEF ScanStates
<1>3. F[k + 1] = ScanOne(t, p, F[k])
  BY <1>2 DEF IsScanned
<1>4. ScanOne(t, p, st) = nx
  BY <1>2 DEF ScanOne
<1> QED
  BY <1>1, <1>2, <1>3, <1>4 DEF ScanAt

\* A state with a new position, and with a new place in or out of a string.
LEMMA Renewed ==
    ASSUME NEW st \in ScanStates, NEW n \in Nat, NEW b \in BOOLEAN
    PROVE  /\ [st EXCEPT !.p = n] = [p |-> n, str |-> st.str, depth |-> st.depth]
           /\ [st EXCEPT !.p = n, !.str = b] = [p |-> n, str |-> b, depth |-> st.depth]
<1> DEFINE x == [st EXCEPT !.p = n]
           y == [st EXCEPT !.p = n, !.str = b]
<1>1. x \in ScanStates /\ x.p = n /\ x.str = st.str /\ x.depth = st.depth
  BY DEF ScanStates
<1>2. y \in ScanStates /\ y.p = n /\ y.str = b /\ y.depth = st.depth
  BY DEF ScanStates
<1> HIDE DEF x, y
<1>3. x = [p |-> n, str |-> st.str, depth |-> st.depth]
  BY <1>1 DEF ScanStates
<1>4. y = [p |-> n, str |-> b, depth |-> st.depth]
  BY <1>2 DEF ScanStates
<1> QED
  BY <1>3, <1>4 DEF x, y

\* A turn inside a string.
LEMMA TurnsInside ==
    ASSUME NEW t, NEW q \in Nat
    PROVE  /\ At(t, q) = "b" /\ At(t, q + 1) # "nul" => StepInside(t, Inside(q)) = Inside(q + 2)
           /\ At(t, q) \notin {"b", "q"} => StepInside(t, Inside(q)) = Inside(q + 1)
           /\ At(t, q) = "q" => StepInside(t, Inside(q)) = Outside(q + 1, 1)
<1> DEFINE st == Inside(q)
<1>1. st.p = q /\ st.str = TRUE /\ st.depth = 1
  BY DEF Inside
<1>0. st \in ScanStates
  BY DEF Inside, ScanStates
<1> HIDE DEF st
<1>9. q + 1 \in Nat /\ q + 2 \in Nat /\ TRUE \in BOOLEAN /\ FALSE \in BOOLEAN
  OBVIOUS
<1>10. /\ [st EXCEPT !.p = q + 2] = [p |-> q + 2, str |-> st.str, depth |-> st.depth]
       /\ [st EXCEPT !.p = q + 1, !.str = TRUE] = [p |-> q + 1, str |-> TRUE, depth |-> st.depth]
       /\ [st EXCEPT !.p = q + 1, !.str = FALSE] = [p |-> q + 1, str |-> FALSE, depth |-> st.depth]
  BY <1>0, <1>9, Renewed, Zenon
<1>2. [st EXCEPT !.p = @ + 2] = Inside(q + 2)
  BY <1>1, <1>10 DEF Inside
<1>3. [st EXCEPT !.p = @ + 1, !.str = TRUE] = Inside(q + 1)
  BY <1>1, <1>10 DEF Inside
<1>4. [st EXCEPT !.p = @ + 1, !.str = FALSE] = Outside(q + 1, 1)
  BY <1>1, <1>10 DEF Outside
<1>5. ASSUME At(t, q) = "b", At(t, q + 1) # "nul" PROVE StepInside(t, st) = Inside(q + 2)
  BY <1>1, <1>2, <1>5 DEF StepInside
<1>6. ASSUME At(t, q) # "b" PROVE StepInside(t, st) = [st EXCEPT !.p = @ + 1, !.str = (At(t, q) # "q")]
  BY <1>1, <1>6 DEF StepInside
<1>7. ASSUME At(t, q) \notin {"b", "q"} PROVE StepInside(t, st) = Inside(q + 1)
  <2> DEFINE b == (At(t, q) # "q")
  <2>1. b = TRUE
    BY <1>7
  <2>2. StepInside(t, st) = [st EXCEPT !.p = @ + 1, !.str = b]
    BY <1>6, <1>7
  <2> HIDE DEF b
  <2> QED
    BY <1>3, <2>1, <2>2
<1>8. ASSUME At(t, q) = "q" PROVE StepInside(t, st) = Outside(q + 1, 1)
  <2> DEFINE b == (At(t, q) # "q")
  <2>1. b = FALSE
    BY <1>8
  <2>2. StepInside(t, st) = [st EXCEPT !.p = @ + 1, !.str = b]
    BY <1>6, <1>8
  <2> HIDE DEF b
  <2> QED
    BY <1>4, <2>1, <2>2
<1> QED
  BY <1>5, <1>7, <1>8 DEF st

\* A turn outside of one.
LEMMA TurnsOutside ==
    ASSUME NEW t, NEW q \in Nat, NEW d \in Int
    PROVE  /\ At(t, q) = "open" => StepInside(t, Outside(q, d)) = Outside(q + 1, d + 1)
           /\ At(t, q) = "close" => StepInside(t, Outside(q, d)) = Outside(q + 1, d - 1)
           /\ At(t, q) = "key" => StepInside(t, Outside(q, d)) = Outside(q + 1, d)
           /\ At(t, q) = "q" /\ d = 1 => StepInside(t, Outside(q, d)) = Inside(q + 1)
<1> DEFINE st == Outside(q, d)
           b == (At(t, q) = "q")
           e == d + (IF At(t, q) = "open" THEN 1 ELSE IF At(t, q) = "close" THEN -1 ELSE 0)
<1>1. st.p = q /\ st.str = FALSE /\ st.depth = d
  BY DEF Outside
<1> HIDE DEF st
<1>2. StepInside(t, st) = [p |-> q + 1, str |-> b, depth |-> e]
  BY <1>1 DEF StepInside
<1>3. (At(t, q) = "q") => b = TRUE /\ e = d
  OBVIOUS
<1>4. (At(t, q) # "q") => b = FALSE
  OBVIOUS
<1>5. /\ At(t, q) = "open" => e = d + 1
      /\ At(t, q) = "close" => e = d - 1
      /\ At(t, q) = "key" => e = d
  OBVIOUS
<1> HIDE DEF b, e
<1>6. /\ At(t, q) = "open" => b = FALSE
      /\ At(t, q) = "close" => b = FALSE
      /\ At(t, q) = "key" => b = FALSE
  BY <1>4
<1> QED
  BY <1>2, <1>3, <1>5, <1>6 DEF Outside, Inside, st

\* The scan inside a string: an escape is passed in one turn.
LEMMA GoesInside ==
    ASSUME NEW t, Len(t) \in Nat, NEW p \in Nat, p >= 1, NEW F, IsScanned(F, t, p),
           NEW q \in p..Len(t), ScanAt(F, t, p, Inside(q))
    PROVE  /\ At(t, q) = "b" /\ At(t, q + 1) # "nul" => ScanAt(F, t, p, Inside(q + 2))
           /\ At(t, q) \notin {"b", "q"} => ScanAt(F, t, p, Inside(q + 1))
           /\ At(t, q) = "q" => ScanAt(F, t, p, Outside(q + 1, 1))
<1> DEFINE st == Inside(q)
<1>1. q \in Nat /\ st \in ScanStates /\ st.p = q /\ st.str = TRUE
  BY DEF Inside, ScanStates
<1>2. /\ Inside(q + 2).p = q + 2 /\ Inside(q + 1).p = q + 1 /\ Outside(q + 1, 1).p = q + 1
      /\ q + 1 \in Nat /\ q + 2 \in Nat /\ q + 1 >= q + 1 /\ q + 2 >= q + 1
  BY <1>1 DEF Inside, Outside
<1>3. ScanAt(F, t, p, st)
  OBVIOUS
<1> HIDE DEF st, ScanAt, IsScanned
<1>4. st.p \in p..Len(t) /\ ~(st.p > p /\ st.depth = 0 /\ ~st.str)
  BY <1>1
<1>5. ASSUME NEW nx, nx = StepInside(t, st), nx.p \in Nat, nx.p >= q + 1
      PROVE  ScanAt(F, t, p, nx)
  BY <1>1, <1>3, <1>4, <1>5, ScanGoes
<1>6. /\ At(t, q) = "b" /\ At(t, q + 1) # "nul" => Inside(q + 2) = StepInside(t, st)
      /\ At(t, q) \notin {"b", "q"} => Inside(q + 1) = StepInside(t, st)
      /\ At(t, q) = "q" => Outside(q + 1, 1) = StepInside(t, st)
  BY <1>1, TurnsInside DEF st
<1> QED
  BY <1>2, <1>5, <1>6

\* An escaped character is passed whole.
LEMMA EscapeIsPassed ==
    ASSUME NEW t, Len(t) \in Nat, NEW p \in Nat, p >= 1, NEW F, IsScanned(F, t, p),
           NEW q \in Nat, q >= p, ScanAt(F, t, p, Inside(q)),
           NEW c \in Chars, Holds(t, q, EscapeOne(c))
    PROVE  ScanAt(F, t, p, Inside(q + Len(EscapeOne(c))))
<1> HIDE DEF ScanAt, IsScanned, Inside, Outside, Holds
<1>1. CASE \E x \in {"q", "b", "n"} : EscapeOne(c) = <<"b", x>>
  <2>1. PICK x \in {"q", "b", "n"} : EscapeOne(c) = <<"b", x>>
    BY <1>1
  <2> DEFINE w == <<"b", x>>
  <2>2. Len(w) = 2 /\ 1 \in 1..Len(w) /\ 2 \in 1..Len(w) /\ w[1] = "b" /\ w[2] = x /\ x # "nul"
    OBVIOUS
  <2>3. Holds(t, q, w) /\ EscapeOne(c) = w
    BY <2>1
  <2> HIDE DEF w
  <2>4. q + 1 - 1 = q /\ q + 2 - 1 = q + 1
    OBVIOUS
  <2>0. \A j \in 1..Len(w) : At(t, q + j - 1) = w[j] /\ q + j - 1 \in 1..Len(t)
    BY <2>3, HoldsAt
  <2>5. At(t, q + 1 - 1) = w[1] /\ At(t, q + 2 - 1) = w[2] /\ q + 1 - 1 \in 1..Len(t)
    BY <2>0, <2>2
  <2>6. At(t, q) = "b" /\ At(t, q + 1) # "nul" /\ q \in p..Len(t)
    BY <2>2, <2>4, <2>5
  <2>7. ScanAt(F, t, p, Inside(q + 2))
    BY <2>6, GoesInside
  <2> QED
    BY <2>2, <2>3, <2>7
<1>2. CASE c = "ctl" /\ EscapeOne(c) = <<"b", "u", "0", "0", "1", "f">>
  <2> DEFINE w == <<"b", "u", "0", "0", "1", "f">>
  <2>1. Len(w) = 6 /\ w[1] = "b" /\ w[2] = "u" /\ w[3] = "0" /\ w[4] = "0" /\ w[5] = "1" /\ w[6] = "f"
    OBVIOUS
  <2>2. Holds(t, q, w) /\ EscapeOne(c) = w
    BY <1>2
  <2> HIDE DEF w
  <2>3. \A j \in 1..6 : At(t, q + j - 1) = w[j] /\ q + j - 1 \in 1..Len(t)
    <3>1. \A j \in 1..Len(w) : At(t, q + j - 1) = w[j] /\ q + j - 1 \in 1..Len(t)
      BY <2>2, HoldsAt
    <3> QED
      BY <2>1, <3>1
  <2>4. /\ q + 1 - 1 = q /\ q + 2 - 1 = q + 1 /\ q + 3 - 1 = q + 2 /\ q + 4 - 1 = q + 3
        /\ q + 5 - 1 = q + 4 /\ q + 6 - 1 = q + 5
        /\ (q + 2) + 1 = q + 3 /\ (q + 3) + 1 = q + 4 /\ (q + 4) + 1 = q + 5 /\ (q + 5) + 1 = q + 6
    OBVIOUS
  <2>5. /\ At(t, q) = "b" /\ At(t, q + 1) = "u" /\ At(t, q + 2) = "0" /\ At(t, q + 3) = "0"
        /\ At(t, q + 4) = "1" /\ At(t, q + 5) = "f"
    BY <2>1, <2>3, <2>4
  <2>6. q + 5 \in 1..Len(t)
    BY <2>3, <2>4
  <2>7. q \in p..Len(t) /\ q + 2 \in p..Len(t) /\ q + 3 \in p..Len(t) /\ q + 4 \in p..Len(t) /\ q + 5 \in p..Len(t)
    BY <2>6
  <2>8. ScanAt(F, t, p, Inside(q + 2))
    BY <2>5, <2>7, GoesInside
  <2>9. ScanAt(F, t, p, Inside(q + 3))
    BY <2>4, <2>5, <2>7, <2>8, GoesInside
  <2>10. ScanAt(F, t, p, Inside(q + 4))
    BY <2>4, <2>5, <2>7, <2>9, GoesInside
  <2>11. ScanAt(F, t, p, Inside(q + 5))
    BY <2>4, <2>5, <2>7, <2>10, GoesInside
  <2>12. ScanAt(F, t, p, Inside(q + 6))
    BY <2>4, <2>5, <2>7, <2>11, GoesInside
  <2> QED
    BY <2>1, <2>2, <2>12
<1>3. CASE c \in {"close", "o"} /\ EscapeOne(c) = <<c>>
  <2> DEFINE w == <<c>>
  <2>0. c \notin {"b", "q"}
    BY <1>3
  <2>1. Len(w) = 1 /\ 1 \in 1..Len(w) /\ w[1] = c
    OBVIOUS
  <2>2. Holds(t, q, w) /\ EscapeOne(c) = w
    BY <1>3
  <2> HIDE DEF w
  <2>7. \A j \in 1..Len(w) : At(t, q + j - 1) = w[j] /\ q + j - 1 \in 1..Len(t)
    BY <2>2, HoldsAt
  <2>3. q + 1 - 1 = q /\ At(t, q + 1 - 1) = w[1] /\ q + 1 - 1 \in 1..Len(t)
    BY <2>1, <2>7
  <2>4. At(t, q) \notin {"b", "q"} /\ q \in p..Len(t)
    BY <2>0, <2>1, <2>3
  <2>5. ScanAt(F, t, p, Inside(q + 1))
    BY <2>4, GoesInside
  <2> QED
    BY <2>1, <2>2, <2>5
<1> QED
  BY <1>1, <1>2, <1>3, EscapeForms

\* What stands before and behind a value in its object.
LEMMA Frame ==
    /\ <<"open", "key", "q">> \in Seq(Letters) /\ Len(<<"open", "key", "q">>) = 3
    /\ <<"open", "key", "q">>[1] = "open" /\ <<"open", "key", "q">>[2] = "key" /\ <<"open", "key", "q">>[3] = "q"
    /\ <<"q", "close">> \in Seq(Letters) /\ Len(<<"q", "close">>) = 2
    /\ <<"q", "close">>[1] = "q" /\ <<"q", "close">>[2] = "close"
<1>1. <<"open", "key", "q">> \in Seq(Letters)
  BY DEF Letters
<1>2. <<"q", "close">> \in Seq(Letters)
  BY DEF Letters
<1> QED
  BY <1>1, <1>2

\* The loop finds the end of an object whatever characters its value has.
LEMMA EndOfObject ==
    ASSUME NEW t \in Seq(Letters), NEW p \in Nat, p >= 1, NEW v \in Seq(Chars), Holds(t, p, ObjectText(v))
    PROVE  ObjectEnd(t, p) = p + Len(ObjectText(v)) /\ At(t, p) = "open" /\ Len(ObjectText(v)) >= 5
<1> DEFINE n == Len(v)
           e == Esc(v, n)
           head == <<"open", "key", "q">>
           tail == <<"q", "close">>
           L == Len(e)
<1>1. n \in Nat /\ Len(t) \in Nat /\ \A i \in 1..n : v[i] \in Chars
  BY LenProperties, ElementOfSeq
<1>0. jsonEscape(v) = e /\ n \in 0..n
  BY <1>1, EscapeGrows
<1>2. e \in Seq(Letters) /\ L \in Nat /\ ObjectText(v) = (head \o e) \o tail
  <2>1. e \in Seq(Letters)
    BY <1>0, EscapeGrows
  <2>2. ObjectText(v) = (head \o jsonEscape(v)) \o tail
    BY DEF ObjectText
  <2> HIDE DEF e
  <2> QED
    BY <1>0, <2>1, <2>2, LenProperties
<1>3. head \in Seq(Letters) /\ tail \in Seq(Letters) /\ Len(head) = 3 /\ Len(tail) = 2
      /\ head[1] = "open" /\ head[2] = "key" /\ head[3] = "q" /\ tail[1] = "q" /\ tail[2] = "close"
  BY Frame
<1> HIDE DEF n, e, head, tail, L
<1> DEFINE h == head \o e
<1>4. h \in Seq(Letters) /\ Len(h) = 3 + L /\ Len(ObjectText(v)) = 5 + L
  <2>1. h \in Seq(Letters) /\ Len(h) = Len(head) + Len(e)
    BY <1>2, <1>3, ConcatProperties
  <2> HIDE DEF h
  <2>2. Len(h \o tail) = Len(h) + Len(tail)
    BY <1>3, <2>1, ConcatProperties
  <2> QED
    BY <1>2, <1>3, <2>1, <2>2 DEF L, h
<1>5. Holds(t, p, h) /\ Holds(t, p + (3 + L), tail)
  <2> HIDE DEF h
  <2>1. Holds(t, p, h \o tail)
    BY <1>2 DEF h
  <2> QED
    BY <1>3, <1>4, <2>1, HoldsBoth
<1>6. Holds(t, p, head) /\ Holds(t, p + 3, e)
  BY <1>2, <1>3, <1>5, HoldsBoth
<1> DEFINE r == p + (3 + L)
<1>7. /\ At(t, p) = "open" /\ At(t, p + 1) = "key" /\ At(t, p + 2) = "q" /\ p + 2 \in 1..Len(t)
  <2>1. 1 \in 1..Len(head) /\ 2 \in 1..Len(head) /\ 3 \in 1..Len(head)
    BY <1>3
  <2>2. At(t, p + 1 - 1) = head[1] /\ At(t, p + 2 - 1) = head[2] /\ At(t, p + 3 - 1) = head[3] /\ p + 3 - 1 \in 1..Len(t)
    BY <1>1, <1>6, <2>1, HoldsAt
  <2>3. p + 1 - 1 = p /\ p + 2 - 1 = p + 1 /\ p + 3 - 1 = p + 2
    OBVIOUS
  <2> QED
    BY <1>3, <2>2, <2>3
<1>8. /\ At(t, r) = "q" /\ At(t, r + 1) = "close" /\ r + 1 \in 1..Len(t)
  <2>1. 1 \in 1..Len(tail) /\ 2 \in 1..Len(tail)
    BY <1>3
  <2>2. At(t, r + 1 - 1) = tail[1] /\ At(t, r + 2 - 1) = tail[2] /\ r + 2 - 1 \in 1..Len(t)
    BY <1>1, <1>5, <2>1, HoldsAt
  <2>3. r + 1 - 1 = r /\ r + 2 - 1 = r + 1
    BY <1>2
  <2> HIDE DEF r
  <2> QED
    BY <1>3, <2>2, <2>3
<1>9. PICK F : IsScanned(F, t, p) /\ ObjectEnd(t, p) = F[Len(t) + 1].p
  BY ScanIs DEF IsScanned
<1>10. ScanAt(F, t, p, Inside(p + 3))
  <2>1. /\ Outside(p, 0) \in ScanStates /\ Outside(p + 1, 1) \in ScanStates /\ Outside(p + 2, 1) \in ScanStates
        /\ Outside(p, 0).p = p /\ Outside(p + 1, 1).p = p + 1 /\ Outside(p + 2, 1).p = p + 2 /\ Inside(p + 3).p = p + 3
        /\ Outside(p, 0).depth = 0 /\ Outside(p + 1, 1).depth = 1 /\ Outside(p + 2, 1).depth = 1
    BY DEF Outside, Inside, ScanStates
  <2>2. ScanAt(F, t, p, Outside(p, 0))
    <3>1. 0 \in 0..Len(t) + 1 /\ 0 <= p - p
      BY <1>1
    <3>2. F[0] = Outside(p, 0)
      BY <1>9 DEF IsScanned, Outside
    <3> QED
      BY <2>1, <3>1, <3>2 DEF ScanAt
  <2>3. /\ p \in p..Len(t) /\ p + 1 \in p..Len(t) /\ p + 2 \in p..Len(t)
        /\ p + 1 \in Nat /\ p + 2 \in Nat /\ p + 3 \in Nat /\ ~(p > p)
        /\ (p + 1) + 1 = p + 2 /\ (p + 2) + 1 = p + 3 /\ 0 + 1 = 1 /\ 1 # 0
    BY <1>1, <1>7
  <2>4. /\ Outside(p + 1, 1) = StepInside(t, Outside(p, 0))
        /\ Outside(p + 2, 1) = StepInside(t, Outside(p + 1, 1))
        /\ Inside(p + 3) = StepInside(t, Outside(p + 2, 1))
    <3>1. At(t, p) = "open" => StepInside(t, Outside(p, 0)) = Outside(p + 1, 0 + 1)
      BY TurnsOutside
    <3>2. At(t, p + 1) = "key" => StepInside(t, Outside(p + 1, 1)) = Outside((p + 1) + 1, 1)
      BY <2>3, TurnsOutside
    <3>3. At(t, p + 2) = "q" => StepInside(t, Outside(p + 2, 1)) = Inside((p + 2) + 1)
      BY <2>3, TurnsOutside
    <3> QED
      BY <1>7, <2>3, <3>1, <3>2, <3>3
  <2>5. ScanAt(F, t, p, Outside(p + 1, 1))
    BY <1>1, <1>9, <2>1, <2>2, <2>3, <2>4, ScanGoes
  <2>6. ScanAt(F, t, p, Outside(p + 2, 1))
    BY <1>1, <1>9, <2>1, <2>3, <2>4, <2>5, ScanGoes
  <2> QED
    BY <1>1, <1>9, <2>1, <2>3, <2>4, <2>6, ScanGoes
<1> DEFINE D == {i \in 0..n : Holds(t, p + 3, Esc(v, i)) => ScanAt(F, t, p, Inside((p + 3) + Len(Esc(v, i))))}
<1>11. 0 \in D
  <2>1. Esc(v, 0) = << >> /\ Len(<< >>) = 0 /\ (p + 3) + 0 = p + 3 /\ 0 \in 0..n
    BY <1>1, EscapeGrows
  <2> QED
    BY <1>10, <2>1
<1>12. ASSUME NEW i \in 0..n, i \in D, i < n PROVE i + 1 \in D
  <2>1. i + 1 \in 1..n /\ i + 1 \in 0..n /\ (i + 1) - 1 = i /\ v[i + 1] \in Chars
    BY <1>1, <1>12
  <2> DEFINE x == Esc(v, i)
             y == EscapeOne(v[i + 1])
  <2>0. y \in Seq(Letters)
    BY <2>1, EscapeForms
  <2>2. Esc(v, i + 1) = x \o y /\ x \in Seq(Letters) /\ y \in Seq(Letters)
    BY <2>0, <2>1, EscapeGrows DEF n
  <2>3. Len(x) \in Nat /\ Len(y) \in Nat /\ Len(x \o y) = Len(x) + Len(y)
    BY <2>2, ConcatProperties, LenProperties
  <2> HIDE DEF x
  <2>4. ASSUME Holds(t, p + 3, x \o y) PROVE ScanAt(F, t, p, Inside((p + 3) + Len(x \o y)))
    <3>1. p + 3 \in Nat /\ (p + 3) + Len(x) \in Nat /\ (p + 3) + Len(x) >= p
          /\ ((p + 3) + Len(x)) + Len(y) = (p + 3) + Len(x \o y)
      BY <2>3
    <3>2. Holds(t, p + 3, x) /\ Holds(t, (p + 3) + Len(x), y)
      BY <2>2, <2>4, <3>1, HoldsBoth
    <3>3. ScanAt(F, t, p, Inside((p + 3) + Len(x)))
      BY <1>12, <3>2 DEF x
    <3>4. ScanAt(F, t, p, Inside(((p + 3) + Len(x)) + Len(y)))
      BY <1>1, <1>9, <2>1, <3>1, <3>2, <3>3, EscapeIsPassed
    <3> QED
      BY <3>1, <3>4
  <2> QED
    BY <2>1, <2>2, <2>4
<1> HIDE DEF D
<1>13. n \in D
  <2>1. \A i \in 0..n : i \in D /\ i < n => i + 1 \in D
    BY <1>12
  <2>2. n \in 0..n
    BY <1>1
  <2> QED
    BY <1>1, <1>11, <2>1, <2>2, StepByStep
<1>14. ScanAt(F, t, p, Inside(r))
  <2>1. (p + 3) + L = r
    BY <1>2
  <2> QED
    BY <1>6, <1>13, <2>1 DEF D, e, L
<1>15. r \in Nat /\ r \in p..Len(t) /\ r + 1 \in p..Len(t) /\ r + 1 > p /\ (r + 1) + 1 = p + (5 + L)
  BY <1>1, <1>2, <1>8
<1> HIDE DEF r
<1>16. ScanAt(F, t, p, Outside(r + 1, 1))
  BY <1>1, <1>8, <1>9, <1>14, <1>15, GoesInside
<1>17. ScanAt(F, t, p, Outside((r + 1) + 1, 0))
  <2>1. /\ r + 1 \in Nat /\ Outside(r + 1, 1) \in ScanStates /\ Outside(r + 1, 1).p = r + 1
        /\ Outside(r + 1, 1).depth = 1 /\ Outside((r + 1) + 1, 0).p = (r + 1) + 1 /\ (r + 1) + 1 \in Nat /\ 1 - 1 = 0
    BY <1>15 DEF Outside, ScanStates
  <2>2. At(t, r + 1) = "close" => StepInside(t, Outside(r + 1, 1)) = Outside((r + 1) + 1, 1 - 1)
    BY <2>1, TurnsOutside
  <2> QED
    BY <1>1, <1>8, <1>9, <1>15, <1>16, <2>1, <2>2, ScanGoes
<1> DEFINE last == Outside((r + 1) + 1, 0)
<1>18. last.p = (r + 1) + 1 /\ last.p > p /\ last.depth = 0 /\ ~last.str
  BY <1>15 DEF Outside
<1> HIDE DEF last
<1>19. PICK k \in 0..Len(t) + 1 : F[k] = last
  BY <1>17 DEF ScanAt, last
<1>20. F[Len(t) + 1] = last
  <2>1. ScanOne(t, p, last) = last
    BY <1>18 DEF ScanOne
  <2>2. Len(t) + 1 \in Nat /\ \A i \in 1..Len(t) + 1 : F[i - 1] = last => F[i] = last
    BY <1>1, <1>9, <2>1 DEF IsScanned
  <2> QED
    BY <1>19, <2>2, LoopStays
<1>21. ObjectEnd(t, p) = p + Len(ObjectText(v))
  BY <1>4, <1>9, <1>15, <1>18, <1>20
<1> QED
  BY <1>2, <1>4, <1>7, <1>21

-----------------------------------------------------------------------------
(* Reading a value.                                                        *)

\* What the first k characters read back as.
Dec(v, k) == FlattenSeq([i \in 1..k |-> Decoded(v[i])])

\* It grows character by character.
LEMMA DecodeGrows ==
    ASSUME NEW v \in Seq(Chars)
    PROVE  /\ Dec(v, 0) = << >> /\ ReadsAs(v) = Dec(v, Len(v))
           /\ \A k \in 0..Len(v) : Dec(v, k) \in Seq(Letters)
           /\ \A k \in 1..Len(v) : Dec(v, k) = Dec(v, k - 1) \o Decoded(v[k])
<1> DEFINE n == Len(v)
           f == [i \in 1..n |-> Decoded(v[i])]
<1>1. n \in Nat /\ \A i \in 1..n : v[i] \in Chars
  BY LenProperties, ElementOfSeq
<1>2. f \in [1..n -> Seq(Letters)]
  BY <1>1, EscapeForms
<1>3. \A k \in 0..n : \A i \in 1..k : f[i] = Decoded(v[i])
  BY <1>1
<1> HIDE DEF f
<1>4. \A k \in 0..n : [i \in 1..k |-> f[i]] = [i \in 1..k |-> Decoded(v[i])]
  BY <1>3
<1>5. \A k \in 0..n : Joined(f, k) = Dec(v, k)
  BY <1>4 DEF Joined, Dec
<1>6. /\ Joined(f, 0) = << >>
      /\ \A k \in 0..n : Joined(f, k) \in Seq(Letters)
      /\ \A k \in 1..n : Joined(f, k) = Joined(f, k - 1) \o f[k]
  BY <1>1, <1>2, JoinedGrows
<1>7. \A k \in 1..n : k \in 0..n /\ k - 1 \in 0..n /\ f[k] = Decoded(v[k])
  BY <1>1 DEF f
<1>8. ReadsAs(v) = Dec(v, n)
  BY DEF ReadsAs, Dec
<1>9. 0 \in 0..n
  BY <1>1
<1> QED
  BY <1>5, <1>6, <1>7, <1>8, <1>9

\* The states of the loop that reads a value.
ReadStates == [p : Nat \ {0}, out : Seq(Letters)]

\* F holds them.
IsRead(F, obj) ==
    F = [k \in 0..Len(obj) |-> IF k = 0 THEN [p |-> 4, out |-> << >>] ELSE ReadOne(obj, F[k - 1])]

\* json_extract_string is read off them.
LEMMA ReadIsLooped ==
    ASSUME NEW obj
    PROVE  json_extract_string(obj) =
               IF At(obj, 2) = "key" /\ At(obj, 3) = "q" THEN (CHOOSE F : IsRead(F, obj))[Len(obj)].out ELSE << >>
BY DEF json_extract_string, IsRead

\* A turn leads from a state to a state.
LEMMA ReadOneType ==
    ASSUME NEW obj \in Seq(Letters), NEW st \in ReadStates PROVE ReadOne(obj, st) \in ReadStates
<1>1. st.p \in Nat /\ st.p >= 1 /\ st.out \in Seq(Letters) /\ Len(obj) \in Nat
  BY LenProperties DEF ReadStates
<1>2. \A q \in Nat : q >= 1 /\ At(obj, q) # "nul" => At(obj, q) \in Letters
  BY <1>1, ElementOfSeq DEF At
<1>3. \A c \in Letters : Append(st.out, c) \in Seq(Letters)
  BY <1>1, AppendProperties
<1>4. st.p + 1 \in Nat \ {0} /\ st.p + 2 \in Nat \ {0} /\ st.p + 1 >= 1
  BY <1>1
<1>5. CASE At(obj, st.p) \in {"nul", "q"}
  BY <1>5 DEF ReadOne
<1>6. CASE At(obj, st.p) \notin {"nul", "q"} /\ At(obj, st.p) = "b" /\ At(obj, st.p + 1) # "nul"
  <2>1. ReadOne(obj, st) = [p |-> st.p + 2, out |-> Append(st.out, At(obj, st.p + 1))]
    BY <1>6 DEF ReadOne
  <2>2. Append(st.out, At(obj, st.p + 1)) \in Seq(Letters)
    BY <1>2, <1>3, <1>4, <1>6
  <2> QED
    BY <1>4, <2>1, <2>2 DEF ReadStates
<1>7. CASE At(obj, st.p) \notin {"nul", "q"} /\ ~(At(obj, st.p) = "b" /\ At(obj, st.p + 1) # "nul")
  <2>1. ReadOne(obj, st) = [p |-> st.p + 1, out |-> Append(st.out, At(obj, st.p))]
    BY <1>7 DEF ReadOne
  <2>2. Append(st.out, At(obj, st.p)) \in Seq(Letters)
    BY <1>1, <1>2, <1>3, <1>7
  <2> QED
    BY <1>4, <2>1, <2>2 DEF ReadStates
<1> QED
  BY <1>5, <1>6, <1>7

\* F holds the states of the loop over obj, turn by turn.
IsReading(F, obj) ==
    /\ F[0] = [p |-> 4, out |-> << >>]
    /\ \A k \in 1..Len(obj) : F[k] = ReadOne(obj, F[k - 1])

\* The loop has states, of the right type.
LEMMA ReadIs ==
    ASSUME NEW obj \in Seq(Letters)
    PROVE  \E F : /\ IsReading(F, obj) /\ F[Len(obj)].out \in Seq(Letters)
                  /\ json_extract_string(obj) =
                         IF At(obj, 2) = "key" /\ At(obj, 3) = "q" THEN F[Len(obj)].out ELSE << >>
<1> DEFINE n == Len(obj)
           a == [p |-> 4, out |-> << >>]
           G == [q \in Nat \X ReadStates |-> ReadOne(obj, q[2])]
<1>0. << >> \in Seq(Letters)
  BY EmptySeq
<1>1. n \in Nat /\ a \in ReadStates
  BY <1>0, LenProperties DEF ReadStates
<1>2. G \in [Nat \X ReadStates -> ReadStates]
  BY ReadOneType
<1> HIDE DEF n, a
<1>3. PICK H \in [0..n -> ReadStates] : IsLoop(H, a, G, n)
  <2> HIDE DEF G
  <2> QED
    BY <1>1, <1>2, LoopExists
<1>4. IsRead(H, obj)
  <2>1. ASSUME NEW k \in 0..n PROVE H[k] = IF k = 0 THEN a ELSE ReadOne(obj, H[k - 1])
    <3>1. CASE k = 0
      BY <1>3, <3>1 DEF IsLoop
    <3>2. CASE k # 0
      <4>1. k \in Nat /\ k - 1 \in 0..n
        BY <1>1, <3>2
      <4>2. H[k] = G[<<k, H[k - 1]>>] /\ <<k, H[k - 1]>> \in Nat \X ReadStates
        <5> HIDE DEF G
        <5> QED
          BY <1>3, <3>2, <4>1 DEF IsLoop
      <4> QED
        BY <3>2, <4>2
    <3> QED
      BY <3>1, <3>2
  <2>2. H = [k \in 0..n |-> IF k = 0 THEN a ELSE ReadOne(obj, H[k - 1])]
    BY <2>1
  <2> QED
    BY <2>2 DEF IsRead, n, a
<1> DEFINE F == CHOOSE x : IsRead(x, obj)
<1>5. IsRead(F, obj)
  BY <1>4
<1>6. json_extract_string(obj) = IF At(obj, 2) = "key" /\ At(obj, 3) = "q" THEN F[n].out ELSE << >>
  BY ReadIsLooped DEF n
<1> HIDE DEF F
<1>7. F = [k \in 0..n |-> IF k = 0 THEN a ELSE ReadOne(obj, F[k - 1])]
  BY <1>5 DEF IsRead, n, a
<1>8. F[0] = a /\ \A k \in 1..n : F[k] = ReadOne(obj, F[k - 1])
  <2>1. 0 \in 0..n /\ \A k \in 1..n : k \in 0..n /\ k # 0
    BY <1>1
  <2> QED
    BY <1>7, <2>1
<1> DEFINE D == {k \in 0..n : F[k] \in ReadStates}
<1>9. 0 \in D
  BY <1>1, <1>8
<1>10. ASSUME NEW k \in 0..n, k \in D, k < n PROVE k + 1 \in D
  <2>1. k + 1 \in 1..n /\ k + 1 \in 0..n /\ (k + 1) - 1 = k
    BY <1>1, <1>10
  <2>2. F[k + 1] = ReadOne(obj, F[k]) /\ F[k] \in ReadStates
    BY <1>8, <1>10, <2>1
  <2> QED
    BY <2>1, <2>2, ReadOneType
<1>11. \A k \in 0..n : k \in D /\ k < n => k + 1 \in D
  BY <1>10
<1> HIDE DEF D
<1>12. n \in D
  <2>1. n \in 0..n
    BY <1>1
  <2> QED
    BY <1>1, <1>9, <1>11, <2>1, StepByStep
<1>13. F[n].out \in Seq(Letters)
  BY <1>12 DEF D, ReadStates
<1> QED
  BY <1>6, <1>8, <1>13 DEF n, a, IsReading

\* What is read is text, from whatever is read.
LEMMA ReadType == ASSUME NEW obj \in Seq(Letters) PROVE json_extract_string(obj) \in Seq(Letters)
BY ReadIs, EmptySeq

\* The loop comes to st, and each turn before it took a character at least.
ReadAt(F, obj, st) == \E k \in 0..Len(obj) : F[k] = st /\ k <= st.p - 4

\* A state of the loop.
Reading(q, o) == [p |-> q, out |-> o]

\* An escape is read in one turn, and any other character but a quote as itself.
LEMMA ReadGoes ==
    ASSUME NEW obj, Len(obj) \in Nat, NEW F, IsReading(F, obj), NEW q \in 4..Len(obj), NEW o, ReadAt(F, obj, Reading(q, o))
    PROVE  /\ At(obj, q) = "b" /\ At(obj, q + 1) # "nul" => ReadAt(F, obj, Reading(q + 2, Append(o, At(obj, q + 1))))
           /\ At(obj, q) \notin {"b", "q", "nul"} => ReadAt(F, obj, Reading(q + 1, Append(o, At(obj, q))))
<1> DEFINE st == Reading(q, o)
<1>1. PICK k \in 0..Len(obj) : F[k] = st /\ k <= st.p - 4
  BY DEF ReadAt
<1>2. st.p = q /\ st.out = o /\ q \in Nat
  BY DEF Reading
<1> HIDE DEF st
<1>3. k + 1 \in 1..Len(obj) /\ k + 1 \in 0..Len(obj) /\ (k + 1) - 1 = k /\ k + 1 <= (q + 1) - 4 /\ k + 1 <= (q + 2) - 4
  BY <1>1, <1>2
<1>4. F[k + 1] = ReadOne(obj, st)
  BY <1>1, <1>3 DEF IsReading
<1>5. ASSUME At(obj, q) = "b", At(obj, q + 1) # "nul"
      PROVE  ReadAt(F, obj, Reading(q + 2, Append(o, At(obj, q + 1))))
  <2>1. ReadOne(obj, st) = Reading(q + 2, Append(o, At(obj, q + 1)))
    BY <1>2, <1>5 DEF ReadOne, Reading
  <2>2. Reading(q + 2, Append(o, At(obj, q + 1))).p = q + 2
    BY DEF Reading
  <2> QED
    BY <1>3, <1>4, <2>1, <2>2 DEF ReadAt
<1>6. ASSUME At(obj, q) \notin {"b", "q", "nul"}
      PROVE  ReadAt(F, obj, Reading(q + 1, Append(o, At(obj, q))))
  <2>1. ReadOne(obj, st) = Reading(q + 1, Append(o, At(obj, q)))
    BY <1>2, <1>6 DEF ReadOne, Reading
  <2>2. Reading(q + 1, Append(o, At(obj, q))).p = q + 1
    BY DEF Reading
  <2> QED
    BY <1>3, <1>4, <2>1, <2>2 DEF ReadAt
<1> QED
  BY <1>5, <1>6

\* An escaped character is read as a whole.
LEMMA EscapeIsRead ==
    ASSUME NEW obj, Len(obj) \in Nat, NEW F, IsReading(F, obj), NEW q \in Nat, q >= 4, NEW o \in Seq(Letters),
           ReadAt(F, obj, Reading(q, o)), NEW c \in Chars, Holds(obj, q, EscapeOne(c))
    PROVE  ReadAt(F, obj, Reading(q + Len(EscapeOne(c)), o \o Decoded(c)))
<1> HIDE DEF ReadAt, IsReading, Reading, Holds
<1>1. CASE \E x \in {"q", "b", "n"} : EscapeOne(c) = <<"b", x>> /\ Decoded(c) = <<x>>
  <2>1. PICK x \in {"q", "b", "n"} : EscapeOne(c) = <<"b", x>> /\ Decoded(c) = <<x>>
    BY <1>1
  <2> DEFINE w == <<"b", x>>
  <2>2. Len(w) = 2 /\ 1 \in 1..Len(w) /\ 2 \in 1..Len(w) /\ w[1] = "b" /\ w[2] = x /\ x # "nul"
    OBVIOUS
  <2>3. Holds(obj, q, w) /\ EscapeOne(c) = w
    BY <2>1
  <2> HIDE DEF w
  <2>4. q + 1 - 1 = q /\ q + 2 - 1 = q + 1
    OBVIOUS
  <2>0. \A j \in 1..Len(w) : At(obj, q + j - 1) = w[j] /\ q + j - 1 \in 1..Len(obj)
    BY <2>3, HoldsAt
  <2>5. At(obj, q + 1 - 1) = w[1] /\ At(obj, q + 2 - 1) = w[2] /\ q + 1 - 1 \in 1..Len(obj)
    BY <2>0, <2>2
  <2>6. At(obj, q) = "b" /\ At(obj, q + 1) = x /\ x # "nul" /\ q \in 4..Len(obj)
    BY <2>2, <2>4, <2>5
  <2>7. ReadAt(F, obj, Reading(q + 2, Append(o, At(obj, q + 1))))
    BY <2>6, ReadGoes
  <2>8. x \in Letters
    BY DEF Letters
  <2>9. Append(o, x) = o \o <<x>>
    BY <2>8, AppendIsConcat
  <2> QED
    BY <2>1, <2>2, <2>3, <2>6, <2>7, <2>9
<1>2. CASE /\ c = "ctl" /\ EscapeOne(c) = <<"b", "u", "0", "0", "1", "f">>
           /\ Decoded(c) = <<"u", "0", "0", "1", "f">>
  <2> DEFINE w == <<"b", "u", "0", "0", "1", "f">>
  <2>1. Len(w) = 6 /\ w[1] = "b" /\ w[2] = "u" /\ w[3] = "0" /\ w[4] = "0" /\ w[5] = "1" /\ w[6] = "f"
    OBVIOUS
  <2>2. Holds(obj, q, w) /\ EscapeOne(c) = w
    BY <1>2
  <2> HIDE DEF w
  <2>3. \A j \in 1..6 : At(obj, q + j - 1) = w[j] /\ q + j - 1 \in 1..Len(obj)
    <3>1. \A j \in 1..Len(w) : At(obj, q + j - 1) = w[j] /\ q + j - 1 \in 1..Len(obj)
      BY <2>2, HoldsAt
    <3> QED
      BY <2>1, <3>1
  <2>4. /\ q + 1 - 1 = q /\ q + 2 - 1 = q + 1 /\ q + 3 - 1 = q + 2 /\ q + 4 - 1 = q + 3
        /\ q + 5 - 1 = q + 4 /\ q + 6 - 1 = q + 5
        /\ (q + 2) + 1 = q + 3 /\ (q + 3) + 1 = q + 4 /\ (q + 4) + 1 = q + 5 /\ (q + 5) + 1 = q + 6
    OBVIOUS
  <2>5. /\ At(obj, q) = "b" /\ At(obj, q + 1) = "u" /\ At(obj, q + 2) = "0" /\ At(obj, q + 3) = "0"
        /\ At(obj, q + 4) = "1" /\ At(obj, q + 5) = "f"
    BY <2>1, <2>3, <2>4
  <2>6. q + 5 \in 1..Len(obj)
    BY <2>3, <2>4
  <2>7. q \in 4..Len(obj) /\ q + 2 \in 4..Len(obj) /\ q + 3 \in 4..Len(obj) /\ q + 4 \in 4..Len(obj) /\ q + 5 \in 4..Len(obj)
    BY <2>6
  <2> DEFINE u == Decoded(c)
             o1 == Append(o, u[1])
             o2 == Append(o1, u[2])
             o3 == Append(o2, u[3])
             o4 == Append(o3, u[4])
             o5 == Append(o4, u[5])
  <2>8. /\ Len(u) = 5 /\ u[1] = At(obj, q + 1) /\ u[2] = At(obj, q + 2) /\ u[3] = At(obj, q + 3)
        /\ u[4] = At(obj, q + 4) /\ u[5] = At(obj, q + 5)
    BY <1>2, <2>5
  <2> HIDE DEF u
  <2>9. ReadAt(F, obj, Reading(q + 2, o1))
    BY <2>5, <2>7, <2>8, ReadGoes
  <2> HIDE DEF o1
  <2>10. ReadAt(F, obj, Reading(q + 3, o2))
    BY <2>4, <2>5, <2>7, <2>8, <2>9, ReadGoes
  <2> HIDE DEF o2
  <2>11. ReadAt(F, obj, Reading(q + 4, o3))
    BY <2>4, <2>5, <2>7, <2>8, <2>10, ReadGoes
  <2> HIDE DEF o3
  <2>12. ReadAt(F, obj, Reading(q + 5, o4))
    BY <2>4, <2>5, <2>7, <2>8, <2>11, ReadGoes
  <2> HIDE DEF o4
  <2>13. ReadAt(F, obj, Reading(q + 6, o5))
    BY <2>4, <2>5, <2>7, <2>8, <2>12, ReadGoes
  <2> HIDE DEF o5
  <2>14. u \in Seq(Letters)
    BY EscapeForms DEF u
  <2> DEFINE X(x, k) == Extended(x, Letters, o, u, k)
  <2>15. /\ 0 \in 0..Len(u) /\ 1 \in 0..Len(u) /\ 2 \in 0..Len(u) /\ 3 \in 0..Len(u) /\ 4 \in 0..Len(u)
         /\ 0 < Len(u) /\ 1 < Len(u) /\ 2 < Len(u) /\ 3 < Len(u) /\ 4 < Len(u)
         /\ 0 + 1 = 1 /\ 1 + 1 = 2 /\ 2 + 1 = 3 /\ 3 + 1 = 4 /\ 4 + 1 = Len(u) /\ 4 + 1 = 5
    BY <2>8
  <2>17. /\ X(o, 0)
         /\ \A k \in 0..Len(u) : \A x : X(x, k) /\ k < Len(u) => X(Append(x, u[k + 1]), k + 1)
         /\ \A x : X(x, Len(u)) => x = o \o u
    BY <2>14, OneMore
  <2> HIDE DEF X
  <2>18. X(o1, 1)
    BY <2>15, <2>17 DEF o1
  <2>19. X(o2, 2)
    BY <2>15, <2>17, <2>18 DEF o2
  <2>20. X(o3, 3)
    BY <2>15, <2>17, <2>19 DEF o3
  <2>21. X(o4, 4)
    BY <2>15, <2>17, <2>20 DEF o4
  <2>22. X(o5, Len(u))
    BY <2>15, <2>17, <2>21 DEF o5
  <2>16. o5 = o \o u
    BY <2>17, <2>22
  <2> QED
    BY <2>1, <2>2, <2>13, <2>16 DEF u
<1>3. CASE c \in {"close", "o"} /\ EscapeOne(c) = <<c>> /\ Decoded(c) = <<c>>
  <2> DEFINE w == <<c>>
  <2>0. c \notin {"b", "q", "nul"} /\ c \in Letters
    BY <1>3 DEF Letters
  <2>1. Len(w) = 1 /\ 1 \in 1..Len(w) /\ w[1] = c
    OBVIOUS
  <2>2. Holds(obj, q, w) /\ EscapeOne(c) = w /\ Decoded(c) = w
    BY <1>3
  <2>6. Append(o, c) = o \o w
    BY <2>0, AppendIsConcat
  <2> HIDE DEF w
  <2>7. \A j \in 1..Len(w) : At(obj, q + j - 1) = w[j] /\ q + j - 1 \in 1..Len(obj)
    BY <2>2, HoldsAt
  <2>3. q + 1 - 1 = q /\ At(obj, q + 1 - 1) = w[1] /\ q + 1 - 1 \in 1..Len(obj)
    BY <2>1, <2>7
  <2>4. At(obj, q) = c /\ At(obj, q) \notin {"b", "q", "nul"} /\ q \in 4..Len(obj)
    BY <2>0, <2>1, <2>3
  <2>5. ReadAt(F, obj, Reading(q + 1, Append(o, At(obj, q))))
    BY <2>4, ReadGoes
  <2> QED
    BY <2>1, <2>2, <2>4, <2>5, <2>6
<1> QED
  BY <1>1, <1>2, <1>3, EscapeForms

\* A value comes back as what it reads as, to its last character.
LEMMA ValueIsRead == ASSUME NEW v \in Seq(Chars) PROVE json_extract_string(ObjectText(v)) = ReadsAs(v)
<1> DEFINE n == Len(v)
           e == Esc(v, n)
           head == <<"open", "key", "q">>
           tail == <<"q", "close">>
           L == Len(e)
           obj == ObjectText(v)
           h == head \o e
<1>1. n \in Nat /\ \A i \in 1..n : v[i] \in Chars
  BY LenProperties, ElementOfSeq
<1>0. jsonEscape(v) = e /\ n \in 0..n
  BY <1>1, EscapeGrows
<1>2. e \in Seq(Letters) /\ L \in Nat /\ obj = h \o tail
  <2>1. e \in Seq(Letters)
    BY <1>0, EscapeGrows
  <2>2. obj = (head \o jsonEscape(v)) \o tail
    BY DEF ObjectText
  <2> HIDE DEF e
  <2> QED
    BY <1>0, <2>1, <2>2, LenProperties
<1>3. head \in Seq(Letters) /\ tail \in Seq(Letters) /\ Len(head) = 3 /\ Len(tail) = 2
      /\ head[1] = "open" /\ head[2] = "key" /\ head[3] = "q" /\ tail[1] = "q" /\ tail[2] = "close"
  BY Frame
<1> HIDE DEF n, e, head, tail, L, obj
<1>4. h \in Seq(Letters) /\ Len(h) = 3 + L
  <2>1. h \in Seq(Letters) /\ Len(h) = Len(head) + Len(e)
    BY <1>2, <1>3, ConcatProperties
  <2> HIDE DEF h
  <2> QED
    BY <1>3, <2>1 DEF L
<1> HIDE DEF h
<1>5. obj \in Seq(Letters) /\ Len(obj) = 5 + L /\ Len(obj) \in Nat
  <2>1. h \o tail \in Seq(Letters) /\ Len(h \o tail) = Len(h) + Len(tail)
    BY <1>3, <1>4, ConcatProperties
  <2> QED
    BY <1>2, <1>3, <1>4, <2>1
<1>6. Holds(obj, 1, h) /\ Holds(obj, 1 + (3 + L), tail)
  BY <1>2, <1>3, <1>4, <1>5, HoldsItself, HoldsBoth
<1>7. Holds(obj, 1, head) /\ Holds(obj, 1 + 3, e)
  BY <1>2, <1>3, <1>6, HoldsBoth DEF h
<1>8. At(obj, 2) = "key" /\ At(obj, 3) = "q"
  <2>1. 2 \in 1..Len(head) /\ 3 \in 1..Len(head) /\ 1 + 2 - 1 = 2 /\ 1 + 3 - 1 = 3
    BY <1>3
  <2>2. At(obj, 1 + 2 - 1) = head[2] /\ At(obj, 1 + 3 - 1) = head[3]
    BY <1>5, <1>7, <2>1, HoldsAt
  <2> QED
    BY <1>3, <2>1, <2>2
<1>9. At(obj, 4 + L) = "q"
  <2>1. 1 \in 1..Len(tail) /\ (1 + (3 + L)) + 1 - 1 = 4 + L
    BY <1>2, <1>3
  <2>2. At(obj, (1 + (3 + L)) + 1 - 1) = tail[1]
    BY <1>5, <1>6, <2>1, HoldsAt
  <2> QED
    BY <1>3, <2>1, <2>2
<1>10. PICK F : IsReading(F, obj) /\ json_extract_string(obj) = F[Len(obj)].out
  BY <1>5, <1>8, ReadIs
<1>11. ReadAt(F, obj, Reading(4, << >>))
  <2>1. 0 \in 0..Len(obj) /\ F[0] = Reading(4, << >>) /\ Reading(4, << >>).p = 4 /\ 0 <= 4 - 4
    BY <1>5, <1>10 DEF IsReading, Reading
  <2> QED
    BY <2>1 DEF ReadAt
<1> DEFINE D == {i \in 0..n : Holds(obj, 4, Esc(v, i)) => ReadAt(F, obj, Reading(4 + Len(Esc(v, i)), Dec(v, i)))}
<1>12. 0 \in D
  <2>1. Esc(v, 0) = << >> /\ Dec(v, 0) = << >> /\ Len(<< >>) = 0 /\ 4 + 0 = 4 /\ 0 \in 0..n
    BY <1>1, EscapeGrows, DecodeGrows
  <2> QED
    BY <1>11, <2>1
<1>13. ASSUME NEW i \in 0..n, i \in D, i < n PROVE i + 1 \in D
  <2>1. i + 1 \in 1..n /\ i + 1 \in 0..n /\ (i + 1) - 1 = i /\ v[i + 1] \in Chars
    BY <1>1, <1>13
  <2> DEFINE x == Esc(v, i)
             y == EscapeOne(v[i + 1])
             z == Dec(v, i)
  <2>2. y \in Seq(Letters)
    BY <2>1, EscapeForms
  <2>3. Esc(v, i + 1) = x \o y /\ x \in Seq(Letters)
    BY <2>1, EscapeGrows DEF n
  <2>4. Dec(v, i + 1) = z \o Decoded(v[i + 1]) /\ z \in Seq(Letters)
    BY <2>1, DecodeGrows DEF n
  <2>5. Len(x) \in Nat /\ Len(y) \in Nat /\ Len(x \o y) = Len(x) + Len(y)
    BY <2>2, <2>3, ConcatProperties, LenProperties
  <2> HIDE DEF x, z
  <2>6. ASSUME Holds(obj, 4, x \o y) PROVE ReadAt(F, obj, Reading(4 + Len(x \o y), z \o Decoded(v[i + 1])))
    <3>1. 4 + Len(x) \in Nat /\ 4 + Len(x) >= 4 /\ (4 + Len(x)) + Len(y) = 4 + Len(x \o y)
      BY <2>5
    <3>2. Holds(obj, 4, x) /\ Holds(obj, 4 + Len(x), y)
      BY <2>2, <2>3, <2>6, HoldsBoth
    <3>3. ReadAt(F, obj, Reading(4 + Len(x), z))
      BY <1>13, <3>2 DEF x, z
    <3>4. ReadAt(F, obj, Reading((4 + Len(x)) + Len(y), z \o Decoded(v[i + 1])))
      BY <1>5, <1>10, <2>1, <2>4, <3>1, <3>2, <3>3, EscapeIsRead
    <3> QED
      BY <3>1, <3>4
  <2> QED
    BY <2>1, <2>3, <2>4, <2>6
<1> HIDE DEF D
<1>14. n \in D
  <2>1. \A i \in 0..n : i \in D /\ i < n => i + 1 \in D
    BY <1>13
  <2>2. n \in 0..n
    BY <1>1
  <2> QED
    BY <1>1, <1>12, <2>1, <2>2, StepByStep
<1> DEFINE last == Reading(4 + L, Dec(v, n))
<1>15. ReadAt(F, obj, last)
  <2>1. 1 + 3 = 4
    OBVIOUS
  <2> QED
    BY <1>7, <1>14, <2>1 DEF D, e, L
<1>16. last.p = 4 + L /\ last.out = Dec(v, n)
  BY DEF Reading
<1> HIDE DEF last
<1>17. PICK k \in 0..Len(obj) : F[k] = last
  BY <1>15 DEF ReadAt
<1>18. ReadOne(obj, last) = last
  BY <1>9, <1>16 DEF ReadOne
<1>19. \A i \in 1..Len(obj) : F[i - 1] = last => F[i] = last
  BY <1>10, <1>18 DEF IsReading
<1>20. F[Len(obj)] = last
  BY <1>5, <1>17, <1>19, LoopStays
<1>21. Dec(v, n) = ReadsAs(v)
  BY DecodeGrows DEF n
<1> QED
  BY <1>10, <1>16, <1>20, <1>21 DEF obj

\* An escape has between one and six characters.
LEMMA EscapeLength ==
    ASSUME NEW c \in Chars
    PROVE  Len(EscapeOne(c)) \in Nat /\ 1 <= Len(EscapeOne(c)) /\ Len(EscapeOne(c)) <= 6
<1>1. CASE \E x \in {"q", "b", "n"} : EscapeOne(c) = <<"b", x>>
  BY <1>1
<1>2. CASE EscapeOne(c) = <<"b", "u", "0", "0", "1", "f">>
  BY <1>2
<1>3. CASE EscapeOne(c) = <<c>>
  BY <1>3
<1> QED
  BY <1>1, <1>2, <1>3, EscapeForms

-----------------------------------------------------------------------------
(* Escaping into a buffer.                                                 *)

\* F holds what json_escape has written after each character.
IsWritten(F, s) ==
    F = [i \in 0..Len(s) |->
            IF i = 0 THEN << >>
            ELSE IF Len(F[i - 1]) + 7 >= OutSize THEN F[i - 1] ELSE F[i - 1] \o EscapeOne(s[i])]

\* json_escape by it.
LEMMA WrittenIs == ASSUME NEW s PROVE json_escape(s) = (CHOOSE F : IsWritten(F, s))[Len(s)]
BY DEF json_escape, IsWritten

\* It stops before an escape that would not fit, and writes whole ones.
LEMMA EscapesWhole ==
    ASSUME NEW v \in Seq(Chars)
    PROVE  /\ Len(json_escape(v)) < OutSize
           /\ \E m \in 0..Len(v) : json_escape(v) = jsonEscape(SubSeq(v, 1, m))
<1> DEFINE n == Len(v)
           G == [q \in Nat \X Seq(Letters) |-> IF q[1] \in 1..n /\ ~(Len(q[2]) + 7 >= OutSize)
                                              THEN q[2] \o EscapeOne(v[q[1]]) ELSE q[2]]
<1>1. n \in Nat /\ OutSize \in Nat /\ OutSize > 0
  BY LenProperties, JsonAssumption
<1>2. \A i \in 1..n : /\ v[i] \in Chars /\ EscapeOne(v[i]) \in Seq(Letters)
                     /\ Len(EscapeOne(v[i])) \in Nat /\ Len(EscapeOne(v[i])) <= 6
  <2> SUFFICES ASSUME NEW i \in 1..n PROVE /\ v[i] \in Chars /\ EscapeOne(v[i]) \in Seq(Letters)
                                         /\ Len(EscapeOne(v[i])) \in Nat /\ Len(EscapeOne(v[i])) <= 6
    OBVIOUS
  <2>1. v[i] \in Chars
    BY ElementOfSeq
  <2> QED
    BY <2>1, EscapeLength, EscapeForms
<1>3. << >> \in Seq(Letters)
  BY EmptySeq
<1>4. G \in [Nat \X Seq(Letters) -> Seq(Letters)]
  <2>1. ASSUME NEW q \in Nat \X Seq(Letters)
        PROVE  (IF q[1] \in 1..n /\ ~(Len(q[2]) + 7 >= OutSize) THEN q[2] \o EscapeOne(v[q[1]]) ELSE q[2]) \in Seq(Letters)
    <3>1. q[2] \in Seq(Letters) /\ (q[1] \in 1..n => EscapeOne(v[q[1]]) \in Seq(Letters))
      BY <1>2
    <3> HIDE DEF n
    <3> QED
      BY <3>1, ConcatProperties
  <2> QED
    BY <2>1
<1>5. PICK H \in [0..n -> Seq(Letters)] : IsLoop(H, << >>, G, n)
  <2> HIDE DEF G
  <2> QED
    BY <1>1, <1>3, <1>4, LoopExists
<1>6. IsWritten(H, v)
  <2>1. ASSUME NEW i \in 0..n
        PROVE  H[i] = IF i = 0 THEN << >>
                      ELSE IF Len(H[i - 1]) + 7 >= OutSize THEN H[i - 1] ELSE H[i - 1] \o EscapeOne(v[i])
    <3>1. CASE i = 0
      BY <1>5, <3>1 DEF IsLoop
    <3>2. CASE i # 0
      <4>1. i \in Nat /\ i \in 1..n /\ i - 1 \in 0..n
        BY <1>1, <3>2
      <4>2. H[i] = G[<<i, H[i - 1]>>] /\ <<i, H[i - 1]>> \in Nat \X Seq(Letters)
        <5> HIDE DEF G
        <5> QED
          BY <1>5, <3>2, <4>1 DEF IsLoop
      <4> HIDE DEF n
      <4> QED
        BY <3>2, <4>1, <4>2
    <3> QED
      BY <3>1, <3>2
  <2> HIDE DEF G
  <2>2. H = [i \in 0..n |-> IF i = 0 THEN << >>
                ELSE IF Len(H[i - 1]) + 7 >= OutSize THEN H[i - 1] ELSE H[i - 1] \o EscapeOne(v[i])]
    BY <2>1
  <2> QED
    BY <2>2 DEF IsWritten
<1> HIDE DEF G
<1> DEFINE F == CHOOSE x : IsWritten(x, v)
<1>7. IsWritten(F, v) /\ json_escape(v) = F[n]
  BY <1>6, WrittenIs
<1> HIDE DEF F
<1>8. F[0] = << >> /\ \A i \in 1..n : F[i] = IF Len(F[i - 1]) + 7 >= OutSize THEN F[i - 1] ELSE F[i - 1] \o EscapeOne(v[i])
  <2>1. 0 \in 0..n /\ \A i \in 1..n : i \in 0..n /\ i # 0
    BY <1>1
  <2> QED
    BY <1>7, <2>1 DEF IsWritten
<1> HIDE DEF n
<1>9. /\ Esc(v, 0) = << >>
      /\ \A k \in 0..n : Esc(v, k) \in Seq(Letters) /\ jsonEscape(SubSeq(v, 1, k)) = Esc(v, k)
      /\ \A k \in 1..n : Esc(v, k) = Esc(v, k - 1) \o EscapeOne(v[k])
  BY EscapeGrows DEF n
<1> DEFINE P(i, m) == /\ F[i] = Esc(v, m) /\ Len(F[i]) < OutSize
                      /\ m < i => Len(F[i]) + 7 >= OutSize
           D == {i \in 0..n : \E m \in 0..i : P(i, m)}
<1>10. 0 \in D
  <2>1. 0 \in 0..0 /\ 0 \in 0..n /\ Len(<< >>) = 0
    BY <1>1
  <2>2. P(0, 0)
    BY <1>1, <1>8, <1>9, <2>1
  <2> QED
    BY <2>1, <2>2
<1>11. ASSUME NEW i \in 0..n, i \in D, i < n PROVE i + 1 \in D
  <2>1. PICK m \in 0..i : P(i, m)
    BY <1>11
  <2>2. /\ i + 1 \in 1..n /\ i + 1 \in 0..n /\ (i + 1) - 1 = i /\ m \in 0..(i + 1) /\ m \in 0..n
        /\ i + 1 \in 0..(i + 1) /\ i \in Nat
    BY <1>1, <1>11
  <2>3. F[i + 1] = IF Len(F[i]) + 7 >= OutSize THEN F[i] ELSE F[i] \o EscapeOne(v[i + 1])
    BY <1>8, <2>2
  <2>4. CASE Len(F[i]) + 7 >= OutSize
    <3>1. P(i + 1, m)
      BY <2>1, <2>3, <2>4
    <3> QED
      BY <2>2, <3>1
  <2>5. CASE ~(Len(F[i]) + 7 >= OutSize)
    <3>1. m = i
      BY <2>1, <2>2, <2>5
    <3> DEFINE x == Esc(v, i)
               y == EscapeOne(v[i + 1])
    <3>2. F[i] = x /\ F[i + 1] = x \o y /\ Esc(v, i + 1) = x \o y
      BY <1>9, <2>1, <2>2, <2>3, <2>5, <3>1
    <3>3. x \in Seq(Letters) /\ y \in Seq(Letters) /\ Len(y) \in Nat /\ Len(y) <= 6
      BY <1>2, <1>9, <2>2
    <3> HIDE DEF x, y
    <3>4. Len(x \o y) = Len(x) + Len(y) /\ Len(x) \in Nat
      BY <3>3, ConcatProperties, LenProperties
    <3>5. Len(F[i + 1]) < OutSize
      BY <1>1, <2>5, <3>2, <3>3, <3>4
    <3>6. P(i + 1, i + 1)
      BY <2>2, <3>2, <3>5
    <3> QED
      BY <2>2, <3>6
  <2> QED
    BY <2>4, <2>5
<1>12. \A i \in 0..n : i \in D /\ i < n => i + 1 \in D
  BY <1>11
<1> HIDE DEF D
<1>13. n \in D
  <2>1. n \in 0..n
    BY <1>1
  <2> QED
    BY <1>1, <1>10, <1>12, <2>1, StepByStep
<1>14. PICK m \in 0..n : P(n, m)
  BY <1>13 DEF D
<1> QED
  BY <1>7, <1>9, <1>14 DEF n

-----------------------------------------------------------------------------
(* The layout of a response.                                               *)

\* The first k objects with their commas, and the position behind them.
Items(vs, k) == FlattenSeq([i \in 1..k |-> Item(vs, i)])
Behind(vs, k) == 2 + Len(Items(vs, k))

\* An object is text, and so is one with a comma before it.
LEMMA ItemType ==
    ASSUME NEW v \in Seq(Chars)
    PROVE  ObjectText(v) \in Seq(Letters) /\ <<",">> \in Seq(Letters) /\ <<",">> \o ObjectText(v) \in Seq(Letters)
<1>1. jsonEscape(v) \in Seq(Letters)
  <2>1. Len(v) \in 0..Len(v)
    BY LenProperties
  <2> QED
    BY <2>1, EscapeGrows
<1>2. ObjectText(v) = (<<"open", "key", "q">> \o jsonEscape(v)) \o <<"q", "close">>
  BY DEF ObjectText
<1> DEFINE h == <<"open", "key", "q">> \o jsonEscape(v)
<1>3. h \in Seq(Letters)
  BY <1>1, Frame, ConcatProperties
<1> HIDE DEF h
<1>4. h \o <<"q", "close">> \in Seq(Letters)
  BY <1>3, Frame, ConcatProperties
<1>5. <<",">> \in Seq(Letters)
  BY DEF Letters
<1>6. ObjectText(v) \in Seq(Letters)
  BY <1>2, <1>4 DEF h
<1> QED
  BY <1>5, <1>6, ConcatProperties

\* The objects are laid out one behind the other.
LEMMA ItemsGrow ==
    ASSUME NEW vs \in Seq(Seq(Chars))
    PROVE  /\ Items(vs, 0) = << >>
           /\ \A k \in 0..Len(vs) : Items(vs, k) \in Seq(Letters) /\ Len(Items(vs, k)) \in Nat
           /\ \A k \in 1..Len(vs) : Items(vs, k) = Items(vs, k - 1) \o Item(vs, k) /\ Item(vs, k) \in Seq(Letters)
<1> DEFINE n == Len(vs)
           f == [i \in 1..n |-> Item(vs, i)]
<1>1. n \in Nat /\ \A i \in 1..n : vs[i] \in Seq(Chars)
  BY LenProperties, ElementOfSeq
<1>2. \A i \in 1..n : Item(vs, i) \in Seq(Letters)
  <2> SUFFICES ASSUME NEW i \in 1..n PROVE Item(vs, i) \in Seq(Letters)
    OBVIOUS
  <2>1. ObjectText(vs[i]) \in Seq(Letters) /\ <<",">> \o ObjectText(vs[i]) \in Seq(Letters)
    BY <1>1, ItemType
  <2>2. << >> \o ObjectText(vs[i]) = ObjectText(vs[i])
    BY <2>1, ConcatEmptySeq
  <2>3. CASE i = 1
    BY <2>1, <2>2, <2>3 DEF Item
  <2>4. CASE i # 1
    BY <2>1, <2>4 DEF Item
  <2> QED
    BY <2>3, <2>4
<1>3. f \in [1..n -> Seq(Letters)]
  BY <1>2
<1>4. \A k \in 0..n : \A i \in 1..k : f[i] = Item(vs, i)
  BY <1>1
<1> HIDE DEF f
<1>5. \A k \in 0..n : [i \in 1..k |-> f[i]] = [i \in 1..k |-> Item(vs, i)]
  BY <1>4
<1>6. \A k \in 0..n : Joined(f, k) = Items(vs, k)
  BY <1>5 DEF Joined, Items
<1>7. /\ Joined(f, 0) = << >>
      /\ \A k \in 0..n : Joined(f, k) \in Seq(Letters)
      /\ \A k \in 1..n : Joined(f, k) = Joined(f, k - 1) \o f[k]
  BY <1>1, <1>3, JoinedGrows
<1>8. \A k \in 1..n : k \in 0..n /\ k - 1 \in 0..n /\ f[k] = Item(vs, k)
  BY <1>1 DEF f
<1>9. 0 \in 0..n
  BY <1>1
<1>10. \A k \in 0..n : Items(vs, k) \in Seq(Letters) /\ Len(Items(vs, k)) \in Nat
  BY <1>6, <1>7, LenProperties
<1> QED
  BY <1>2, <1>6, <1>7, <1>8, <1>9, <1>10

\* A response holds its brackets and objects in their places.
LEMMA Layout ==
    ASSUME NEW vs \in Seq(Seq(Chars)), NEW t, t = ArrayText(vs)
    PROVE  /\ t \in Seq(Letters) /\ Len(t) \in Nat /\ At(t, 1) = "[" /\ At(t, Behind(vs, Len(vs))) = "]"
           /\ \A k \in 0..Len(vs) : Holds(t, 2, Items(vs, k)) /\ Behind(vs, k) \in 2..Len(t) + 1
           /\ \A k \in 1..Len(vs) : Holds(t, Behind(vs, k - 1), Item(vs, k))
<1> DEFINE n == Len(vs)
           a == <<"[">>
           b == <<"]">>
           w == Items(vs, n)
           h == a \o w
<1>1. n \in Nat /\ n \in 0..n /\ 0 \in 0..n
  BY LenProperties
<1>2. t = h \o b
  BY DEF ArrayText, Items
<1>3. w \in Seq(Letters) /\ Len(w) \in Nat
  BY <1>1, ItemsGrow
<1>4. Len(a) = 1 /\ a[1] = "[" /\ Len(b) = 1 /\ b[1] = "]"
  OBVIOUS
<1>5. a \in Seq(Letters) /\ b \in Seq(Letters)
  BY DEF Letters
<1> HIDE DEF n, a, b, w
<1>6. h \in Seq(Letters) /\ Len(h) = 1 + Len(w)
  <2>1. h \in Seq(Letters) /\ Len(h) = Len(a) + Len(w)
    BY <1>3, <1>5, ConcatProperties
  <2> HIDE DEF h
  <2> QED
    BY <1>4, <2>1
<1> HIDE DEF h
<1>7. t \in Seq(Letters) /\ Len(t) = 2 + Len(w) /\ Len(t) \in Nat
  <2>1. h \o b \in Seq(Letters) /\ Len(h \o b) = Len(h) + Len(b)
    BY <1>5, <1>6, ConcatProperties
  <2> QED
    BY <1>2, <1>3, <1>4, <1>6, <2>1
<1>8. Holds(t, 1, h) /\ Holds(t, 1 + Len(h), b)
  BY <1>2, <1>5, <1>6, <1>7, HoldsItself, HoldsBoth
<1>9. Holds(t, 1, a) /\ Holds(t, 1 + Len(a), w)
  BY <1>3, <1>5, <1>8, HoldsBoth DEF h
<1>10. At(t, 1) = "["
  <2>1. 1 \in 1..Len(a) /\ 1 + 1 - 1 = 1
    BY <1>4
  <2>2. At(t, 1 + 1 - 1) = a[1]
    BY <1>7, <1>9, <2>1, HoldsAt
  <2> QED
    BY <1>4, <2>1, <2>2
<1>11. At(t, Behind(vs, n)) = "]"
  <2>1. 1 \in 1..Len(b) /\ (1 + Len(h)) + 1 - 1 = Behind(vs, n)
    BY <1>3, <1>4, <1>6 DEF Behind, w
  <2>2. At(t, (1 + Len(h)) + 1 - 1) = b[1]
    BY <1>7, <1>8, <2>1, HoldsAt
  <2> QED
    BY <1>4, <2>1, <2>2
<1>12. Holds(t, 2, w)
  <2>1. 1 + Len(a) = 2
    BY <1>4
  <2> QED
    BY <1>9, <2>1
<1>13. ASSUME NEW k \in 1..n, Holds(t, 2, Items(vs, k))
       PROVE  Holds(t, 2, Items(vs, k - 1)) /\ Holds(t, Behind(vs, k - 1), Item(vs, k))
  <2>1. k - 1 \in 0..n
    BY <1>1
  <2>2. Items(vs, k) = Items(vs, k - 1) \o Item(vs, k) /\ Items(vs, k - 1) \in Seq(Letters) /\ Item(vs, k) \in Seq(Letters)
    BY <2>1, ItemsGrow DEF n
  <2>3. Holds(t, 2, Items(vs, k - 1) \o Item(vs, k))
    BY <1>13, <2>2
  <2> QED
    BY <2>2, <2>3, HoldsBoth DEF Behind
<1> DEFINE D == {i \in 0..n : Holds(t, 2, Items(vs, n - i))}
<1>14. 0 \in D
  <2>1. n - 0 = n
    BY <1>1
  <2> QED
    BY <1>1, <1>12, <2>1 DEF w
<1>15. ASSUME NEW i \in 0..n, i \in D, i < n PROVE i + 1 \in D
  <2>1. n - i \in 1..n /\ (n - i) - 1 = n - (i + 1) /\ i + 1 \in 0..n
    BY <1>1, <1>15
  <2> QED
    BY <1>13, <1>15, <2>1
<1>16. \A i \in 0..n : i \in D /\ i < n => i + 1 \in D
  BY <1>15
<1> HIDE DEF D
<1>17. \A i \in 0..n : i \in D
  BY <1>1, <1>14, <1>16, StepByStep
<1>18. ASSUME NEW k \in 0..n PROVE Holds(t, 2, Items(vs, k))
  <2>1. n - k \in 0..n /\ n - (n - k) = k
    BY <1>1
  <2>2. n - k \in D
    BY <1>17, <2>1
  <2> QED
    BY <2>1, <2>2 DEF D
<1>19. ASSUME NEW k \in 0..n PROVE Behind(vs, k) \in 2..Len(t) + 1
  <2> DEFINE m == Len(Items(vs, k))
  <2>1. m \in Nat /\ Behind(vs, k) = 2 + m
    BY ItemsGrow DEF n, Behind
  <2>2. m # 0 => 2 + m - 1 \in 1..Len(t)
    BY <1>18, <2>1 DEF Holds
  <2> HIDE DEF m
  <2> QED
    BY <1>3, <1>7, <2>1, <2>2
<1>20. ASSUME NEW k \in 1..n PROVE Holds(t, Behind(vs, k - 1), Item(vs, k))
  <2>1. k \in 0..n
    BY <1>1
  <2> QED
    BY <1>13, <1>18, <2>1
<1> QED
  BY <1>7, <1>10, <1>11, <1>18, <1>19, <1>20 DEF n

\* Where a cursor behind the first k objects may stand: at the beginning when
\* nothing was read, or right behind them.
CursorAt(vs, k, cursor) == k \in 0..Len(vs) /\ (cursor = Behind(vs, k) \/ (cursor = 1 /\ k = 0))

\* From there the code skips to the next object, or meets the end.
LEMMA NextIsFound ==
    ASSUME NEW vs \in Seq(Seq(Chars)), NEW t, t = ArrayText(vs), NEW k, NEW cursor, CursorAt(vs, k, cursor),
           NEW p, p = SkipSeparators(t, cursor)
    PROVE  /\ k = Len(vs) => At(t, p) = "]" /\ CursorAt(vs, k, p)
           /\ k # Len(vs) => /\ At(t, p) = "open" /\ p \in Nat /\ p >= 1
                             /\ Holds(t, p, ObjectText(vs[k + 1])) /\ CursorAt(vs, k + 1, ObjectEnd(t, p))
<1> DEFINE n == Len(vs)
<1>1. /\ t \in Seq(Letters) /\ Len(t) \in Nat /\ At(t, 1) = "[" /\ At(t, Behind(vs, n)) = "]"
      /\ \A j \in 0..n : Behind(vs, j) \in 2..Len(t) + 1
      /\ \A j \in 1..n : Holds(t, Behind(vs, j - 1), Item(vs, j))
  BY Layout
<1>2. n \in Nat /\ k \in 0..n /\ (cursor = Behind(vs, k) \/ (cursor = 1 /\ k = 0)) /\ Behind(vs, k) \in Nat
  BY <1>1, LenProperties DEF CursorAt
<1>3. Behind(vs, 0) = 2
  BY ItemsGrow DEF Behind
<1> HIDE DEF n
<1>4. ASSUME k = n PROVE At(t, p) = "]" /\ p = Behind(vs, k)
  <2>1. CASE cursor = Behind(vs, k)
    BY <1>1, <1>4, <2>1 DEF SkipSeparators
  <2>2. CASE cursor = 1 /\ k = 0
    BY <1>1, <1>3, <1>4, <2>2 DEF SkipSeparators
  <2> QED
    BY <1>2, <2>1, <2>2
<1>5. ASSUME k # n
      PROVE  /\ At(t, p) = "open" /\ p \in Nat /\ p >= 1
             /\ Holds(t, p, ObjectText(vs[k + 1])) /\ CursorAt(vs, k + 1, ObjectEnd(t, p))
  <2> DEFINE v == vs[k + 1]
             w == ObjectText(v)
             b == Behind(vs, k)
             it == Item(vs, k + 1)
             lw == Len(w)
  <2>1. k + 1 \in 1..n /\ (k + 1) - 1 = k /\ k + 1 \in 0..n
    BY <1>2, <1>5
  <2>2. v \in Seq(Chars)
    BY <2>1, ElementOfSeq DEF n
  <2>3. w \in Seq(Letters) /\ <<",">> \in Seq(Letters) /\ lw \in Nat
    BY <2>2, ItemType, LenProperties
  <2>4. Holds(t, b, it) /\ b \in Nat /\ b >= 2
    BY <1>1, <1>2, <2>1
  <2>5. Items(vs, k + 1) = Items(vs, k) \o Item(vs, k + 1) /\ Items(vs, k) \in Seq(Letters) /\ Item(vs, k + 1) \in Seq(Letters)
    BY <1>2, <2>1, ItemsGrow DEF n
  <2>6. Behind(vs, k + 1) = b + Len(it)
    <3>1. Len(Items(vs, k) \o it) = Len(Items(vs, k)) + Len(it) /\ Len(Items(vs, k)) \in Nat /\ Len(it) \in Nat
      BY <2>5, ConcatProperties, LenProperties
    <3>2. Len(Items(vs, k + 1)) = Len(Items(vs, k)) + Len(it)
      BY <2>5, <3>1
    <3> HIDE DEF it, b
    <3> QED
      BY <3>1, <3>2 DEF Behind, b
  <2>9. it = (IF k + 1 = 1 THEN << >> ELSE <<",">>) \o w
    BY DEF Item
  <2>10. k + 1 = 1 <=> k = 0
    BY <1>2
  <2> HIDE DEF v, w, b, it, lw
  <2>7. CASE k = 0
    <3>1. it = << >> \o w
      BY <2>7, <2>9
    <3>2. it = w
      BY <2>3, <3>1, ConcatEmptySeq
    <3>3. Holds(t, 2, w) /\ b = 2
      BY <1>3, <2>4, <2>7, <3>2 DEF b
    <3>4. ObjectEnd(t, 2) = 2 + Len(w) /\ At(t, 2) = "open"
      BY <1>1, <2>2, <3>3, EndOfObject DEF w
    <3>5. p = 2
      <4>1. CASE cursor = b
        BY <3>3, <3>4, <4>1 DEF SkipSeparators
      <4>2. CASE cursor = 1
        BY <1>1, <4>2 DEF SkipSeparators
      <4> QED
        BY <1>2, <4>1, <4>2 DEF b
    <3>6. ObjectEnd(t, p) = Behind(vs, k + 1)
      BY <2>6, <3>2, <3>3, <3>4, <3>5
    <3> QED
      BY <2>1, <3>3, <3>4, <3>5, <3>6 DEF CursorAt, n, v, w
  <2>8. CASE k # 0
    <3> DEFINE c == <<",">>
    <3>1. it = c \o w
      BY <2>8, <2>9, <2>10
    <3>2. Len(c) = 1 /\ c[1] = "," /\ 1 \in 1..Len(c)
      OBVIOUS
    <3>3. c \in Seq(Letters)
      BY <2>3
    <3> HIDE DEF c
    <3>4. Holds(t, b, c) /\ Holds(t, b + 1, w) /\ Len(it) = 1 + lw
      <4>0. Len(c \o w) = Len(c) + Len(w)
        BY <2>3, <3>3, ConcatProperties
      <4>1. Holds(t, b, c \o w)
        BY <2>4, <3>1
      <4>2. Holds(t, b, c) /\ Holds(t, b + Len(c), w)
        BY <2>3, <2>4, <3>3, <4>1, HoldsBoth
      <4> QED
        BY <3>1, <3>2, <4>0, <4>2 DEF lw
    <3>5. At(t, b) = ","
      <4>1. b + 1 - 1 = b
        BY <2>4
      <4>3. \A j \in 1..Len(c) : At(t, b + j - 1) = c[j]
        BY <1>1, <3>4, HoldsAt
      <4>2. At(t, b + 1 - 1) = c[1]
        BY <3>2, <4>3
      <4> QED
        BY <3>2, <4>1, <4>2
    <3>6. p = b + 1 /\ b + 1 \in Nat /\ b + 1 >= 1
      <4>1. cursor = b
        BY <1>2, <2>8 DEF b
      <4>2. p = b + 1
        BY <3>5, <4>1 DEF SkipSeparators
      <4> QED
        BY <2>4, <4>2
    <3>7. ObjectEnd(t, b + 1) = (b + 1) + lw /\ At(t, b + 1) = "open"
      BY <1>1, <2>2, <3>4, <3>6, EndOfObject DEF w, lw
    <3>8. ObjectEnd(t, p) = Behind(vs, k + 1)
      <4>2. b \in Nat
        BY <2>4
      <4>3. lw \in Nat
        BY <2>3
      <4>1. (b + 1) + lw = b + (1 + lw)
        BY <4>2, <4>3
      <4> QED
        BY <2>6, <3>4, <3>6, <3>7, <4>1
    <3> QED
      BY <2>1, <3>4, <3>6, <3>7, <3>8 DEF CursorAt, n, v, w
  <2> QED
    BY <2>7, <2>8
<1> QED
  BY <1>2, <1>4, <1>5 DEF n, CursorAt

-----------------------------------------------------------------------------
(* The cursor machine.                                                     *)

\* The response is the text of its values, the cursor stands behind the objects
\* handed out, and each that fitted the caller's buffer was read as its value.
TextInv ==
    /\ jtValues \in Seq(Seq(Chars)) /\ jtText = ArrayText(jtValues)
    /\ jtFound \in Seq(Seq(Letters)) /\ CursorAt(jtValues, Len(jtFound), jtCursor)
    /\ \A i \in 1..Len(jtFound) :
           Len(ObjectText(jtValues[i])) < ObjSize => jtFound[i] = ReadsAs(jtValues[i])

\* It holds of a response nothing was read of.
LEMMA FreshResponse ==
    ASSUME NEW vs \in Seq(Seq(Chars)) PROVE CursorAt(vs, Len(<< >>), 1) /\ << >> \in Seq(Seq(Letters))
<1>1. Len(vs) \in Nat /\ Len(<< >>) = 0 /\ << >> \in Seq(Seq(Letters))
  BY LenProperties, EmptySeq
<1> QED
  BY <1>1 DEF CursorAt

\* A call of json_array_next hands out the next object.
LEMMA NextObjectStep == TextInv /\ json_array_next => TextInv'
<1> SUFFICES ASSUME TextInv, json_array_next PROVE TextInv'
  OBVIOUS
<1> DEFINE vs == jtValues
           t == jtText
           k == Len(jtFound)
           p == SkipSeparators(jtText, jtCursor)
           end == ObjectEnd(t, p)
           obj == SubSeq(t, p, end - 1)
           cut == IF Len(obj) >= ObjSize THEN SubSeq(obj, 1, ObjSize - 1) ELSE obj
           x == json_extract_string(cut)
<1>1. /\ vs \in Seq(Seq(Chars)) /\ t = ArrayText(vs) /\ jtFound \in Seq(Seq(Letters)) /\ CursorAt(vs, k, jtCursor)
      /\ \A i \in 1..k : Len(ObjectText(vs[i])) < ObjSize => jtFound[i] = ReadsAs(vs[i])
  BY DEF TextInv
<1>2. /\ jtValues' = vs /\ jtText' = t
      /\ \/ At(t, p) = "open" /\ jtCursor' = end /\ jtFound' = Append(jtFound, x)
         \/ At(t, p) # "open" /\ jtCursor' = p /\ jtFound' = jtFound
  BY DEF json_array_next
<1>3. /\ k = Len(vs) => At(t, p) = "]" /\ CursorAt(vs, k, p)
      /\ k # Len(vs) => /\ At(t, p) = "open" /\ p \in Nat /\ p >= 1
                        /\ Holds(t, p, ObjectText(vs[k + 1])) /\ CursorAt(vs, k + 1, end)
  <2>1. p = SkipSeparators(t, jtCursor) /\ end = ObjectEnd(t, p)
    OBVIOUS
  <2> HIDE DEF k, p, end, t, vs
  <2> QED
    BY <1>1, <2>1, NextIsFound
<1>4. k \in Nat /\ k \in 0..Len(vs) /\ Len(vs) \in Nat
  BY <1>1, LenProperties DEF CursorAt
<1>5. CASE At(t, p) # "open" /\ jtCursor' = p /\ jtFound' = jtFound
  BY <1>1, <1>2, <1>3, <1>5 DEF TextInv
<1>6. CASE At(t, p) = "open" /\ jtCursor' = end /\ jtFound' = Append(jtFound, x)
  <2> DEFINE v == vs[k + 1]
             w == ObjectText(v)
  <2>1. k # Len(vs) /\ p \in Nat /\ p >= 1 /\ Holds(t, p, w) /\ CursorAt(vs, k + 1, end)
    BY <1>3, <1>6
  <2>2. k + 1 \in 1..Len(vs)
    BY <1>4, <2>1
  <2>3. v \in Seq(Chars)
    BY <1>1, <2>2, ElementOfSeq
  <2>4. t \in Seq(Letters)
    BY <1>1, Layout
  <2>5. w \in Seq(Letters) /\ Len(w) \in Nat
    BY <2>3, ItemType, LenProperties
  <2>6. end = p + Len(w) /\ Len(w) > 0
    <3>1. end = p + Len(w) /\ Len(w) >= 5
      BY <2>1, <2>3, <2>4, EndOfObject
    <3> QED
      BY <2>5, <3>1
  <2>7. obj = w
    <3> HIDE DEF end, w, p, t
    <3> QED
      BY <2>1, <2>4, <2>5, <2>6, PartIs
  <2>8. cut \in Seq(Letters) /\ (Len(w) < ObjSize => cut = w)
    <3> HIDE DEF obj, w
    <3>1. ObjSize \in Nat /\ ObjSize - 1 \in Nat
      BY JsonAssumption
    <3>2. CASE Len(w) < ObjSize
      BY <2>5, <2>7, <3>1, <3>2
    <3>3. CASE ~(Len(w) < ObjSize)
      <4>1. cut = SubSeq(w, 1, ObjSize - 1)
        BY <2>5, <2>7, <3>1, <3>3
      <4>2. \A i \in 1..(ObjSize - 1) : w[i] \in Letters
        BY <2>5, <3>1, <3>3, ElementOfSeq
      <4>3. SubSeq(w, 1, ObjSize - 1) \in Seq(Letters)
        BY <3>1, <4>2, SubSeqProperties
      <4> QED
        BY <3>3, <4>1, <4>3
    <3> QED
      BY <3>2, <3>3
  <2> HIDE DEF cut
  <2>9. x \in Seq(Letters) /\ (Len(w) < ObjSize => x = ReadsAs(v))
    BY <2>3, <2>8, ReadType, ValueIsRead
  <2> HIDE DEF x
  <2>10. /\ jtFound' \in Seq(Seq(Letters)) /\ Len(jtFound') = k + 1
         /\ (\A i \in 1..k : jtFound'[i] = jtFound[i]) /\ jtFound'[k + 1] = x
    BY <1>1, <1>6, <2>9, AppendProperties
  <2>11. ASSUME NEW i \in 1..Len(jtFound'), Len(ObjectText(vs[i])) < ObjSize PROVE jtFound'[i] = ReadsAs(vs[i])
    <3>1. CASE i = k + 1
      BY <2>9, <2>10, <2>11, <3>1
    <3>2. CASE i # k + 1
      <4>1. i \in 1..k
        BY <1>4, <2>10, <3>2
      <4> QED
        BY <1>1, <2>10, <2>11, <4>1
    <3> QED
      BY <3>1, <3>2
  <2> HIDE DEF end
  <2>12. CursorAt(jtValues', Len(jtFound'), jtCursor')
    BY <1>2, <1>6, <2>1, <2>10
  <2> QED
    BY <1>1, <1>2, <2>10, <2>11, <2>12 DEF TextInv
<1> QED
  BY <1>2, <1>5, <1>6

\* No step of the machine breaks it.
LEMMA TextStep == TextInv /\ [jtNext]_jtVars => TextInv'
<1> SUFFICES ASSUME TextInv, [jtNext]_jtVars PROVE TextInv'
  OBVIOUS
<1>1. CASE Response
  <2>1. jtValues' \in Seq(Seq(Chars))
    <3>1. \A S : \A m \in Nat : SeqOf(S, m) \subseteq Seq(S)
      BY DEF SeqOf
    <3>2. MaxValue \in Nat /\ MaxObjects \in Nat
      BY JsonAssumption
    <3>3. Value \subseteq Seq(Chars)
      BY <3>1, <3>2 DEF Value
    <3>4. jtValues' \in Seq(Value)
      BY <1>1, <3>1, <3>2 DEF Response
    <3> QED
      BY <3>3, <3>4
  <2>2. jtText' = ArrayText(jtValues') /\ jtCursor' = 1 /\ jtFound' = << >>
    BY <1>1 DEF Response
  <2>3. CursorAt(jtValues', Len(jtFound'), jtCursor') /\ jtFound' \in Seq(Seq(Letters)) /\ Len(jtFound') = 0
    BY <2>1, <2>2, FreshResponse
  <2> QED
    BY <2>1, <2>2, <2>3 DEF TextInv
<1>2. CASE json_array_next
  BY <1>2, NextObjectStep
<1>3. CASE UNCHANGED jtVars
  BY <1>3 DEF TextInv, jtVars
<1> QED
  BY <1>1, <1>2, <1>3 DEF jtNext

\* It holds at the start.
LEMMA TextStart == jtInit => TextInv
<1> SUFFICES ASSUME jtInit PROVE TextInv
  OBVIOUS
<1>1. jtValues = << >> /\ jtText = ArrayText(jtValues) /\ jtCursor = 1 /\ jtFound = << >>
  BY DEF jtInit
<1>2. jtValues \in Seq(Seq(Chars))
  BY <1>1, EmptySeq
<1>3. CursorAt(jtValues, Len(jtFound), jtCursor) /\ jtFound \in Seq(Seq(Letters)) /\ Len(jtFound) = 0
  BY <1>1, <1>2, FreshResponse
<1> QED
  BY <1>1, <1>2, <1>3 DEF TextInv

\* It says that a text is neither torn nor shifted.
LEMMA TextsAreWhole == TextInv => TextIsFaithful /\ jtTypeOK
<1> SUFFICES ASSUME TextInv PROVE TextIsFaithful /\ jtTypeOK
  OBVIOUS
<1> DEFINE vs == jtValues
           k == Len(jtFound)
           p == SkipSeparators(jtText, jtCursor)
<1>1. /\ vs \in Seq(Seq(Chars)) /\ jtText = ArrayText(vs) /\ jtFound \in Seq(Seq(Letters)) /\ CursorAt(vs, k, jtCursor)
      /\ \A i \in 1..k : Len(ObjectText(vs[i])) < ObjSize => jtFound[i] = ReadsAs(vs[i])
  BY DEF TextInv
<1>2. (k = Len(vs) => At(jtText, p) = "]") /\ (k # Len(vs) => At(jtText, p) = "open")
  <2>1. p = SkipSeparators(jtText, jtCursor)
    OBVIOUS
  <2> HIDE DEF k, p, vs
  <2> QED
    BY <1>1, <2>1, NextIsFound
<1>4. k \in 0..Len(vs) /\ Len(vs) \in Nat
  BY <1>1, LenProperties DEF CursorAt
<1>5. ArrayIsSplit
  BY <1>1, <1>2, <1>4 DEF ArrayIsSplit
<1>6. EscapeIsWhole
  <2>1. \A i \in 1..Len(vs) : vs[i] \in Seq(Chars)
    BY <1>1, ElementOfSeq
  <2> QED
    BY <2>1, EscapesWhole DEF EscapeIsWhole
<1>7. jtTypeOK
  <2>1. Len(jtText) \in Nat /\ Behind(vs, k) \in 2..Len(jtText) + 1 /\ 1 \in 1..Len(jtText) + 1
    BY <1>1, <1>4, Layout
  <2>2. jtCursor = Behind(vs, k) \/ jtCursor = 1
    BY <1>1 DEF CursorAt
  <2> QED
    BY <1>1, <2>1, <2>2 DEF jtTypeOK
<1> QED
  BY <1>5, <1>6, <1>7 DEF TextIsFaithful

\* Whatever characters the values of a response consist of, and however many it
\* has, its objects are found one for one and read back whole, and json_escape
\* cuts no escape in two (json_array_next, json_extract_string, json_escape).
THEOREM TextsComeBackWhole == TextSpec => []TextIsFaithful
BY TextStart, TextStep, TextsAreWhole, PTL DEF TextSpec

-----------------------------------------------------------------------------
(* Types of the limits' cache.                                             *)

\* What a client reads of an account's rows is no more than it has room for.
LEMMA FewLimits ==
    ASSUME NEW u, NEW rows \in SUBSET Row, \A r \in rows : r[1] = u
    PROVE  /\ parseLimitsResponse(rows) \in SUBSET Row
           /\ Cardinality(parseLimitsResponse(rows)) <= MAX_LIMITS
<1> DEFINE f == [r \in rows |-> r[2]]
           P == {s \in rows : Cardinality({q \in rows : f[q] < f[s]}) < MAX_LIMITS}
<1>1. f \in [rows -> Nat] /\ MAX_LIMITS \in Nat
  BY LimitsAssumption DEF Row
<1>2. \A s, t \in rows : f[s] = f[t] => s = t
  <2> SUFFICES ASSUME NEW s \in rows, NEW t \in rows, f[s] = f[t] PROVE s = t
    OBVIOUS
  <2>1. s = <<s[1], s[2]>> /\ t = <<t[1], t[2]>>
    BY DEF Row
  <2> QED
    BY <2>1
<1>3. P = parseLimitsResponse(rows)
  <2>1. \A s \in rows : {q \in rows : f[q] < f[s]} = {q \in rows : q[2] < s[2]}
    OBVIOUS
  <2> QED
    BY <2>1 DEF parseLimitsResponse
<1> HIDE DEF f
<1>4. Cardinality(P) <= MAX_LIMITS
  BY <1>1, <1>2, FewComeFirst
<1>5. P \in SUBSET Row
  OBVIOUS
<1> QED
  BY <1>3, <1>4, <1>5

\* The cache comes from a pull or from the file, and the file from a pull.
Few(lims) == Cardinality(lims) <= MAX_LIMITS

LimitsTypes == alTypeOK /\ LimitsInv /\ Few(alPull.held.lims) /\ Few(alDisk.lims)

\* Every step keeps the types.
LEMMA LimitsTypesStep == LimitsTypes /\ [alNext]_alVars => LimitsTypes'
<1> SUFFICES ASSUME LimitsTypes, [alNext]_alVars PROVE LimitsTypes'
  OBVIOUS
<1>0. LimitsInv'
  BY LimitsStep DEF LimitsTypes
<1>a. Few({}) /\ Nothing \in Held /\ Nothing.lims = {}
  BY FS_EmptySet, LimitsAssumption DEF Few, Nothing, Held
<1> USE DEF LimitsTypes, alTypeOK
<1>1. ASSUME NEW u \in Accounts, LogIn(u) PROVE LimitsTypes'
  BY <1>0, <1>1 DEF LogIn
<1>2. ASSUME NEW u \in Accounts, NEW lims \in SUBSET ({u} \X LimitSet), ParentSets(u, lims)
      PROVE LimitsTypes'
  <2>1. lims \in SUBSET Row
    BY DEF Row
  <2> QED
    BY <1>0, <1>2, <2>1 DEF ParentSets
<1>3. CASE LogOut \/ NetworkChanges \/ CheckBegin
  BY <1>0, <1>3 DEF LogOut, NetworkChanges, CheckBegin
<1>4. CASE AgentRestart \/ fetchFails
  <2>1. alPull' = Idle /\ Idle.at = "idle" /\ Idle.held = Nothing
    BY <1>4 DEF AgentRestart, fetchFails, Idle
  <2>2. CASE AgentRestart
    <3>1. alCache' \in [loaded : BOOLEAN, held : Held] /\ alCache'.held = Nothing
      BY <1>a, <2>2 DEF AgentRestart
    <3> QED
      BY <1>0, <1>a, <2>1, <2>2, <3>1 DEF AgentRestart, Few
  <2>3. CASE fetchFails
    BY <1>0, <1>a, <2>1, <2>3 DEF fetchFails
  <2> QED
    BY <1>4, <2>2, <2>3
<1>5. CASE RefreshBegin
  <2>1. [user |-> alMe, lims |-> {}] \in Held
    BY DEF Held
  <2> QED
    BY <1>0, <1>a, <1>5, <2>1 DEF RefreshBegin
<1>6. CASE fetchLimits
  <2> DEFINE u == alPull.held.user
             some == IF alMe = u THEN alSet[u] ELSE {}
             rows == parseLimitsResponse(some)
  <2>1. u \in Accounts
    BY <1>6 DEF fetchLimits, LimitsInv
  <2>2. some \in SUBSET Row /\ \A r \in some : r[1] = u
    BY <2>1 DEF LimitsInv
  <2>3. alPull' = [at |-> "answered", held |-> [user |-> u, lims |-> rows]]
    BY <1>6 DEF fetchLimits
  <2> HIDE DEF u, some
  <2>4. rows \in SUBSET Row /\ Few(rows)
    BY <2>2, FewLimits DEF Few
  <2> HIDE DEF rows
  <2>5. alPull'.held \in Held /\ alPull'.at = "answered" /\ Few(alPull'.held.lims)
    BY <2>1, <2>3, <2>4 DEF Held
  <2> QED
    BY <1>0, <1>6, <2>5 DEF fetchLimits
<1>7. CASE RefreshStore
  <2>1. alDisk' \in {alDisk, alPull.held} /\ alDirty' \in BOOLEAN
    BY <1>7 DEF RefreshStore, saveCacheToDisk
  <2>2. alCache' = [loaded |-> TRUE, held |-> alPull.held] /\ alPull' = Idle
        /\ UNCHANGED <<alSet, alMe, alOnline, alCheck, alForced>>
    BY <1>7 DEF RefreshStore
  <2> QED
    BY <1>0, <1>a, <2>1, <2>2 DEF Idle, Few
<1>8. CASE applimits_get_my_limits
  <2> DEFINE cache == IF alCache.loaded THEN alCache ELSE loadCacheFromDiskLocked
  <2>1. cache \in [loaded : BOOLEAN, held : Held] /\ Few(cache.held.lims)
    BY DEF loadCacheFromDiskLocked, Few
  <2>2. /\ alCache' = cache /\ alCheck' = NoOne /\ alCheck # NoOne
        /\ alForced' = [user |-> alCheck, lims |-> IF cache.held.user = alCheck THEN cache.held.lims ELSE {}]
        /\ UNCHANGED <<alSet, alMe, alOnline, alDisk, alDirty, alPull>>
    BY <1>8 DEF applimits_get_my_limits
  <2> HIDE DEF cache
  <2>3. alForced' \in Held
    BY <2>1, <2>2 DEF Held
  <2> QED
    BY <1>0, <2>1, <2>2, <2>3 DEF Few
<1>9. CASE UNCHANGED alVars
  BY <1>0, <1>9 DEF alVars
<1> QED
  BY <1>1, <1>2, <1>3, <1>4, <1>5, <1>6, <1>7, <1>8, <1>9 DEF alNext

\* Where the limits start.
LEMMA LimitsTypesStart == alInit => LimitsTypes
<1> SUFFICES ASSUME alInit PROVE LimitsTypes
  OBVIOUS
<1>1. Few({}) /\ Nothing \in Held /\ Nothing.lims = {}
  BY FS_EmptySet, LimitsAssumption DEF Few, Nothing, Held
<1>2. LimitsInv
  BY DEF alInit, LimitsInv, OwnRows, Idle, Nothing
<1>3. alCache \in [loaded : BOOLEAN, held : Held] /\ alCache.held = Nothing
  BY <1>1 DEF alInit
<1>4. alPull.at = "idle" /\ alPull.held = Nothing
  BY DEF alInit, Idle
<1>5. alSet \in [Accounts -> SUBSET Row]
  BY DEF alInit
<1> QED
  BY <1>1, <1>2, <1>3, <1>4, <1>5 DEF alInit, LimitsTypes, alTypeOK, Few

-----------------------------------------------------------------------------
(* Types of the log of a day.                                              *)

\* The seconds of a process since midnight fit into the day.
LEMMA DayGivesTypes == DayInv => dtTypeOK
<1> SUFFICES ASSUME DayInv PROVE dtTypeOK
  OBVIOUS
<1>1. LogTypes /\ dtNow \in Nat /\ dtNow <= LastTick /\ DayLen \in Nat /\ LastTick \in Nat
  BY DayAssumption DEF DayInv, LogTypes
<1>2. todayStart \in Int /\ dtNow < todayStart + DayLen
  BY <1>1, TodayBegan
<1>3. dtUsed \in [Procs -> Nat] /\ \A p \in Procs : dtUsed[p] <= dtNow - todayStart
  BY <1>1 DEF LogTypes
<1>4. \A p \in Procs : dtUsed[p] \in 0..DayLen
  BY <1>1, <1>2, <1>3
<1>5. dtUsed \in [Procs -> 0..DayLen]
  BY <1>3, <1>4
<1>6. ASSUME NEW r \in Range(dtRows)
      PROVE  /\ r.proc \in Procs /\ r.start \in 0..dtNow /\ r.dur \in Nat /\ r.start + r.dur <= dtNow
  <2>1. PICK k \in DOMAIN dtRows : r = dtRows[k]
    BY DEF Range
  <2>2. r \in LogRow /\ r.start + r.dur <= dtNow
    BY <1>1, <2>1 DEF LogTypes
  <2>3. r.proc \in Procs /\ r.start \in Nat /\ r.dur \in Nat
    BY <2>2 DEF LogRow
  <2> QED
    BY <1>1, <2>2, <2>3
<1>7. dtOpen = <<>> \/ dtOpen \in Procs \X (0..dtNow)
  BY <1>1 DEF LogTypes
<1> QED
  BY <1>1, <1>5, <1>6, <1>7 DEF dtTypeOK

-----------------------------------------------------------------------------
(* Types of the cloud loop.                                                *)

\* A clean-up leaves no more files than are to be kept.
LEMMA FewBackups ==
    ASSUME NEW files \in SUBSET File, \A f, g \in files : f.name = g.name => f = g
    PROVE  /\ cleanupOldBackups(files) \in SUBSET files
           /\ Cardinality(cleanupOldBackups(files)) \in 0..BACKUP_KEEP_COUNT
<1> DEFINE h == [f \in files |-> LastTime - f.name]
           P == {s \in files : Cardinality({q \in files : h[q] < h[s]}) < BACKUP_KEEP_COUNT}
<1>1. LastTime \in Nat /\ BACKUP_KEEP_COUNT \in Nat
  BY LoopAssumption
<1>2. \A f \in files : f.name \in 0..LastTime
  BY DEF File
<1>3. h \in [files -> Nat]
  BY <1>1, <1>2
<1>4. \A s, t \in files : h[s] = h[t] => s = t
  BY <1>1, <1>2
<1>a. \A s, t \in files : h[s] < h[t] <=> s.name > t.name
  BY <1>1, <1>2
<1>5. P = cleanupOldBackups(files)
  <2>1. \A s \in files : {q \in files : h[q] < h[s]} = {q \in files : q.name > s.name}
    BY <1>a
  <2> QED
    BY <2>1 DEF cleanupOldBackups
<1> HIDE DEF h
<1>6. IsFiniteSet(P) /\ Cardinality(P) <= BACKUP_KEEP_COUNT
  BY ONLY <1>1, <1>3, <1>4, FewComeFirst
<1>7. Cardinality(P) \in 0..BACKUP_KEEP_COUNT
  BY <1>1, <1>6, FS_CardinalityType
<1> QED
  BY <1>5, <1>7

\* A file's name is a second, and there is one file of a name.
LoopTypes ==
    /\ clTypeOK /\ SnapshotInv
    /\ \A f, g \in clFiles : f.name = g.name => f = g
    /\ Cardinality(clFiles) \in 0..BACKUP_KEEP_COUNT

\* The start of the thread is a state of its timers.
LEMMA LoopStartType == clNow \in Nat => LoopStart \in [{"sync", "backup", "limits"} -> Int]
<1> SUFFICES ASSUME clNow \in Nat PROVE LoopStart \in [{"sync", "backup", "limits"} -> Int]
  OBVIOUS
<1>1. -SyncInterval \in Int /\ -LimitsInterval \in Int /\ clNow \in Int
  BY LoopAssumption
<1> QED
  BY <1>1 DEF LoopStart

\* Every step of the loop keeps the types.
LEMMA LoopTypesStep == LoopTypes /\ [clNext]_clVars => LoopTypes'
<1> SUFFICES ASSUME LoopTypes, [clNext]_clVars PROVE LoopTypes'
  OBVIOUS
<1>0. SnapshotInv'
  BY SnapshotStep DEF LoopTypes
<1>a. LastTime \in Nat /\ MaxRows \in Nat /\ BACKUP_KEEP_COUNT \in Nat
      /\ {SyncInterval, LimitsInterval, MaxBackoff, FirstBackoff} \subseteq Nat /\ FirstBackoff <= MaxBackoff
  BY LoopAssumption
<1>b. NoExport \in [changes : 0..MaxRows, name : 0..LastTime, rows : 0..MaxRows, first : BOOLEAN]
  BY <1>a DEF NoExport
<1> USE DEF LoopTypes, clTypeOK
<1>1. CASE RowStored
  BY <1>0, <1>1, <1>a DEF RowStored
<1>2. CASE SetBack
  BY <1>0, <1>2, <1>a DEF SetBack
<1>3. CASE LoopRestart
  BY <1>0, <1>3, <1>a, <1>b, LoopStartType DEF LoopRestart
<1>4. CASE SyncTurn
  <2>1. \A failed \in BOOLEAN : NextBackoff(failed) \in 0..MaxBackoff
    BY <1>a DEF NextBackoff
  <2> QED
    BY <1>0, <1>4, <1>a, <2>1 DEF SyncTurn
<1>5. CASE LimitsTurn
  BY <1>0, <1>5, <1>a DEF LimitsTurn
<1>6. CASE BackupTurn
  <2>1. ASSUME NEW first \in BOOLEAN
        PROVE [changes |-> clChanges, name |-> clNow, rows |-> 0, first |-> first]
                \in [changes : 0..MaxRows, name : 0..LastTime, rows : 0..MaxRows, first : BOOLEAN]
    BY <1>a
  <2>2. clExport' \in [changes : 0..MaxRows, name : 0..LastTime, rows : 0..MaxRows, first : BOOLEAN]
    BY <1>6, <2>1 DEF BackupTurn, SnapshotBegin, db_change_counter
  <2>3. clAt' \in {"sync", "prune", "export", "sleep"}
    BY <1>6 DEF BackupTurn, SnapshotBegin
  <2> QED
    BY <1>0, <1>6, <2>2, <2>3 DEF BackupTurn
<1>7. CASE db_export_json
  BY <1>0, <1>7, <1>a DEF db_export_json
<1>8. CASE SnapshotDone
  <2> DEFINE file == [name |-> clExport.name, rows |-> clExport.rows]
             files == {f \in clFiles : f.name # file.name} \cup {file}
  <2>1. /\ clAt = "move" /\ clFiles' = cleanupOldBackups(files)
        /\ clSaved' = clExport.changes /\ clExport' = NoExport
        /\ UNCHANGED <<clNow, clLast, clBackoff, clRows, clChanges, clJumped>>
        /\ clAt' \in {"sync", "prune"}
    BY <1>8 DEF SnapshotDone, AfterSnapshot
  <2>2. file \in File /\ file.name = clExport.name
    BY DEF File
  <2> HIDE DEF file
  <2>3. files \in SUBSET File /\ \A f, g \in files : f.name = g.name => f = g
    BY <2>2
  <2> HIDE DEF files
  <2>4. clFiles' \in SUBSET files /\ Cardinality(clFiles') \in 0..BACKUP_KEEP_COUNT
    BY <2>1, <2>3, FewBackups
  <2>5. Cardinality(clFiles') <= BACKUP_KEEP_COUNT + 1
    BY <1>a, <2>4
  <2>6. clSaved' \in -1..clChanges
    BY <2>1 DEF SnapshotInv
  <2> QED
    BY <1>0, <1>b, <2>1, <2>3, <2>4, <2>5, <2>6
<1>9. CASE SnapshotFails
  BY <1>0, <1>9, <1>b DEF SnapshotFails, AfterSnapshot
<1>10. CASE PruneTurn
  BY <1>0, <1>10, <1>a DEF PruneTurn
<1>11. CASE SleepTurn
  BY <1>0, <1>11, <1>a DEF SleepTurn
<1>12. CASE UNCHANGED clVars
  BY <1>0, <1>12 DEF clVars
<1> QED
  BY <1>1, <1>2, <1>3, <1>4, <1>5, <1>6, <1>7, <1>8, <1>9, <1>10, <1>11, <1>12 DEF clNext

\* Where the loop starts.
LEMMA LoopTypesStart == clInit => LoopTypes
<1> SUFFICES ASSUME clInit PROVE LoopTypes
  OBVIOUS
<1>1. SnapshotInv
  BY SnapshotStart
<1>2. clExport \in [changes : 0..MaxRows, name : 0..LastTime, rows : 0..MaxRows, first : BOOLEAN]
  BY LoopAssumption DEF clInit, NoExport
<1>3. clFiles = {} /\ Cardinality(clFiles) = 0
  BY FS_EmptySet DEF clInit
<1>4. clLast \in [{"sync", "backup", "limits"} -> Int]
  BY LoopStartType DEF clInit
<1>5. clSaved \in -1..clChanges
  BY DEF clInit
<1>6. /\ clAt = "start" /\ clNow = 0 /\ clBackoff = 0 /\ clRows = 0 /\ clChanges = 0 /\ clJumped = FALSE
  BY DEF clInit
<1> HIDE DEF clInit
<1>7. LastTime \in Nat /\ MaxRows \in Nat /\ MaxBackoff \in Nat /\ BACKUP_KEEP_COUNT \in Nat
  BY LoopAssumption
<1>8. clTypeOK
  <2>1. Cardinality(clFiles) <= BACKUP_KEEP_COUNT + 1
    BY <1>3, <1>7
  <2>2. clNow \in 0..LastTime /\ clBackoff \in 0..MaxBackoff /\ clRows \in 0..MaxRows /\ clChanges \in 0..clRows
    BY <1>6, <1>7
  <2>3. clFiles \subseteq File
    BY <1>3
  <2>4. clAt \in {"start", "sync", "limits", "backup", "export", "move", "prune", "sleep"} /\ clJumped \in BOOLEAN
    BY <1>6
  <2> QED
    BY <1>2, <1>4, <1>5, <2>1, <2>2, <2>3, <2>4 DEF clTypeOK
<1> QED
  BY <1>1, <1>3, <1>7, <1>8 DEF LoopTypes

-----------------------------------------------------------------------------
(* Types of the HTTP client.                                               *)

\* A request is carried out at most as often as it was sent: what was done and
\* the attempts still to come, the one under way included, are two at most.
HttpTypes ==
    /\ hcTypeOK /\ HttpInv
    /\ hcAt \in {"connect", "send"} => hcDone.times + hcReq.left + 1 <= 2
    /\ hcAt = "failed" => hcDone.times + hcReq.left <= 2

\* Every step of a request keeps the types.
LEMMA HttpTypesStep == HttpTypes /\ [hcNext]_hcVars => HttpTypes'
<1> SUFFICES ASSUME HttpTypes, [hcNext]_hcVars PROVE HttpTypes'
  OBVIOUS
<1>0. HttpInv'
  BY HttpStep DEF HttpTypes
<1>a. MaxBody \in Nat /\ HttpRequests \in Nat
  BY HttpAssumption
<1> USE DEF HttpTypes, hcTypeOK, HttpAsk
<1>1. ASSUME NEW h \in Hosts, NEW i \in BOOLEAN, httpsRequest(h, i) PROVE HttpTypes'
  <2>1. /\ hcReq' \in HttpAsk /\ hcReq'.left <= 1 /\ hcReq'.left \in Nat
        /\ hcDone' \in [by : SUBSET Hosts, times : 0..2] /\ hcDone'.times = 0
    BY <1>1 DEF httpsRequest, Attempts
  <2> QED
    BY <1>0, <1>1, <1>a, <2>1 DEF httpsRequest
<1>2. CASE OpenRequest
  <2>1. t_conn' \in Hosts \cup {NoHost}
    BY <1>2 DEF OpenRequest, ensure
  <2>2. hcAt = "connect" /\ hcAt' \in {"send", "failed"} /\ UNCHANGED <<hcReq, hcDone, hcBody, hcCount>>
    BY <1>2 DEF OpenRequest
  <2>3. hcDone.times \in Nat /\ hcReq.left \in Nat
    OBVIOUS
  <2> QED
    BY <1>0, <2>1, <2>2, <2>3
<1>3. CASE SendRequest
  <2> PICK carried \in BOOLEAN, answered \in BOOLEAN :
        /\ answered => carried
        /\ hcDone' = IF carried THEN [by |-> hcDone.by \cup {t_conn}, times |-> hcDone.times + 1] ELSE hcDone
        /\ IF answered THEN hcAt' = "read" /\ UNCHANGED t_conn
                       ELSE hcAt' = "failed" /\ t_conn' = NoHost
        /\ hcBody' \in [got : {0}, of : IF answered THEN 0..MaxBody + 1 ELSE {0}]
    BY <1>3 DEF SendRequest
  <2>1. hcAt = "send" /\ UNCHANGED <<hcReq, hcCount>> /\ hcReq.left \in Nat /\ hcDone.times \in Nat
    BY <1>3 DEF SendRequest
  <2>2. t_conn \in Hosts
    BY <2>1 DEF HttpInv
  <2>3. hcDone.times + 1 + hcReq.left <= 2 /\ hcDone.times + 1 \in 0..2
    BY <2>1
  <2>4. hcDone' \in [by : SUBSET Hosts, times : 0..2] /\ hcDone'.times + hcReq.left <= 2
    BY <2>1, <2>2, <2>3
  <2>5. hcBody' \in [got : 0..MaxBody, of : 0..MaxBody + 1]
    BY <1>a
  <2>6. t_conn' \in Hosts \cup {NoHost} /\ hcAt' \in {"read", "failed"}
    BY <2>2
  <2> QED
    BY <1>0, <2>1, <2>4, <2>5, <2>6
<1>4. CASE ReadBody
  BY <1>0, <1>4, <1>a DEF ReadBody
<1>5. CASE RetryOrGiveUp
  <2>1. hcReq.left \in Nat /\ hcDone.times \in Nat /\ hcAt = "failed"
    BY <1>5 DEF RetryOrGiveUp
  <2> QED
    BY <1>0, <1>5, <2>1 DEF RetryOrGiveUp
<1>6. CASE UNCHANGED hcVars
  BY <1>0, <1>6 DEF hcVars
<1> QED
  BY <1>1, <1>2, <1>3, <1>4, <1>5, <1>6 DEF hcNext

\* Where the thread starts.
LEMMA HttpTypesStart == hcInit => HttpTypes
<1> SUFFICES ASSUME hcInit PROVE HttpTypes
  OBVIOUS
<1>1. HttpInv
  BY DEF hcInit, HttpInv
<1>2. (CHOOSE h \in Hosts : TRUE) \in Hosts
  BY HttpAssumption
<1>3. hcReq \in HttpAsk
  BY <1>2 DEF hcInit, HttpAsk
<1>4. MaxBody \in Nat /\ HttpRequests \in Nat
  BY HttpAssumption
<1> QED
  BY <1>1, <1>3, <1>4 DEF hcInit, HttpTypes, hcTypeOK

-----------------------------------------------------------------------------
(* Types of the tray's tasks.                                              *)

\* A set of at most one version.
LEMMA OneVersion == \A v \in Releases : Cardinality({v}) <= 1 /\ {v} \subseteq Releases
<1> SUFFICES ASSUME NEW v \in Releases PROVE Cardinality({v}) <= 1 /\ {v} \subseteq Releases
  OBVIOUS
<1>1. Cardinality({v}) = 1
  BY FS_Singleton
<1> QED
  BY <1>1

\* Ticking or unticking the console gives a console.
LEMMA ConsoleType ==
    ASSUME ttConsole \in [ticked : BOOLEAN, created : BOOLEAN, enabled : BOOLEAN],
           NEW ok \in BOOLEAN, onToggleDebugConsole(ok)
    PROVE  ttConsole' \in [ticked : BOOLEAN, created : BOOLEAN, enabled : BOOLEAN]
<1> DEFINE a == ~ttConsole.ticked
           b == IF a THEN createConsole(ok) ELSE ttConsole.created
           c == a /\ createConsole(ok)
<1>1. ttConsole' = [ticked |-> a, created |-> b, enabled |-> c]
  BY DEF onToggleDebugConsole
<1>2. a \in BOOLEAN /\ b \in BOOLEAN /\ c \in BOOLEAN
  BY DEF createConsole
<1> HIDE DEF a, b, c
<1> QED
  BY <1>1, <1>2

\* Every step of the tasks keeps the types.
LEMMA TasksTypesStep == ttTypeOK /\ [ttNext]_ttVars => ttTypeOK'
<1> SUFFICES ASSUME ttTypeOK, [ttNext]_ttVars PROVE ttTypeOK'
  OBVIOUS
<1>a. MaxChecks \in Nat /\ MaxAttempts \in Nat \ {0}
  BY TasksAssumption
<1> DEFINE Up == /\ ttChecks \in 0..MaxChecks
                 /\ m_manualUpdateCheck \in BOOLEAN /\ ttOffered \in BOOLEAN
                 /\ ttDownload \subseteq Releases /\ Cardinality(ttDownload) <= 1
                 /\ m_lastNotifiedVersion \subseteq Releases /\ Cardinality(m_lastNotifiedVersion) <= 1
           WebOK == ttServer \in BOOLEAN /\ ttTimers \in [Clicks -> NotAsking..Opened]
           Dash == ttDash \in [holding : 0..1, windows : 0..1]
           Con == ttConsole \in [ticked : BOOLEAN, created : BOOLEAN, enabled : BOOLEAN]
<1>b. Up /\ WebOK /\ Dash /\ Con
  BY DEF ttTypeOK
<1>c. Up' /\ WebOK' /\ Dash' /\ Con' => ttTypeOK'
  BY DEF ttTypeOK
<1>1. CASE Updates /\ UNCHANGED <<webVars, ttDash, ttConsole>>
  <2>1. WebOK' /\ Dash' /\ Con'
    BY <1>b, <1>1 DEF webVars
  <2>2. Up'
    <3>1. CASE TimedCheck \/ onCheckForUpdates
      <4>1. ttChecks' \in 0..MaxChecks
        BY <1>a, <1>b, <3>1 DEF TimedCheck, onCheckForUpdates, checkNow
      <4>2. /\ m_manualUpdateCheck' \in BOOLEAN
            /\ ttDownload' = ttDownload /\ m_lastNotifiedVersion' = m_lastNotifiedVersion
        BY <3>1 DEF TimedCheck, onCheckForUpdates
      <4>3. ttOffered' \in BOOLEAN
        BY <1>b, <3>1 DEF TimedCheck, onCheckForUpdates
      <4> QED
        BY <1>b, <4>1, <4>2, <4>3
    <3>2. CASE onReply
      <4>1. /\ ttChecks' \in 0..MaxChecks /\ m_manualUpdateCheck' = FALSE /\ ttOffered' = TRUE
            /\ ttDownload' = ttDownload \/ \E v \in Releases : ttDownload' = {v}
            /\ \/ m_lastNotifiedVersion' = m_lastNotifiedVersion
               \/ \E v \in Releases : m_lastNotifiedVersion' = {v}
        BY <1>a, <1>b, <3>2 DEF onReply, onUpdateCheckFailed, onUpdateAvailable, onUpdateUpToDate
      <4> QED
        BY <1>b, <4>1, OneVersion
    <3> QED
      BY <1>1, <3>1, <3>2 DEF Updates
  <2> QED
    BY <1>c, <2>1, <2>2
<1>2. CASE Web /\ UNCHANGED <<upVars, ttDash, ttConsole>>
  <2>1. Up' /\ Dash' /\ Con'
    BY <1>b, <1>2 DEF upVars
  <2>2. WebOK'
    <3>1. CASE ServerChanges
      BY <1>b, <3>1 DEF ServerChanges
    <3>2. ASSUME NEW c \in Clicks, openWebDashboard(c) \/ RetryTimer(c) \/ launchDashboard(c) PROVE WebOK'
      BY <1>a, <1>b, <3>2
         DEF openWebDashboard, RetryTimer, launchDashboard, isPortOpen, NotAsking, Opened
    <3> QED
      BY <1>2, <3>1, <3>2 DEF Web
  <2> QED
    BY <1>c, <2>1, <2>2
<1>3. CASE (DashMain \/ DashWindow \/ DashExit) /\ UNCHANGED <<upVars, webVars, ttConsole>>
  <2>1. Dash'
    BY <1>b, <1>3 DEF DashMain, DashWindow, DashExit
  <2>2. Up' /\ WebOK' /\ Con'
    BY <1>b, <1>3 DEF upVars, webVars
  <2> QED
    BY <1>c, <2>1, <2>2
<1>4. ASSUME NEW ok \in BOOLEAN, onToggleDebugConsole(ok), UNCHANGED <<upVars, webVars, ttDash>> PROVE ttTypeOK'
  <2>1. Con'
    BY <1>b, <1>4, ConsoleType
  <2>2. Up' /\ WebOK' /\ Dash'
    BY <1>b, <1>4 DEF upVars, webVars
  <2> QED
    BY <1>c, <2>1, <2>2
<1>5. CASE UNCHANGED ttVars
  <2>1. Up' /\ WebOK' /\ Dash' /\ Con'
    BY <1>b, <1>5 DEF ttVars, upVars, webVars
  <2> QED
    BY <1>c, <2>1
<1> QED
  BY <1>1, <1>2, <1>3, <1>4, <1>5 DEF ttNext

\* Where the tasks start.
LEMMA TasksTypesStart == ttInit => ttTypeOK
<1> SUFFICES ASSUME ttInit PROVE ttTypeOK
  OBVIOUS
<1>1. Cardinality({}) <= 1
  BY FS_EmptySet
<1>2. ttTimers \in [Clicks -> NotAsking..Opened]
  BY TasksAssumption DEF ttInit, NotAsking, Opened
<1>3. ttDownload = {} /\ m_lastNotifiedVersion = {}
  BY DEF ttInit
<1>4. ttChecks \in 0..MaxChecks
  BY TasksAssumption DEF ttInit
<1>6. {m_manualUpdateCheck, ttOffered, ttServer} \subseteq BOOLEAN
  <2>1. m_manualUpdateCheck \in BOOLEAN /\ ttOffered \in BOOLEAN /\ ttServer \in BOOLEAN
    BY DEF ttInit
  <2> QED
    BY <2>1
<1>5. /\ ttDash \in [holding : 0..1, windows : 0..1]
      /\ ttConsole \in [ticked : BOOLEAN, created : BOOLEAN, enabled : BOOLEAN]
  BY DEF ttInit
<1> QED
  BY <1>1, <1>2, <1>3, <1>4, <1>5, <1>6 DEF ttTypeOK

-----------------------------------------------------------------------------
(* Types of the settings.                                                  *)

\* The fields of the three pages together.
PageSet == [general : Low..High, supabase : {0, 1}, remote : {0, 1}, token : 0..MaxToken]

SettingsTypes ==
    /\ g_settings \in AppSettings
    /\ settings_ini = {} \/ \E s \in AppSettings : settings_ini = {s}
    /\ runKey \in Values /\ spage \in PageSet
    /\ stUp \in BOOLEAN /\ stToken \in 0..MaxToken /\ stFailed \in BOOLEAN

\* A spin box holds a value of its range, whatever number it is given.
LEMMA SpinInRange == ASSUME NEW v \in Values PROVE SpinValue(v) \in Low..High
<1>1. v \in Nat /\ Low \in Nat /\ High \in Nat /\ Low <= High
  BY SettingsAssumption DEF Values
<1> DEFINE m == Min({High, v})
<1>2. m \in {High, v} /\ m <= High
  <2>1. \E x \in {High, v} : \A y \in {High, v} : x <= y
    BY <1>1
  <2>2. m \in {High, v} /\ \A y \in {High, v} : m <= y
    BY <2>1 DEF Min
  <2> QED
    BY <2>2
<1> HIDE DEF m
<1> DEFINE n == Max({Low, m})
<1>3. m \in Nat
  BY <1>1, <1>2
<1>4. n \in {Low, m} /\ n >= Low
  <2>1. \E x \in {Low, m} : \A y \in {Low, m} : x >= y
    BY <1>1, <1>3
  <2>2. n \in {Low, m} /\ \A y \in {Low, m} : n >= y
    BY <2>1 DEF Max
  <2> QED
    BY <2>2
<1>5. n \in Low..High
  <2> HIDE DEF n
  <2> QED
    BY <1>1, <1>2, <1>3, <1>4
<1> QED
  BY <1>5 DEF SpinValue, m

\* The pages built from settings hold fields.
LEMMA PagesType == ASSUME NEW s \in AppSettings PROVE PagesOf(s) \in PageSet
<1>1. /\ s.general \in Values /\ s.supabase \in {0, 1} /\ s.remote \in {0, 1} /\ s.token \in 0..MaxToken
  BY DEF AppSettings
<1>2. SpinValue(s.general) \in Low..High
  BY <1>1, SpinInRange
<1> QED
  BY <1>1, <1>2 DEF PagesOf, PageSet, SettingsPage, SupabaseSetupPage, RemoteViewPage

\* The defaults are settings.
LEMMA DefaultsType == setDefaults \in AppSettings /\ setDefaults.token = 0
BY SettingsAssumption DEF setDefaults, AppSettings, Values

\* The settings with the fields of a page are settings.
LEMMA WithFieldsType ==
    ASSUME NEW s \in AppSettings, spage \in PageSet, NEW p \in DOMAIN PageFields
    PROVE  WithFields(s, PageFields[p]) \in AppSettings
<1> DEFINE r == WithFields(s, PageFields[p])
<1>1. PageFields[p] \subseteq {"general", "supabase", "remote", "token"}
  BY DEF PageFields
<1>2. /\ \A f \in Fields : r[f] = s[f] \/ (f \in {"general", "supabase", "remote", "token"} /\ r[f] = spage[f])
      /\ DOMAIN r = Fields
  BY <1>1 DEF WithFields
<1>3. r = [f \in Fields |-> r[f]]
  BY DEF WithFields
<1> HIDE DEF r
<1>4. /\ s["general"] \in Values /\ s["supabase"] \in {0, 1} /\ s["remote"] \in {0, 1}
      /\ s["token"] \in 0..MaxToken /\ s["backoff"] \in {0, 1}
  BY DEF AppSettings
<1>5. /\ spage["general"] \in Values /\ spage["supabase"] \in {0, 1} /\ spage["remote"] \in {0, 1}
      /\ spage["token"] \in 0..MaxToken
  BY DEF PageSet, Values
<1>6. /\ r["general"] \in Values /\ r["supabase"] \in {0, 1} /\ r["remote"] \in {0, 1}
      /\ r["token"] \in 0..MaxToken /\ r["backoff"] \in {0, 1}
  BY <1>2, <1>4, <1>5 DEF Fields
<1>7. r = [general |-> r["general"], supabase |-> r["supabase"], remote |-> r["remote"],
           token |-> r["token"], backoff |-> r["backoff"]]
  BY <1>3 DEF Fields
<1>8. r \in AppSettings
  BY <1>6, <1>7 DEF AppSettings
<1> QED
  BY <1>8 DEF r

\* A save of a page keeps the types.
LEMMA UpdateType ==
    ASSUME SettingsTypes, NEW s \in AppSettings, NEW reg \in BOOLEAN, NEW ok \in BOOLEAN,
           settings_update(s, reg, ok)
    PROVE  SettingsTypes'
<1>1. s.general \in Values
  BY DEF AppSettings
<1>2. g_settings' = s /\ runKey' \in Values /\ stFailed' \in BOOLEAN /\ UNCHANGED <<spage, stUp, stToken>>
  BY <1>1 DEF settings_update, settings_apply_autostart, SettingsTypes
<1>3. settings_ini' = settings_ini \/ settings_ini' = {s}
  BY DEF settings_update, settings_save, writeFileAtomic
<1> QED
  BY <1>2, <1>3 DEF SettingsTypes

\* Every start, stop, edit and save keeps the types.
LEMMA SettingsTypesStep == SettingsTypes /\ [stNext]_stVars => SettingsTypes'
<1> SUFFICES ASSUME SettingsTypes, [stNext]_stVars PROVE SettingsTypes'
  OBVIOUS
<1>a. MaxToken \in Nat /\ stToken \in 0..MaxToken
  BY SettingsAssumption DEF SettingsTypes
<1>1. CASE StartAgent
  <2> PICK ok1 \in BOOLEAN, ok2 \in BOOLEAN : settings_load(ok1, ok2)
    BY <1>1 DEF StartAgent
  <2> DEFINE read == applyIniValues(settings_ini)
             file == IF settings_ini = {} THEN settings_save({}, read, ok1) ELSE settings_ini
             new == [read EXCEPT !.token = generateRemoteViewToken]
  <2>1. read \in AppSettings
    <3>1. CASE settings_ini = {}
      BY <3>1, DefaultsType DEF applyIniValues
    <3>2. CASE settings_ini # {}
      BY <3>2 DEF applyIniValues, SettingsTypes
    <3> QED
      BY <3>1, <3>2
  <2>2. file = {} \/ \E s \in AppSettings : file = {s}
    BY <2>1 DEF settings_save, writeFileAtomic, SettingsTypes
  <2>3. /\ g_settings' \in AppSettings /\ (settings_ini' = {} \/ \E s \in AppSettings : settings_ini' = {s})
        /\ stToken' \in 0..MaxToken /\ stFailed' \in BOOLEAN
    <3>1. CASE read.token # 0
      <4>1. g_settings' = read /\ settings_ini' = file /\ stFailed' = FALSE /\ stToken' = stToken
        BY <3>1 DEF settings_load
      <4> HIDE DEF read, file
      <4> QED
        BY <1>a, <2>1, <2>2, <4>1
    <3>2. CASE read.token = 0
      <4>1. /\ stToken < MaxToken /\ stToken' = stToken + 1 /\ g_settings' = new
            /\ settings_ini' = settings_save(file, new, ok2) /\ stFailed' = ~ok2
        BY <3>2 DEF settings_load
      <4>2. stToken + 1 \in 0..MaxToken
        BY <1>a, <4>1
      <4> HIDE DEF read
      <4>3. new \in AppSettings
        BY <2>1, <4>2 DEF generateRemoteViewToken, AppSettings
      <4> HIDE DEF new, file
      <4>4. settings_ini' = file \/ settings_ini' = {new}
        BY <4>1 DEF settings_save, writeFileAtomic
      <4> QED
        BY <2>2, <4>1, <4>2, <4>3, <4>4
    <3> QED
      BY <3>1, <3>2
  <2>4. spage' \in PageSet
    BY <1>1, <2>3, PagesType DEF StartAgent
  <2> HIDE DEF read, file, new
  <2> QED
    BY <1>1, <2>3, <2>4 DEF StartAgent, SettingsTypes
<1>2. CASE StopAgent
  BY <1>2 DEF StopAgent, SettingsTypes
<1>3. CASE EditFile
  <2>1. ASSUME NEW s \in settings_ini, NEW v \in Hand
        PROVE [s EXCEPT !.general = v] \in AppSettings /\ [s EXCEPT !.token = 0] \in AppSettings
    BY <1>a DEF SettingsTypes, AppSettings, Values
  <2> QED
    BY <1>3, <2>1 DEF EditFile, SettingsTypes
<1>4. CASE EditPage
  <2>1. spage' \in PageSet
    BY <1>4 DEF EditPage, SettingsTypes, PageSet
  <2> QED
    BY <1>4, <2>1 DEF EditPage, SettingsTypes
<1>5. CASE onRegenerateToken
  <2>1. spage' \in PageSet /\ stToken' \in 0..MaxToken
    BY <1>5, <1>a DEF onRegenerateToken, SettingsTypes, PageSet
  <2> QED
    BY <1>5, <2>1 DEF onRegenerateToken, SettingsTypes
<1>6. ASSUME NEW reg \in BOOLEAN, NEW ok \in BOOLEAN,
             onSaveSettings(reg, ok) \/ onSaveSupabase(reg, ok) \/ onSaveRemoteView(reg, ok)
      PROVE  SettingsTypes'
  <2>1. /\ "settings" \in DOMAIN PageFields /\ "supabase" \in DOMAIN PageFields /\ "remote" \in DOMAIN PageFields
    BY DEF PageFields
  <2>2. PICK p \in DOMAIN PageFields : settings_update(WithFields(g_settings, PageFields[p]), reg, ok)
    BY <1>6, <2>1 DEF onSaveSettings, onSaveSupabase, onSaveRemoteView
  <2>3. WithFields(g_settings, PageFields[p]) \in AppSettings
    BY WithFieldsType DEF SettingsTypes
  <2> QED
    BY <2>2, <2>3, UpdateType
<1>7. CASE UNCHANGED stVars
  BY <1>7 DEF stVars, SettingsTypes
<1> QED
  BY <1>1, <1>2, <1>3, <1>4, <1>5, <1>6, <1>7 DEF stNext

\* Where the settings start.
LEMMA SettingsTypesStart == stInit => SettingsTypes
<1> SUFFICES ASSUME stInit PROVE SettingsTypes
  OBVIOUS
<1>1. spage \in PageSet /\ g_settings \in AppSettings
  BY DefaultsType, PagesType DEF stInit
<1>2. runKey \in Values /\ stToken \in 0..MaxToken
  BY SettingsAssumption DEF stInit, Values
<1> QED
  BY <1>1, <1>2 DEF stInit, SettingsTypes

\* What the types say of the settings.
LEMMA SettingsTypesGive == SettingsTypes => stTypeOK
<1> SUFFICES ASSUME SettingsTypes PROVE stTypeOK
  OBVIOUS
<1>1. settings_ini \subseteq AppSettings /\ Cardinality(settings_ini) <= 1
  <2>1. CASE settings_ini = {}
    BY <2>1, FS_EmptySet
  <2>2. ASSUME NEW s \in AppSettings, settings_ini = {s} PROVE Cardinality(settings_ini) = 1
    BY <2>2, FS_Singleton
  <2> QED
    BY <2>1, <2>2 DEF SettingsTypes
<1>2. /\ [general |-> spage.general] \in SettingsFields
      /\ [supabase |-> spage.supabase] \in SupabaseFields
      /\ [remote |-> spage.remote, token |-> spage.token] \in RemoteViewFields
  BY DEF SettingsTypes, PageSet, SettingsFields, SupabaseFields, RemoteViewFields
<1> QED
  BY <1>1, <1>2 DEF SettingsTypes, stTypeOK

-----------------------------------------------------------------------------
(* Types of the machine's identity.                                        *)

Labels == DeviceLabels \cup {Unnamed}
FileSet == [id : DeviceIds \cup {NoId, Garbled}, label : Labels]
ProgramSet == [stage : Stages, id : DeviceIds \cup {NoId}, label : Labels]
Heartbeat == [id : DeviceIds, host : HostNames]

\* A program that runs has an id, so it reports no row without one.
DeviceTypes ==
    /\ deviceFile \in FileSet
    /\ agentDev \in ProgramSet /\ (agentDev.stage # "off" => agentDev.id \in DeviceIds)
    /\ dashDev \in ProgramSet /\ (dashDev.stage # "off" => dashDev.id \in DeviceIds)
    /\ heartbeats \in Seq(Heartbeat)
    /\ \A i \in 1..Len(overview) : overview[i].id \in DeviceIds /\ overview[i].self \in BOOLEAN
    /\ starts \in 0..MaxStarts /\ apart \in BOOLEAN

\* What is read of the file.
LEMMA FileRead ==
    ASSUME deviceFile \in FileSet
    PROVE  readDeviceFile.id \in DeviceIds \cup {NoId} /\ readDeviceFile.label \in Labels
BY DEF FileSet, readDeviceFile

\* A start of either program.
LEMMA StartType ==
    ASSUME deviceFile \in FileSet, NEW p,
           p \in loadOrCreate(readDeviceFile) \/ p \in loadConfig(readDeviceFile)
    PROVE  p \in ProgramSet /\ p.id \in DeviceIds
<1> DEFINE f == readDeviceFile
<1>1. f.id \in DeviceIds \cup {NoId} /\ f.label \in Labels /\ Unnamed \in Labels
  BY FileRead DEF Labels
<1>2. \/ f.id \in DeviceIds /\ p = [stage |-> "on", id |-> f.id, label |-> f.label]
      \/ \E i \in DeviceIds, l \in Labels : p = [stage |-> "drawn", id |-> i, label |-> l]
  BY <1>1 DEF loadOrCreate, loadConfig, Drawn
<1> HIDE DEF f
<1> QED
  BY <1>1, <1>2 DEF ProgramSet, Stages

\* A list without one of its elements.
LEMMA RemoveType ==
    ASSUME NEW S, NEW s \in Seq(S), NEW k \in 1..Len(s)
    PROVE  RemoveAt(s, k) \in Seq(S)
<1>1. Len(s) \in Nat
  OBVIOUS
<1>2. SubSeq(s, 1, k - 1) \in Seq(S)
  BY <1>1
<1>3. SubSeq(s, k + 1, Len(s)) \in Seq(S)
  BY <1>1
<1> QED
  BY <1>2, <1>3 DEF RemoveAt

\* A report of a program with an id.
LEMMA UpsertType ==
    ASSUME heartbeats \in Seq(Heartbeat), NEW id \in DeviceIds, NEW host \in HostNames, Upsert(id, host)
    PROVE  heartbeats' \in Seq(Heartbeat)
<1> DEFINE row == <<[id |-> id, host |-> host]>>
<1>1. row \in Seq(Heartbeat)
  BY DEF Heartbeat
<1>2. \/ heartbeats' = row \o heartbeats
      \/ \E k \in 1..Len(heartbeats) : heartbeats' = row \o RemoveAt(heartbeats, k)
  BY DEF Upsert
<1> HIDE DEF row
<1>3. \A k \in 1..Len(heartbeats) : RemoveAt(heartbeats, k) \in Seq(Heartbeat)
  BY RemoveType
<1>4. \A t \in Seq(Heartbeat) : row \o t \in Seq(Heartbeat)
  BY <1>1, ConcatProperties
<1> QED
  BY <1>2, <1>3, <1>4

\* The overview shows rows of the account.
LEMMA OverviewType ==
    ASSUME heartbeats \in Seq(Heartbeat)
    PROVE  \A i \in 1..Len(machines_list) :
               machines_list[i].id \in DeviceIds /\ machines_list[i].self \in BOOLEAN
<1> DEFINE n == IF Len(heartbeats) < MACHINES_MAX THEN Len(heartbeats) ELSE MACHINES_MAX
           rows == SubSeq(heartbeats, 1, n)
           self(i) == rows[i].id = agentDev.id
           list == [i \in 1..Len(rows) |-> [id |-> rows[i].id, self |-> self(i)]]
<1>1. n \in 0..Len(heartbeats)
  BY DeviceAssumption
<1>2. machines_list = list
  BY DEF machines_list
<1> HIDE DEF n
<1>3. rows \in Seq(Heartbeat) /\ Len(rows) \in Nat
  BY <1>1
<1>4. \A i \in 1..Len(rows) : rows[i].id \in DeviceIds /\ self(i) \in BOOLEAN
  BY <1>3 DEF Heartbeat
<1> HIDE DEF rows, self
<1>5. Len(list) = Len(rows)
  BY <1>3
<1>6. \A i \in 1..Len(rows) : list[i].id = rows[i].id /\ list[i].self = self(i)
  OBVIOUS
<1> HIDE DEF list
<1> QED
  BY <1>2, <1>4, <1>5, <1>6

\* Every step of the two programs keeps the types.
LEMMA DeviceTypesStep == DeviceTypes /\ [diNext]_diVars => DeviceTypes'
<1> SUFFICES ASSUME DeviceTypes, [diNext]_diVars PROVE DeviceTypes'
  OBVIOUS
<1>a. MaxStarts \in Nat
  BY DeviceAssumption
<1> USE DEF DeviceTypes
<1>1. CASE AgentReads
  <2>1. agentDev' \in ProgramSet /\ agentDev'.id \in DeviceIds
    BY <1>1, StartType DEF AgentReads
  <2>2. starts' \in 0..MaxStarts
    BY <1>1, <1>a DEF AgentReads
  <2>3. apart' \in BOOLEAN /\ UNCHANGED <<deviceFile, dashDev, heartbeats, overview>>
    BY <1>1 DEF AgentReads
  <2> QED
    BY <2>1, <2>2, <2>3
<1>2. CASE DashReads
  <2>1. dashDev' \in ProgramSet /\ dashDev'.id \in DeviceIds
    BY <1>2, StartType DEF DashReads
  <2>2. starts' \in 0..MaxStarts
    BY <1>2, <1>a DEF DashReads
  <2>3. apart' \in BOOLEAN /\ UNCHANGED <<deviceFile, agentDev, heartbeats, overview>>
    BY <1>2 DEF DashReads
  <2> QED
    BY <2>1, <2>2, <2>3
<1>3. ASSUME NEW p \in ProgramSet, p.id \in DeviceIds, NEW done \in BOOLEAN, writeDeviceFile(p, done)
      PROVE  deviceFile' \in FileSet /\ apart' \in BOOLEAN
  <2>1. p.label \in Labels
    BY DEF ProgramSet
  <2>2. [id |-> p.id, label |-> p.label] \in FileSet
    BY <1>3, <2>1 DEF FileSet
  <2>3. deviceFile' \in FileSet
    BY <1>3, <2>2 DEF writeDeviceFile
  <2>4. apart' \in BOOLEAN
    BY <1>3 DEF writeDeviceFile
  <2> QED
    BY <2>3, <2>4
<1>4. CASE AgentWrites
  <2>1. agentDev.id \in DeviceIds /\ agentDev \in ProgramSet
    BY <1>4 DEF AgentWrites
  <2>2. deviceFile' \in FileSet /\ apart' \in BOOLEAN
    BY <1>3, <1>4, <2>1 DEF AgentWrites
  <2>3. agentDev' \in ProgramSet /\ agentDev'.id = agentDev.id
    BY <1>4 DEF AgentWrites, ProgramSet, Stages
  <2> QED
    BY <1>4, <2>1, <2>2, <2>3 DEF AgentWrites
<1>5. CASE DashWrites
  <2>1. dashDev.id \in DeviceIds /\ dashDev \in ProgramSet
    BY <1>5 DEF DashWrites
  <2>2. deviceFile' \in FileSet /\ apart' \in BOOLEAN
    BY <1>3, <1>5, <2>1 DEF DashWrites
  <2>3. dashDev' \in ProgramSet /\ dashDev'.id = dashDev.id
    BY <1>5 DEF DashWrites, ProgramSet, Stages
  <2> QED
    BY <1>5, <2>1, <2>2, <2>3 DEF DashWrites
<1>6. Off \in ProgramSet /\ Off.stage = "off"
  BY DEF Off, ProgramSet, Stages, Labels
<1>7. CASE AgentEnds
  <2>1. Len(overview') = 0
    BY <1>7 DEF AgentEnds
  <2> QED
    BY <1>6, <1>7, <2>1 DEF AgentEnds
<1>8. CASE DashEnds
  BY <1>6, <1>8 DEF DashEnds
<1>9. CASE machines_push_heartbeat
  <2>1. agentDev.id \in DeviceIds /\ agentDev.label \in Labels
    BY <1>9 DEF machines_push_heartbeat, ProgramSet
  <2>2. device_get_label \in HostNames
    BY <2>1 DEF device_get_label, HostNames, Labels
  <2>3. heartbeats' \in Seq(Heartbeat)
    BY <1>9, <2>1, <2>2, UpsertType DEF machines_push_heartbeat
  <2> QED
    BY <1>9, <2>3 DEF machines_push_heartbeat
<1>10. CASE DashPushHeartbeat
  <2>1. dashDev.id \in DeviceIds /\ dashDev.label \in Labels
    BY <1>10 DEF DashPushHeartbeat, ProgramSet
  <2>2. displayLabel \in HostNames
    BY <2>1, FileRead DEF displayLabel, HostNames, Labels
  <2>3. heartbeats' \in Seq(Heartbeat)
    BY <1>10, <2>1, <2>2, UpsertType DEF DashPushHeartbeat
  <2> QED
    BY <1>10, <2>3 DEF DashPushHeartbeat
<1>11. CASE ListMachines
  <2>1. overview' = machines_list
    BY <1>11 DEF ListMachines
  <2>2. \A i \in 1..Len(overview') : overview'[i].id \in DeviceIds /\ overview'[i].self \in BOOLEAN
    BY <2>1, OverviewType
  <2> QED
    BY <1>11, <2>2 DEF ListMachines
<1>12. CASE UNCHANGED diVars
  BY <1>12 DEF diVars
<1> QED
  BY <1>1, <1>2, <1>4, <1>5, <1>7, <1>8, <1>9, <1>10, <1>11, <1>12 DEF diNext

\* Where the two programs start.
LEMMA DeviceTypesStart == diInit => DeviceTypes
<1> SUFFICES ASSUME diInit PROVE DeviceTypes
  OBVIOUS
<1>1. deviceFile \in FileSet
  BY DEF diInit, FileSet, Labels
<1>2. Off \in ProgramSet /\ Off.stage = "off"
  BY DEF Off, ProgramSet, Stages, Labels
<1>3. heartbeats \in Seq(Heartbeat) /\ Len(overview) = 0
  BY DEF diInit
<1>4. starts \in 0..MaxStarts
  BY DeviceAssumption DEF diInit
<1>5. agentDev = Off /\ dashDev = Off /\ apart \in BOOLEAN
  BY DEF diInit
<1> QED
  BY <1>1, <1>2, <1>3, <1>4, <1>5 DEF DeviceTypes

\* What the types say of the machine's identity.
LEMMA DeviceTypesGive == DeviceTypes => diTypeOK
<1> SUFFICES ASSUME DeviceTypes PROVE diTypeOK
  OBVIOUS
<1>1. \A i \in 1..Len(heartbeats) : heartbeats[i].id \in DeviceIds /\ heartbeats[i].host \in HostNames
  <2>1. \A i \in 1..Len(heartbeats) : heartbeats[i] \in Heartbeat
    BY DEF DeviceTypes
  <2> QED
    BY <2>1 DEF Heartbeat
<1>2. \A p \in {agentDev, dashDev} : p.stage \in Stages /\ [id |-> p.id, label |-> p.label] \in Device
  BY DEF DeviceTypes, ProgramSet, Device, Labels
<1>3. deviceFile \in [id : DeviceIds \cup {NoId, Garbled}, label : DeviceLabels \cup {Unnamed}]
  BY DEF DeviceTypes, FileSet, Labels
<1> QED
  BY <1>1, <1>2, <1>3 DEF DeviceTypes, diTypeOK

-----------------------------------------------------------------------------
(* The types of all parts.                                                 *)

\* The parts' values stay in their sets: among them a client's limits within
\* MAX_LIMITS, the snapshots within BACKUP_KEEP_COUNT, today's seconds within
\* the day, the delay of a failing upload within MaxBackoff, two attempts of a
\* request at most, the spin boxes within their range, and heartbeats with the
\* id of a machine (parseLimitsResponse, cleanupOldBackups, cloudLoop,
\* httpsRequest, SettingsPage, machines_push_heartbeat).
THEOREM AgentTypes == Spec => []PartsTypeOK
<1>1. LimitsSpec => []alTypeOK
  <2>1. LimitsTypes => alTypeOK
    BY DEF LimitsTypes
  <2> QED
    BY <2>1, LimitsTypesStart, LimitsTypesStep, PTL DEF LimitsSpec
<1>2. TotalsSpec => []dtTypeOK
  <2>1. DayInv => dtTypeOK
    BY DayGivesTypes
  <2> QED
    BY <2>1, DayStart, DayStep, PTL DEF TotalsSpec
<1>3. LoopSpec => []clTypeOK
  <2>1. LoopTypes => clTypeOK
    BY DEF LoopTypes
  <2> QED
    BY <2>1, LoopTypesStart, LoopTypesStep, PTL DEF LoopSpec
<1>4. SettingsSpec => []stTypeOK
  BY SettingsTypesStart, SettingsTypesStep, SettingsTypesGive, PTL DEF SettingsSpec
<1>5. RemoteSpec => []rvTypeOK
  <2>1. RemoteInv => rvTypeOK
    BY DEF RemoteInv
  <2> QED
    BY <2>1, RemoteStart, RemoteStep, PTL DEF RemoteSpec
<1>6. PanelSpec => []cpTypeOK
  <2>1. PanelInv => cpTypeOK
    BY DEF PanelInv
  <2> QED
    BY <2>1, PanelStart, PanelStep, PTL DEF PanelSpec
<1>7. TasksSpec => []ttTypeOK
  BY TasksTypesStart, TasksTypesStep, PTL DEF TasksSpec
<1>8. TextSpec => []jtTypeOK
  <2>1. TextInv => jtTypeOK
    BY TextsAreWhole
  <2> QED
    BY <2>1, TextStart, TextStep, PTL DEF TextSpec
<1>9. HttpSpec => []hcTypeOK
  <2>1. HttpTypes => hcTypeOK
    BY DEF HttpTypes
  <2> QED
    BY <2>1, HttpTypesStart, HttpTypesStep, PTL DEF HttpSpec
<1>10. DeviceSpec => []diTypeOK
  BY DeviceTypesStart, DeviceTypesStep, DeviceTypesGive, PTL DEF DeviceSpec
<1>11. (/\ alTypeOK /\ dtTypeOK /\ clTypeOK /\ stTypeOK /\ rvTypeOK /\ cpTypeOK /\ ttTypeOK
        /\ jtTypeOK /\ hcTypeOK /\ diTypeOK) => PartsTypeOK
  BY DEF PartsTypeOK
<1> QED
  BY <1>1, <1>2, <1>3, <1>4, <1>5, <1>6, <1>7, <1>8, <1>9, <1>10, <1>11, PartsRunByThemselves, PTL
=============================================================================
