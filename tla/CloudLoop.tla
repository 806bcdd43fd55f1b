------------------------------ MODULE CloudLoop ------------------------------
(***************************************************************************)
(* The cloud thread's loop (cloudLoop of main.cpp) and its snapshots of    *)
(* the database (backup.cpp, db_export_json): what is due is decided by    *)
(* the wall clock, a snapshot is skipped when the connection's change      *)
(* counter has not moved, and the oldest files go by name.  The watch      *)
(* thread stores records at any moment.                                    *)
(***************************************************************************)
EXTENDS Integers, FiniteSets, FiniteSetsExt

CONSTANTS
    SyncInterval, BackupInterval, LimitsInterval,   \* settings, in ticks
    MaxBackoff,          \* 600 seconds, FirstBackoff is 30
    FirstBackoff,
    BACKUP_KEEP_COUNT,
    LastTime, MaxRows    \* bounds: the clock, the changes of the table

ASSUME LoopAssumption ==
    /\ {SyncInterval, BackupInterval, LimitsInterval, MaxBackoff, FirstBackoff} \subseteq Nat
    /\ FirstBackoff <= MaxBackoff /\ BACKUP_KEEP_COUNT \in Nat \ {0}
    /\ LastTime \in Nat /\ MaxRows \in Nat

VARIABLES
    clAt,       \* where the loop is
    clNow,      \* local wall-clock time
    clLast,     \* lastSync, lastBackup, lastLimitsPull
    clBackoff,  \* syncBackoffSec
    clRows,     \* changes made to the table since it exists
    clChanges,  \* sqlite3_total_changes64 of this connection
    clSaved,    \* g_lastBackupChanges
    clExport,   \* the snapshot being written
    clFiles,    \* backup_<time>.json: name and the changes it holds
    clJumped    \* history: the local time was set back (bound: once)

clVars == <<clAt, clNow, clLast, clBackoff, clRows, clChanges, clSaved, clExport, clFiles, clJumped>>

File == [name : 0..LastTime, rows : 0..MaxRows]

clTypeOK ==
    /\ clAt \in {"start", "sync", "limits", "backup", "export", "move", "prune", "sleep"}
    /\ clNow \in 0..LastTime /\ clLast \in [{"sync", "backup", "limits"} -> Int]
    /\ clBackoff \in 0..MaxBackoff
    /\ clRows \in 0..MaxRows /\ clChanges \in 0..clRows /\ clSaved \in -1..clChanges
    /\ clExport \in [changes : 0..MaxRows, name : 0..LastTime, rows : 0..MaxRows, first : BOOLEAN]
    /\ clJumped \in BOOLEAN
    /\ clFiles \subseteq File /\ Cardinality(clFiles) <= BACKUP_KEEP_COUNT + 1

NoExport == [changes |-> 0, name |-> 0, rows |-> 0, first |-> TRUE]

\* The start of the thread: a snapshot is made before the loop.
LoopStart == [sync |-> -SyncInterval, backup |-> clNow, limits |-> -LimitsInterval]

clInit ==
    /\ clAt = "start" /\ clNow = 0 /\ clBackoff = 0
    /\ clLast = LoopStart
    /\ clRows = 0 /\ clChanges = 0 /\ clSaved = -1
    /\ clExport = NoExport /\ clFiles = {} /\ clJumped = FALSE

-----------------------------------------------------------------------------
(* Beside the loop.                                                        *)

RowStored == /\ clRows < MaxRows
          /\ clRows' = clRows + 1 /\ clChanges' = clChanges + 1
          /\ UNCHANGED <<clAt, clNow, clLast, clBackoff, clSaved, clExport, clFiles, clJumped>>

\* The end of summer time, a correction of the clock.
SetBack == /\ ~clJumped /\ clJumped' = TRUE
           /\ clNow > 0 /\ clNow' \in 0..(clNow - 1)
           /\ UNCHANGED <<clAt, clLast, clBackoff, clRows, clChanges, clSaved, clExport, clFiles>>

\* db_close and a new process: the counter of changes is the connection's.
LoopRestart ==
    /\ clAt' = "start" /\ clLast' = LoopStart /\ clBackoff' = 0
    /\ clChanges' = 0 /\ clSaved' = -1 /\ clExport' = NoExport
    /\ UNCHANGED <<clNow, clRows, clFiles, clJumped>>

-----------------------------------------------------------------------------
(* One turn of the loop.                                                   *)

TurnDue(what, interval) == clNow - clLast[what] >= interval

NextBackoff(failed) == IF ~failed THEN 0
                       ELSE IF clBackoff = 0 THEN FirstBackoff
                       ELSE IF clBackoff * 2 > MaxBackoff THEN MaxBackoff ELSE clBackoff * 2

\* sync_pending_records, then machines_push_heartbeat at the same pace.
SyncTurn ==
    /\ clAt = "sync" /\ clAt' = "limits"
    /\ IF TurnDue("sync", SyncInterval + clBackoff)
       THEN \E failed \in BOOLEAN : clBackoff' = NextBackoff(failed)
                                    /\ clLast' = [clLast EXCEPT !.sync = clNow]
       ELSE UNCHANGED <<clBackoff, clLast>>
    /\ UNCHANGED <<clNow, clRows, clChanges, clSaved, clExport, clFiles, clJumped>>

LimitsTurn ==
    /\ clAt = "limits" /\ clAt' = "backup"
    /\ clLast' = [clLast EXCEPT !.limits = IF TurnDue("limits", LimitsInterval) THEN clNow ELSE @]
    /\ UNCHANGED <<clNow, clBackoff, clRows, clChanges, clSaved, clExport, clFiles, clJumped>>

\* db_change_counter: sqlite3_total_changes64 of the connection.
db_change_counter == clChanges

\* backup_create_snapshot begins: the counter is read before the rows.
SnapshotBegin(first) ==
    IF clSaved >= 0 /\ db_change_counter = clSaved
    THEN clAt' = (IF first THEN "sync" ELSE "prune") /\ UNCHANGED clExport
    ELSE /\ clAt' = "export"
         /\ clExport' = [changes |-> db_change_counter, name |-> clNow, rows |-> 0, first |-> first]

BackupTurn ==
    /\ \/ clAt = "start" /\ SnapshotBegin(TRUE)
       \/ clAt = "backup" /\ TurnDue("backup", BackupInterval) /\ SnapshotBegin(FALSE)
       \/ clAt = "backup" /\ ~TurnDue("backup", BackupInterval) /\ clAt' = "sleep" /\ UNCHANGED clExport
    /\ UNCHANGED <<clNow, clLast, clBackoff, clRows, clChanges, clSaved, clFiles, clJumped>>

\* db_export_json reads the table in one statement, a consistent picture,
\* into a .tmp file.
db_export_json ==
    /\ clAt = "export" /\ clAt' = "move"
    /\ clExport' = [clExport EXCEPT !.rows = clRows]
    /\ UNCHANGED <<clNow, clLast, clBackoff, clRows, clChanges, clSaved, clFiles, clJumped>>

AfterSnapshot == IF clExport.first THEN "sync" ELSE "prune"

\* cleanupOldBackups: sorted by name, all but the last BACKUP_KEEP_COUNT go.
cleanupOldBackups(files) ==
    {f \in files : Cardinality({g \in files : g.name > f.name}) < BACKUP_KEEP_COUNT}

\* Mutant: the counter is read after the export.
SnapshotDoneLate ==
    /\ clAt = "move" /\ clAt' = AfterSnapshot
    /\ LET file == [name |-> clExport.name, rows |-> clExport.rows]
       IN clFiles' = cleanupOldBackups({f \in clFiles : f.name # file.name} \cup {file})
    /\ clSaved' = clChanges
    /\ clExport' = NoExport
    /\ UNCHANGED <<clNow, clLast, clBackoff, clRows, clChanges, clJumped>>

\* The file gets its name, over one of the same second; what it holds is
\* taken as the state of the counter read at the beginning.
SnapshotDone ==
    /\ clAt = "move" /\ clAt' = AfterSnapshot
    /\ LET file == [name |-> clExport.name, rows |-> clExport.rows]
       IN clFiles' = cleanupOldBackups({f \in clFiles : f.name # file.name} \cup {file})
    /\ clSaved' = clExport.changes
    /\ clExport' = NoExport
    /\ UNCHANGED <<clNow, clLast, clBackoff, clRows, clChanges, clJumped>>

\* No room, or no way to open or rename the file: the .tmp file is deleted.
SnapshotFails ==
    /\ clAt \in {"export", "move"} /\ clAt' = AfterSnapshot
    /\ clExport' = NoExport
    /\ UNCHANGED <<clNow, clLast, clBackoff, clRows, clChanges, clSaved, clFiles, clJumped>>

\* db_delete_old_records: it may delete rows, which are changes too.
PruneTurn ==
    /\ clAt = "prune" /\ clAt' = "sleep"
    /\ \E n \in {0, 1} : clRows + n <= MaxRows /\ clRows' = clRows + n /\ clChanges' = clChanges + n
    /\ clLast' = [clLast EXCEPT !.backup = clNow]
    /\ UNCHANGED <<clNow, clBackoff, clSaved, clExport, clFiles, clJumped>>

\* db_print_daily_summary changes nothing; Sleep(1000).
SleepTurn ==
    /\ clAt = "sleep" /\ clAt' = "sync" /\ clNow < LastTime /\ clNow' = clNow + 1
    /\ UNCHANGED <<clLast, clBackoff, clRows, clChanges, clSaved, clExport, clFiles, clJumped>>

clNext == \/ RowStored \/ SetBack \/ LoopRestart
          \/ SyncTurn \/ LimitsTurn \/ BackupTurn \/ db_export_json
          \/ SnapshotDone \/ SnapshotFails \/ PruneTurn \/ SleepTurn

-----------------------------------------------------------------------------
(* Properties.                                                             *)

\* When the next snapshot would be skipped because nothing changed, a file
\* holds everything: a record stored while an export runs, a restart or a
\* failed export never leaves rows without a copy and without a reason to
\* make one.  (A clock set back does: the newest file then sorts first.)
SkipIsSafe ==
    ~clJumped /\ clSaved >= 0 /\ clChanges = clSaved => \E f \in clFiles : f.rows = clRows
=============================================================================
