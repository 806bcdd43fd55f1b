--------------------------- MODULE ActivityTracker ---------------------------
(***************************************************************************)
(* The activity tracker of the agent (src/src/agent/core/activity.cpp) and *)
(* the two threads of main.cpp that drive it:                              *)
(*                                                                         *)
(*   "watch"  watchLoop: once a second monitor_activity(), and from time   *)
(*            to time activity_check_limits();                             *)
(*   "gui"    the Qt/Win32 message loop: lock, sleep, unlock and wake      *)
(*            events (PowerEventWndProc), the tray's "Pause tracking", and *)
(*            the shutdown code at the end of main().                      *)
(*                                                                         *)
(* The threads share g_last_window, g_current_record, g_finish_in_progress *)
(* (guarded by currentMutex) and the atomic g_suspended.  Every            *)
(* lock_guard scope of the source is one action, and so is every unlocked  *)
(* read or I/O call between two scopes.  A thread that runs a shared       *)
(* routine keeps its place in pc and the place to return to in ret:        *)
(*                                                                         *)
(*   finishCurrentRecord   "finish" -> "save" -> "release" -> ret          *)
(*   closeCurrentSession   "close" -> finishCurrentRecord -> "clear"       *)
(***************************************************************************)
EXTENDS Integers, Sequences

CONSTANTS
    Windows,          \* the windows (process, title) the user switches between
    Processes,        \* executable names
    ProcessOf,        \* the process that owns each window
    Excluded,         \* processes excluded in the settings
    MinDuration,      \* min_duration_sec of the settings
    NoWindow,         \* no foreground window, or one whose process cannot be read
    MaxTime,          \* bound on the wall clock
    MaxBacks,         \* bound on the times the wall clock is set back
    MaxSessions,      \* bound on the records opened
    MaxWakes,         \* bound on the suspensions that end
    MaxPauses         \* bound on the times tracking is paused

ASSUME TrackerAssumption ==
    /\ NoWindow \notin Windows
    /\ ProcessOf \in [Windows -> Processes]
    /\ Excluded \subseteq Processes
    /\ MinDuration \in Nat
    /\ MaxTime \in Nat \ {0}
    /\ MaxBacks \in Nat
    /\ MaxSessions \in Nat
    /\ MaxWakes \in Nat
    /\ MaxPauses \in Nat

VARIABLES
    last_window,        \* g_last_window; NoWindow when zeroed
    current_record,     \* g_current_record; NoRecord when zeroed
    finish_in_progress, \* g_finish_in_progress
    suspended,          \* g_suspended
    paused,             \* TrayIcon::m_paused
    running,            \* g_workerRunning
    rows,               \* the rows db_insert_activity has written, in order
    pc, ret,            \* where each thread is, where finishCurrentRecord returns
    snapshot,           \* recordToSave of each thread
    cur,                \* the watch thread's local "current"
    foreground,         \* the foreground window (the user)
    now,                \* time(NULL)
    backs,              \* history: number of times the clock was set back
    opened,             \* history: number of records ever opened
    dropped,            \* history: records that were finished but not stored
    wakes,              \* history: number of suspensions that have ended
    pauses              \* history: number of times tracking was paused

vars == <<last_window, current_record, finish_in_progress, suspended, paused,
          running, rows, pc, ret, snapshot, cur, foreground, now, backs,
          opened, dropped, wakes, pauses>>

\* The state guarded by currentMutex, the database, and the rest by owner.
tracked == <<last_window, current_record, opened>>
switches == <<suspended, paused, running, wakes, pauses>>
outside == <<foreground, now, backs>>
stored == <<rows, dropped>>

Threads == {"watch", "gui"}

WatchPlaces == {"idle", "monitor", "compare", "finish", "save", "release",
                "reopen", "limits", "close", "clear", "kill", "done"}
GuiPlaces == {"idle", "close", "finish", "save", "release", "clear", "join", "done"}

-----------------------------------------------------------------------------
(***************************************************************************)
(* Records.  start = 0 marks the zeroed record, as start_time does in the  *)
(* code.  sid, wakes and pauses are history: which record this is, and how *)
(* many suspensions and pauses there had been when it was opened.  A       *)
(* finished record adds the end of the interval and its duration.          *)
(***************************************************************************)
Record == [win : Windows \cup {NoWindow}, start : 0..MaxTime, sid : 0..MaxSessions,
           wakes : 0..MaxWakes, pauses : 0..MaxPauses]

NoRecord == [win |-> NoWindow, start |-> 0, sid |-> 0, wakes |-> 0, pauses |-> 0]

Finished == [rec : Record, end : 0..MaxTime, duration : 0..MaxTime,
             wakes : 0..MaxWakes, pauses : 0..MaxPauses]

NoSnapshot == [rec |-> NoRecord, end |-> 0, duration |-> 0, wakes |-> 0, pauses |-> 0]

\* Mutant: start_time is set only when it is zero.
startNewRecordKeepsStart(w) ==
    [win |-> w, start |-> IF current_record.start # 0 THEN current_record.start ELSE now,
     sid |-> opened + 1, wakes |-> wakes, pauses |-> pauses]

\* startNewRecordLocked: the record opened for window w at this moment.
startNewRecordLocked(w) ==
    [win |-> w, start |-> now, sid |-> opened + 1, wakes |-> wakes, pauses |-> pauses]

\* The end and the duration finishCurrentRecord stamps: never negative.
finished(r) ==
    [rec |-> r, end |-> now, wakes |-> wakes, pauses |-> pauses,
     duration |-> IF now > r.start THEN now - r.start ELSE 0]

TypeOK ==
    /\ last_window \in Windows \cup {NoWindow}
    /\ current_record \in Record
    /\ finish_in_progress \in BOOLEAN
    /\ suspended \in BOOLEAN
    /\ paused \in BOOLEAN
    /\ running \in BOOLEAN
    /\ rows \in Seq(Finished)
    /\ pc \in [Threads -> WatchPlaces \cup GuiPlaces]
    /\ pc["watch"] \in WatchPlaces
    /\ pc["gui"] \in GuiPlaces
    /\ ret \in [Threads -> {"reopen", "clear"}]
    /\ snapshot \in [Threads -> Finished]
    /\ cur \in Windows \cup {NoWindow}
    /\ foreground \in Windows \cup {NoWindow}
    /\ now \in 1..MaxTime
    /\ backs \in 0..MaxBacks
    /\ opened \in 0..MaxSessions
    /\ dropped \subseteq 1..MaxSessions
    /\ wakes \in 0..MaxWakes
    /\ pauses \in 0..MaxPauses

\* main() up to the start of the watch thread.
Init ==
    /\ last_window = NoWindow
    /\ current_record = NoRecord
    /\ finish_in_progress = FALSE
    /\ suspended = FALSE
    /\ paused = FALSE
    /\ running = TRUE
    /\ rows = <<>>
    /\ pc = [t \in Threads |-> "idle"]
    /\ ret = [t \in Threads |-> "clear"]
    /\ snapshot = [t \in Threads |-> NoSnapshot]
    /\ cur = NoWindow
    /\ foreground \in Windows \cup {NoWindow}
    /\ now = 1
    /\ backs = 0
    /\ opened = 0
    /\ dropped = {}
    /\ wakes = 0
    /\ pauses = 0

Goto(t, place) == pc' = [pc EXCEPT ![t] = place]

-----------------------------------------------------------------------------
(***************************************************************************)
(* finishCurrentRecord, run by either thread.                              *)
(***************************************************************************)

\* Another call is in progress, or no record is open: return.
FinishSkip(t) ==
    /\ pc[t] = "finish"
    /\ finish_in_progress \/ current_record.start = 0
    /\ Goto(t, ret[t])
    /\ UNCHANGED <<tracked, finish_in_progress, switches, outside, stored, ret, snapshot, cur>>

\* First critical section: raise the latch and take the snapshot.
FinishBegin(t) ==
    /\ pc[t] = "finish"
    /\ ~finish_in_progress
    /\ current_record.start # 0
    /\ finish_in_progress' = TRUE
    /\ snapshot' = [snapshot EXCEPT ![t] = finished(current_record)]
    /\ Goto(t, "save")
    /\ UNCHANGED <<tracked, switches, outside, stored, ret, cur>>

\* Mutant: the minimum duration is not tested.
KeptAnyDuration(s) == ProcessOf[s.rec.win] \notin Excluded

\* settings_is_process_excluded: the list is read anew for every record.
settings_is_process_excluded(p) == p \in Excluded

\* Whether the snapshot is one the settings keep.
Kept(s) ==
    /\ ~settings_is_process_excluded(ProcessOf[s.rec.win])
    /\ s.duration >= MinDuration

\* Outside the lock: db_insert_activity, whose result is not looked at.
FinishSave(t) ==
    /\ pc[t] = "save"
    /\ \/ /\ Kept(snapshot[t])
          /\ rows' = Append(rows, snapshot[t])
          /\ UNCHANGED dropped
       \/ /\ dropped' = dropped \cup {snapshot[t].rec.sid}  \* not kept, or the insert failed
          /\ UNCHANGED rows
    /\ Goto(t, "release")
    /\ UNCHANGED <<tracked, finish_in_progress, switches, outside, ret, snapshot, cur>>

\* Mutant: the latch is left up.
FinishReleaseKeepsLatch(t) ==
    /\ pc[t] = "release"
    /\ snapshot' = [snapshot EXCEPT ![t] = NoSnapshot]
    /\ Goto(t, ret[t])
    /\ UNCHANGED <<tracked, finish_in_progress, switches, outside, stored, ret, cur>>

\* Second critical section: lower the latch and return.
FinishRelease(t) ==
    /\ pc[t] = "release"
    /\ finish_in_progress' = FALSE
    /\ snapshot' = [snapshot EXCEPT ![t] = NoSnapshot]
    /\ Goto(t, ret[t])
    /\ UNCHANGED <<tracked, switches, outside, stored, ret, cur>>

-----------------------------------------------------------------------------
(***************************************************************************)
(* closeCurrentSession, run by the gui thread from activity_suspend and by *)
(* the watch thread from activity_check_limits.                            *)
(***************************************************************************)

\* What follows the call: killIfForeground in activity_check_limits.
AfterClose(t) == IF t = "watch" THEN "kill" ELSE "idle"

\* Nothing is open: return.
CloseNothing(t) ==
    /\ pc[t] = "close"
    /\ last_window = NoWindow
    /\ Goto(t, AfterClose(t))
    /\ UNCHANGED <<tracked, finish_in_progress, switches, outside, stored, ret, snapshot, cur>>

CloseOpen(t) ==
    /\ pc[t] = "close"
    /\ last_window # NoWindow
    /\ ret' = [ret EXCEPT ![t] = "clear"]
    /\ Goto(t, "finish")
    /\ UNCHANGED <<tracked, finish_in_progress, switches, outside, stored, snapshot, cur>>

\* The two memsets.
CloseClear(t) ==
    /\ pc[t] = "clear"
    /\ last_window' = NoWindow
    /\ current_record' = NoRecord
    /\ Goto(t, AfterClose(t))
    /\ UNCHANGED <<opened, finish_in_progress, switches, outside, stored, ret, snapshot, cur>>

Routines(t) ==
    \/ FinishSkip(t) \/ FinishBegin(t) \/ FinishSave(t) \/ FinishRelease(t)
    \/ CloseNothing(t) \/ CloseOpen(t) \/ CloseClear(t)

-----------------------------------------------------------------------------
(***************************************************************************)
(* The watch thread: watchLoop, monitor_activity, activity_check_limits.   *)
(***************************************************************************)

\* Mutant: a paused loop goes on without testing g_workerRunning.
WatchLoopPausedFirst ==
    /\ pc["watch"] = "idle"
    /\ Goto("watch", IF paused THEN "limits" ELSE IF ~running THEN "done" ELSE "monitor")
    /\ UNCHANGED <<tracked, finish_in_progress, switches, outside, stored, ret, snapshot, cur>>

\* Top of the loop: leave it, skip monitor_activity while paused, or enter it.
WatchLoop ==
    /\ pc["watch"] = "idle"
    /\ Goto("watch", IF ~running THEN "done" ELSE IF paused THEN "limits" ELSE "monitor")
    /\ UNCHANGED <<tracked, finish_in_progress, switches, outside, stored, ret, snapshot, cur>>

\* getActiveWindowInfo: the window in front; NoWindow when there is none, or
\* when its process cannot be opened or named.
getActiveWindowInfo == foreground

\* The unlocked test of g_suspended, then getActiveWindowInfo.  Once the bound
\* on records is reached the lookup fails.
MonitorLookup ==
    /\ pc["watch"] = "monitor"
    /\ IF suspended \/ getActiveWindowInfo = NoWindow \/ opened = MaxSessions
       THEN Goto("watch", "limits") /\ UNCHANGED cur
       ELSE Goto("watch", "compare") /\ cur' = getActiveWindowInfo
    /\ UNCHANGED <<tracked, finish_in_progress, switches, outside, stored, ret, snapshot>>

\* Mutant: only the process names are compared, not the titles.
changedProcessOnly(w) ==
    last_window # NoWindow /\ ProcessOf[w] # ProcessOf[last_window]

\* "changed": there is a last window, and it has another process or title.
changed(w) == last_window # NoWindow /\ w # last_window

\* The critical section that compares the window just read with the last one:
\* suspended meanwhile, or the same window: nothing to do;
MonitorSame ==
    /\ pc["watch"] = "compare"
    /\ suspended \/ (last_window # NoWindow /\ ~changed(cur))
    /\ Goto("watch", "limits")
    /\ cur' = NoWindow
    /\ UNCHANGED <<tracked, finish_in_progress, switches, outside, stored, ret, snapshot>>

\* the first window after a reset: open its record under the same lock;
MonitorFirst ==
    /\ pc["watch"] = "compare"
    /\ ~suspended
    /\ last_window = NoWindow
    /\ last_window' = cur
    /\ current_record' = startNewRecordLocked(cur)
    /\ opened' = opened + 1
    /\ Goto("watch", "limits")
    /\ cur' = NoWindow
    /\ UNCHANGED <<finish_in_progress, switches, outside, stored, ret, snapshot>>

\* another window: finish the record of the old one.
MonitorChanged ==
    /\ pc["watch"] = "compare"
    /\ ~suspended
    /\ changed(cur)
    /\ ret' = [ret EXCEPT !["watch"] = "reopen"]
    /\ Goto("watch", "finish")
    /\ UNCHANGED <<tracked, finish_in_progress, switches, outside, stored, snapshot, cur>>

\* Mutant: the record is reopened although a suspension came meanwhile.
MonitorReopenAlways ==
    /\ pc["watch"] = "reopen"
    /\ current_record' = startNewRecordLocked(cur)
    /\ last_window' = cur
    /\ opened' = opened + 1
    /\ Goto("watch", "limits")
    /\ cur' = NoWindow
    /\ UNCHANGED <<finish_in_progress, switches, outside, stored, ret, snapshot>>

\* The last critical section: open the new record unless a suspension came.
MonitorReopen ==
    /\ pc["watch"] = "reopen"
    /\ IF suspended
       THEN UNCHANGED tracked
       ELSE /\ current_record' = startNewRecordLocked(cur)
            /\ last_window' = cur
            /\ opened' = opened + 1
    /\ Goto("watch", "limits")
    /\ cur' = NoWindow
    /\ UNCHANGED <<finish_in_progress, switches, outside, stored, ret, snapshot>>

\* No limit check is due (20 s), or it finds nothing to block.
LimitsPass ==
    /\ pc["watch"] = "limits"
    /\ Goto("watch", "idle")
    /\ UNCHANGED <<tracked, finish_in_progress, switches, outside, stored, ret, snapshot, cur>>

\* The process of the open record is blocked or has used up its time.  The
\* limits and the usage come from elsewhere: any open record may be hit.
LimitsHit ==
    /\ pc["watch"] = "limits"
    /\ current_record.start # 0
    /\ cur' = current_record.win
    /\ Goto("watch", "close")
    /\ UNCHANGED <<tracked, finish_in_progress, switches, outside, stored, ret, snapshot>>

\* killIfForeground: another window comes up if the process is still in front
\* and can be opened; otherwise nothing happens.
LimitsKill ==
    /\ pc["watch"] = "kill"
    /\ \/ /\ foreground # NoWindow
          /\ ProcessOf[foreground] = ProcessOf[cur]
          /\ foreground' \in {w \in Windows : ProcessOf[w] # ProcessOf[cur]} \cup {NoWindow}
       \/ UNCHANGED foreground
    /\ Goto("watch", "idle")
    /\ cur' = NoWindow
    /\ UNCHANGED <<tracked, finish_in_progress, switches, now, backs, stored, ret, snapshot>>

Watch ==
    \/ WatchLoop \/ MonitorLookup \/ MonitorSame \/ MonitorFirst \/ MonitorChanged
    \/ MonitorReopen \/ LimitsPass \/ LimitsHit \/ LimitsKill \/ Routines("watch")

-----------------------------------------------------------------------------
(***************************************************************************)
(* The gui thread.  Its handlers run to the end before the next message.   *)
(***************************************************************************)

\* Mutant: the flag is set and the open record is left to the watch thread.
SuspendFlagOnly ==
    /\ pc["gui"] = "idle"
    /\ suspended' = TRUE
    /\ UNCHANGED <<tracked, finish_in_progress, paused, running, wakes, pauses,
                   outside, stored, pc, ret, snapshot, cur>>

\* WTS_SESSION_LOCK or PBT_APMSUSPEND: activity_suspend, up to the call of
\* closeCurrentSession.
Suspend ==
    /\ pc["gui"] = "idle"
    /\ suspended' = TRUE
    /\ Goto("gui", "close")
    /\ UNCHANGED <<tracked, finish_in_progress, paused, running, wakes, pauses,
                   outside, stored, ret, snapshot, cur>>

\* WTS_SESSION_UNLOCK or PBT_APMRESUME*: activity_resume.  Windows sends it
\* also to a machine that is not suspended.
Resume ==
    /\ pc["gui"] = "idle"
    /\ suspended => wakes < MaxWakes
    /\ suspended' = FALSE
    /\ wakes' = IF suspended THEN wakes + 1 ELSE wakes
    /\ UNCHANGED <<tracked, finish_in_progress, paused, running, pauses,
                   outside, stored, pc, ret, snapshot, cur>>

\* TrayIcon::onTogglePause.
TogglePause ==
    /\ pc["gui"] = "idle"
    /\ ~paused => pauses < MaxPauses
    /\ paused' = ~paused
    /\ pauses' = IF paused THEN pauses ELSE pauses + 1
    /\ UNCHANGED <<tracked, finish_in_progress, suspended, running, wakes,
                   outside, stored, pc, ret, snapshot, cur>>

\* app.exec() returned: the power event window is destroyed and the workers
\* are told to stop.
Quit ==
    /\ pc["gui"] = "idle"
    /\ running' = FALSE
    /\ Goto("gui", "join")
    /\ UNCHANGED <<tracked, finish_in_progress, suspended, paused, wakes, pauses,
                   outside, stored, ret, snapshot, cur>>

\* watchThread.join() returned.
Join ==
    /\ pc["gui"] = "join"
    /\ pc["watch"] = "done"
    /\ Goto("gui", "done")
    /\ UNCHANGED <<tracked, finish_in_progress, switches, outside, stored, ret, snapshot, cur>>

Gui == Suspend \/ Resume \/ TogglePause \/ Quit \/ Join \/ Routines("gui")

-----------------------------------------------------------------------------
(***************************************************************************)
(* The user and the clock.                                                 *)
(***************************************************************************)
SwitchWindow ==
    /\ foreground' \in (Windows \cup {NoWindow}) \ {foreground}
    /\ UNCHANGED <<tracked, finish_in_progress, switches, now, backs, stored, pc, ret, snapshot, cur>>

Tick ==
    /\ now < MaxTime
    /\ now' = now + 1
    /\ UNCHANGED <<tracked, finish_in_progress, switches, foreground, backs, stored, pc, ret, snapshot, cur>>

\* The user or NTP sets the clock back.
ClockSetBack ==
    /\ backs < MaxBacks
    /\ backs' = backs + 1
    /\ now' \in 1..(now - 1)
    /\ UNCHANGED <<tracked, finish_in_progress, switches, foreground, stored, pc, ret, snapshot, cur>>

Environment == SwitchWindow \/ Tick \/ ClockSetBack

Next == Watch \/ Gui \/ Environment

\* Both threads keep running; messages, the user and the clock owe nothing.
Fairness ==
    /\ WF_vars(Watch)
    /\ WF_vars(Routines("gui"))
    /\ WF_vars(Join)

Spec == Init /\ [][Next]_vars /\ Fairness

-----------------------------------------------------------------------------
Saving == {t \in Threads : pc[t] \in {"save", "release"}}

ClosingPlaces == {"close", "finish", "save", "release", "clear"}

(* At most one thread is between the two critical sections of              *)
(* finishCurrentRecord, and the latch is up exactly then: the flag never   *)
(* stays behind and silences every later call.                             *)
LatchExclusive ==
    /\ finish_in_progress <=> Saving # {}
    /\ \A t, u \in Saving : t = u

(* The two globals agree: g_last_window is empty exactly when              *)
(* g_current_record is, and otherwise names the window of that record, so  *)
(* closeCurrentSession may decide by the one whether the other is open.    *)
WindowMatchesRecord ==
    /\ last_window = current_record.win
    /\ (last_window = NoWindow) <=> (current_record.start = 0)

(* Once activity_suspend has returned no record is open until              *)
(* activity_resume, whatever the watch thread was doing when the machine   *)
(* was locked.                                                             *)
QuietWhenSuspended ==
    suspended /\ pc["gui"] \notin ClosingPlaces => current_record = NoRecord

(* No row covers time the machine was locked or asleep: every row was      *)
(* closed before the first wake-up after it was opened.                    *)
NoRowSpansSuspension ==
    \A i \in DOMAIN rows : rows[i].wakes = rows[i].rec.wakes

\* Record s has been stored, or dropped by the settings or by a failed insert;
Settled(s) == s \in dropped \/ \E i \in DOMAIN rows : rows[i].rec.sid = s

\* or it is in the hands of a thread that is about to store it.
Accounted(s) ==
    Settled(s) \/ \E t \in Saving : snapshot[t].rec.sid = s

(* No record is overwritten or zeroed before finishCurrentRecord took it:  *)
(* every record ever opened is still the open one or accounted for, even   *)
(* when the call that should have finished it returned at the latch.       *)
NoRecordLost ==
    \A s \in 1..opened : s = current_record.sid \/ Accounted(s)

(* As long as the clock only moves forward, the rows of two different      *)
(* records never overlap in time: no second is counted for two windows.    *)
RowsDisjoint ==
    backs = 0 =>
        \A i, j \in DOMAIN rows :
            rows[i].rec.sid < rows[j].rec.sid => rows[i].end <= rows[j].rec.start

(* Whatever the clock does between the opening of a record and its end, a  *)
(* stored row is one the cloud accepts (index.ts:103-104): it does not end *)
(* before it starts, and its duration is the length of the interval.       *)
RowsWellFormed ==
    \A i \in DOMAIN rows :
        /\ rows[i].end >= rows[i].rec.start
        /\ rows[i].duration = rows[i].end - rows[i].rec.start

(* A lock or sleep event always gets the open record closed.               *)
SuspendClosesRecord == suspended ~> (current_record = NoRecord)

(* Exit always ends: the watch thread leaves its loop and is joined.       *)
ExitCompletes == ~running ~> (pc["gui"] = "done")

(* A window that stays in front while nothing is paused or suspended gets  *)
(* a record of its own (up to the bound on records), limit checks or not.  *)
FollowsForeground ==
    \A w \in Windows :
        <>[](foreground = w /\ ~suspended /\ ~paused /\ running)
            => []<>(last_window = w \/ opened = MaxSessions)

-----------------------------------------------------------------------------
(***************************************************************************)
(* The inductive invariant behind the safety properties above.             *)
(***************************************************************************)

\* The watch thread is on its way to opening a record for cur.
Opening ==
    \/ pc["watch"] \in {"compare", "reopen"}
    \/ pc["watch"] \in {"finish", "save", "release"} /\ ret["watch"] = "reopen"

\* The gui thread closes sessions only while the flag is up, which keeps the
\* watch thread from opening a record under its hands.
Control ==
    /\ ret["gui"] = "clear"
    /\ pc["gui"] \in ClosingPlaces => suspended
    /\ Opening => opened < MaxSessions /\ cur \in Windows

\* An open record belongs to the present waking period.
RecordInv ==
    /\ current_record.start = 0 => current_record = NoRecord
    /\ current_record.start # 0 =>
          current_record.sid \in 1 .. opened /\ current_record.wakes = wakes

\* What a thread is saving is the open record, unless that was zeroed since.
SnapshotInv ==
    \A t \in Saving :
        /\ snapshot[t].rec.sid \in 1 .. opened
        /\ snapshot[t].wakes = snapshot[t].rec.wakes
        /\ current_record = NoRecord \/ snapshot[t].rec.sid = current_record.sid
        /\ pc[t] = "release" => Settled(snapshot[t].rec.sid)

\* After finishCurrentRecord, and until it is replaced or zeroed, the record
\* is accounted for.
HandedOver ==
    \A t \in Threads :
        pc[t] \in {"reopen", "clear"} => current_record = NoRecord \/ Accounted(current_record.sid)

IndInv ==
    /\ TypeOK
    /\ LatchExclusive
    /\ WindowMatchesRecord
    /\ QuietWhenSuspended
    /\ NoRowSpansSuspension
    /\ NoRecordLost
    /\ Control
    /\ RecordInv
    /\ SnapshotInv
    /\ HandedOver

-----------------------------------------------------------------------------
(***************************************************************************)
(* What the repository says of the tracker and the code does not do.       *)
(***************************************************************************)

(* The comment above finishCurrentRecord (activity.cpp:158-161): without   *)
(* the latch a record could be inserted twice, and with it the second call *)
(* skips.  So no record is stored more than once.                          *)
StoredOnce ==
    \A i, j \in DOMAIN rows : rows[i].rec.sid = rows[j].rec.sid => i = j

(* The control panel says "Tracking is paused." (i18n.cpp:231): no row     *)
(* should count time during which tracking was paused.  It does not hold:  *)
(* the monitor is skipped, but the open record stays open over the pause.  *)
PausedTimeNotCounted ==
    \A i \in DOMAIN rows : rows[i].pauses = rows[i].rec.pauses
=============================================================================
