# Verification of JustInTime

JustInTime records which application is in front on a Windows machine, keeps
the records in a local SQLite database, uploads them to a Supabase project and
enforces limits a parent has set.  This directory holds TLA+ models of the
agent and of the Qt dashboard, the TLC runs that check them and TLAPS proofs
of nearly all their safety properties.  Paths below are relative to the repository.

## 1. The system

### Components, their state and their operations

| component | source | state | operations | module |
|---|---|---|---|---|
| Activity tracker | `src/agent/core/activity.cpp`, `src/agent/agent/main.cpp` | `g_current_record`, `g_last_window`, `g_finish_in_progress`, `g_suspended` under one mutex | `monitor_activity`, `activity_check_limits` (watch thread); `activity_suspend/resume` (GUI thread) | ActivityTracker |
| Upload queue | `src/agent/agent/sync.cpp`, `src/agent/shared/database.cpp`, `network.cpp` | table `activity_logs`: `synced`, `retry_count`, `next_retry_at` | insert, fetch, send, mark, delete old | SyncQueue |
| Bisecting sender | `includes/agent/agent/batchsend.h` | a stack of ranges and a report | `sendWithBisect` | BatchSend |
| Edge Function | `supabase/functions/sync-activity/index.ts` | the cloud's rows | validate, upsert | SyncQueue |
| Login session, REST client | `src/agent/shared/auth.cpp`, `restclient.cpp` | `g_session`, `session.dat`, `refreshMutex` | login, logout, load, refresh, authenticated call | AuthSession |
| App limits | `src/agent/shared/applimits.cpp` | cached list with its account, in memory and in `limits.cache` | pull, read | AppLimits |
| The day's totals | `activity_check_limits`, the reports of `database.cpp` | the table and the open record | seconds used today, the two reports | DayTotals |
| Cloud loop, backup | `main.cpp`, `src/agent/shared/backup.cpp` | timers on the wall clock, change counter, snapshot files | sync, pull, snapshot, rotate, delete | CloudLoop |
| Settings | `src/agent/shared/settings.cpp` and three pages | a struct, `settings.ini`, the Run key, the pages' fields | load, generate a token, save from a page | Settings |
| Device id, heartbeat | `device.cpp`, `machines.cpp`, `dashconfig.cpp` | `device.id`, two processes' copies, `device_heartbeats` | read, draw, write, push, list | DeviceId |
| Remote view | `src/agent/agent/remoteview.cpp`, its page | socket, thread, flag, token | start, stop with a timeout, restart, serve | RemoteView |
| Tray, control panel | `trayicon.cpp`, `controlpanelwindow.cpp`, pages | menu, page in front, hidden rows, account per page, pause flag | open, turn, refresh, log in and out, pause | ControlPanel |
| Update check, launchers, console | `updatechecker.cpp`, `trayicon.cpp`, `controlpanelwindow.cpp`, `src/dashboard/main.cpp`, `debugconsole.cpp` | requests under way, offers, probes of a port | check, offer, probe, start | TrayTasks |
| JSON helpers | `src/agent/shared/jsonutil.cpp` | a cursor | escape, next object, read a field | JsonText |
| HTTP client | `httpclient.cpp` | a connection per thread | request, retry, read | HttpClient |
| Parent links | `migrations/004`, `006`, `parentlink.cpp`, `applimits.cpp`, ParentPage, ParentLinkPage | `parent_links`, `app_limits`, the rows a page holds | invite, approve, revoke, set, delete | ParentLinks |
| Family page | `src/dashboard/ui/pages/familypage.cpp`, `cloud.cpp` | widgets, requests in flight | the same, asynchronously | FamilyPage |
| Dashboard window | `src/dashboard/ui/*.cpp`, `cloudpage`, `devicespage`, `dashsession.cpp` | session file, section, dialog, pages, requests in flight | show, load, send, log in and out | Dashboard |
| System monitor | `src/dashboard/sysstats.cpp` and the widgets | last counters, chart, alerts, process times | `live`, `getProcesses`, ticks | SystemMonitor |
| Metric pages | `metricpages.cpp`, `rightpanel.cpp` | bars, tables, static information | load once, tick | MachinePages |
| Local history | `localdb.cpp`, `overviewpage.cpp`, `localpage.cpp` | read-only database, period | today, weeks, usage, recent rows | LocalHistory |
| Dashboard settings | `dashsettings.cpp`, `settingsdialog.cpp` | a file with an encrypted key, a form | load, edit, save | DashSettings |

Not modelled: section 7.

### How they interact

Three threads of the agent share its state: the **watch thread** (once a
second: look up the foreground window; every 20 s check the limits), the
**cloud thread** (everything periodic that uses the network), and the **GUI
thread** (tray, pages, power events, login and logout, exit).  The watch thread
hands finished records to the cloud thread through the table; the cloud thread
hands limits to the watch thread through a cache; the session is shared by all.
Agent and dashboard are two processes that share files: the database (the
dashboard only reads it) and `device.id`.  They meet the family's other machines
in the server's tables, behind row-level security.  The dashboard runs each
request on a thread of its own; callbacks come back to the GUI in any order.

### What is hard, and what correctness means

* *Tracker*: `finishCurrentRecord` leaves the mutex to do I/O, and the record is
  cleared or replaced by yet another critical section.  Power events fall into
  each gap.  No record may be lost, and no sleep be counted.
* *Sender and queue*: a batch may be refused because of one row, an answer may
  be lost, an UPDATE may fail, the process may die anywhere.  No activity may be
  lost, good rows must not suffer for bad ones or for the network, and
  everything must arrive in the end.
* *Session*: refresh tokens are good for one use, two threads may need a new
  token at once, and the user may log out meanwhile.
* *Limits and family*: caches and pages that belong to an account and outlive
  it; sums over midnight; lists that are old when they are acted upon.
* *Files*: what is held in memory must be what a restart finds; a save of one
  page must not undo another's; a snapshot may be skipped only when one exists.
* *Dashboard*: widgets that share one collector and redraw only what changed,
  dialogs that end before their requests, days cut in UTC and weeks in local
  time.

`PROJECT.json` lists each hazard at its line with the properties that cover it.

## 2. Modules

### The core

**ActivityTracker.**  One action per `lock_guard` scope and per unlocked call
between two scopes, for both threads that finish records.  The routines they
share (`finishCurrentRecord`, `closeCurrentSession`) are parameterised by the
thread; `pc` says where a thread is and `ret` where the shared routine returns.
`last_window`, `current_record`, `finish_in_progress` and `suspended` are the
globals of `activity.cpp`; `paused` and `running` are `TrayIcon::m_paused` and
`g_workerRunning`; `rows`, `snapshot`, `cur` are what was inserted, `recordToSave`
and the monitor's local `current`; `foreground` and `now` are the user and the
wall clock; `opened`, `dropped`, `wakes`, `pauses`, `backs` are history.
Actions: `WatchLoop`; `MonitorLookup/Same/First/Changed/Reopen`;
`FinishSkip/Begin/Save/Release`; `CloseNothing/Open/Clear`; `LimitsPass/Hit/Kill`;
`Suspend`, `Resume`, `TogglePause`, `Quit`, `Join`; the user and the clock.
Whether a limit is used up is a choice (its arithmetic is DayTotals).

**BatchSend.**  `sendWithBisect` as the code has it: `report` is the
`BatchReport` with the local stack `pending`; `AfterAnswer` is the loop's body,
`Halves` the split.  `Request` and `TransportFails` play the function the
template is given.

**SyncQueue.**  The cloud thread from `now - lastSync >= syncInterval` to the end
of `sync_pending_records`, round by round and request by request.  It runs
BatchSend's own steps (`Bisect == INSTANCE BatchSend`) with `network_send_batch`
as the sender: login test, request, 401 with one refresh and one more attempt,
transient statuses, refusals.  The server is the Edge Function: it validates one
object, refuses every array (the fields it reads do not exist on one), and
upserts on the start time.  Around it rows are inserted, tokens expire, the user
logs in and out, the network changes between *up*, *down* (the answer, or the
request, is lost), *busy* (408/429/50x) and *failing* (500), and the process
crashes.  While the database fails (`db_ok`) queries return nothing and UPDATEs
do nothing, because the code ignores their result.  Time is relative
(`wait[i]` = `next_retry_at - now`), and of rows that have long been due only the
order is kept, which makes the state finite without bounding the clock.

**Outbox.**  What the queue promises, in three actions: an activity is handed over
and waits; a waiting one is delivered, once or again; a delivered one stops
waiting.  `SyncQueue!Promise` maps the unsynced rows to `waiting` and the cloud's
rows to `delivered`, by their keys; `NothingLost` says that every step of the
queue, its crashes and its clean-up included, is a step of the outbox or none.

**AuthSession.**  Every critical section, request and file operation of
`auth.cpp` and `restclient.cpp` is a step of the GUI or the cloud thread.  The
server issues numbered pairs of tokens; a refresh spends the refresh token.
`Load` models what reading `session.dat` with `strtok` does to a session with an
empty field.  Faults are named in the constant `Faults`: a lost answer, a server
in trouble, a revoked token, a failed write, a crash.  `chosen`, `excused` and
`apart` are history.

### Around the core (composed in MCAgent)

| module | state | steps |
|---|---|---|
| AppLimits | the server's limits, session, cache, `limits.cache`, and where a pull (`alPull`) and a check (`alCheck`) are | the pull is three steps (copy the account, request, store), the check two; logins, logouts, restarts, network and disk failures fall between them |
| DayTotals | clock, open record, rows; `dtUsed` counts truly | use, leave, a second passes; the queries are operators with the code's `WHERE`, `ORDER BY` and `LIMIT` |
| CloudLoop | where the loop is, timers, backoff, change counters, export, files | one step per turn of `cloudLoop`; an export reads the counter, reads the rows and renames in three; records are stored between them; the clock is set back once |
| Settings | memory, file, Run key, fields of the pages (one field per owner) | load with its two writes, edit, three saves, edits of the file while the agent is down |
| RemoteView | settings, the three globals, the accept threads, the page's `onSave` | the thread's loop, accept, recv, answer; stop, wait with time-out, start |
| ControlPanel | session, role, window, menu, pause flag, message box | menu, sidebar, login, logout with its question, save of the role, a session lost in the cloud thread |
| TrayTasks | checks under way, menu item, offer, port, probes, dashboard processes, console | timed and asked-for check, answer, click, probe, start |
| JsonText | a response and a cursor over a small alphabet | one step per `json_array_next`; escaping as operators |
| HttpClient | the thread's connection, the request, what the server carried out | connect, send, read chunk by chunk, retry or give up |
| DeviceId | `device.id`, two processes' copies, heartbeats, the overview's list | read, draw and write by each program, heartbeat, list |

The parts of one composition meet only by a call or a file: no variable of one is
written by another.  Their product would multiply states without adding a
behaviour any property could see, so **MCAgent** (and MCDashboard) takes the sum:
a behaviour picks one part (`part`), which moves while the others rest in an
initial state, and every property is checked in all of it.

### The dashboard (composed in MCDashboard) and the family (MCFamily)

| module | state | steps |
|---|---|---|
| SystemMonitor | the system's counters, the collector's last sample, widgets still to tick, chart, alerts, process times | interrupts; each widget's call of `live`; heartbeat's sample; process list; an interface or process id that changes |
| MachinePages | information asked for, bars with their colours, the tables | answers or failures of the background load, hardware changes, ticks |
| LocalHistory | clock, rows, file and handle, period, strip | rows stored by the agent, opening, choosing a period, refreshing |
| DashSettings | file with its key, form, the panel's thresholds | open, edit, save or fail, close |
| Dashboard | session file and token, glyph, section, dialog, requests, pages | section, range, device, message, dialogs and their requests, answers in any order, expiry; what the code leaves undefined (a null session dereferenced) is either survived or ends the program (`qDown`) |
| ParentLinks | the two tables with who may insert, update, delete (`MayUpdateLink`, `MaySetLimit`...), the rows each page holds | every handler of ParentPage and ParentLinkPage with the refreshes it ends with |
| FamilyPage | extends ParentLinks: the dashboard's widgets and its requests | click, served, delivered: three steps per request; a session that ends in between |

### Proof modules

| module | about | extends |
|---|---|---|
| ActivityTrackerProofs | the tracker's two threads, how they end | ActivityTracker |
| BatchSendProofs | the bisection, its cost and its end | BatchSend |
| SyncQueueProofs | the queue, its refinement of Outbox | SyncQueue |
| AuthSessionProofs | tokens, `refreshMutex`, `session.dat`, how long a call takes | AuthSession |
| FamilyProofs | tables, pages and requests of the family | FamilyPage |
| DataTheorems | sums over finite sets (`SUM`), rankings (`ORDER BY`), loops, texts | library only |
| AgentProofs | the parts around the agent's core, their texts and types | MCAgent, DataTheorems |
| DashboardProofs | the parts of the dashboard | MCDashboard, DataTheorems |

## 3. Runs

| run | result | properties | distinct states |
|---|---|---|---|
| `tracker_safety` | pass | `QuietWhenSuspended`, `NoRowSpansSuspension`, `NoRecordLost`, `RowsDisjoint`, `RowsWellFormed` | 5.3 M |
| `tracker_liveness` | pass | `SuspendClosesRecord`, `ExitCompletes`, `FollowsForeground` | 0.31 M |
| `batch_bisect` | pass | `Partition`, `BlameIsExact`, `BudgetSuffices` | 0.44 M |
| `sync_safety` | pass | `NothingLost` (the queue implements Outbox), `PenaltyDeserved` | 3.5 M |
| `sync_liveness` | pass | `EventuallySynced` | 0.56 M |
| `auth_session` | pass | `DeservedLogout`, `DiskMatchesMemory`, `CallReturns` | 0.21 M |
| `family` | pass | `Consent`, `OnlyApprovedParentsChangeLimits`, `DeleteHitsShownRow`, `ShownIsTarget` | 1.03 M |
| `agent_parts` | pass | `ForcedAreOwn`, `LimitsReachTheWatch` (limits); `TotalsAreRight`; `SkipIsSafe` (snapshots); `FilesAreCurrent`, `SaveKeepsTheRest` (settings); `OldTokenIsDead` (remote view); `PanelIsTrue`; `ChecksAreSound` (updates); `TextIsFaithful` (JSON); `CarriedOutAsAsked` (HTTP); `OneMachine` (device id); types | 0.95 M |
| `dashboard_parts` | pass | `FiguresArePossible` (monitor), `ShownIsCurrent` (widgets), `WeekIsWhole` (history), `KeyOutlivesSave` (settings), `LogoutTakesEffect` (window); types | 1.01 M |
| `tracker_stored_once` | violation | the latch does not keep a record from being stored twice | |
| `sync_backlog` | violation | eleven good records exhaust the budget | |
| `auth_chosen` | violation | a refresh in flight undoes a logout or a login | |

The violations state what a comment or a header says; the quotations are with the
findings in `PROJECT.json`.

* **stored twice.** Watch thread: finish, save, release the latch; before it
  reopens, the machine is locked; `activity_suspend` finds the record still open
  and the latch down, and stores it again.
* **backlog.** All arrays are refused, so a batch of *n* needs *2n - 1* requests;
  from eleven rows on that exceeds 20, the cycle returns -1 and the loop backs
  off.  `sync_liveness` shows that the rows do arrive, over several cycles.
* **session.** `auth_refresh_session` installs its answer, or deletes the
  session, without looking whether the session is still the one it started from.

### What the passing runs leave out, and what happens there

Where the code gives no protection, a property excepts the case by a history
variable rather than by leaving it out of the model; TLC refutes the property
without the exception.

| case | exception | what happens |
|---|---|---|
| a second 401 after a refresh | `SessionFaults = FALSE` in `sync_safety` | the record is penalised as if refused, against `network.cpp:143` |
| 5xx or 429 on a refresh | not in `Faults` of `auth_session` | the session is deleted, against `auth.cpp:408-412` |
| crash or failed write after a refresh | `excused` | `session.dat` holds a spent token; logout at the next start |
| tracking paused | `PausedTimeNotCounted` has no run | the record stays open and is stored with the pause, although the panel says "Tracking is paused." |
| a session closed after midnight | `Unseen` | its seconds of the new day count for neither day's limit |
| local time set back | `clJumped` | the newest snapshot sorts first and is the one deleted |
| a file that cannot be written | `alDirty`, `stFailed` | the write is not repeated |
| remote view's stop gives up after 2 s | `rvLate` | the old thread may still answer with the old token |
| a session lost behind the window | `cpChanged` | a page keeps the former account until the user turns to it |
| agent and dashboard draw an id at once | `apart` | two machines until a restart |
| an interface disappears, a process id is reused | `upset` | an impossible rate, or share, for one sample |
| the settings dialog closed before a logout is answered | in `LogoutTakesEffect` | the callback is dropped and the session stays |
| `view_only` parents | none | nothing tests the level: such a parent sets limits, against `familypage.h:46` |

### Bounds

* `tracker_safety`: two windows of two processes, three records, three clock
  values, one suspension that ends and one change of the clock.  Three records
  are what it takes for one to be stored, one to be in a thread's hands and one
  to be opened; every pair of actions of the two threads interleaves.  Pauses do
  not occur here (`TogglePause` changes nothing the properties read); they do in
  `tracker_liveness`.  `MinDuration = 1`: with 0, which the settings page allows, a
  change of the clock produces rows with `end_time < start_time`.
* `tracker_liveness`: two windows of *one* process, so that a change of title
  alone has to be noticed; two records, so that the window must change once.
* `batch_bisect`: batches of 0..10 with up to two bad rows cover all shapes of
  the stack around powers of two; 33, 99 and 100 with the real budget of 20 make
  the budget run out.
* `sync_safety`: three rows with batches of two, so that there is a full batch, a
  second round and a split; one refused row; a budget that just suffices; one
  crash.  All delays are one tick; `sync_liveness` has delays of different length
  and a growing backoff.
* `sync_liveness`: two rows, one refused, with expiring tokens and logouts, and a
  budget of two requests, which every batch of two exhausts: the rows still
  arrive, because a row that was put off is sorted behind the others.
* `sync_backlog` uses the real limits (100, 20, 20).
* `auth_session`: two threads and three issues of tokens: the initial one and two
  more, enough for two threads to renew at once or for a login in between.
* `family`: who takes part is chosen once (`side`): two parents and a child, one
  parent and two children, or the dashboard with one child and two applications.
  Two identities of limits are needed for one to be deleted and another made; two
  requests in flight for one to overtake another.
* `agent_parts`: two accounts with one limit each (a login in the middle of a pull
  needs two); seven ticks of days of four, in a zone one tick off UTC, so that
  local midnight comes twice and a record can span it; three ticks and two
  snapshots kept, so that one is rotated; two tokens; two saves of the remote
  view, for an old thread to meet a new one; versions with fewer and more parts
  than the running one; values of two characters and arrays of two objects, with a
  buffer that an escape of six just fills; two hosts and two requests; three ids
  and four program starts.
* `dashboard_parts`: one core, interface and process over three interrupts of
  which any number may fall between two of the six widgets' calls; readings on both
  sides of 85 that round to it; two drives; six units of time around a
  Sunday, west of Greenwich; two requests and one dialog at a time.

`CHECK_DEADLOCK FALSE` is set for the three compositions: a program that has been
closed, or whose bounded clock has run out, may stop.

### Fairness

* Tracker: weak fairness of the watch thread's steps, of the GUI thread once it
  is inside a handler, and of the join.  Nothing is assumed of the user, the
  clock or power events.
* Sender: weak fairness of the loop.
* Queue: weak fairness of the cloud thread and of time.  `EventuallySynced`
  assumes `<>[]Healthy` (network, session and database); one that fails again and
  again owes nothing.
* Session: a thread that began a call goes on (weak), and one waiting for
  `refreshMutex` gets it (strong): the other thread leaves it between calls,
  which are seconds apart, so that the waiter cannot be overtaken for ever.
* Limits (`alFair`): the two loops of `main.cpp` run until the agent quits, so
  each step of a pull and of a check is weakly fair.  `LimitsReachTheWatch`
  itself assumes an account that stays, a network that stays and no more restarts
  or changes.
* Dashboard (`qFair`): a request ends, because the HTTP client has time-outs, and
  its callback is delivered.

## 4. Mutants

Each property of each passing run has a mutant, an operator next to the original
(commented "Mutant", "a plausible slip" or "as it would be"), that changes the
model as a plausible bug would change the code: a guard dropped, a latch left up,
a split off by one, a mutex not taken, a counter read too late, a form saved
without what the file held.  The property fails under it.

## 5. Proofs

TLC checks small instances; TLAPS proves the following for every value of the
constants that satisfies the `ASSUME`s of the models (finite sets of windows,
accounts or interfaces, bounds that are natural numbers, a null value that is no
member, a back-off that starts at or below its maximum as 30 s and 600 s do, at
least one host).  Every invariant and every action property of a passing run has a
theorem.  A theorem has the shape *Init* implies an inductive invariant, every
action keeps it (one lemma, or one step, per action), and it implies the property.

| property of a run | theorem | what the inductive invariant adds |
|---|---|---|
| `QuietWhenSuspended`, `NoRowSpansSuspension`, `NoRecordLost` | `SuspensionIsQuiet`, `SleepNotCounted`, `RecordsAccountedFor` | see below |
| `RowsDisjoint`, `RowsWellFormed` | `NoSecondCountedTwice`, `IntervalsAreWellFormed` | `TimeInv`: records are numbered as they open; what was stamped ended before the later began |
| `Partition`, `BlameIsExact` | `NoRecordLostInBisection`, `OnlyBadRecordsBlamed` | `Stacked`, see below |
| `BudgetSuffices` | `OneBadRecordFits` | `CostInv`: what the ranges on the stack will still cost |
| `NothingLost` | `QueueKeepsItsPromise` | `BatchWaits`, `AcceptedStored`, see below |
| `PenaltyDeserved` | `OnlyObjectedArePenalised` | the server objected to each record the report rejects |
| `DeservedLogout` | `LogoutDeserved` | `LockInv`, `TokenInv`, see below |
| `DiskMatchesMemory` | `DiskFollowsMemory` | `WriterInv`: one writer at a time, and what it has still to write is what memory holds |
| `Consent`, `ShownIsTarget`, `DeleteHitsShownRow`, `OnlyApprovedParentsChangeLimits` | `ApprovalIsTheChilds`, `PageShowsTarget`, `DeletesHitTheirRow`, `LimitsAreGuarded` | `FamilyInv`, see below |
| `ForcedAreOwn` | `LimitsAreOwn` | the answer a pull carries belongs to the account it copied before it asked |
| `FilesAreCurrent`, `SaveKeepsTheRest` | `RestartsFindEverything`, `PagesKeepTheRest` | the file follows the cache, and the settings their struct |
| `CarriedOutAsAsked` | `RequestsAreCarriedOutAsAsked` | a request that may not be repeated has one attempt, and nobody has carried it out before it is sent |
| `SkipIsSafe` | `SkippedSnapshotsAreSafe` | what a counter value says of the rows an export has read since |
| `OldTokenIsDead` | `ReplacedTokenIsDead` | unless a stop gave up, there is one accept thread, it is gone when the next starts, and its answer was read since the last change |
| `PanelIsTrue` | `WindowAndMenuAreTrue` | one family page is hidden; an open menu knows the role |
| `ChecksAreSound` | `UpdateChecksAreSound` | next to nothing; the work is in the comparison of versions of any length |
| `OneMachine` | `AccountSeesOneMachine` | a program that drew an id has the machine to itself until it is written |
| `TotalsAreRight` | `SecondsOfToday` | `DayInv`: the true counter is a sum over the rows and the open record |
| `FiguresArePossible` | `FiguresAreTrue` | `MonitorInv`: what was drawn so far and what the last sample holds add up to the counter |
| `ShownIsCurrent` | `WidgetsAreCurrent` | a bar's colour and its text agree; the table has a row per drive |
| `WeekIsWhole` | `WeeksAreWhole` | rows start in the past; the rest is arithmetic of days and weekdays |
| `TextIsFaithful` | `TextsComeBackWhole` | `TextInv`: the cursor stands behind the first k objects, and what was found are their values |
| `KeyOutlivesSave` | `KeySurvives` | the panel follows the file |
| `PartsTypeOK` (agent) | `AgentTypes` | snapshots have distinct names; today's seconds are no more than have passed since midnight; attempts made and left are two; a running program has an id |
| `PartsTypeOK` (dashboard) | `DashboardTypes`, with `WidgetsShowPercentages` | a message has a receiver before it is sent; a dialog's request knows its dialog |

`TrackerInvariant`, `TimesInOrder`, `BatchInvariant`, `QueueInvariant`,
`SessionInvariant` and `FamilyInvariant` state the inductive invariants
themselves, the type invariants among them.

### The arguments

**Tracker.**  None of the properties is inductive: that no row spans a suspension
needs to know of the *snapshot* a thread is about to store; that no record is lost
needs to know that whoever is about to replace or clear the record has handed it
over.  `IndInv` adds `Control` (the GUI thread closes sessions only while
`suspended` is up, which keeps the watch thread from opening a record under its
hands), `RecordInv` (an open record belongs to the present waking period),
`SnapshotInv` (what a thread saves is the open record, unless that was cleared
since, and is settled once saved) and `HandedOver` (at "reopen" and "clear" the
open record is accounted for, by this thread or by the one at whose latch it
returned).  `TimeInv` is proved on top of it.

**Bisection.**  `Stacked`: the ranges on the stack are not empty and each ends
where, or before, those below it begin, so that what is popped is disjoint from
what is left, and the two halves again.  For the budget every range on the stack
costs one request, and the one with the bad record two more for each time it will
be halved (`Depth`); that is at most 15 for 128 records, and the code has 100
records and 20 requests.

**Queue.**  A row may be marked synced only for an answer that said so, and between
the answer and the UPDATE lie crashes, failing statements and a clean-up.
`BatchWaits` says that the rows of the batch under way are unsynced rows of the
table, `AcceptedStored` that what the report calls accepted is in the cloud; with
them each action maps to an action of Outbox, or to none.  `ReportInBatch` keeps
the bisection's indices within the batch.  The order of the query is a total one
(`RankIsInjective`), so that no row is fetched twice.

**Session.**  `LockInv`: a refresh runs under `refreshMutex`, which is held for
nothing else.  `TokenInv`: the refresh token in memory is good, or excused, but for
the moment between a grant and its application, when the thread that spent it
holds the successor *and* the mutex, so that no second thread can send the spent
one.  This is the argument the mutex exists for, for any number of threads.

**Family.**  Identities of limits are handed out once (`IdsUnique`), so that every
row a page, a widget, a request or an answer holds is true of the limit that has
its identity, if there is one (`TrueRow`), however often that was deleted and set
again.

**Parts.**  `LimitsSpec`, `MonitorSpec` and their likes are the initial states and
all the steps of a part.  `PartsRunByThemselves` and `DashPartsByThemselves` show
that a behaviour of MCAgent, or MCDashboard, is one of each of its parts: a
theorem about a part is one about what the run explores, and `FamilySpec` likewise
allows all the steps MCFamily takes.

**Sums and rankings.**  The models add up rows with the folds of the community
modules, which are recursive functions on the subsets of a set.  The library's
induction theorems cannot be used (they take an operator as a parameter);
`DataTheorems` argues by a smallest counterexample instead, from `WFMin` of
WellFoundedInduction.  Its lemmas are what the proofs cite: a sum loses an element
(`SumRemove`), grows with its function (`SumGrows`), is bounded (`SumBound`), and a
finite set can be listed in the order of a measure (`RankingExists`), which is
what the reports' and the queries' ORDER BY rest on.  `FewComeFirst` bounds a LIMIT:
where no two rows rank alike, at most n have fewer than n before them.

**Texts.**  The loops of `jsonutil.cpp` are recursive functions of the number of
turns.  Three lemmas stand for the induction a loop needs: `StepByStep` (what holds
at first and is kept by each step holds throughout), `LoopExists` (the function
the recursion defines exists) and `LoopStays` (a loop that has ended stays where it
is).  A text is flattened from its items, and `JoinedGrows`, `HoldsBoth` and `PartIs`
say where each item lies in it.  With them: the scan inside an object passes an
escaped character in one turn, so that no quote or brace of a value ends it
(`ObjectEnd` is the end of the item); reading the object gives what the value
decodes to; and `json_escape` stops between two characters' escapes.

**How long things take.**  What eventually happens needs fairness, but that nothing
turns back does not, and is proved with a measure that every step lowers.
`ExitIsBounded`: once `g_workerRunning` is down the watch thread is at most fourteen
of its turns from the end of its loop, wherever that met it; a lock or sleep
event's handler takes six; after the join no insert is under way when `db_close`
runs.  `BisectionEnds`: every turn of the loop spends a request or ends it, and n
records take at most 2n - 1 requests: those below the top of the stack account for
two each, and each range on it but one for the request that split it.
`CallsAreBounded`: a REST call is at most nine steps from its return, and who waits for
`refreshMutex` waits for a thread that needs no lock to go on, so that no two calls
wait for one another.

### Hypotheses of single theorems

* `IntervalsAreWellFormed`: `MinDuration >= 1`.  The default is 2
  (`settings.cpp:50`), but the settings page allows 0 (`settingspage.cpp:47`); for that case
  `ForwardClockIsEnough` has the same result while the clock is not set back, and
  TLC refutes it otherwise.
* `OneBadRecordFits`: batches of at most 128 and at least 16 requests
  (`sync.cpp`: 100 and 20).
* `LogoutDeserved`: no server in trouble during a refresh; the code logs the user out
  then (section 3).
* `OnlyObjectedArePenalised`: `SessionFaults = FALSE`, as in `sync_safety`; a second 401
  is penalised.

## 6. Only model-checked

* **Liveness** (`SuspendClosesRecord`, `ExitCompletes`, `FollowsForeground`,
  `EventuallySynced`, `CallReturns`, `LimitsReachTheWatch`, `LogoutTakesEffect`):
  fairness is out of the prover's reach.  What the first two and `CallReturns`
  need besides fairness is proved (`ExitIsBounded`, `CallsAreBounded`).
* The three **violations** are counterexamples and need no proof.

## 7. Not modelled

* **The Go backend, the desktop shell and the web front ends**
  (`apps/dashboard-web`): a second dashboard with the same queries; its
  `withAuthRetry` (`server.go:317`) is AuthSession's protocol without the mutex,
  whose failure the mutant `FreeShared` shows.
* **Vendored code**: SQLite, JSON, their headers.
* **Appearance**: layout, style sheets, charts and gauges as painted, printing, the
  table of translations, the wording of messages and logs.
* **Calls nobody makes**: `device_set_label`, `refreshSession` and the inbox, ping
  and mark-read calls of the dashboard's client, `db_print_unsynced`,
  `db_count_unsynced`.
* **The database's schema** and its migration, which run once at start.
* That a message-only window receives `WM_POWERBROADCAST` at all
  (`main.cpp:149`): suspension events are assumed to arrive or not.

## 8. Plan

1. An abstract specification of the tracker: a log that gains each record at
   least once (once is what `tracker_stored_once` refutes), refined by it.
2. A measure for a cycle of the upload queue, as the bisection has one.
3. The Go backend's `withAuthRetry` against the server of AuthSession.
