------------------------------ MODULE SyncQueue ------------------------------
(***************************************************************************)
(* The upload queue of the agent: the activity_logs table (database.cpp),  *)
(* the sync part of cloudLoop (main.cpp), sync_pending_records (sync.cpp), *)
(* sendWithBisect (module BatchSend), network_send_batch (network.cpp) and *)
(* the Edge Function that stores what it receives (index.ts).              *)
(*                                                                         *)
(* The cloud thread is sequential; its place is pc.  Around it the watch   *)
(* thread inserts rows, the user logs in and out, the access token         *)
(* expires, the network and the server fail, and the process crashes.      *)
(*                                                                         *)
(* Time is relative, so that it needs no bound: wait[i] is next_retry_at   *)
(* minus the clock, elapsed is the clock minus lastSync.                   *)
(***************************************************************************)
EXTENDS Integers, Sequences, FiniteSets

CONSTANTS
    N,             \* rows inserted in a behaviour
    Invalid,       \* rows the Edge Function's validation refuses
    StartOf,       \* start_time of each row: the key of the upsert
    MaxRecords,    \* MAX_RECORDS
    MaxRequests,   \* kMaxRequestsPerRound
    MaxRounds,     \* kMaxRoundsPerCycle
    RetryBase,     \* retry_backoff_base_sec
    RetryMax,      \* retry_backoff_max_sec
    RetryCap,      \* retry_count is not told apart beyond this (20 in the code)
    AgeCap,        \* nor is the time since a row became due, apart from the order
    SyncInterval,  \* sync_interval_sec
    BackoffBase,   \* first backoff after a failed cycle (30 s)
    BackoffMax,    \* and the largest (600 s)
    MaxCrashes,    \* bound on crashes
    Faults,        \* whether network, server and database may fail
    SessionFaults  \* whether the user logs out and the token expires

Ids == 1 .. N

ASSUME SyncAssumption ==
    /\ N \in Nat
    /\ Invalid \subseteq Ids
    /\ StartOf \in [Ids -> Nat]
    /\ {MaxRecords, MaxRequests, MaxRounds, RetryBase, RetryMax} \subseteq Nat \ {0}
    /\ {RetryCap, AgeCap, SyncInterval, BackoffBase, BackoffMax, MaxCrashes} \subseteq Nat
    /\ RetryCap <= 20
    /\ {Faults, SessionFaults} \subseteq BOOLEAN

VARIABLES
    inserted,      \* rows inserted so far: AUTOINCREMENT's last id
    db,            \* ids in the table
    synced,        \* ids with synced = 1
    retry,         \* retry_count of each row
    wait,          \* next_retry_at of each row, relative to the clock
    cloud,         \* ids stored in the cloud's table
    pc,            \* where the cloud thread is
    batch,         \* records: the ids fetched in this round
    report,        \* the state of sendWithBisect
    round, attempt,
    elapsed,       \* now - lastSync of cloudLoop
    sync_backoff,  \* syncBackoffSec
    logged_in, token_ok,
    net,           \* "up", "down", "busy" (408/429/50x), "failing" (HTTP 500)
    db_ok,         \* whether SQLite statements succeed (not: locked, disk full)
    crashes,
    objected       \* history: rows the server refused by themselves in this round

vars == <<inserted, db, synced, retry, wait, cloud, pc, batch, report, round,
          attempt, elapsed, sync_backoff, logged_in, token_ok, net, db_ok, crashes,
          objected>>

table == <<inserted, db, synced, retry, wait>>
session == <<logged_in, token_ok>>
timer == <<elapsed, sync_backoff>>

\* sendWithBisect works on report alone; its server and its batch are ours.
Bisect == INSTANCE BatchSend WITH
    Counts <- 0 .. MaxRecords, MaxBad <- 0, Failures <- TRUE,
    count <- Len(batch), bad <- {}

NeverFailed == -AgeCap - N - 1

Places == {"idle", "fetch", "send", "attempt", "refresh", "mark", "penalise"}

TypeOK ==
    /\ inserted \in 0 .. N
    /\ db \subseteq 1 .. inserted
    /\ synced \subseteq db
    /\ retry \in [Ids -> 0 .. RetryCap]
    /\ wait \in [Ids -> Int]
    /\ \A i \in Ids : wait[i] >= NeverFailed
    /\ cloud \subseteq 1 .. inserted
    /\ pc \in Places
    /\ batch \in Seq(Ids)
    /\ report \in Bisect!Reports
    /\ round \in 0 .. MaxRounds
    /\ attempt \in {0, 1}
    /\ elapsed \in 0 .. SyncInterval + BackoffMax
    /\ sync_backoff \in 0 .. BackoffMax
    /\ logged_in \in BOOLEAN
    /\ token_ok \in BOOLEAN
    /\ token_ok => logged_in
    /\ net \in {"up", "down", "busy", "failing"}
    /\ db_ok \in BOOLEAN
    /\ crashes \in 0 .. MaxCrashes
    /\ objected \subseteq Ids

\* An empty table, and cloudLoop just started: lastSync = 0, so a sync is due.
Init ==
    /\ inserted = 0
    /\ db = {}
    /\ synced = {}
    /\ retry = [i \in Ids |-> 0]
    /\ wait = [i \in Ids |-> NeverFailed]
    /\ cloud = {}
    /\ pc = "idle"
    /\ batch = <<>>
    /\ report = Bisect!Start(0)
    /\ round = 0
    /\ attempt = 0
    /\ elapsed = SyncInterval + BackoffMax
    /\ sync_backoff = 0
    /\ logged_in = TRUE
    /\ token_ok = TRUE
    /\ net = "up"
    /\ db_ok = TRUE
    /\ crashes = 0
    /\ objected = {}

-----------------------------------------------------------------------------
(***************************************************************************)
(* The statements of database.cpp on the queue.                            *)
(***************************************************************************)

\* The lesser and the greater of two numbers (MIN and MAX of SQL, std::min).
Lesser(a, b) == IF a < b THEN a ELSE b
Greater(a, b) == IF a > b THEN a ELSE b

\* The delay db_mark_sync_failed adds for a row that failed r times before:
\* MAX(1, MIN(max, base << MIN(r + 1, 20))).
RetryDelay(r) == Greater(1, Lesser(RetryMax, RetryBase * 2^Lesser(r + 1, 20)))

\* db_insert_activity, by the watch thread.
InsertActivity ==
    /\ db_ok
    /\ inserted < N
    /\ inserted' = inserted + 1
    /\ db' = db \cup {inserted + 1}
    /\ UNCHANGED <<synced, retry, wait, cloud, pc, batch, report, round, attempt,
                   timer, session, net, db_ok, crashes, objected>>

\* The rows WHERE synced = 0 AND next_retry_at <= now.
Due == {i \in db \ synced : wait[i] <= 0}

\* Their order: ORDER BY next_retry_at, id.
Sooner(i, j) == wait[i] < wait[j] \/ (wait[i] = wait[j] /\ i < j)

\* The first MaxRecords of them: LIMIT.  None when the query fails.
db_get_unsynced_records ==
    LET count == IF db_ok THEN Lesser(Cardinality(Due), MaxRecords) ELSE 0
    IN  [k \in 1 .. count |->
            CHOOSE i \in Due : Cardinality({j \in Due : Sooner(j, i)}) = k - 1]

-----------------------------------------------------------------------------
(***************************************************************************)
(* The Edge Function, called with one record (a JSON object) or with       *)
(* several (a JSON array, whose device_id is undefined).                   *)
(***************************************************************************)

\* The ids of the records network_send_batch is sending.
Sending == {batch[k + 1] : k \in Bisect!Members(Bisect!Top)}

\* The validation: an array fails it, whatever it holds.
ValidPayload == Cardinality(Sending) = 1 /\ Sending \cap Invalid = {}

\* The upsert, on conflict of (user_id, device_id, start_time).
Upsert(rows) == {j \in cloud : \A i \in rows : StartOf[j] # StartOf[i]} \cup rows

-----------------------------------------------------------------------------
(***************************************************************************)
(* cloudLoop and sync_pending_records.                                     *)
(***************************************************************************)

\* The end of sync_pending_records with this result, and what cloudLoop does.
EndCycle(result) ==
    /\ pc' = "idle"
    /\ sync_backoff' =
          IF result = 0 THEN 0
          ELSE Lesser(IF sync_backoff = 0 THEN BackoffBase ELSE 2 * sync_backoff, BackoffMax)

\* now - lastSync >= syncInterval.  Without a session the cycle ends at once.
StartCycle ==
    /\ pc = "idle"
    /\ elapsed >= SyncInterval + sync_backoff
    /\ elapsed' = 0
    /\ round' = 0
    /\ IF logged_in THEN pc' = "fetch" /\ UNCHANGED sync_backoff ELSE EndCycle(0)
    /\ UNCHANGED <<table, cloud, batch, report, attempt, session, net, db_ok, crashes, objected>>

Fetch ==
    /\ pc = "fetch"
    /\ batch' = db_get_unsynced_records
    /\ report' = Bisect!Start(Len(batch'))
    /\ objected' = {}
    /\ IF batch' = <<>> THEN EndCycle(0) ELSE pc' = "send" /\ UNCHANGED sync_backoff
    /\ UNCHANGED <<table, cloud, round, attempt, elapsed, session, net, db_ok, crashes>>

\* The bisection is over, or its budget is spent.
BisectEnds ==
    /\ pc = "send"
    /\ ~Bisect!Busy
    /\ pc' = "mark"
    /\ UNCHANGED <<table, cloud, batch, report, round, attempt, timer, session, net, db_ok, crashes, objected>>

BisectOutOfBudget ==
    /\ pc = "send"
    /\ Bisect!OutOfBudget
    /\ UNCHANGED <<table, cloud, pc, batch, round, attempt, timer, session, net, db_ok, crashes, objected>>

-----------------------------------------------------------------------------
(***************************************************************************)
(* network_send_batch for the range on top of the stack.                   *)
(***************************************************************************)

\* The call returns this outcome to sendWithBisect.
Returns(outcome) == Bisect!Answer(outcome) /\ pc' = "send"

\* The test of auth_is_logged_in.
SendBegin ==
    /\ pc = "send"
    /\ Bisect!Busy
    /\ report.requests < MaxRequests
    /\ attempt' = 0
    /\ IF logged_in THEN pc' = "attempt" /\ UNCHANGED report ELSE Returns("TransportError")
    /\ UNCHANGED <<table, cloud, batch, round, timer, session, net, db_ok, crashes, objected>>

\* No answer: the server may have stored the record all the same.
AttemptLost ==
    /\ pc = "attempt"
    /\ net = "down"
    /\ Returns("TransportError")
    /\ cloud' \in {cloud} \cup (IF ValidPayload /\ token_ok THEN {Upsert(Sending)} ELSE {})
    /\ UNCHANGED <<table, batch, round, attempt, timer, session, net, db_ok, crashes, objected>>

\* Mutant: 408, 429 and 50x count as a refusal of the data.
AttemptBusyRejected ==
    /\ pc = "attempt"
    /\ net = "busy"
    /\ Returns("Rejected")
    /\ UNCHANGED <<table, cloud, batch, round, attempt, timer, session, net, db_ok, crashes, objected>>

\* A status isTransientStatus knows.
AttemptBusy ==
    /\ pc = "attempt"
    /\ net = "busy"
    /\ Returns("TransportError")
    /\ UNCHANGED <<table, cloud, batch, round, attempt, timer, session, net, db_ok, crashes, objected>>

\* HTTP 401: the token is missing or no longer valid.  Only the first one
\* leads to a refresh.
AttemptUnauthorized ==
    /\ pc = "attempt"
    /\ net \in {"up", "failing"}
    /\ ~token_ok
    /\ IF attempt = 0 THEN pc' = "refresh" /\ UNCHANGED report ELSE Returns("Rejected")
    /\ UNCHANGED <<table, cloud, batch, round, attempt, timer, session, net, db_ok, crashes, objected>>

\* HTTP 400 (validation) or 500 (the insert failed).
AttemptRefused ==
    /\ pc = "attempt"
    /\ net \in {"up", "failing"}
    /\ token_ok
    /\ ValidPayload => net = "failing"
    /\ Returns("Rejected")
    /\ objected' = IF Cardinality(Sending) = 1 THEN objected \cup Sending ELSE objected
    /\ UNCHANGED <<table, cloud, batch, round, attempt, timer, session, net, db_ok, crashes>>

\* HTTP 200.
AttemptAccepted ==
    /\ pc = "attempt"
    /\ net = "up"
    /\ token_ok
    /\ ValidPayload
    /\ Returns("Accepted")
    /\ cloud' = Upsert(Sending)
    /\ UNCHANGED <<table, batch, round, attempt, timer, session, net, db_ok, crashes, objected>>

\* restclient_refresh_if_stale: logged out meanwhile, or the refresh does not
\* get through, or it is answered by anything but 2xx (the refresh token is
\* refused, or the server is in trouble), which logs the user out;
RefreshFails ==
    /\ pc = "refresh"
    /\ ~token_ok
    /\ \/ ~logged_in /\ UNCHANGED session
       \/ logged_in /\ net = "down" /\ UNCHANGED session
       \/ logged_in /\ net # "down" /\ logged_in' = FALSE /\ UNCHANGED token_ok
    /\ Returns("TransportError")
    /\ UNCHANGED <<table, cloud, batch, round, attempt, timer, net, db_ok, crashes, objected>>

\* the token was renewed meanwhile, or is renewed now: try once more.
RefreshSucceeds ==
    /\ pc = "refresh"
    /\ token_ok \/ (logged_in /\ net = "up")
    /\ token_ok' = TRUE
    /\ attempt' = 1
    /\ pc' = "attempt"
    /\ UNCHANGED <<table, cloud, batch, report, round, timer, logged_in, net, db_ok, crashes, objected>>

SendBatch ==
    \/ SendBegin \/ AttemptLost \/ AttemptBusy \/ AttemptUnauthorized
    \/ AttemptRefused \/ AttemptAccepted \/ RefreshFails \/ RefreshSucceeds

-----------------------------------------------------------------------------
(***************************************************************************)
(* The rest of the round: record the answers in the table.                 *)
(***************************************************************************)

\* The ids of the records at these places of the batch.
IdsAt(places) == {batch[k + 1] : k \in places}

\* Mutant: the whole batch is marked once any of it was accepted.
AcceptedIdsWholeBatch == IF report.accepted = {} THEN {} ELSE IdsAt(0 .. Len(batch) - 1)

AcceptedIds == IdsAt(report.accepted)

\* db_mark_synced_batch: one UPDATE; its result is not looked at.
MarkSynced ==
    /\ pc = "mark"
    /\ synced' = IF db_ok THEN synced \cup (AcceptedIds \cap db) ELSE synced
    /\ pc' = "penalise"
    /\ UNCHANGED <<inserted, db, retry, wait, cloud, batch, report, round, attempt,
                   timer, session, net, db_ok, crashes, objected>>

\* db_mark_sync_failed for the next rejected record.
MarkSyncFailed ==
    /\ pc = "penalise"
    /\ \E k \in report.rejected :
          /\ \A l \in report.rejected : k <= l
          /\ report' = [report EXCEPT !.rejected = @ \ {k}]
          /\ LET i == batch[k + 1]
             IN  IF db_ok
                 THEN /\ retry' = [retry EXCEPT ![i] = Lesser(@ + 1, RetryCap)]
                      /\ wait' = [wait EXCEPT ![i] = RetryDelay(retry[i])]
                 ELSE UNCHANGED <<retry, wait>>
    /\ UNCHANGED <<inserted, db, synced, cloud, pc, batch, round, attempt, timer,
                   session, net, db_ok, crashes, objected>>

\* Aborted: -1.  A batch that was not full emptied the queue: 0.
RoundEnds ==
    /\ pc = "penalise"
    /\ report.rejected = {}
    /\ report' = Bisect!Start(0)
    /\ batch' = <<>>
    /\ objected' = {}
    /\ IF report.aborted THEN EndCycle(-1) /\ UNCHANGED round
       ELSE IF Len(batch) < MaxRecords \/ round + 1 = MaxRounds
            THEN EndCycle(0) /\ UNCHANGED round
            ELSE pc' = "fetch" /\ round' = round + 1 /\ UNCHANGED sync_backoff
    /\ UNCHANGED <<table, cloud, attempt, elapsed, session, net, db_ok, crashes>>

\* db_delete_old_records, between two cycles: the synced rows up to an age.
DeleteOld ==
    /\ pc = "idle"
    /\ db_ok
    /\ \E k \in synced :
          /\ db' = db \ {i \in synced : i <= k}
          /\ synced' = {i \in synced : i > k}
    /\ UNCHANGED <<inserted, retry, wait, cloud, pc, batch, report, round, attempt,
                   timer, session, net, db_ok, crashes, objected>>

CloudThread ==
    \/ StartCycle \/ Fetch \/ BisectEnds \/ BisectOutOfBudget \/ SendBatch
    \/ MarkSynced \/ MarkSyncFailed \/ RoundEnds

-----------------------------------------------------------------------------
(***************************************************************************)
(* The surroundings.                                                       *)
(***************************************************************************)

\* Row i a second later.  Beyond AgeCap only the order of the rows is kept.
Aged(i) ==
    LET older == {wait[j] : j \in {k \in Ids : wait[k] \in wait[i] .. -AgeCap}}
    IN  CASE wait[i] = NeverFailed -> NeverFailed
          [] wait[i] > -AgeCap     -> wait[i] - 1
          [] OTHER                 -> -AgeCap - Cardinality(older)

Tick ==
    /\ elapsed' = Lesser(elapsed + 1, SyncInterval + BackoffMax)
    /\ wait' = [i \in Ids |-> Aged(i)]
    /\ UNCHANGED <<inserted, db, synced, retry, cloud, pc, batch, report, round,
                   attempt, sync_backoff, session, net, db_ok, crashes, objected>>

NetChanges ==
    /\ Faults
    /\ net' \in {"up", "down", "busy", "failing"} \ {net}
    /\ UNCHANGED <<table, cloud, pc, batch, report, round, attempt, timer, session, db_ok, crashes, objected>>

\* The database becomes busy or full, or recovers.
DbChanges ==
    /\ Faults
    /\ db_ok' = ~db_ok
    /\ UNCHANGED <<table, cloud, pc, batch, report, round, attempt, timer, session, net, crashes, objected>>

TokenExpires ==
    /\ SessionFaults
    /\ token_ok
    /\ token_ok' = FALSE
    /\ UNCHANGED <<table, cloud, pc, batch, report, round, attempt, timer, logged_in, net, db_ok, crashes, objected>>

Logout ==
    /\ SessionFaults
    /\ logged_in
    /\ logged_in' = FALSE
    /\ token_ok' = FALSE
    /\ UNCHANGED <<table, cloud, pc, batch, report, round, attempt, timer, net, db_ok, crashes, objected>>

Login ==
    /\ ~logged_in
    /\ net = "up"
    /\ logged_in' = TRUE
    /\ token_ok' = TRUE
    /\ UNCHANGED <<table, cloud, pc, batch, report, round, attempt, timer, net, db_ok, crashes, objected>>

\* The process dies and is started again: the table and the session survive.
Crash ==
    /\ crashes < MaxCrashes
    /\ crashes' = crashes + 1
    /\ pc' = "idle"
    /\ batch' = <<>>
    /\ report' = Bisect!Start(0)
    /\ round' = 0
    /\ attempt' = 0
    /\ elapsed' = SyncInterval + BackoffMax
    /\ sync_backoff' = 0
    /\ objected' = {}
    /\ UNCHANGED <<table, cloud, session, net, db_ok>>

Surroundings ==
    \/ InsertActivity \/ DeleteOld \/ Tick \/ NetChanges \/ DbChanges \/ TokenExpires
    \/ Logout \/ Login \/ Crash

Next == CloudThread \/ Surroundings

\* The cloud thread runs and time passes.
Spec == Init /\ [][Next]_vars /\ WF_vars(CloudThread) /\ WF_vars(Tick)

-----------------------------------------------------------------------------
\* A row with the key of row i is in the cloud.
InCloud(i) == \E j \in cloud : StartOf[j] = StartOf[i]

Keyed(rows) == {StartOf[i] : i \in rows}

\* The queue as an outbox: its unsynced rows wait, the cloud's rows are delivered.
Promise == INSTANCE Outbox WITH
    Keys <- Keyed(Ids), handed <- Keyed(1 .. inserted),
    waiting <- Keyed(db \ synced), delivered <- Keyed(cloud)

(* No activity is lost on its way to the cloud, none appears there that    *)
(* does not wait here, and the cloud gives none back: a row leaves the     *)
(* queue (db_mark_synced_batch) only after it was stored, through lost     *)
(* answers, failing statements, crashes between the request and the        *)
(* UPDATE, and the deletion of old rows.                                   *)
NothingLost == Promise!Spec

(* A record's retry is put off only because the server objected to that    *)
(* very record, sent alone (sync.cpp:7-12: not when the network fails, and *)
(* not together with a bad neighbour; network.h:32-35).                    *)
PenaltyDeserved ==
    [][\A i \in Ids : wait'[i] > Greater(wait[i], 0) => i \in objected]_vars

(* A backlog is drained in one cycle when nothing fails (sync.cpp:14-15),  *)
(* so a cycle is cut short only by a fault.                                *)
HealthyCycleCompletes ==
    ~Faults /\ ~SessionFaults => ~report.aborted

\* Network and database work, and somebody is logged in with a valid token.
Healthy == net = "up" /\ token_ok /\ db_ok

(* Records "will be synchronized automatically once the connection is      *)
(* restored" (README.md): every row the server does not refuse is uploaded *)
(* once the surroundings stay healthy, with bad rows in the queue, after   *)
(* any number of failures and whatever backoff they left behind.           *)
EventuallySynced ==
    <>[]Healthy => \A i \in Ids \ Invalid : [](inserted >= i => <>InCloud(i))
=============================================================================
