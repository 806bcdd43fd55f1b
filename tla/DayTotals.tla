------------------------------ MODULE DayTotals ------------------------------
(***************************************************************************)
(* "Today": how the agent adds up the seconds an application was used,     *)
(* from the closed records of activity_logs and the record that is open,   *)
(* around local midnight; and the totals the reports and the dashboard     *)
(* make of the same rows.                                                  *)
(***************************************************************************)
EXTENDS Integers, FiniteSets, SequencesExt

CONSTANTS
    Procs,           \* process names
    DayLen,          \* seconds of a day
    Zone,            \* local time minus UTC
    min_duration_sec,      \* shorter records are not stored
    DAILY_APP_SUMMARY_MAX, \* rows of a report
    LastTick         \* bound: the clock stops here

ASSUME DayAssumption ==
    /\ DayLen \in Nat \ {0} /\ Zone \in Int /\ LastTick \in Nat
    /\ min_duration_sec \in Nat /\ DAILY_APP_SUMMARY_MAX \in 0..15 /\ IsFiniteSet(Procs)

VARIABLES
    dtNow,    \* time(NULL)
    dtOpen,   \* g_current_record: process and start, or <<>>
    dtRows,   \* activity_logs
    dtUsed    \* history: seconds of every process since local midnight

dtVars == <<dtNow, dtOpen, dtRows, dtUsed>>

dtTypeOK ==
    /\ dtNow \in 0..LastTick
    /\ dtOpen = <<>> \/ dtOpen \in Procs \X (0..dtNow)
    /\ \A r \in Range(dtRows) : /\ r.proc \in Procs /\ r.start \in 0..dtNow
                                /\ r.dur \in Nat /\ r.start + r.dur <= dtNow
    /\ dtUsed \in [Procs -> 0..DayLen]

dtInit == dtNow = 0 /\ dtOpen = <<>> /\ dtRows = <<>> /\ dtUsed = [p \in Procs |-> 0]

-----------------------------------------------------------------------------
(* The queries.                                                            *)

LocalDay(t) == (t + Zone) \div DayLen

todayStart == LocalDay(dtNow) * DayLen - Zone

\* SUM over the rows at some positions of the table.
SumOfRows(f, at) == FoldFunctionOnSet(LAMBDA a, b : a + b, 0, f, at)

RowsSince(from) == {k \in DOMAIN dtRows : dtRows[k].start >= from}

Total(p, from) == SumOfRows([k \in DOMAIN dtRows |-> dtRows[k].dur],
                            {k \in RowsSince(from) : dtRows[k].proc = p})

db_get_today_seconds(p) == Total(p, todayStart)

\* ORDER BY total DESC LIMIT n, over the processes that have a row today.
Report(n) ==
    LET seen == {dtRows[k].proc : k \in RowsSince(todayStart)}
        all  == CHOOSE s \in SetToSeqs(seen) : \A i, j \in DOMAIN s :
                    i < j => db_get_today_seconds(s[i]) >= db_get_today_seconds(s[j])
    IN SubSeq(all, 1, IF Len(all) < n THEN Len(all) ELSE n)

db_build_daily_summary_text == Report(15)
db_get_today_app_summary(n) == Report(IF n < DAILY_APP_SUMMARY_MAX THEN n ELSE DAILY_APP_SUMMARY_MAX)

\* Mutant: the open session counts from its start, of yesterday or not.
usedTodayUnclipped(p) ==
    db_get_today_seconds(p) + (IF dtOpen # <<>> /\ dtOpen[1] = p THEN dtNow - dtOpen[2] ELSE 0)

\* activity_check_limits: the open session counts from midnight on.
usedToday(p) ==
    db_get_today_seconds(p) +
    (IF dtOpen = <<>> \/ dtOpen[1] # p THEN 0
     ELSE dtNow - (IF dtOpen[2] > todayStart THEN dtOpen[2] ELSE todayStart))

-----------------------------------------------------------------------------
(* The machine is used.                                                    *)

Closed == IF dtOpen # <<>> /\ dtNow - dtOpen[2] >= min_duration_sec
          THEN Append(dtRows, [proc |-> dtOpen[1], start |-> dtOpen[2], dur |-> dtNow - dtOpen[2]])
          ELSE dtRows

Use(p) == dtRows' = Closed /\ dtOpen' = <<p, dtNow>> /\ UNCHANGED <<dtNow, dtUsed>>

Leave == dtOpen # <<>> /\ dtRows' = Closed /\ dtOpen' = <<>> /\ UNCHANGED <<dtNow, dtUsed>>

SecondPasses ==
    /\ dtNow < LastTick /\ dtNow' = dtNow + 1
    /\ dtUsed' = IF LocalDay(dtNow') # LocalDay(dtNow) THEN [p \in Procs |-> 0]
                 ELSE IF dtOpen = <<>> THEN dtUsed
                 ELSE [dtUsed EXCEPT ![dtOpen[1]] = @ + 1]
    /\ UNCHANGED <<dtOpen, dtRows>>

dtNext == Leave \/ SecondPasses \/ \E p \in Procs : (dtOpen # <<>> => dtOpen[1] # p) /\ Use(p)

-----------------------------------------------------------------------------
(* Properties.                                                             *)

\* The part after midnight of closed records that began before, and records
\* too short to be stored: what a limit never sees.
Unseen(p) ==
    LET late(r) == IF r.proc = p /\ r.start < todayStart /\ r.start + r.dur > todayStart
                   THEN r.start + r.dur - todayStart ELSE 0
    IN SumOfRows([k \in DOMAIN dtRows |-> late(dtRows[k])], DOMAIN dtRows)

\* A daily limit counts the seconds of today: never one too many, and with
\* every record stored none is missing but those of a record that was closed
\* after the midnight it was open at.
CountsToday ==
    \A p \in Procs :
       /\ usedToday(p) + Unseen(p) <= dtUsed[p]
       /\ min_duration_sec <= 1 => usedToday(p) + Unseen(p) = dtUsed[p]

\* A report that is cut at its length drops no application in favour of one
\* that was used less, and the reports of the tray and of the overview agree.
ReportKeepsTop ==
    LET rep == db_get_today_app_summary(Cardinality(Procs))
    IN /\ IsPrefix(rep, db_build_daily_summary_text)
       /\ \A p \in Procs \ Range(rep), q \in Range(rep) :
             db_get_today_seconds(p) <= db_get_today_seconds(q)

\* Two sums over the same rows decide what a child may still use and what the
\* parent reads: both are right at every moment, over midnight included.
TotalsAreRight == CountsToday /\ ReportKeepsTop
=============================================================================
