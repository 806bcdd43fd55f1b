---------------------------- MODULE LocalHistory ----------------------------
(* What the dashboard shows of the agent's database, which it only reads:   *)
(* the activity of a day or a week on the overview (overviewpage.cpp), the  *)
(* totals and the latest rows on the local page (localpage.cpp), through    *)
(* the queries of localdb.cpp. Days are cut at midnight UTC; the weekday is *)
(* that of the local calendar.                                              *)
EXTENDS Integers, Sequences, FiniteSets, SequencesExt

CONSTANTS HourMarks,    \* units of time in a day
          Offset,       \* local time minus UTC, in these units
          FirstHour, LastHour,  \* bounds of the clock
          HistApps,
          UsageLimit, RecentLimit,  \* LIMIT 20, LIMIT 50
          MaxHistRows   \* bound: rows stored

ASSUME HistoryAssumption ==
    /\ HourMarks \in Nat \ {0} /\ Offset \in Int
    /\ {FirstHour, LastHour, UsageLimit, RecentLimit, MaxHistRows} \subseteq Nat /\ FirstHour <= LastHour

VARIABLES hour,      \* time(nullptr), UTC
          histRows,  \* activity_logs: a set of [app, start, len]
          dbFile,    \* the database exists
          dbOpen,    \* LocalDB::open succeeded when the dashboard started
          period,    \* OverviewPage::currentPeriod_
          strip,     \* the timeline: rows of one day and its start, or a week's bars
          usage, recent, notice   \* the local page

lhVars == <<hour, histRows, dbFile, dbOpen, period, strip, usage, recent, notice>>

Periods == {"today", "yesterday", "this_week", "last_week", "custom"}
HistRow == [app : HistApps, start : FirstHour..LastHour, len : 0..LastHour]
NoStrip == [at |-> FirstHour, from |-> FirstHour, days |-> <<>>]

\* One type invariant for the module's state.
lhTypeOK ==
    /\ hour \in FirstHour..LastHour /\ histRows \subseteq HistRow
    /\ dbFile \in BOOLEAN /\ dbOpen \in {"closed", "none", "open"} /\ period \in Periods
    /\ \A d \in 1..Len(strip.days) : strip.days[d] \in Nat
    /\ Len(usage) <= UsageLimit /\ Len(recent) <= RecentLimit /\ notice \in BOOLEAN

\* The constructors: the overview begins with today, the local page is empty.
OverviewPage == [period |-> "today", strip |-> NoStrip]
LocalPage == [usage |-> <<>>, recent |-> <<>>, notice |-> FALSE]

lhInit ==
    /\ hour = FirstHour /\ histRows = {} /\ dbFile = FALSE /\ dbOpen = "closed"
    /\ period = OverviewPage.period /\ strip = OverviewPage.strip
    /\ usage = LocalPage.usage /\ recent = LocalPage.recent /\ notice = LocalPage.notice

-----------------------------------------------------------------------------
TimePasses == /\ hour < LastHour /\ hour' = hour + 1
              /\ UNCHANGED <<histRows, dbFile, dbOpen, period, strip, usage, recent, notice>>

\* The agent creates the database with its tables, and stores a finished record.
AgentStores ==
    /\ Cardinality(histRows) < MaxHistRows /\ dbFile' = TRUE
    /\ \E a \in HistApps, s \in FirstHour..hour :
         histRows' = histRows \cup {[app |-> a, start |-> s, len |-> hour - s]}
    /\ UNCHANGED <<hour, dbOpen, period, strip, usage, recent, notice>>

\* LocalDB::open, once, when the dashboard starts; it never creates the file.
LocalDBOpen ==
    /\ dbOpen = "closed" /\ dbOpen' = IF dbFile THEN "open" ELSE "none"
    /\ UNCHANGED <<hour, histRows, dbFile, period, strip, usage, recent, notice>>

\* LocalDB::~LocalDB; the next start builds the pages anew.
DashCloses == /\ dbOpen # "closed" /\ dbOpen' = "closed"
              /\ period' = OverviewPage.period /\ strip' = OverviewPage.strip
              /\ usage' = LocalPage.usage /\ recent' = LocalPage.recent /\ notice' = LocalPage.notice
              /\ UNCHANGED <<hour, histRows, dbFile>>

-----------------------------------------------------------------------------
\* The rows a query with start_time >= ?1 AND start_time < ?2 finds.
RowsIn(from, to) == {r \in histRows : from <= r.start /\ r.start < to}

TotalOf(S) == FoldFunctionOnSet(LAMBDA a, b : a + b, 0, [r \in S |-> r.len], S)

\* LIMIT.
AtMost(limit, n) == IF n < limit THEN n ELSE limit

\* GROUP BY process_name ORDER BY total DESC LIMIT 20.
usageInRange(from, to) ==
    LET apps  == {r.app : r \in RowsIn(from, to)}
        total == [a \in apps |-> TotalOf({r \in RowsIn(from, to) : r.app = a})]
        rows  == CHOOSE s \in SetToSeqs(apps) : \A i, j \in DOMAIN s : i < j => total[s[i]] >= total[s[j]]
    IN  [i \in 1..AtMost(UsageLimit, Len(rows)) |-> <<rows[i], total[rows[i]]>>]

\* ORDER BY start_time DESC LIMIT 50.
recentActivities ==
    LET rows == CHOOSE s \in SetToSeqs(histRows) : \A i, j \in DOMAIN s : i < j => s[i].start >= s[j].start
    IN  SubSeq(rows, 1, AtMost(RecentLimit, Len(rows)))

\* One total per day, between the boundaries the caller computed.
dailyTotalsInRange(b) == [d \in 1..(Len(b) - 1) |-> TotalOf(RowsIn(b[d], b[d + 1]))]

dayStart(t) == t - (t % HourMarks)

\* The weekday as localtime gives it, Sunday 0; time 0 was a Thursday.
tm_wday(t) == (((t + Offset) \div HourMarks) + 4) % 7

\* As it would be without the case of a Sunday.
mondayOfSundayFirst(t) == dayStart(t) - (tm_wday(dayStart(t)) - 1) * HourMarks

\* The week starts on Monday: a Sunday is the seventh day.
mondayOf(t) == LET w == tm_wday(dayStart(t))
               IN  dayStart(t) - ((IF w = 0 THEN 7 ELSE w) - 1) * HourMarks

\* The start of the day, or of the week, that a period shows.
PeriodStart(p) == CASE p = "yesterday" -> dayStart(hour) - HourMarks
                    [] p = "this_week" -> mondayOf(hour)
                    [] p = "last_week" -> mondayOf(hour) - 7 * HourMarks
                    [] OTHER           -> dayStart(hour)

\* OverviewPage::loadPeriodAndTimeline: the day's rows that have a length, or
\* the seven bars; without a database the timeline is emptied.
loadPeriodAndTimeline(p) ==
    LET from == PeriodStart(p)
        week == [i \in 1..8 |-> from + (i - 1) * HourMarks]
    IN  CASE dbOpen # "open" -> [NoStrip EXCEPT !.at = hour]
          [] dbOpen = "open" /\ p \in {"this_week", "last_week"} ->
               [at |-> hour, from |-> from, days |-> dailyTotalsInRange(week)]
          [] OTHER ->
               [at |-> hour, from |-> from,
                days |-> <<TotalOf({r \in RowsIn(from, from + HourMarks) : r.len > 0})>>]

\* The period buttons, and refreshAll, which the start and a login call.
setPeriod(p) ==
    /\ dbOpen # "closed" /\ period' = p /\ strip' = loadPeriodAndTimeline(p)
    /\ UNCHANGED <<hour, histRows, dbFile, dbOpen, usage, recent, notice>>

refreshAll == setPeriod(period)

\* LocalPage::refresh: all time, and ten years ahead.
LocalRefresh ==
    /\ dbOpen # "closed" /\ notice' = (dbOpen = "none")
    /\ IF dbOpen = "none" THEN UNCHANGED <<usage, recent>>
       ELSE usage' = usageInRange(0, hour + 3650 * HourMarks) /\ recent' = recentActivities
    /\ UNCHANGED <<hour, histRows, dbFile, dbOpen, period, strip>>

lhNext == \/ TimePasses \/ AgentStores \/ LocalDBOpen \/ DashCloses \/ refreshAll \/ LocalRefresh
          \/ \E p \in Periods : setPeriod(p)

-----------------------------------------------------------------------------
\* The bar of a week that stands for the day of a moment, 0 when there is none.
BarOf(s, t) == LET d == (dayStart(t) - s.from) \div HourMarks + 1
               IN  IF d \in 1..Len(s.days) THEN d ELSE 0

\* The current week has a bar for the current day in every time zone, on a
\* Sunday too, and the two views of the day agree on its total.
TodayIsInTheWeek ==
    LET week == loadPeriodAndTimeline("this_week") IN
    dbOpen = "open" =>
        /\ BarOf(week, hour) # 0
        /\ week.days[BarOf(week, hour)] = loadPeriodAndTimeline("today").days[1]

\* The two weeks are next to each other: a row of the last 7 days is in one of
\* their bars, and in one only.
WeeksMeet ==
    dbOpen = "open" =>
        \A r \in histRows : hour - r.start < 7 * HourMarks =>
            (BarOf(loadPeriodAndTimeline("this_week"), r.start) # 0)
              # (BarOf(loadPeriodAndTimeline("last_week"), r.start) # 0)

\* The weeks have a place for the present day and for each row of the days
\* before it, although days are cut in UTC and weekdays counted from Sunday.
WeekIsWhole == TodayIsInTheWeek /\ WeeksMeet
=============================================================================
