--------------------------- MODULE SystemMonitor ---------------------------
(* The dashboard's view of this machine: one Collector (sysstats.cpp) that  *)
(* turns the system's running counters into percentages and rates, the six  *)
(* widgets that ask it once a second (mainwindow.cpp: liveTimer_), the      *)
(* alerts of the right panel and the list of processes. Every call of       *)
(* live() replaces the counters the next call is measured from.             *)
EXTENDS Integers, Sequences, FiniteSets, SequencesExt

CONSTANTS Cores, Ifaces, Pids,
          Thresholds,   \* CPU thresholds the settings may hold
          MaxPoints,    \* points a chart keeps (60)
          MaxAlerts,    \* alerts the right panel keeps (20)
          Word,         \* 2^64
          LastClock     \* bound: clock interrupts

ASSUME MonitorAssumption ==
    /\ IsFiniteSet(Ifaces) /\ IsFiniteSet(Cores) /\ Cores # {} /\ Thresholds \subseteq Nat
    /\ {Word, LastClock} \subseteq Nat \ {0} /\ {MaxPoints, MaxAlerts} \subseteq Nat

VARIABLES clock,        \* GetTickCount64, and the counters' granularity
          cpu,          \* per core: time passed, time idle
          octets, up,   \* per interface: OutOctets; the interfaces that are up
          procTime,     \* per process id: CPU time used, -1 for none
          collector,    \* Collector::Impl
          toTick,       \* widgets the running timer callback still has to tick
          shown,        \* what the widgets show
          history,      \* the CPU chart
          prevAlert, alerts, cpuThreshold,  \* RightPanel
          prevTimes, prevWall, processTable, \* getProcesses' statics, its table
          moved, reported,  \* ghosts: octets sent and octets reported
          upset             \* ghosts: an interface came or went, a pid was reused

smVars == <<clock, cpu, octets, up, procTime, collector, toTick, shown, history, prevAlert,
            alerts, cpuThreshold, prevTimes, prevWall, processTable, moved, reported, upset>>

Widgets == <<"overview", "cpu", "ram", "disk", "network", "right">>
Viewers == {"overview", "network", "right"}   \* show the CPU or the network sample as it is
NoSample == [cpu |-> 0, net |-> 0]

\* What is modelled of a sample, and of a chart.
LiveStats == [cpu : 0..100, net : Nat]
IsChart(h) == Len(h) <= MaxPoints /\ \A k \in 1..Len(h) : h[k] \in 0..100

\* One type invariant for the module's state.
smTypeOK ==
    /\ clock \in 0..LastClock /\ up \subseteq Ifaces
    /\ \A c \in Cores : cpu[c].idle <= cpu[c].total
    /\ shown \in [Viewers -> LiveStats]
    /\ IsChart(history) /\ alerts \in 0..MaxAlerts /\ cpuThreshold \in Thresholds
    /\ prevAlert \in BOOLEAN

smInit ==
    /\ clock = 1 /\ cpu = [c \in Cores |-> [total |-> 0, idle |-> 0]]
    /\ octets = [i \in Ifaces |-> 0] /\ up = Ifaces
    /\ procTime = [p \in Pids |-> 0]
    /\ collector = [cpu |-> <<>>, sent |-> 0, time |-> 0]
    /\ toTick = <<>> /\ shown = [w \in Viewers |-> NoSample] /\ history = <<>>
    /\ prevAlert = FALSE /\ alerts = 0 /\ cpuThreshold \in Thresholds
    /\ prevTimes = [p \in {} |-> 0] /\ prevWall = 0 /\ processTable = [p \in {} |-> 0]
    /\ moved = 0 /\ reported = 0 /\ upset = [link |-> FALSE, pid |-> FALSE]
-----------------------------------------------------------------------------
Running == {p \in Pids : procTime[p] >= 0}

\* One clock interrupt: the time is booked as busy or idle, a process may have
\* used it, and an interface that is up may have sent something.
Interrupt ==
    /\ clock < LastClock /\ clock' = clock + 1
    /\ \E busy \in BOOLEAN :
         cpu' = [c \in Cores |-> [total |-> cpu[c].total + 1,
                                 idle  |-> cpu[c].idle + (IF busy THEN 0 ELSE 1)]]
    /\ \/ UNCHANGED procTime
       \/ \E p \in Running : /\ \A c \in Cores : cpu'[c].idle = cpu[c].idle
                             /\ procTime' = [procTime EXCEPT ![p] = @ + 1]
    /\ \/ UNCHANGED <<octets, moved>>
       \/ \E i \in up : octets' = [octets EXCEPT ![i] = @ + 1] /\ moved' = moved + 1
    /\ UNCHANGED <<up, collector, toTick, shown, history, prevAlert, alerts, cpuThreshold,
                   prevTimes, prevWall, processTable, reported, upset>>

\* An interface goes down or comes back, with the counter it had.
LinkChanges ==
    /\ \E i \in Ifaces : up' = IF i \in up THEN up \ {i} ELSE up \cup {i}
    /\ ~upset.link /\ upset' = [upset EXCEPT !.link = TRUE]
    /\ UNCHANGED <<clock, cpu, octets, procTime, collector, toTick, shown, history, prevAlert,
                   alerts, cpuThreshold, prevTimes, prevWall, processTable, moved, reported>>

\* A process ends and its id is given to a new one.
PidReused ==
    /\ \E p \in Pids : procTime[p] > 0 /\ procTime' = [procTime EXCEPT ![p] = 0]
    /\ ~upset.pid /\ upset' = [upset EXCEPT !.pid = TRUE]
    /\ UNCHANGED <<clock, cpu, octets, up, collector, toTick, shown, history, prevAlert,
                   alerts, cpuThreshold, prevTimes, prevWall, processTable, moved, reported>>

-----------------------------------------------------------------------------
Min100(n) == IF n > 100 THEN 100 ELSE n
SumOver(f, S) == FoldFunctionOnSet(LAMBDA a, b : a + b, 0, f, S)

\* One core's share: kernel time includes idle time; 0 when no time was booked
\* since the last call.
corePercent(c) ==
    LET total == cpu[c].total - collector.cpu[c].total
        idle  == cpu[c].idle - collector.cpu[c].idle
    IN  IF total > 0 THEN Min100(((total - idle) * 100) \div total) ELSE 0

\* GetIfTable2: what the interfaces that are up have sent altogether.
sentNow == SumOver(octets, up)
sentSince == (sentNow - collector.sent) % Word
measured == collector.time # 0 /\ clock > collector.time

\* Collector::live(): percentages and rates since the last call, 0 on the
\* first one and when the clock has not moved.
LiveSample ==
    [cpu |-> IF collector.cpu = <<>> THEN 0
             ELSE SumOver([c \in Cores |-> corePercent(c)], Cores) \div Cardinality(Cores),
     net |-> IF measured THEN sentSince \div (clock - collector.time) ELSE 0]

\* As it would be if the counters were only taken over once.
liveKeeping == /\ collector' = IF collector.time = 0
                               THEN [cpu |-> cpu, sent |-> sentNow, time |-> clock]
                               ELSE [collector EXCEPT !.time = clock]
               /\ reported' = reported + (IF measured THEN sentSince ELSE 0)

\* live() leaves the counters it read for the next call, whoever makes it.
live == /\ collector' = [cpu |-> cpu, sent |-> sentNow, time |-> clock]
        /\ reported' = reported + (IF measured THEN sentSince ELSE 0)

\* The timer fires: its callback ticks all six widgets, whatever is in front.
TimerFires ==
    /\ toTick = <<>> /\ toTick' = Widgets
    /\ UNCHANGED <<clock, cpu, octets, up, procTime, collector, shown, history, prevAlert,
                   alerts, cpuThreshold, prevTimes, prevWall, processTable, moved, reported, upset>>

\* ChartWidget::pushValue drops the oldest points beyond the limit.
pushValue(h, v) == LET all == Append(h, v)
                   IN  IF Len(all) > MaxPoints THEN Tail(all) ELSE all

\* OverviewPage::tick, NetworkPage::tick: the sample as it is.
OverviewTick(s) == shown' = [shown EXCEPT !["overview"] = s] /\ UNCHANGED <<history, prevAlert, alerts>>
NetworkTick(s)  == shown' = [shown EXCEPT !["network"] = s] /\ UNCHANGED <<history, prevAlert, alerts>>

\* CpuPage::tick: one point more. (Its bars, and the drives: MachinePages.)
CpuTick(s) == history' = pushValue(history, s.cpu) /\ UNCHANGED <<shown, prevAlert, alerts>>

\* RamPage::tick and DiskPage::tick: what they show is not measured between
\* two calls, but they call live() all the same.
RamOrDiskTick == UNCHANGED <<shown, history, prevAlert, alerts>>

\* RightPanel::tick: a line for each rise above the threshold, the oldest
\* lines dropped.
RightTick(s) ==
    /\ shown' = [shown EXCEPT !["right"] = s]
    /\ alerts' = IF s.cpu >= cpuThreshold /\ ~prevAlert /\ alerts < MaxAlerts
                 THEN alerts + 1 ELSE alerts
    /\ prevAlert' = (s.cpu >= cpuThreshold)
    /\ UNCHANGED history

\* The tick of one widget: each asks the collector for itself.
WidgetTick ==
    /\ toTick # <<>> /\ toTick' = Tail(toTick)
    /\ live
    /\ CASE Head(toTick) = "overview" -> OverviewTick(LiveSample)
         [] Head(toTick) = "cpu"      -> CpuTick(LiveSample)
         [] Head(toTick) = "network"  -> NetworkTick(LiveSample)
         [] Head(toTick) = "right"    -> RightTick(LiveSample)
         [] OTHER                     -> RamOrDiskTick
    /\ UNCHANGED <<clock, cpu, octets, up, procTime, cpuThreshold, prevTimes, prevWall,
                   processTable, moved, upset>>

\* pushHeartbeat and shareStats take a sample of their own between two ticks.
OtherSample ==
    /\ toTick = <<>> /\ live
    /\ UNCHANGED <<clock, cpu, octets, up, procTime, toTick, shown, history, prevAlert, alerts,
                   cpuThreshold, prevTimes, prevWall, processTable, moved, upset>>

\* Settings saved: RightPanel::reloadThresholds.
reloadThresholds ==
    /\ toTick = <<>> /\ \E t \in Thresholds \ {cpuThreshold} : cpuThreshold' = t
    /\ UNCHANGED <<clock, cpu, octets, up, procTime, collector, toTick, shown, history, prevAlert,
                   alerts, prevTimes, prevWall, processTable, moved, reported, upset>>

-----------------------------------------------------------------------------
\* The share of a process: unsigned differences, of its times and of the clock.
processShare(p) ==
    IF p \in DOMAIN prevTimes /\ prevWall # 0 /\ clock > prevWall
    THEN (((procTime[p] - prevTimes[p]) % Word) * 100) \div (clock - prevWall) ELSE 0

\* The times left for the next call.
curTimes == [p \in Running |-> procTime[p]]

\* getProcesses, on a thread of its own, and the table it fills.
refreshProcesses ==
    /\ processTable' = [p \in Running |-> processShare(p)]
    /\ prevTimes' = curTimes /\ prevWall' = clock
    /\ UNCHANGED <<clock, cpu, octets, up, procTime, collector, toTick, shown, history, prevAlert,
                   alerts, cpuThreshold, moved, reported, upset>>

smNext == \/ Interrupt \/ LinkChanges \/ PidReused \/ TimerFires \/ WidgetTick
          \/ OtherSample \/ reloadThresholds \/ refreshProcesses

-----------------------------------------------------------------------------
\* However many widgets share the collector, no octet is reported twice: what
\* the rates account for was sent. (An interface that goes down or comes up
\* breaks this: the difference of the sums wraps around, or takes in traffic
\* of long ago.)
TrafficConserved == upset.link \/ reported <= moved

\* No process is shown to use more than the processors have, over any number
\* of refreshes. (A reused process id breaks this.)
ShareIsPossible == upset.pid \/ \A p \in DOMAIN processTable : processTable[p] <= 100

\* The figures of the collector and of the process table are ones the machine
\* can have had, however the calls of widgets and threads interleave.
FiguresArePossible == TrafficConserved /\ ShareIsPossible
=============================================================================
