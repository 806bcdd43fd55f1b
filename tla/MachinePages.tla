---------------------------- MODULE MachinePages ----------------------------
(* What the dashboard's metric pages (metricpages.cpp) and right panel      *)
(* (rightpanel.cpp) load once, on threads of their own, and what the CPU    *)
(* and disk pages redraw at every tick. The rest of a sample is modelled in *)
(* SystemMonitor.                                                           *)
EXTENDS Integers, Sequences, FiniteSets, SequencesExt

CONSTANTS Logical,     \* logical processors
          Readings,    \* a core's load, in tenths of a percent
          FixedDrives, \* fixed drives, in the order of their letters
          Cards        \* network cards

ASSUME PagesAssumption ==
    Logical \in Nat \ {0} /\ Readings \subseteq Nat /\ FixedDrives \in Seq(ToSet(FixedDrives))

VARIABLES pgWaiting,   \* static information asked for and not answered
          pgBars,      \* coreBars_ with coreAlerts_
          pgInfo,      \* what the CPU page and the right panel say of the machine
          pgDrives,    \* the drives there are
          pgTable,     \* partitionsTable_
          pgLast,      \* ghost: the drives of the last sample
          pgUp, pgCards  \* the cards that are up; interfacesTable_

pgVars == <<pgWaiting, pgBars, pgInfo, pgDrives, pgTable, pgLast, pgUp, pgCards>>

Asked == {"cpu", "network", "right"}
Machine == [logical : {Logical}, physical : 1..Logical, named : BOOLEAN]
Unknown == [logical |-> 0, physical |-> 0, named |-> FALSE]
Failed  == [logical |-> -1, physical |-> 0, named |-> FALSE]

\* The drives of S by their letters: the i-th is the one with i up to its own.
InOrder(S) ==
    LET at == {k \in DOMAIN FixedDrives : FixedDrives[k] \in S}
        nth(i) == CHOOSE k \in at : Cardinality({j \in at : j <= k}) = i
    IN  [i \in 1..Cardinality(at) |-> FixedDrives[nth(i)]]

\* One type invariant for the module's state.
pgTypeOK ==
    /\ pgWaiting \subseteq Asked /\ Len(pgBars) \in {0, Logical}
    /\ pgInfo \in [{"cpu", "right"} -> Machine \cup {Unknown, Failed}]
    /\ pgDrives \subseteq ToSet(FixedDrives) /\ pgUp \subseteq Cards
    /\ pgCards \in [loaded : BOOLEAN, up : SUBSET Cards]

\* The pages' constructors: no bars, empty tables.
CpuPage == <<>>
DiskPage == <<>>
NetworkPage == [loaded |-> FALSE, up |-> {}]

\* The window's first turn of the event loop asks for all three.
pgInit ==
    /\ pgWaiting = Asked /\ pgBars = CpuPage /\ pgTable = DiskPage /\ pgCards = NetworkPage
    /\ pgInfo = [w \in {"cpu", "right"} |-> Unknown]
    /\ pgDrives = ToSet(FixedDrives) /\ pgLast = <<>> /\ pgUp = Cards

-----------------------------------------------------------------------------
\* getMachineInfo: without a count of physical cores the logical ones are
\* taken; without a name in the registry the processor is "N/A".
getMachineInfo(counted, named) ==
    [logical |-> Logical, physical |-> IF counted = 0 THEN Logical ELSE counted, named |-> named]

\* GetLogicalProcessorInformationEx counts, or fails; the registry is read or not.
Answers == {getMachineInfo(c, n) : c \in 0..Logical, n \in BOOLEAN}

\* A new bar: "0%", not red, no alert remembered.
NewBar == [text |-> 0, red |-> FALSE, alert |-> FALSE]

\* The three answers; the flags that were set before asking keep a failed
\* request from being made again.
refreshStaticInfo ==
    /\ "cpu" \in pgWaiting /\ pgWaiting' = pgWaiting \ {"cpu"}
    /\ \/ \E m \in Answers : /\ pgInfo' = [pgInfo EXCEPT !["cpu"] = m]
                             /\ pgBars' = [i \in 1..m.logical |-> NewBar]
       \/ pgInfo' = [pgInfo EXCEPT !["cpu"] = Failed] /\ UNCHANGED pgBars
    /\ UNCHANGED <<pgDrives, pgTable, pgLast, pgUp, pgCards>>

refreshStaticInfoOnce ==
    /\ "right" \in pgWaiting /\ pgWaiting' = pgWaiting \ {"right"}
    /\ \E m \in Answers \cup {Failed} : pgInfo' = [pgInfo EXCEPT !["right"] = m]
    /\ UNCHANGED <<pgBars, pgDrives, pgTable, pgLast, pgUp, pgCards>>

\* getNetworkInterfaces: every card and whether it is up now.
getNetworkInterfaces == [loaded |-> TRUE, up |-> pgUp]

refreshInterfacesOnce ==
    /\ "network" \in pgWaiting /\ pgWaiting' = pgWaiting \ {"network"}
    /\ pgCards' \in {getNetworkInterfaces, pgCards}
    /\ UNCHANGED <<pgBars, pgInfo, pgDrives, pgTable, pgLast, pgUp>>

\* A drive or a card comes or goes.
HardwareChanges ==
    /\ \/ \E d \in ToSet(FixedDrives) :
            pgDrives' = (pgDrives \ {d}) \cup ({d} \ pgDrives) /\ UNCHANGED pgUp
       \/ \E c \in Cards : pgUp' = (pgUp \ {c}) \cup ({c} \ pgUp) /\ UNCHANGED pgDrives
    /\ UNCHANGED <<pgWaiting, pgBars, pgInfo, pgTable, pgLast, pgCards>>

-----------------------------------------------------------------------------
\* As it would be if the alert were not remembered.
BarForgetful(bar, v) == [text |-> (v + 5) \div 10, alert |-> bar.alert,
                         red |-> IF bar.alert # (v >= 850) THEN v >= 850 ELSE bar.red]

\* One bar: the text is rounded to a whole percent; the colour is only set
\* when the alert, which goes by the load itself, changes.
Bar(bar, v) == [text |-> (v + 5) \div 10, alert |-> v >= 850,
                red |-> IF bar.alert # (v >= 850) THEN v >= 850 ELSE bar.red]

\* CpuPage::tick: as many bars as the sample has cores for, which is none when
\* the system could not be asked.
CpuPageTick ==
    /\ \E s \in {<<>>} \cup [1..Logical -> Readings] :
         pgBars' = [i \in 1..Len(pgBars) |-> IF i <= Len(s) THEN Bar(pgBars[i], s[i]) ELSE pgBars[i]]
    /\ UNCHANGED <<pgWaiting, pgInfo, pgDrives, pgTable, pgLast, pgUp, pgCards>>

\* The rows: made anew when their number is not right.
setRowCount(n) == IF Len(pgTable) # n THEN [i \in 1..n |-> ""] ELSE pgTable

\* DiskPage::tick: the drives of the sample, in the order of their letters.
DiskPageTick ==
    LET disks == InOrder(pgDrives)
        rows == setRowCount(Len(disks))
    IN  /\ pgTable' = [i \in 1..Len(rows) |-> IF i <= Len(disks) THEN disks[i] ELSE rows[i]]
        /\ pgLast' = disks
        /\ UNCHANGED <<pgWaiting, pgBars, pgInfo, pgDrives, pgUp, pgCards>>

pgNext == \/ refreshStaticInfo \/ refreshStaticInfoOnce \/ refreshInterfacesOnce
          \/ HardwareChanges \/ CpuPageTick \/ DiskPageTick

-----------------------------------------------------------------------------
\* A bar is red when its core was last at 85 percent or more, through any
\* sequence of ticks and with bars made at any time between them: a red bar
\* shows at least 85, another at most 85 (84.6 is shown as 85).
BarsAreTrue == \A i \in 1..Len(pgBars) : IF pgBars[i].red THEN pgBars[i].text >= 85
                                                         ELSE pgBars[i].text <= 85

\* The table of drives has the rows of the last sample, no more and no fewer,
\* whatever drives came and went before it.
DriveTableIsWhole == pgTable = pgLast
=============================================================================
