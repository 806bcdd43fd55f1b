--------------------------- MODULE DashboardProofs ---------------------------
(***************************************************************************)
(* Proofs about the parts of the Qt dashboard that MCDashboard checks side *)
(* by side, for every value of their constants.  A part is taken by        *)
(* itself; DashPartsByThemselves shows that what is proved of it holds in  *)
(* MCDashboard's behaviours.                                               *)
(***************************************************************************)
EXTENDS MCDashboard, DataTheorems

MonitorSpec == smInit /\ [][smNext]_smVars
PagesSpec == pgInit /\ [][pgNext]_pgVars
HistorySpec == lhInit /\ [][lhNext]_lhVars
DashSettingsSpec == dsInit /\ [][dsNext]_dsVars
WindowSpec == qInit /\ [][qNext]_qVars

\* A step of the composition is a step of one part and leaves the others.
LEMMA DashPartsByThemselves ==
    Spec => MonitorSpec /\ PagesSpec /\ HistorySpec /\ DashSettingsSpec /\ WindowSpec
<1>1. Init => smInit /\ pgInit /\ lhInit /\ dsInit /\ qInit
  BY DEF Init
<1>2. [Next]_vars => [smNext]_smVars
  BY DEF Next, vars
<1>3. [Next]_vars => [pgNext]_pgVars
  BY DEF Next, vars
<1>4. [Next]_vars => [lhNext]_lhVars
  BY DEF Next, vars
<1>5. [Next]_vars => [dsNext]_dsVars
  BY DEF Next, vars
<1>6. [Next]_vars => [qNext]_qVars
  BY DEF Next, vars
<1> QED
  BY <1>1, <1>2, <1>3, <1>4, <1>5, <1>6, PTL
     DEF Spec, MonitorSpec, PagesSpec, HistorySpec, DashSettingsSpec, WindowSpec

-----------------------------------------------------------------------------
(* The settings file and its dialog.                                       *)

\* A key that can be read survives every save, and the panel follows the file.
LEMMA SettingsStep ==
    PanelFollowsFile /\ [dsNext]_dsVars => /\ PanelFollowsFile'
                                           /\ loadDashSettings.key => dsDisk'.key \in {"clear", "encrypted"}
<1> SUFFICES ASSUME PanelFollowsFile, [dsNext]_dsVars
             PROVE  /\ PanelFollowsFile'
                    /\ loadDashSettings.key => dsDisk'.key \in {"clear", "encrypted"}
  OBVIOUS
<1>1. loadDashSettings.key => dsDisk.key \in {"clear", "encrypted"}
  BY DEF loadDashSettings, dpapiUnprotect
<1>2. CASE UNCHANGED <<dsDisk, dsPanel>>
  BY <1>1, <1>2 DEF PanelFollowsFile, loadDashSettings, dpapiUnprotect
<1>3. ASSUME saveDashSettings(FormOver(dsForm.look)), dsPanel' = reloadPanel'
      PROVE  /\ PanelFollowsFile'
             /\ loadDashSettings.key => dsDisk'.key \in {"clear", "encrypted"}
  <2>1. PanelFollowsFile'
    BY <1>3 DEF PanelFollowsFile, reloadPanel
  <2>2. FormOver(dsForm.look).key = loadDashSettings.key
    BY DEF FormOver, loadDashSettings
  <2> QED
    BY <1>3, <2>1, <2>2 DEF saveDashSettings, dpapiProtect
<1>4. OpenSettings \/ EditForm \/ CloseSettings \/ UNCHANGED dsVars => UNCHANGED <<dsDisk, dsPanel>>
  BY DEF OpenSettings, EditForm, CloseSettings, dsVars
<1> QED
  BY <1>2, <1>3, <1>4 DEF dsNext, saveAppearance

\* The API key is kept by every save of the appearance tab, which does not
\* show it (saveAppearance begins with loadDashSettings).
THEOREM KeySurvives == DashSettingsSpec => KeyOutlivesSave
<1>1. dsInit => PanelFollowsFile
  BY DEF dsInit, PanelFollowsFile, reloadPanel
<1>2. PanelFollowsFile /\ [dsNext]_dsVars
        => [loadDashSettings.key => dsDisk'.key \in {"clear", "encrypted"}]_dsVars
  BY SettingsStep
<1> QED
  BY <1>1, <1>2, SettingsStep, PTL DEF DashSettingsSpec, KeyOutlivesSave

-----------------------------------------------------------------------------
(* The account button.                                                     *)

\* The button follows the session over every step, in the dialogs too.
LEMMA GlyphStep == qGlyph = qSession /\ [qNext]_qVars => (qGlyph = qSession)'
<1> SUFFICES ASSUME qGlyph = qSession, [qNext]_qVars PROVE qGlyph' = qSession'
  OBVIOUS
<1>1. ASSUME NEW i \in Sections, showSection(i) PROVE UNCHANGED <<qGlyph, qSession>>
  BY <1>1 DEF showSection
<1>2. CASE setRange \/ exportCsv \/ onMachineSelected \/ selectDevice \/ sendMessage \/ OpenDialog
           \/ doLogin \/ settingsRequest \/ TokenExpires \/ UNCHANGED qVars
  BY <1>2 DEF setRange, exportCsv, onMachineSelected, selectDevice, sendMessage, OpenDialog,
              doLogin, settingsRequest, TokenExpires, qVars
<1>3. CASE AccountLogout
  BY <1>3 DEF AccountLogout, updateAccountGlyph, clearDashSession
<1>4. CASE CloseDialog
  BY <1>4 DEF CloseDialog, updateAccountGlyph
<1>5. ASSUME NEW j \in qJobs, Finish(j) PROVE qGlyph' = qSession'
  <2>1. PICK ok \in Outcomes(j) :
             \/ UNCHANGED <<qSession, qGlyph>>
             \/ LoginDone(j, ok) \/ LogoutDone(j, ok) \/ DevicesLoaded(j, ok) \/ SendDone(j, ok)
             \/ PageLoaded(j, ok)
    BY <1>5 DEF Finish
  <2>2. DevicesLoaded(j, ok) \/ SendDone(j, ok) \/ PageLoaded(j, ok) => UNCHANGED <<qSession, qGlyph>>
    BY DEF DevicesLoaded, SendDone, PageLoaded
  <2>3. LoginDone(j, ok) => qGlyph' = qSession'
    BY DEF LoginDone, updateAccountGlyph
  <2>4. LogoutDone(j, ok) => qGlyph' = qSession'
    BY DEF LogoutDone, updateAccountGlyph, clearDashSession
  <2> QED
    BY <2>1, <2>2, <2>3, <2>4
<1> QED
  BY <1>1, <1>2, <1>3, <1>4, <1>5 DEF qNext

-----------------------------------------------------------------------------
(* The bars and tables of the metric pages.                                *)

\* The table of the drives is a list, whatever drives there are.
LEMMA InOrderIsList == ASSUME NEW S PROVE \E n \in Nat : InOrder(S) = [i \in 1..n |-> InOrder(S)[i]]
<1> DEFINE at == {k \in DOMAIN FixedDrives : FixedDrives[k] \in S}
<1>1. IsFiniteSet(DOMAIN FixedDrives)
  <2>1. DOMAIN FixedDrives = 1..Len(FixedDrives) /\ Len(FixedDrives) \in Nat
    BY PagesAssumption
  <2> QED
    BY <2>1, FS_Interval
<1>2. Cardinality(at) \in Nat
  BY <1>1, FS_Subset, FS_CardinalityType
<1> QED
  <2> DEFINE nth(i) == CHOOSE k \in at : Cardinality({j \in at : j <= k}) = i
             g(i) == FixedDrives[nth(i)]
             c == Cardinality(at)
  <2>1. InOrder(S) = [i \in 1..c |-> g(i)]
    BY DEF InOrder
  <2> HIDE DEF g, c
  <2>2. InOrder(S) = [i \in 1..c |-> InOrder(S)[i]]
    BY <2>1
  <2> QED
    BY <1>2, <2>2 DEF c

\* A bar's colour goes with its alert, and its text with both.
Bars == {b \in [text : Nat, red : BOOLEAN, alert : BOOLEAN] :
           (b.alert <=> b.red) /\ (b.red => b.text >= 85) /\ (~b.red => b.text <= 85)}

PagesInv == /\ \E n \in Nat : pgBars \in [1..n -> Bars]
            /\ DriveTableIsWhole

\* Every answer and every tick keep it.
LEMMA PagesStep == PagesInv /\ [pgNext]_pgVars => PagesInv'
<1> SUFFICES ASSUME PagesInv, [pgNext]_pgVars PROVE PagesInv'
  OBVIOUS
<1>1. PICK n \in Nat : pgBars \in [1..n -> Bars]
  BY DEF PagesInv
<1>2. Len(pgBars) = n
  BY <1>1
<1>3. ASSUME NEW b \in Bars, NEW v \in Nat PROVE Bar(b, v) \in Bars
  <2>1. (v + 5) \div 10 \in Nat /\ (v >= 850 => (v + 5) \div 10 >= 85) /\ (~(v >= 850) => (v + 5) \div 10 <= 85)
    OBVIOUS
  <2>2. (v >= 850) \in BOOLEAN
    OBVIOUS
  <2>3. Bar(b, v) = [text |-> (v + 5) \div 10, red |-> v >= 850, alert |-> v >= 850]
    BY DEF Bar, Bars
  <2> DEFINE t == (v + 5) \div 10
             full == v >= 850
  <2>4. Bar(b, v) = [text |-> t, red |-> full, alert |-> full] /\ full \in BOOLEAN
    BY <2>2, <2>3
  <2>5. t \in Nat /\ (full => t >= 85) /\ (~full => t <= 85)
    BY <2>1
  <2> HIDE DEF t, full
  <2>6. CASE full = TRUE
    <3>1. Bar(b, v) = [text |-> t, red |-> TRUE, alert |-> TRUE] /\ t \in Nat /\ t >= 85
      BY <2>4, <2>5, <2>6
    <3> QED
      BY <3>1 DEF Bars
  <2>7. CASE full = FALSE
    <3>1. Bar(b, v) = [text |-> t, red |-> FALSE, alert |-> FALSE] /\ t \in Nat /\ t <= 85
      BY <2>4, <2>5, <2>7
    <3> QED
      BY <3>1 DEF Bars
  <2> QED
    BY <2>4, <2>6, <2>7
<1>4. CASE refreshStaticInfo
  <2>1. DriveTableIsWhole'
    BY <1>4 DEF refreshStaticInfo, PagesInv, DriveTableIsWhole
  <2>2. NewBar \in Bars
    BY DEF NewBar, Bars
  <2>3. \A m \in Answers : m.logical \in Nat
    BY PagesAssumption DEF Answers, getMachineInfo
  <2>4. \/ \E m \in Answers : pgBars' = [i \in 1..m.logical |-> NewBar]
        \/ pgBars' = pgBars
    BY <1>4 DEF refreshStaticInfo
  <2>5. \E k \in Nat : pgBars' \in [1..k -> Bars]
    BY <1>1, <2>2, <2>3, <2>4
  <2> QED
    BY <2>1, <2>5 DEF PagesInv
<1>5. CASE refreshStaticInfoOnce \/ refreshInterfacesOnce \/ HardwareChanges \/ UNCHANGED pgVars
  BY <1>5 DEF refreshStaticInfoOnce, refreshInterfacesOnce, HardwareChanges, pgVars, PagesInv,
              DriveTableIsWhole
<1>6. CASE CpuPageTick
  <2>1. DriveTableIsWhole'
    BY <1>6 DEF CpuPageTick, PagesInv, DriveTableIsWhole
  <2>2. PICK s \in {<<>>} \cup [1..Logical -> Readings] :
          pgBars' = [i \in 1..n |-> IF i <= Len(s) THEN Bar(pgBars[i], s[i]) ELSE pgBars[i]]
    BY <1>2, <1>6 DEF CpuPageTick
  <2>3. \A i \in 1..n : i <= Len(s) => s[i] \in Nat
    <3>1. CASE s = <<>>
      BY <3>1
    <3>2. CASE s \in [1..Logical -> Readings]
      <4>1. Len(s) = Logical
        BY <3>2, PagesAssumption
      <4>2. ASSUME NEW i \in 1..n, i <= Len(s) PROVE s[i] \in Readings
        BY <3>2, <4>1, <4>2, PagesAssumption
      <4> QED
        BY <4>2, PagesAssumption
    <3> QED
      BY <3>1, <3>2
  <2>4. pgBars' \in [1..n -> Bars]
    <3> SUFFICES ASSUME NEW i \in 1..n
                 PROVE  (IF i <= Len(s) THEN Bar(pgBars[i], s[i]) ELSE pgBars[i]) \in Bars
      BY <2>2
    <3>1. pgBars[i] \in Bars
      BY <1>1
    <3> QED
      BY <1>3, <2>3, <3>1
  <2> QED
    BY <2>1, <2>4 DEF PagesInv
<1>7. CASE DiskPageTick
  <2> DEFINE disks == InOrder(pgDrives)
             rows == setRowCount(Len(disks))
  <2>1. PICK k \in Nat : disks = [i \in 1..k |-> disks[i]]
    BY InOrderIsList
  <2> HIDE DEF disks
  <2>2. Len(disks) = k
    BY <2>1
  <2>3. Len(rows) = k
    BY <2>2 DEF setRowCount
  <2>4. pgTable' = [i \in 1..Len(rows) |-> IF i <= Len(disks) THEN disks[i] ELSE rows[i]] /\ pgLast' = disks
    BY <1>7 DEF DiskPageTick, disks
  <2>5. pgTable' = disks
    BY <2>1, <2>2, <2>3, <2>4
  <2> QED
    BY <1>1, <1>7, <2>4, <2>5 DEF DiskPageTick, DriveTableIsWhole, PagesInv
<1> QED
  BY <1>4, <1>5, <1>6, <1>7 DEF pgNext

\* What the widgets keep from one call to the next is true whatever comes
\* between: bars made late are coloured by the last load, the table of drives
\* is the last sample's, the panel's thresholds are the file's and the account
\* button is the session's (CpuPage::tick, DiskPage::tick, reloadThresholds,
\* updateAccountGlyph).
THEOREM WidgetsAreCurrent == PagesSpec /\ DashSettingsSpec /\ WindowSpec => []ShownIsCurrent
<1>1. pgInit => PagesInv
  BY DEF pgInit, PagesInv, CpuPage, DiskPage, DriveTableIsWhole
<1>2. PagesInv => BarsAreTrue /\ DriveTableIsWhole
  BY DEF PagesInv, BarsAreTrue, Bars
<1>3. dsInit => PanelFollowsFile
  BY DEF dsInit, PanelFollowsFile, reloadPanel
<1>4. qInit => qGlyph = qSession
  BY DEF qInit
<1>5. PagesInv /\ PanelFollowsFile /\ qGlyph = qSession => ShownIsCurrent
  BY <1>2 DEF ShownIsCurrent, GlyphIsTrue
<1> QED
  BY <1>1, <1>3, <1>4, <1>5, PagesStep, SettingsStep, GlyphStep, PTL
     DEF PagesSpec, DashSettingsSpec, WindowSpec
-----------------------------------------------------------------------------
(* The collector and the list of processes.                                *)

\* The types of what the figures are computed from.
CountersOK ==
    /\ clock \in Nat /\ octets \in [Ifaces -> Nat] /\ up \subseteq Ifaces
    /\ procTime \in [Pids -> Nat] /\ {moved, reported, collector.sent, collector.time} \subseteq Nat
    /\ prevWall \in Nat /\ prevWall <= clock /\ prevTimes \in [DOMAIN prevTimes -> Nat]
    /\ DOMAIN prevTimes \subseteq Pids /\ upset \in [link : BOOLEAN, pid : BOOLEAN]

\* What the next rate will be measured from was sent and not yet reported.
TrafficInv == upset.link \/ (collector.sent <= sentNow /\ reported + (sentNow - collector.sent) <= moved)

\* No process has used more time than passed since the last list.
ShareInv ==
    upset.pid \/ \A p \in DOMAIN prevTimes : /\ prevTimes[p] <= procTime[p]
                                            /\ procTime[p] - prevTimes[p] <= clock - prevWall

MonitorInv == CountersOK /\ TrafficInv /\ ShareInv /\ ShareIsPossible

\* The monitor's sums are sums.
LEMMA MonitorSum == ASSUME NEW f, NEW S PROVE SumOver(f, S) = SumOf(f, S)
BY DEF SumOver, SumOf

\* The interfaces' total is a number.
LEMMA SentType == CountersOK => sentNow \in Nat
<1> SUFFICES ASSUME CountersOK PROVE SumOf(octets, up) \in Nat
  BY DEF sentNow, SumOver, SumOf
<1>1. IsFiniteSet(up) /\ \A i \in up : octets[i] \in Nat
  BY MonitorAssumption, FS_Subset DEF CountersOK
<1> QED
  BY <1>1, SumType

\* A sample reports what was sent since the last one, and leaves nothing of it
\* to the next: the argument of TrafficInv.
LEMMA LiveKeeps ==
    ASSUME CountersOK, TrafficInv, live, UNCHANGED <<octets, up, moved, upset, clock>>
    PROVE  /\ {reported', collector'.sent, collector'.time} \subseteq Nat
           /\ TrafficInv'
<1>1. sentNow \in Nat /\ sentNow' = sentNow
  BY SentType DEF sentNow
<1>2. collector' = [cpu |-> cpu, sent |-> sentNow, time |-> clock]
  BY DEF live
<1>3. {clock, moved, reported, collector.sent, collector.time} \subseteq Nat /\ Word \in Nat /\ Word > 0
  BY MonitorAssumption DEF CountersOK
<1>4. sentSince \in Nat /\ (collector.sent <= sentNow => sentSince <= sentNow - collector.sent)
  BY <1>1, <1>3 DEF sentSince
<1>5. reported' \in Nat /\ (reported' = reported + sentSince \/ reported' = reported)
  BY <1>3, <1>4 DEF live
<1>6. collector'.sent = sentNow /\ collector'.time = clock
  BY <1>2
<1>7. CASE upset.link
  BY <1>1, <1>3, <1>5, <1>6, <1>7 DEF TrafficInv
<1>8. CASE ~upset.link
  <2>1. collector.sent <= sentNow /\ reported + (sentNow - collector.sent) <= moved
    BY <1>8 DEF TrafficInv
  <2>2. reported' <= moved
    BY <1>1, <1>3, <1>4, <1>5, <2>1
  <2>3. TrafficInv'
    BY <1>1, <1>3, <1>5, <1>6, <2>2 DEF TrafficInv
  <2> QED
    BY <1>1, <1>3, <1>5, <1>6, <2>3
<1> QED
  BY <1>7, <1>8

\* A step that touches none of what MonitorInv is about keeps it.
LEMMA MonitorFrame ==
    ASSUME MonitorInv, UNCHANGED <<clock, octets, up, procTime, prevTimes, prevWall, processTable, moved, upset>>,
           UNCHANGED <<collector, reported>> \/ live
    PROVE  MonitorInv'
<1>1. sentNow' = sentNow
  BY DEF sentNow
<1>2. ShareInv' /\ ShareIsPossible'
  BY DEF MonitorInv, ShareInv, ShareIsPossible
<1>3. CASE UNCHANGED <<collector, reported>>
  BY <1>1, <1>2, <1>3 DEF MonitorInv, CountersOK, TrafficInv
<1>4. CASE live
  <2>1. {reported', collector'.sent, collector'.time} \subseteq Nat /\ TrafficInv'
    BY <1>4, LiveKeeps DEF MonitorInv
  <2> QED
    BY <1>2, <2>1 DEF MonitorInv, CountersOK
<1> QED
  BY <1>3, <1>4

\* One clock interrupt: at most one octet and one tick of a process more.
LEMMA InterruptKeeps == MonitorInv /\ Interrupt => MonitorInv'
<1> SUFFICES ASSUME MonitorInv, Interrupt PROVE MonitorInv'
  OBVIOUS
<1> USE DEF MonitorInv
<1>1. clock' = clock + 1 /\ UNCHANGED <<up, collector, prevTimes, prevWall, processTable, reported, upset>>
  BY DEF Interrupt
<1>2. /\ procTime' \in [Pids -> Nat]
      /\ \A p \in Pids : procTime[p] <= procTime'[p] /\ procTime'[p] <= procTime[p] + 1
  <2>1. procTime \in [Pids -> Nat]
    BY DEF CountersOK
  <2>2. CASE UNCHANGED procTime
    BY <2>1, <2>2
  <2>3. CASE \E p \in Running : procTime' = [procTime EXCEPT ![p] = @ + 1]
    BY <2>1, <2>3 DEF Running
  <2> QED
    BY <2>2, <2>3 DEF Interrupt
<1>3. /\ octets' \in [Ifaces -> Nat] /\ moved' \in Nat
      /\ sentNow' \in Nat /\ sentNow' - sentNow = moved' - moved /\ sentNow' >= sentNow
  <2>1. octets \in [Ifaces -> Nat] /\ up \in SUBSET Ifaces /\ moved \in Nat /\ sentNow \in Nat
    BY SentType DEF CountersOK
  <2>2. CASE UNCHANGED <<octets, moved>>
    BY <1>1, <2>1, <2>2 DEF sentNow
  <2>3. ASSUME NEW i \in up, octets' = [octets EXCEPT ![i] = @ + 1], moved' = moved + 1
        PROVE  /\ octets' \in [Ifaces -> Nat] /\ moved' \in Nat
               /\ sentNow' \in Nat /\ sentNow' - sentNow = moved' - moved /\ sentNow' >= sentNow
    <3>1. IsFiniteSet(up)
      BY <2>1, MonitorAssumption, FS_Subset
    <3>2. /\ octets' \in [Ifaces -> Nat] /\ octets'[i] = octets[i] + 1
          /\ \A y \in up : octets[y] \in Nat /\ (y # i => octets'[y] = octets[y])
      BY <2>1, <2>3
    <3>3. SumOf(octets', up) = SumOf(octets, up) + 1
      BY <3>1, <3>2, SumGrows
    <3>4. sentNow = SumOf(octets, up) /\ sentNow' = SumOf(octets', up')
      BY MonitorSum DEF sentNow
    <3> QED
      BY <1>1, <2>1, <2>3, <3>2, <3>3, <3>4
  <2> QED
    BY <2>2, <2>3 DEF Interrupt
<1>4. CountersOK'
  BY <1>1, <1>2, <1>3 DEF CountersOK
<1>5. TrafficInv'
  <2>1. {sentNow, sentNow', moved, moved', reported, collector.sent} \subseteq Nat
    BY <1>3, SentType DEF CountersOK
  <2> QED
    BY <1>1, <1>3, <2>1 DEF TrafficInv
<1>6. ShareInv'
  <2> SUFFICES ASSUME ~upset.pid, NEW p \in DOMAIN prevTimes
               PROVE  prevTimes[p] <= procTime'[p] /\ procTime'[p] - prevTimes[p] <= clock' - prevWall
    BY <1>1 DEF ShareInv
  <2>1. p \in Pids /\ prevTimes[p] \in Nat /\ procTime[p] \in Nat /\ procTime'[p] \in Nat
    BY <1>2 DEF CountersOK
  <2>2. prevTimes[p] <= procTime[p] /\ procTime[p] - prevTimes[p] <= clock - prevWall
    BY DEF ShareInv
  <2>3. clock \in Nat /\ prevWall \in Nat
    BY DEF CountersOK
  <2> QED
    BY <1>1, <1>2, <2>1, <2>2, <2>3
<1>7. ShareIsPossible'
  BY <1>1 DEF ShareIsPossible
<1> QED
  BY <1>4, <1>5, <1>6, <1>7

\* A part of what passed is at most a hundred percent of it.
LEMMA ShareBound ==
    ASSUME NEW a \in Nat, NEW u \in Nat, NEW w \in Nat, a <= u, u <= w, w > 0
    PROVE  (a * 100) \div w <= 100
<1>1. a * 100 \in Nat /\ a * 100 <= 100 * w
  OBVIOUS
<1> DEFINE b == a * 100
<1> HIDE DEF b
<1>2. b \div w <= 100
  BY <1>1 DEF b
<1> QED
  BY <1>2 DEF b

\* A list of the processes: every share is of time that passed.
LEMMA RefreshKeeps == MonitorInv /\ refreshProcesses => MonitorInv'
<1> SUFFICES ASSUME MonitorInv, refreshProcesses PROVE MonitorInv'
  OBVIOUS
<1> USE DEF MonitorInv
<1>1. /\ UNCHANGED <<clock, octets, up, procTime, collector, moved, reported, upset>>
      /\ prevTimes' = [p \in Running |-> procTime[p]] /\ prevWall' = clock
      /\ processTable' = [p \in Running |-> processShare(p)]
  BY DEF refreshProcesses, curTimes
<1>2. Running \subseteq Pids
  BY DEF Running
<1>3. CountersOK'
  BY <1>1, <1>2 DEF CountersOK
<1>4. TrafficInv'
  BY <1>1 DEF TrafficInv, sentNow
<1>5. ShareInv'
  BY <1>1, <1>2 DEF ShareInv, CountersOK
<1>6. ShareIsPossible'
  <2> SUFFICES ASSUME ~upset.pid, NEW p \in Running PROVE processShare(p) <= 100
    BY <1>1 DEF ShareIsPossible
  <2>1. CASE p \in DOMAIN prevTimes /\ clock > prevWall /\ prevWall # 0
    <3> DEFINE used == procTime[p] - prevTimes[p]
               wall == clock - prevWall
    <3>1. procTime[p] \in Nat /\ prevTimes[p] \in Nat /\ clock \in Nat /\ prevWall \in Nat
      BY <1>2, <2>1 DEF CountersOK
    <3>2. prevTimes[p] <= procTime[p] /\ used <= wall
      BY <2>1 DEF ShareInv
    <3>3. used \in Nat /\ wall \in Nat /\ wall > 0
      BY <2>1, <3>1, <3>2
    <3>4. processShare(p) = ((used % Word) * 100) \div wall
      BY <2>1 DEF processShare
    <3> HIDE DEF used, wall
    <3>5. used % Word \in Nat /\ used % Word <= used
      BY <3>3, MonitorAssumption
    <3> QED
      BY <3>2, <3>3, <3>4, <3>5, ShareBound
  <2>2. CASE ~(p \in DOMAIN prevTimes /\ clock > prevWall /\ prevWall # 0)
    BY <2>2 DEF processShare
  <2> QED
    BY <2>1, <2>2
<1> QED
  BY <1>3, <1>4, <1>5, <1>6

\* Every step keeps MonitorInv: the widgets' ticks and the samples of others in
\* any order, with clock interrupts and lists of processes between them.
LEMMA MonitorStep == MonitorInv /\ [smNext]_smVars => MonitorInv'
<1> SUFFICES ASSUME MonitorInv, [smNext]_smVars PROVE MonitorInv'
  OBVIOUS
<1>1. CASE LinkChanges
  <2>1. /\ up' \subseteq Ifaces /\ upset'.link /\ upset'.pid = upset.pid
        /\ upset' \in [link : BOOLEAN, pid : BOOLEAN]
    BY <1>1 DEF LinkChanges, MonitorInv, CountersOK
  <2> QED
    BY <1>1, <2>1 DEF LinkChanges, MonitorInv, CountersOK, TrafficInv, ShareInv, ShareIsPossible
<1>2. CASE PidReused
  <2>0. procTime \in [Pids -> Nat] /\ upset \in [link : BOOLEAN, pid : BOOLEAN]
    BY DEF MonitorInv, CountersOK
  <2>1. procTime' \in [Pids -> Nat]
    BY <1>2, <2>0 DEF PidReused
  <2>2. upset'.pid /\ upset'.link = upset.link /\ upset' \in [link : BOOLEAN, pid : BOOLEAN]
    BY <1>2, <2>0 DEF PidReused
  <2> QED
    BY <1>2, <2>1, <2>2 DEF PidReused, MonitorInv, CountersOK, TrafficInv, ShareInv, ShareIsPossible, sentNow
<1>3. CASE TimerFires \/ reloadThresholds \/ UNCHANGED smVars
  BY <1>3, MonitorFrame DEF TimerFires, reloadThresholds, smVars
<1>4. CASE WidgetTick \/ OtherSample
  BY <1>4, MonitorFrame DEF WidgetTick, OtherSample
<1> QED
  BY <1>1, <1>2, <1>3, <1>4, InterruptKeeps, RefreshKeeps DEF smNext

\* Before the first sample nothing was sent, reported or listed.
LEMMA MonitorStart == smInit => MonitorInv
<1> SUFFICES ASSUME smInit PROVE MonitorInv
  OBVIOUS
<1>1. CountersOK
  BY DEF smInit, CountersOK
<1>2. ShareInv /\ ShareIsPossible
  BY DEF smInit, ShareInv, ShareIsPossible
<1>3. IsFiniteSet(up) /\ \A i \in up : octets[i] = 0
  BY MonitorAssumption DEF smInit
<1>4. sentNow = 0
  BY <1>3, SumOfZeros DEF sentNow, SumOver, SumOf
<1> QED
  BY <1>1, <1>2, <1>4 DEF smInit, TrafficInv, MonitorInv

\* The figures are ones the machine can have had: however the six widgets and
\* the other callers of Collector::live share its counters, what the rates
\* account for was sent, and no process has more than the time that passed
\* between two calls of getProcesses (interfaces that come or go and reused
\* process ids excepted).
THEOREM FiguresAreTrue == MonitorSpec => []FiguresArePossible
<1>1. smInit => MonitorInv
  BY MonitorStart
<1>2. MonitorInv => FiguresArePossible
  <2> SUFFICES ASSUME MonitorInv PROVE TrafficConserved
    BY DEF MonitorInv, FiguresArePossible
  <2>1. {sentNow, reported, moved, collector.sent} \subseteq Nat
    BY SentType DEF MonitorInv, CountersOK
  <2> QED
    BY <2>1 DEF MonitorInv, TrafficInv, TrafficConserved
<1> QED
  BY <1>1, <1>2, MonitorStep, PTL DEF MonitorSpec

\* The time booked to each core since the last sample: idle at most as long as
\* in all.
CoresInv ==
    LET Times == [Cores -> [total : Nat, idle : Nat]] IN
    /\ cpu \in Times /\ \A c \in Cores : cpu[c].idle <= cpu[c].total
    /\ \/ collector.cpu = <<>>
       \/ /\ collector.cpu \in Times
          /\ \A c \in Cores : /\ collector.cpu[c].idle <= cpu[c].idle
                              /\ cpu[c].idle - collector.cpu[c].idle <= cpu[c].total - collector.cpu[c].total

\* A core's share is a percentage.
LEMMA CorePercent ==
    ASSUME CoresInv, collector.cpu # <<>>, NEW c \in Cores
    PROVE  corePercent(c) \in Nat /\ corePercent(c) <= 100
<1> DEFINE total == cpu[c].total - collector.cpu[c].total
           idle == cpu[c].idle - collector.cpu[c].idle
<1>1. total \in Int /\ idle \in Int /\ idle >= 0 /\ idle <= total
  BY DEF CoresInv
<1>2. corePercent(c) = IF total > 0 THEN Min100(((total - idle) * 100) \div total) ELSE 0
  BY DEF corePercent
<1> HIDE DEF total, idle
<1>3. CASE total > 0
  <2>1. (total - idle) * 100 \in Nat /\ total \in Nat
    BY <1>1, <1>3
  <2> DEFINE n == ((total - idle) * 100) \div total
  <2>2. n \in Nat
    BY <1>3, <2>1
  <2> HIDE DEF n
  <2>3. Min100(n) \in Nat /\ Min100(n) <= 100
    BY <2>2 DEF Min100
  <2> QED
    BY <1>2, <1>3, <2>3 DEF n
<1> QED
  BY <1>2, <1>3

\* A sample is one: the load of all cores is a percentage, the rate a number,
\* also when the interfaces' total has gone down.
LEMMA SampleType == ASSUME CountersOK, CoresInv PROVE LiveSample \in LiveStats
<1> DEFINE load == IF collector.cpu = <<>> THEN 0
                   ELSE SumOver([c \in Cores |-> corePercent(c)], Cores) \div Cardinality(Cores)
           rate == IF measured THEN sentSince \div (clock - collector.time) ELSE 0
<1>1. load \in 0..100
  <2>1. CASE collector.cpu # <<>>
    <3> DEFINE f == [c \in Cores |-> corePercent(c)]
    <3>1. \A c \in Cores : f[c] \in Nat /\ f[c] <= 100
      BY <2>1, CorePercent
    <3>2. Cardinality(Cores) \in Nat /\ Cardinality(Cores) > 0
      BY MonitorAssumption, FS_CardinalityType, FS_EmptySet
    <3> HIDE DEF f
    <3>3. SumOf(f, Cores) \in Nat /\ SumOf(f, Cores) <= 100 * Cardinality(Cores)
      BY <3>1, MonitorAssumption, SumType, SumBound
    <3> DEFINE n == SumOf(f, Cores)
               k == Cardinality(Cores)
    <3>4. SumOver(f, Cores) = n
      BY MonitorSum
    <3> HIDE DEF n, k
    <3>5. n \div k \in 0..100
      BY <3>2, <3>3 DEF n, k
    <3> QED
      BY <2>1, <3>4, <3>5 DEF k, f
  <2>2. CASE collector.cpu = <<>>
    <3>1. load = 0
      BY <2>2, Zenon
    <3> HIDE DEF load
    <3> QED
      BY <3>1
  <2> QED
    BY <2>1, <2>2
<1>2. rate \in Nat
  <2>1. sentSince \in Nat
    BY MonitorAssumption, SentType DEF sentSince, CountersOK
  <2>2. measured => clock - collector.time \in Nat /\ clock - collector.time > 0
    BY DEF measured, CountersOK
  <2> QED
    BY <2>1, <2>2
<1>3. LiveSample = [cpu |-> load, net |-> rate]
  BY DEF LiveSample
<1> HIDE DEF load, rate
<1> QED
  BY <1>1, <1>2, <1>3 DEF LiveStats

\* A chart stays one when a point is added.
LEMMA ChartKeeps ==
    ASSUME NEW h \in Seq(0..100), IsChart(h), NEW v \in 0..100
    PROVE  pushValue(h, v) \in Seq(0..100) /\ IsChart(pushValue(h, v))
<1> DEFINE all == Append(h, v)
<1>1. all \in Seq(0..100) /\ Len(all) = Len(h) + 1 /\ Len(h) \in Nat /\ Len(h) <= MaxPoints
  BY DEF IsChart
<1>2. MaxPoints \in Nat
  BY MonitorAssumption
<1>5. ASSUME NEW q \in Seq(0..100), Len(q) <= MaxPoints PROVE IsChart(q)
  <2>1. ASSUME NEW k \in 1..Len(q) PROVE q[k] \in 0..100
    <3> DEFINE P == 0..100
    <3>1. q \in Seq(P)
      OBVIOUS
    <3> HIDE DEF P
    <3>2. q[k] \in P
      BY <3>1
    <3> QED
      BY <3>2 DEF P
  <2> QED
    BY <1>5, <2>1 DEF IsChart
<1> HIDE DEF all
<1>3. CASE Len(all) > MaxPoints
  <2>1. pushValue(h, v) = Tail(all)
    BY <1>3 DEF pushValue, all
  <2>2. Tail(all) \in Seq(0..100) /\ Len(Tail(all)) = Len(h)
    BY <1>1
  <2> QED
    BY <1>1, <1>5, <2>1, <2>2
<1>4. CASE ~(Len(all) > MaxPoints)
  <2>1. pushValue(h, v) = all
    BY <1>4 DEF pushValue, all
  <2> QED
    BY <1>1, <1>2, <1>4, <1>5, <2>1
<1> QED
  BY <1>3, <1>4

WidgetsInv == smTypeOK /\ CoresInv /\ history \in Seq(0..100)

\* Every step keeps the widgets' types.
LEMMA WidgetsStep == CountersOK /\ WidgetsInv /\ [smNext]_smVars => WidgetsInv'
<1> SUFFICES ASSUME CountersOK, WidgetsInv, [smNext]_smVars PROVE WidgetsInv'
  OBVIOUS
<1> USE DEF WidgetsInv
<1>1. ASSUME live, UNCHANGED cpu PROVE CoresInv'
  <2>1. collector'.cpu = cpu
    BY <1>1 DEF live
  <2> QED
    BY <1>1, <2>1 DEF CoresInv
<1>2. CASE Interrupt
  <2>1. PICK d \in {0, 1} :
          cpu' = [c \in Cores |-> [total |-> cpu[c].total + 1, idle |-> cpu[c].idle + d]]
    BY <1>2 DEF Interrupt
  <2>2. collector' = collector
    BY <1>2 DEF Interrupt
  <2>3. CoresInv'
    BY <2>1, <2>2 DEF CoresInv
  <2>4. clock' \in 0..LastClock
    BY <1>2, MonitorAssumption DEF Interrupt, smTypeOK
  <2> QED
    BY <1>2, <2>3, <2>4 DEF Interrupt, smTypeOK, CoresInv
<1>3. CASE LinkChanges
  BY <1>3 DEF LinkChanges, smTypeOK, CoresInv
<1>4. CASE PidReused \/ TimerFires \/ refreshProcesses \/ UNCHANGED smVars
  BY <1>4 DEF PidReused, TimerFires, refreshProcesses, smVars, smTypeOK, CoresInv
<1>5. CASE reloadThresholds
  BY <1>5 DEF reloadThresholds, smTypeOK, CoresInv
<1>6. CASE OtherSample
  <2>1. CoresInv'
    BY <1>1, <1>6 DEF OtherSample
  <2> QED
    BY <1>6, <2>1 DEF OtherSample, smTypeOK
<1>7. CASE WidgetTick
  <2>1. CoresInv'
    BY <1>1, <1>7 DEF WidgetTick
  <2>2. LiveSample \in LiveStats
    BY SampleType
  <2> DEFINE s == LiveSample
  <2> HIDE DEF s
  <2>3. \/ OverviewTick(s) \/ CpuTick(s) \/ NetworkTick(s) \/ RightTick(s) \/ RamOrDiskTick
    BY <1>7 DEF WidgetTick, s
  <2>4. s \in LiveStats /\ s.cpu \in 0..100
    BY <2>2 DEF s, LiveStats
  <2>5. UNCHANGED <<clock, cpu, up, cpuThreshold>>
    BY <1>7 DEF WidgetTick
  <2>6. CASE OverviewTick(s) \/ NetworkTick(s) \/ RamOrDiskTick
    BY <2>1, <2>4, <2>5, <2>6 DEF OverviewTick, NetworkTick, RamOrDiskTick, smTypeOK, Viewers
  <2>7. CASE CpuTick(s)
    <3>1. history' \in Seq(0..100) /\ IsChart(history')
      BY <2>4, <2>7, ChartKeeps DEF CpuTick, smTypeOK
    <3> QED
      BY <2>1, <2>5, <2>7, <3>1 DEF CpuTick, smTypeOK, IsChart
  <2>8. CASE RightTick(s)
    <3>1. alerts' \in 0..MaxAlerts
      BY <2>8, MonitorAssumption DEF RightTick, smTypeOK
    <3>2. shown' \in [Viewers -> LiveStats]
      BY <2>4, <2>8 DEF RightTick, smTypeOK
    <3>3. prevAlert' \in BOOLEAN
      BY <2>4, <2>8 DEF RightTick
    <3> QED
      BY <2>1, <2>5, <2>8, <3>1, <3>2, <3>3 DEF RightTick, smTypeOK, IsChart
  <2> QED
    BY <2>3, <2>6, <2>7, <2>8
<1> QED
  BY <1>2, <1>3, <1>4, <1>5, <1>6, <1>7 DEF smNext

\* The widgets show percentages and rates, and the chart and the alerts stay
\* within their limits, whatever the samples (Collector::live, pushValue,
\* RightPanel::tick): the load is one of 0 to 100 although each core's share is
\* a quotient of differences that any caller may have reset.
THEOREM WidgetsShowPercentages == MonitorSpec => []smTypeOK
<1>1. smInit => CountersOK /\ WidgetsInv
  <2> SUFFICES ASSUME smInit PROVE CountersOK /\ WidgetsInv
    OBVIOUS
  <2>1. CountersOK
    BY DEF smInit, CountersOK
  <2>2. CoresInv
    BY DEF smInit, CoresInv
  <2>3. IsChart(history)
    BY MonitorAssumption DEF smInit, IsChart
  <2>4. shown \in [Viewers -> LiveStats]
    BY DEF smInit, NoSample, LiveStats
  <2>5. smTypeOK
    <3>1. clock \in 0..LastClock /\ alerts \in 0..MaxAlerts
      BY MonitorAssumption DEF smInit
    <3>2. \A c \in Cores : cpu[c].idle <= cpu[c].total
      BY DEF smInit
    <3>3. prevAlert \in BOOLEAN
      BY DEF smInit
    <3> QED
      BY <2>3, <2>4, <3>1, <3>2, <3>3 DEF smInit, smTypeOK
  <2> QED
    BY <2>1, <2>2, <2>5 DEF smInit, WidgetsInv
<1>2. smInit => MonitorInv
  BY MonitorStart
<1>3. MonitorInv => CountersOK
  BY DEF MonitorInv
<1>4. WidgetsInv => smTypeOK
  BY DEF WidgetsInv
<1> QED
  BY <1>1, <1>2, <1>3, <1>4, MonitorStep, WidgetsStep, PTL DEF MonitorSpec

-----------------------------------------------------------------------------
(* The days and weeks of the history.                                      *)

\* A moment is in the day that begins at a multiple of the day's length.
LEMMA DayBegins ==
    ASSUME NEW t \in Nat
    PROVE  /\ t \div HourMarks \in Nat /\ dayStart(t) = HourMarks * (t \div HourMarks)
           /\ dayStart(t) <= t /\ t < dayStart(t) + HourMarks
<1>1. HourMarks \in Nat /\ HourMarks > 0
  BY HistoryAssumption
<1>2. t \div HourMarks \in Nat /\ t % HourMarks \in Nat /\ t % HourMarks < HourMarks
  BY <1>1
<1>3. t = HourMarks * (t \div HourMarks) + (t % HourMarks)
  BY <1>1
<1> DEFINE m == HourMarks * (t \div HourMarks)
<1>4. m \in Nat
  BY <1>1, <1>2
<1> HIDE DEF m
<1>5. t - (t % HourMarks) = m
  BY <1>2, <1>3, <1>4 DEF m
<1> QED
  BY <1>1, <1>2, <1>3, <1>4, <1>5 DEF dayStart, m

\* The number of whole days in a number of days.
LEMMA DaysIn == ASSUME NEW a \in Int PROVE (HourMarks * a) \div HourMarks = a
BY HistoryAssumption

\* Monday is at most six days back.
LEMMA MondayIsNear ==
    ASSUME NEW t \in Nat
    PROVE  \E k \in 0..6 : mondayOf(t) = HourMarks * ((t \div HourMarks) - k)
<1> DEFINE w == tm_wday(dayStart(t))
           k == (IF w = 0 THEN 7 ELSE w) - 1
           q == t \div HourMarks
<1>1. dayStart(t) = HourMarks * q /\ q \in Nat /\ HourMarks \in Nat
  BY DayBegins, HistoryAssumption
<1>2. w \in 0..6
  <2>1. dayStart(t) \in Int
    BY <1>1
  <2>2. (dayStart(t) + Offset) \div HourMarks \in Int
    BY <2>1, HistoryAssumption
  <2> QED
    BY <2>2 DEF tm_wday
<1>3. mondayOf(t) = HourMarks * q - k * HourMarks
  BY <1>1 DEF mondayOf
<1> HIDE DEF w
<1>4. k \in 0..6
  BY <1>2
<1> HIDE DEF k, q
<1>5. HourMarks * q - k * HourMarks = HourMarks * (q - k)
  BY <1>1, <1>4
<1> QED
  BY <1>3, <1>4, <1>5 DEF q

\* The rows have a place in time: they begin no later than now.
HistoryInv ==
    /\ hour \in Nat /\ IsFiniteSet(histRows)
    /\ \A r \in histRows : r.start \in Nat /\ r.len \in Nat /\ r.start <= hour

\* Every step keeps that: records end when they are stored.
LEMMA HistoryStep == HistoryInv /\ [lhNext]_lhVars => HistoryInv'
<1> SUFFICES ASSUME HistoryInv, [lhNext]_lhVars PROVE HistoryInv'
  OBVIOUS
<1>1. CASE TimePasses
  BY <1>1 DEF TimePasses, HistoryInv
<1>2. CASE AgentStores
  <2>1. PICK a \in HistApps, b \in FirstHour..hour :
          histRows' = histRows \cup {[app |-> a, start |-> b, len |-> hour - b]}
    BY <1>2 DEF AgentStores
  <2>2. hour' = hour /\ hour \in Nat /\ b \in Nat /\ b <= hour /\ hour - b \in Nat
    BY <1>2, HistoryAssumption DEF AgentStores, HistoryInv
  <2>3. IsFiniteSet(histRows')
    BY <2>1, FS_AddElement DEF HistoryInv
  <2> QED
    BY <2>1, <2>2, <2>3 DEF HistoryInv
<1>3. CASE LocalDBOpen \/ DashCloses \/ refreshAll \/ LocalRefresh \/ UNCHANGED lhVars
           \/ \E p \in Periods : setPeriod(p)
  BY <1>3 DEF LocalDBOpen, DashCloses, refreshAll, LocalRefresh, setPeriod, lhVars, HistoryInv
<1> QED
  BY <1>1, <1>2, <1>3 DEF lhNext

\* A day's total, with and without the rows of no length.
LEMMA EmptyRowsDoNotCount ==
    ASSUME NEW S, IsFiniteSet(S), \A r \in S : r.len \in Nat
    PROVE  TotalOf(S) = TotalOf({r \in S : r.len > 0})
<1> DEFINE f == [r \in S |-> r.len]
           P == {r \in S : r.len > 0}
           g == [r \in P |-> r.len]
<1>1. TotalOf(S) = SumOf(f, S) /\ TotalOf(P) = SumOf(g, P)
  BY DEF TotalOf, SumOf
<1>2. (\A r \in S : f[r] \in Nat) /\ P = {r \in S : f[r] > 0} /\ \A r \in P : f[r] = g[r]
  OBVIOUS
<1>3. IsFiniteSet(P)
  BY FS_Subset
<1> HIDE DEF f, g
<1>4. SumOf(f, S) = SumOf(f, {r \in S : f[r] > 0})
  BY <1>2, SumOfPositive
<1>5. SumOf(f, P) = SumOf(g, P)
  BY <1>2, <1>3, SumEqual
<1> QED
  BY <1>1, <1>2, <1>4, <1>5

\* A week of the timeline: seven bars, each of the rows of its day.
LEMMA WeekHasSevenBars ==
    ASSUME dbOpen = "open", NEW p \in {"this_week", "last_week"}
    PROVE  LET week == loadPeriodAndTimeline(p) IN
           /\ week.from = PeriodStart(p) /\ Len(week.days) = 7
           /\ \A d \in 1..7 : week.days[d] = TotalOf(RowsIn(PeriodStart(p) + (d - 1) * HourMarks,
                                                           PeriodStart(p) + d * HourMarks))
<1> DEFINE from == PeriodStart(p)
           b == [i \in 1..8 |-> from + (i - 1) * HourMarks]
<1>1. loadPeriodAndTimeline(p) = [at |-> hour, from |-> from, days |-> dailyTotalsInRange(b)]
  BY DEF loadPeriodAndTimeline
<1>2. Len(b) = 8 /\ \A i \in 1..8 : b[i] = from + (i - 1) * HourMarks
  OBVIOUS
<1> HIDE DEF from, b
<1>3. dailyTotalsInRange(b) = [d \in 1..7 |-> TotalOf(RowsIn(b[d], b[d + 1]))]
  BY <1>2 DEF dailyTotalsInRange
<1>4. Len(dailyTotalsInRange(b)) = 7
  BY <1>3
<1>5. ASSUME NEW d \in 1..7
      PROVE  b[d] = from + (d - 1) * HourMarks /\ b[d + 1] = from + d * HourMarks
  <2>1. d \in 1..8 /\ d + 1 \in 1..8 /\ (d + 1) - 1 = d
    OBVIOUS
  <2> QED
    BY <1>2, <2>1
<1> QED
  BY <1>1, <1>3, <1>4, <1>5 DEF from

\* The bar of a moment in a week that begins j days before the moment's.
LEMMA BarOfDay ==
    ASSUME NEW w, Len(w.days) = 7, NEW t \in Nat, NEW j \in Int,
           w.from = HourMarks * ((t \div HourMarks) - j)
    PROVE  BarOf(w, t) = IF j \in 0..6 THEN j + 1 ELSE 0
<1> DEFINE q == t \div HourMarks
<1>1. dayStart(t) = HourMarks * q /\ q \in Nat /\ HourMarks \in Nat
  BY DayBegins, HistoryAssumption
<1> HIDE DEF q
<1>2. HourMarks * q - HourMarks * (q - j) = HourMarks * j
  BY <1>1
<1>3. (dayStart(t) - w.from) \div HourMarks = j
  BY <1>1, <1>2, DaysIn DEF q
<1> QED
  BY <1>3 DEF BarOf

\* The week of the present day has a bar for it, with the total of its rows.
LEMMA TodayInWeek == HistoryInv => TodayIsInTheWeek
<1> SUFFICES ASSUME HistoryInv, dbOpen = "open" PROVE TodayIsInTheWeek
  BY DEF TodayIsInTheWeek
<1> DEFINE week == loadPeriodAndTimeline("this_week")
           q == hour \div HourMarks
           D == dayStart(hour)
           Rows == RowsIn(D, D + HourMarks)
<1>1. hour \in Nat
  BY DEF HistoryInv
<1>2. PICK k \in 0..6 : mondayOf(hour) = HourMarks * (q - k)
  BY <1>1, MondayIsNear
<1>3. PeriodStart("this_week") = mondayOf(hour) /\ PeriodStart("today") = D
  BY DEF PeriodStart
<1>4. /\ week.from = mondayOf(hour) /\ Len(week.days) = 7
      /\ \A d \in 1..7 : week.days[d] = TotalOf(RowsIn(mondayOf(hour) + (d - 1) * HourMarks,
                                                       mondayOf(hour) + d * HourMarks))
  BY <1>3, WeekHasSevenBars
<1>5. BarOf(week, hour) = k + 1
  <2> HIDE DEF week
  <2> QED
    BY <1>1, <1>2, <1>4, BarOfDay DEF q
<1>6. mondayOf(hour) + k * HourMarks = D /\ mondayOf(hour) + (k + 1) * HourMarks = D + HourMarks
  <2>1. D = HourMarks * q /\ q \in Nat /\ HourMarks \in Nat
    BY <1>1, DayBegins, HistoryAssumption
  <2> HIDE DEF q, D
  <2> QED
    BY <1>2, <2>1
<1>7. week.days[k + 1] = TotalOf(Rows)
  <2>1. k + 1 \in 1..7 /\ (k + 1) - 1 = k
    OBVIOUS
  <2> HIDE DEF week
  <2> QED
    BY <1>4, <1>6, <2>1
<1>8. loadPeriodAndTimeline("today").days[1] = TotalOf({r \in Rows : r.len > 0})
  BY <1>3 DEF loadPeriodAndTimeline
<1>9. TotalOf(Rows) = TotalOf({r \in Rows : r.len > 0})
  <2>1. IsFiniteSet(Rows) /\ \A r \in Rows : r.len \in Nat
    BY FS_Subset DEF RowsIn, HistoryInv
  <2> HIDE DEF Rows
  <2> QED
    BY <2>1, EmptyRowsDoNotCount
<1> QED
  BY <1>5, <1>7, <1>8, <1>9 DEF TodayIsInTheWeek

\* A row of the last seven days has a bar in one of the two weeks.
LEMMA WeeksAreAdjacent == HistoryInv => WeeksMeet
<1> SUFFICES ASSUME HistoryInv, dbOpen = "open", NEW r \in histRows, hour - r.start < 7 * HourMarks
             PROVE  (BarOf(loadPeriodAndTimeline("this_week"), r.start) # 0)
                      # (BarOf(loadPeriodAndTimeline("last_week"), r.start) # 0)
  BY DEF WeeksMeet
<1> DEFINE this == loadPeriodAndTimeline("this_week")
           last == loadPeriodAndTimeline("last_week")
           q == hour \div HourMarks
           p == r.start \div HourMarks
<1>1. hour \in Nat /\ r.start \in Nat /\ r.start <= hour /\ HourMarks \in Nat /\ HourMarks > 0
  BY HistoryAssumption DEF HistoryInv
<1>2. PICK k \in 0..6 : mondayOf(hour) = HourMarks * (q - k)
  BY <1>1, MondayIsNear
<1>3. p \in Nat /\ q \in Nat /\ q - 7 <= p /\ p <= q
  <2>1. /\ p \in Nat /\ HourMarks * p <= r.start /\ r.start < HourMarks * p + HourMarks
        /\ q \in Nat /\ HourMarks * q <= hour /\ hour < HourMarks * q + HourMarks
    BY <1>1, DayBegins
  <2> HIDE DEF p, q
  <2>2. HourMarks * p < HourMarks * (q + 1) /\ HourMarks * q < HourMarks * (p + 8)
    BY <1>1, <2>1
  <2>3. \A a, b \in Int : HourMarks * a < HourMarks * b => a < b
    BY <1>1
  <2>4. p < q + 1 /\ q < p + 8
    BY <2>1, <2>2, <2>3
  <2> QED
    BY <2>1, <2>4
<1>4. PeriodStart("this_week") = mondayOf(hour) /\ PeriodStart("last_week") = mondayOf(hour) - 7 * HourMarks
  BY DEF PeriodStart
<1>5. this.from = mondayOf(hour) /\ Len(this.days) = 7
  BY <1>4, WeekHasSevenBars
<1>6. last.from = mondayOf(hour) - 7 * HourMarks /\ Len(last.days) = 7
  BY <1>4, WeekHasSevenBars
<1> DEFINE j == (p - q) + k
<1> HIDE DEF this, last, q
<1>7. j \in Int /\ j <= 6 /\ -7 <= j
  BY <1>3
<1>8. this.from = HourMarks * (p - j)
  <2>1. p - j = q - k
    BY <1>3
  <2> QED
    BY <1>2, <1>5, <2>1
<1>9. last.from = HourMarks * (p - (j + 7))
  <2>1. p - (j + 7) = (q - k) - 7 /\ q - k \in Int
    BY <1>3
  <2>2. HourMarks * (q - k) - 7 * HourMarks = HourMarks * ((q - k) - 7)
    BY <1>1, <2>1
  <2> QED
    BY <1>2, <1>6, <2>1, <2>2
<1> HIDE DEF j
<1>10. BarOf(this, r.start) = IF j \in 0..6 THEN j + 1 ELSE 0
  BY <1>1, <1>5, <1>7, <1>8, BarOfDay
<1>11. BarOf(last, r.start) = IF j + 7 \in 0..6 THEN (j + 7) + 1 ELSE 0
  <2>1. j + 7 \in Int
    BY <1>7
  <2> QED
    BY <1>1, <1>6, <1>9, <2>1, BarOfDay
<1>12. CASE j \in 0..6
  <2>1. BarOf(this, r.start) # 0 /\ BarOf(last, r.start) = 0
    BY <1>10, <1>11, <1>12
  <2> QED
    BY <2>1 DEF this, last
<1>13. CASE j \notin 0..6
  <2>1. BarOf(this, r.start) = 0 /\ BarOf(last, r.start) # 0
    BY <1>7, <1>10, <1>11, <1>13
  <2> QED
    BY <2>1 DEF this, last
<1> QED
  BY <1>12, <1>13

\* Whatever the time zone and the length of a day's unit: the current week has
\* a bar for today with the total the day's own view has, and a row of the last
\* seven days is in one of the two weeks and one only (dayStart, mondayOf,
\* loadPeriodAndTimeline, dailyTotalsInRange).
THEOREM WeeksAreWhole == HistorySpec => []WeekIsWhole
<1>1. lhInit => HistoryInv
  BY HistoryAssumption, FS_EmptySet DEF lhInit, HistoryInv
<1>2. HistoryInv => WeekIsWhole
  BY TodayInWeek, WeeksAreAdjacent DEF WeekIsWhole
<1> QED
  BY <1>1, <1>2, HistoryStep, PTL DEF HistorySpec

-----------------------------------------------------------------------------
(* Types.  The window's says more: a message has a receiver and a sender.  *)

\* The types of the settings, which every step keeps.
LEMMA DashSettingsTypes == dsTypeOK /\ [dsNext]_dsVars => dsTypeOK'
<1> SUFFICES ASSUME dsTypeOK, [dsNext]_dsVars PROVE dsTypeOK'
  OBVIOUS
<1> USE DEF dsTypeOK
<1>1. loadDashSettings.look \in Looks
  BY DashSettingsAssumption DEF loadDashSettings
<1>2. CASE OpenSettings
  BY <1>1, <1>2 DEF OpenSettings, loadInto
<1>3. CASE EditForm
  BY <1>3 DEF EditForm
<1>4. CASE CloseSettings
  BY <1>4, DashSettingsAssumption DEF CloseSettings
<1>5. CASE saveAppearance
  <2>1. CASE saveDashSettings(FormOver(dsForm.look)) /\ dsMsg' = "saved" /\ dsPanel' = reloadPanel'
    <3>1. FormOver(dsForm.look).look = dsForm.look /\ dsForm.look \in Looks
      BY DEF FormOver, loadDashSettings
    <3>2. dsDisk'.file = "json" /\ dsDisk'.look = dsForm.look /\ dsDisk' \in [file : Files, look : Looks, key : KeyForms]
      BY <2>1, <3>1 DEF saveDashSettings, dpapiProtect, Files, KeyForms
    <3>3. dsPanel' = dsForm.look
      BY <2>1, <3>2 DEF reloadPanel, loadDashSettings
    <3> QED
      BY <1>5, <2>1, <3>1, <3>2, <3>3 DEF saveAppearance
  <2>2. CASE dsMsg' = "failed" /\ UNCHANGED <<dsDisk, dsPanel>>
    BY <1>5, <2>2 DEF saveAppearance
  <2> QED
    BY <1>5, <2>1, <2>2 DEF saveAppearance
<1>6. CASE UNCHANGED dsVars
  BY <1>6 DEF dsVars
<1> QED
  BY <1>2, <1>3, <1>4, <1>5, <1>6 DEF dsNext

\* The types of the metric pages.
LEMMA PagesTypes == PagesInv /\ pgTypeOK /\ [pgNext]_pgVars => pgTypeOK'
<1> SUFFICES ASSUME PagesInv, pgTypeOK, [pgNext]_pgVars PROVE pgTypeOK'
  OBVIOUS
<1> USE DEF pgTypeOK
<1>1. \A m \in Answers : m \in Machine /\ m.logical = Logical
  <2> SUFFICES ASSUME NEW c \in 0..Logical, NEW b \in BOOLEAN
               PROVE  getMachineInfo(c, b) \in Machine /\ getMachineInfo(c, b).logical = Logical
    BY DEF Answers
  <2>1. (IF c = 0 THEN Logical ELSE c) \in 1..Logical
    BY PagesAssumption
  <2> DEFINE n == IF c = 0 THEN Logical ELSE c
  <2> HIDE DEF n
  <2>2. getMachineInfo(c, b) = [logical |-> Logical, physical |-> n, named |-> b]
    BY DEF getMachineInfo, n
  <2> QED
    BY <2>1, <2>2 DEF Machine, n
<1>2. CASE refreshStaticInfo
  <2>1. pgInfo' \in [{"cpu", "right"} -> Machine \cup {Unknown, Failed}]
    BY <1>1, <1>2 DEF refreshStaticInfo
  <2>2. Len(pgBars') \in {0, Logical}
    BY <1>1, <1>2, PagesAssumption DEF refreshStaticInfo
  <2> QED
    BY <1>2, <2>1, <2>2 DEF refreshStaticInfo
<1>3. CASE refreshStaticInfoOnce
  BY <1>1, <1>3 DEF refreshStaticInfoOnce
<1>4. CASE refreshInterfacesOnce
  <2>1. getNetworkInterfaces \in [loaded : BOOLEAN, up : SUBSET Cards]
    BY DEF getNetworkInterfaces
  <2>2. pgCards' \in [loaded : BOOLEAN, up : SUBSET Cards]
    BY <1>4, <2>1 DEF refreshInterfacesOnce
  <2> QED
    BY <1>4, <2>2 DEF refreshInterfacesOnce
<1>5. CASE HardwareChanges
  BY <1>5 DEF HardwareChanges
<1>6. CASE CpuPageTick
  <2>1. PICK n \in Nat : pgBars \in [1..n -> Bars]
    BY DEF PagesInv
  <2>2. Len(pgBars) = n
    BY <2>1
  <2>3. Len(pgBars') = n
    BY <1>6, <2>2 DEF CpuPageTick
  <2> QED
    BY <1>6, <2>2, <2>3 DEF CpuPageTick
<1>7. CASE DiskPageTick
  BY <1>7 DEF DiskPageTick
<1>8. CASE UNCHANGED pgVars
  BY <1>8 DEF pgVars
<1> QED
  BY <1>2, <1>3, <1>4, <1>5, <1>6, <1>7, <1>8 DEF pgNext

\* A total is a number.
LEMMA TotalType ==
    ASSUME HistoryInv, NEW S \in SUBSET histRows PROVE TotalOf(S) \in Nat
<1> DEFINE f == [r \in S |-> r.len]
<1>1. TotalOf(S) = SumOf(f, S)
  BY DEF TotalOf, SumOf
<1>2. IsFiniteSet(S) /\ \A r \in S : f[r] \in Nat
  BY FS_Subset DEF HistoryInv
<1> HIDE DEF f
<1> QED
  BY <1>1, <1>2, SumType

\* The timeline's bars are totals, in all its forms.
LEMMA StripType ==
    ASSUME HistoryInv, NEW p
    PROVE  LET days == loadPeriodAndTimeline(p).days IN \A d \in 1..Len(days) : days[d] \in Nat
<1>1. \A a, b : RowsIn(a, b) \in SUBSET histRows /\ TotalOf(RowsIn(a, b)) \in Nat
  BY TotalType DEF RowsIn
<1>2. CASE dbOpen # "open"
  <2>1. loadPeriodAndTimeline(p).days = <<>>
    BY <1>2 DEF loadPeriodAndTimeline, NoStrip
  <2> QED
    BY <2>1
<1>3. CASE dbOpen = "open" /\ p \in {"this_week", "last_week"}
  <2> DEFINE week == loadPeriodAndTimeline(p)
  <2>1. /\ Len(week.days) = 7
        /\ \A d \in 1..7 : week.days[d] = TotalOf(RowsIn(PeriodStart(p) + (d - 1) * HourMarks,
                                                         PeriodStart(p) + d * HourMarks))
    BY <1>3, WeekHasSevenBars
  <2> HIDE DEF week
  <2>2. \A d \in 1..Len(week.days) : week.days[d] \in Nat
    BY <1>1, <2>1
  <2> QED
    BY <2>2 DEF week
<1>4. CASE dbOpen = "open" /\ p \notin {"this_week", "last_week"}
  <2> DEFINE from == PeriodStart(p)
             n == TotalOf({r \in RowsIn(from, from + HourMarks) : r.len > 0})
  <2>1. n \in Nat
    BY <1>1, TotalType
  <2>2. loadPeriodAndTimeline(p) = [at |-> hour, from |-> from, days |-> <<n>>]
    BY <1>4 DEF loadPeriodAndTimeline
  <2> HIDE DEF n
  <2> QED
    BY <2>1, <2>2
<1> QED
  BY <1>2, <1>3, <1>4

\* A list is cut at its limit.
LEMMA CutLength == ASSUME NEW limit \in Nat, NEW n \in Nat
                   PROVE AtMost(limit, n) \in Nat /\ AtMost(limit, n) <= limit /\ AtMost(limit, n) <= n
BY DEF AtMost

\* The totals of the local page are as many as LIMIT lets through.
LEMMA UsageLength ==
    ASSUME HistoryInv, NEW a, NEW b PROVE Len(usageInRange(a, b)) <= UsageLimit
<1> DEFINE apps == {r.app : r \in RowsIn(a, b)}
           total == [x \in apps |-> TotalOf({r \in RowsIn(a, b) : r.app = x})]
           Sorted(s) == \A i, j \in DOMAIN s : i < j => total[s[i]] >= total[s[j]]
           rows == CHOOSE s \in SetToSeqs(apps) : Sorted(s)
           L == Cardinality(apps)
<1>1. IsFiniteSet(apps)
  <2>1. IsFiniteSet(RowsIn(a, b))
    BY FS_Subset DEF RowsIn, HistoryInv
  <2> DEFINE g == [r \in RowsIn(a, b) |-> r.app]
  <2>2. g \in Surjection(RowsIn(a, b), apps)
    BY DEF Surjection
  <2> QED
    BY <2>1, <2>2, FS_Surjection
<1>2. \A x \in apps : total[x] \in Nat
  <2>1. ASSUME NEW x \in apps PROVE {r \in RowsIn(a, b) : r.app = x} \in SUBSET histRows
    BY DEF RowsIn
  <2> QED
    BY <2>1, TotalType
<1>3. L \in Nat
  BY <1>1, FS_CardinalityType
<1> HIDE DEF apps, total
<1>4. PICK q : IsRanking(q, apps, total)
  BY <1>1, <1>2, RankingExists
<1>5. q \in SetToSeqs(apps) /\ Sorted(q)
  BY <1>4 DEF IsRanking, SetToSeqs
<1> HIDE DEF Sorted
<1>6. rows \in SetToSeqs(apps)
  BY <1>5
<1> HIDE DEF rows
<1>7. Len(rows) = L
  BY <1>3, <1>6 DEF SetToSeqs
<1>8. usageInRange(a, b) = [i \in 1..AtMost(UsageLimit, Len(rows)) |-> <<rows[i], total[rows[i]]>>]
  BY DEF usageInRange, rows, Sorted, apps, total
<1>9. UsageLimit \in Nat /\ AtMost(UsageLimit, L) \in Nat /\ AtMost(UsageLimit, L) <= UsageLimit
  BY <1>3, HistoryAssumption, CutLength
<1>10. Len(usageInRange(a, b)) = AtMost(UsageLimit, L)
  BY <1>7, <1>8, <1>9
<1> QED
  BY <1>9, <1>10

\* So are its latest rows.
LEMMA RecentLength == ASSUME HistoryInv PROVE Len(recentActivities) <= RecentLimit
<1> DEFINE Sorted(s) == \A i, j \in DOMAIN s : i < j => s[i].start >= s[j].start
           rows == CHOOSE s \in SetToSeqs(histRows) : Sorted(s)
           L == Cardinality(histRows)
           key == [r \in histRows |-> r.start]
<1>1. IsFiniteSet(histRows) /\ L \in Nat /\ \A r \in histRows : key[r] \in Nat /\ key[r] = r.start
  BY FS_CardinalityType DEF HistoryInv
<1> HIDE DEF key
<1>2. PICK q : IsRanking(q, histRows, key)
  BY <1>1, RankingExists
<1>3. q \in SetToSeqs(histRows) /\ Sorted(q)
  <2>1. DOMAIN q = 1..L /\ \A i \in 1..L : q[i] \in histRows
    BY <1>2 DEF IsRanking
  <2> QED
    BY <1>1, <1>2, <2>1 DEF IsRanking, SetToSeqs
<1> HIDE DEF Sorted
<1>4. rows \in SetToSeqs(histRows)
  BY <1>3
<1> HIDE DEF rows
<1>5. Len(rows) = L /\ rows \in Seq(histRows)
  BY <1>1, <1>4 DEF SetToSeqs
<1>6. recentActivities = SubSeq(rows, 1, AtMost(RecentLimit, Len(rows)))
  BY DEF recentActivities, rows, Sorted
<1> DEFINE n == AtMost(RecentLimit, L)
<1>7. RecentLimit \in Nat /\ n \in Nat /\ n <= RecentLimit /\ n <= L
  BY <1>1, HistoryAssumption, CutLength
<1> HIDE DEF n
<1>8. Len(SubSeq(rows, 1, n)) = n
  BY <1>5, <1>7
<1> QED
  BY <1>5, <1>6, <1>7, <1>8 DEF n

\* The types of the history and of the pages that show it.
LEMMA HistoryTypes == HistoryInv /\ lhTypeOK /\ [lhNext]_lhVars => lhTypeOK'
<1> SUFFICES ASSUME HistoryInv, lhTypeOK, [lhNext]_lhVars PROVE lhTypeOK'
  OBVIOUS
<1> USE DEF lhTypeOK
<1>1. /\ {FirstHour, LastHour, UsageLimit, RecentLimit} \subseteq Nat
      /\ Len(LocalPage.usage) <= UsageLimit /\ Len(LocalPage.recent) <= RecentLimit
  BY HistoryAssumption DEF LocalPage
<1>2. CASE TimePasses
  BY <1>1, <1>2 DEF TimePasses
<1>3. CASE AgentStores
  <2>1. PICK a \in HistApps, b \in FirstHour..hour :
          histRows' = histRows \cup {[app |-> a, start |-> b, len |-> hour - b]}
    BY <1>3 DEF AgentStores
  <2>2. [app |-> a, start |-> b, len |-> hour - b] \in HistRow
    BY <1>1 DEF HistRow
  <2> QED
    BY <1>3, <2>1, <2>2 DEF AgentStores
<1>4. CASE LocalDBOpen \/ UNCHANGED lhVars
  BY <1>4 DEF LocalDBOpen, lhVars
<1>5. CASE DashCloses
  <2>1. strip'.days = <<>> /\ period' \in Periods /\ notice' \in BOOLEAN
    BY <1>5 DEF DashCloses, OverviewPage, LocalPage, NoStrip, Periods
  <2>2. Len(usage') <= UsageLimit /\ Len(recent') <= RecentLimit
    BY <1>1, <1>5 DEF DashCloses
  <2>3. hour' = hour /\ histRows' = histRows /\ dbFile' = dbFile /\ dbOpen' = "closed"
    BY <1>5 DEF DashCloses
  <2> QED
    BY <2>1, <2>2, <2>3
<1>6. ASSUME NEW p \in Periods, setPeriod(p) PROVE lhTypeOK'
  BY <1>6, StripType DEF setPeriod
<1>7. CASE refreshAll
  BY <1>6, <1>7 DEF refreshAll
<1>8. CASE LocalRefresh
  <2>1. Len(usage') <= UsageLimit /\ Len(recent') <= RecentLimit
    BY <1>8, UsageLength, RecentLength DEF LocalRefresh
  <2>2. notice' \in BOOLEAN
    BY <1>8 DEF LocalRefresh
  <2> QED
    BY <1>8, <2>1, <2>2 DEF LocalRefresh
<1> QED
  BY <1>2, <1>3, <1>4, <1>5, <1>6, <1>7, <1>8 DEF lhNext

\* Requests of the window: a message has a receiver before it is sent.
Jobs == {j \in [op : Ops, ctx : 0..MaxDialogs, who : Anyone, arg : Target] : j.op = "send" => j.arg \in Peers}

WindowInv == qTypeOK /\ qJobs \subseteq Jobs

\* A request for a page or a device is one of these.
LEMMA JobType ==
    ASSUME WindowInv, NEW op \in Ops, NEW ctx \in 0..MaxDialogs, NEW d \in Target, op = "send" => d \in Peers
    PROVE  Job(op, ctx, d) \in Jobs
BY DEF Job, loadDashSession, WindowInv, qTypeOK, Jobs

\* So are the requests of a refresh.
LEMMA RefreshType ==
    ASSUME NEW s \in Anyone, NEW ops \in SUBSET {"cloud", "devices", "sidebar"}
    PROVE  RefreshJobs(s, ops) \subseteq Jobs
<1>1. 0 \in 0..MaxDialogs
  BY WindowAssumption
<1> QED
  BY <1>1 DEF RefreshJobs, Jobs, Ops, Target

\* The devices page keeps its type, and the buttons follow the selection.
IsDevicesPage(g) == g \in DevicesPage /\ g.canSend = (g.selected # NoPeer)

\* A refresh without a session clears the list and the thread.
LEMMA RefreshedPage ==
    ASSUME WindowInv, NEW s \in Anyone PROVE IsDevicesPage(DevicesRefreshed(s))
<1>1. qDevices \in DevicesPage /\ qDevices.canSend = (qDevices.selected # NoPeer)
  BY DEF WindowInv, qTypeOK
<1> QED
  BY <1>1 DEF DevicesRefreshed, IsDevicesPage, DevicesPage, NoThread, Anyone, Target

\* A selection enables the buttons.
LEMMA SelectedPage ==
    ASSUME WindowInv, NEW d \in Peers PROVE IsDevicesPage(Selected(d))
<1>1. qDevices \in DevicesPage
  BY DEF WindowInv, qTypeOK
<1>2. d # NoPeer
  BY WindowAssumption
<1>3. Selected(d).canSend = TRUE /\ Selected(d).selected = d
  BY <1>1 DEF Selected, DevicesPage
<1>4. Selected(d) \in DevicesPage
  BY <1>1 DEF Selected, DevicesPage, Target
<1> QED
  BY <1>2, <1>3, <1>4 DEF IsDevicesPage

\* The answers of the requests.
LEMMA FinishKeeps ==
    ASSUME WindowInv, NEW j \in qJobs, Finish(j) PROVE WindowInv'
<1> USE DEF WindowInv, qTypeOK
<1>1. PICK ok \in Outcomes(j) :
         \/ /\ ~Alive(j) /\ qJobs' = qJobs \ {j} /\ qDown' \in BOOLEAN
            /\ UNCHANGED <<qSession, qToken, qGlyph, qDialog, qCloud, qSidebar, qDevices, qMessages>>
         \/ Alive(j) /\ j.op = "login" /\ LoginDone(j, ok) /\ UNCHANGED <<qMessages, qDown>>
         \/ Alive(j) /\ j.op = "logout" /\ LogoutDone(j, ok) /\ UNCHANGED <<qMessages, qDown>>
         \/ j.op = "devices" /\ DevicesLoaded(j, ok) /\ UNCHANGED qMessages
         \/ j.op = "send" /\ SendDone(j, ok)
         \/ /\ Alive(j) /\ j.op \in {"cloud", "sidebar", "thread", "export", "password"}
            /\ PageLoaded(j, ok) /\ UNCHANGED <<qMessages, qDown>>
  BY DEF Finish
<1>2. /\ qSection' = qSection /\ j \in Jobs /\ j.who \in Anyone /\ j.arg \in Target
      /\ Guest \in Anyone /\ 0 \in 0..MaxDialogs
  BY WindowAssumption DEF Finish, Jobs, Anyone
<1>3. IsDevicesPage(qDevices)
  BY DEF IsDevicesPage
<1>4. CASE LoginDone(j, ok) /\ UNCHANGED <<qMessages, qDown>>
  <2>1. CASE ~ok
    BY <1>2, <1>4, <2>1 DEF LoginDone
  <2>2. CASE ok
    <3>1. PICK s \in saveDashSession(j.who) :
            /\ qSession' = s /\ qToken' = TRUE /\ updateAccountGlyph(s) /\ qDialog' = Closed
            /\ CloudRefresh(s) /\ SidebarRefresh(s) /\ qDevices' = DevicesRefreshed(s)
            /\ qJobs' = (qJobs \ {j}) \cup RefreshJobs(s, {"cloud", "devices", "sidebar"})
      BY <1>4, <2>2 DEF LoginDone
    <3>2. s \in Anyone
      BY <1>2 DEF saveDashSession
    <3>3. qJobs' \subseteq Jobs
      BY <3>1, <3>2, RefreshType
    <3>4. IsDevicesPage(qDevices')
      BY <3>1, <3>2, RefreshedPage
    <3>5. qDialog' \in Dialogs
      BY <3>1 DEF Closed, Dialogs
    <3>6. qCloud' \in Anyone /\ qSidebar' \in Anyone /\ qGlyph' \in Anyone
      BY <1>2, <3>1, <3>2 DEF CloudRefresh, SidebarRefresh, EmptyCloud, EmptySidebar, updateAccountGlyph
    <3> QED
      BY <1>2, <1>4, <3>1, <3>2, <3>3, <3>4, <3>5, <3>6 DEF IsDevicesPage, Jobs
  <2> QED
    BY <2>1, <2>2
<1>5. CASE LogoutDone(j, ok) /\ UNCHANGED <<qMessages, qDown>>
  <2>1. qDialog' \in Dialogs
    BY <1>5 DEF LogoutDone, Dialogs
  <2> QED
    BY <1>2, <1>5, <2>1 DEF LogoutDone, clearDashSession, updateAccountGlyph
<1>6. CASE DevicesLoaded(j, ok) /\ UNCHANGED qMessages
  <2> DEFINE d == qDevices.pending
             filled == [qDevices EXCEPT !.list = IF ok THEN j.who ELSE Guest,
                                        !.pending = IF ok THEN NoPeer ELSE d]
  <2>1. CASE ok /\ d \in Peers
    <3>1. /\ qDevices' = [Selected(d) EXCEPT !.list = j.who, !.pending = NoPeer]
          /\ qJobs' = (qJobs \ {j}) \cup {Job("thread", 0, d)}
      BY <1>6, <2>1 DEF DevicesLoaded
    <3>2. IsDevicesPage(Selected(d))
      BY <2>1, SelectedPage
    <3>3. IsDevicesPage(qDevices')
      BY <1>2, <3>1, <3>2 DEF IsDevicesPage, DevicesPage, Target
    <3>4. d \in Target /\ "thread" \in Ops
      BY <2>1 DEF Target, Ops
    <3>5. Job("thread", 0, d) \in Jobs
      BY <1>2, <3>4, JobType
    <3> QED
      BY <1>2, <1>6, <3>1, <3>3, <3>5 DEF DevicesLoaded, IsDevicesPage, Jobs
  <2>2. CASE ~(ok /\ d \in Peers)
    <3>1. qDevices' = filled /\ qJobs' = qJobs \ {j}
      BY <1>6, <2>2 DEF DevicesLoaded
    <3>2. IsDevicesPage(qDevices')
      BY <1>2, <1>3, <3>1 DEF IsDevicesPage, DevicesPage, Target
    <3> QED
      BY <1>2, <1>6, <3>1, <3>2 DEF DevicesLoaded, IsDevicesPage
  <2> QED
    BY <2>1, <2>2
<1>7. CASE j.op = "send" /\ SendDone(j, ok)
  <2>1. j.arg \in Peers
    BY <1>2, <1>7 DEF Jobs
  <2>2. ok => j.who \in DashUsers
    BY <1>2, <1>7 DEF Outcomes, request, Anyone
  <2>3. \A m \in qMessages' : m.to \in Peers /\ m.who \in DashUsers
    BY <1>7, <2>1, <2>2 DEF SendDone, sendTarget
  <2>4. Job("thread", 0, qDevices.selected) \in Jobs
    BY <1>2, JobType DEF DevicesPage, Ops
  <2>5. qJobs' \subseteq Jobs
    BY <1>7, <2>4 DEF SendDone
  <2> QED
    BY <1>2, <1>7, <2>3, <2>5 DEF SendDone, Jobs
<1>8. CASE PageLoaded(j, ok) /\ UNCHANGED <<qMessages, qDown>>
  <2>1. IsDevicesPage(qDevices')
    BY <1>2, <1>3, <1>8 DEF PageLoaded, ThreadLoaded, IsDevicesPage, DevicesPage, NoThread, Target
  <2>2. qCloud' \in Anyone /\ qSidebar' \in Anyone
    BY <1>2, <1>8 DEF PageLoaded, CloudLoaded, SidebarLoaded, EmptySidebar
  <2> QED
    BY <1>2, <1>8, <2>1, <2>2 DEF PageLoaded, IsDevicesPage
<1>9. CASE /\ qJobs' = qJobs \ {j}
           /\ UNCHANGED <<qSession, qToken, qGlyph, qDialog, qCloud, qSidebar, qDevices, qMessages>>
  BY <1>2, <1>9
<1> QED
  BY <1>1, <1>4, <1>5, <1>6, <1>7, <1>8, <1>9

\* Every step keeps the window's types.
LEMMA WindowStep == WindowInv /\ [qNext]_qVars => WindowInv'
<1> SUFFICES ASSUME WindowInv, [qNext]_qVars PROVE WindowInv'
  OBVIOUS
<1> USE DEF WindowInv, qTypeOK
<1>1. /\ qSession \in Anyone /\ Guest \in Anyone /\ 0 \in 0..MaxDialogs /\ IsDevicesPage(qDevices)
      /\ qDialog.no \in 0..MaxDialogs /\ NoPeer \in Target /\ MaxDialogs \in Nat
  BY WindowAssumption DEF Anyone, IsDevicesPage, Dialogs, Target
<1>2. ASSUME NEW i \in Sections, showSection(i) PROVE WindowInv'
  <2>1. LoadsOf(i) \in SUBSET {"cloud", "devices", "sidebar"}
    BY DEF LoadsOf
  <2>2. qJobs' \subseteq Jobs
    BY <1>1, <1>2, <2>1, RefreshType DEF showSection
  <2>3. IsDevicesPage(qDevices')
    BY <1>1, <1>2, RefreshedPage DEF showSection
  <2>4. qCloud' \in Anyone
    BY <1>1, <1>2 DEF showSection, CloudRefresh, EmptyCloud
  <2> QED
    BY <1>2, <2>2, <2>3, <2>4 DEF showSection, setCurrentIndex, IsDevicesPage, Jobs
<1>3. CASE setRange \/ exportCsv
  <2>1. Job("cloud", 0, NoPeer) \in Jobs /\ Job("export", 0, NoPeer) \in Jobs
    BY <1>1, JobType DEF Ops
  <2> QED
    BY <1>3, <2>1 DEF setRange, exportCsv, Jobs
<1>4. CASE onMachineSelected
  <2>1. qJobs' \subseteq Jobs
    BY <1>1, <1>4, RefreshType DEF onMachineSelected
  <2>2. PICK d \in Peers \cup {Self} : qDevices' = selectDeviceById(DevicesRefreshed(qSession), d)
    BY <1>4 DEF onMachineSelected
  <2>3. IsDevicesPage(DevicesRefreshed(qSession))
    BY <1>1, RefreshedPage
  <2>4. IsDevicesPage(qDevices')
    BY <2>2, <2>3 DEF selectDeviceById, IsDevicesPage, DevicesPage, Target
  <2> QED
    BY <1>4, <2>1, <2>4 DEF onMachineSelected, setCurrentIndex, Sections, IsDevicesPage, Jobs
<1>5. CASE selectDevice
  <2>1. PICK d \in Peers : qDevices' = Selected(d) /\ qJobs' = qJobs \cup {Job("thread", 0, d)}
    BY <1>5 DEF selectDevice, Loads
  <2>2. IsDevicesPage(qDevices')
    BY <2>1, SelectedPage
  <2>3. Job("thread", 0, d) \in Jobs
    BY <1>1, JobType DEF Ops, Target
  <2> QED
    BY <1>5, <2>1, <2>2, <2>3 DEF selectDevice, IsDevicesPage, Jobs
<1>6. CASE sendMessage
  <2>1. qDevices.selected \in Peers
    BY <1>1, <1>6 DEF sendMessage, IsDevicesPage, DevicesPage, Target
  <2>2. Job("send", 0, qDevices.selected) \in Jobs
    BY <1>1, <2>1, JobType DEF Ops, Target
  <2> QED
    BY <1>6, <2>2 DEF sendMessage, Loads, Jobs
<1>7. CASE AccountLogout
  <2>1. IsDevicesPage(qDevices')
    BY <1>1, <1>7, RefreshedPage DEF AccountLogout
  <2>2. qCloud' \in Anyone /\ qSidebar' \in Anyone /\ qGlyph' \in Anyone /\ qSession' \in Anyone
    BY <1>1, <1>7 DEF AccountLogout, CloudRefresh, SidebarRefresh, EmptyCloud, EmptySidebar,
                      updateAccountGlyph, clearDashSession
  <2> QED
    BY <1>7, <2>1, <2>2 DEF AccountLogout, IsDevicesPage
<1>8. CASE OpenDialog
  <2>2. qDialog.no + 1 \in 0..MaxDialogs
    BY <1>1, <1>8 DEF OpenDialog
  <2>3. LoginDialog \in Dialogs /\ SettingsDialog \in Dialogs
    BY <2>2 DEF LoginDialog, SettingsDialog, Dialogs
  <2>1. qDialog' \in Dialogs
    BY <1>8, <2>3 DEF OpenDialog
  <2> QED
    BY <1>8, <2>1 DEF OpenDialog
<1>9. CASE CloseDialog
  <2>1. qDialog' \in Dialogs /\ qGlyph' \in Anyone
    BY <1>1, <1>9 DEF CloseDialog, Closed, Dialogs, updateAccountGlyph
  <2> QED
    BY <1>9, <2>1 DEF CloseDialog
<1>10. CASE doLogin
  <2>1. qJobs' \subseteq Jobs
    BY <1>1, <1>10 DEF doLogin, Jobs, Ops, Anyone
  <2> QED
    BY <1>10, <2>1 DEF doLogin, Jobs
<1>11. CASE settingsRequest
  <2>1. Job("password", qDialog.no, NoPeer) \in Jobs /\ Job("logout", qDialog.no, NoPeer) \in Jobs
    BY <1>1, JobType DEF Ops
  <2> QED
    BY <1>11, <2>1 DEF settingsRequest, Jobs
<1>12. CASE TokenExpires \/ UNCHANGED qVars
  BY <1>12 DEF TokenExpires, qVars
<1> QED
  BY <1>2, <1>3, <1>4, <1>5, <1>6, <1>7, <1>8, <1>9, <1>10, <1>11, <1>12, FinishKeeps DEF qNext

\* The parts' types.  For the window that a message goes to a device and comes
\* from an account, although the buttons are set far from where it is sent
\* (selectDevice, sendMessage, loadDevices' callback); for the local page that
\* its lists are cut at their limits.
THEOREM DashboardTypes ==
    MonitorSpec /\ PagesSpec /\ HistorySpec /\ DashSettingsSpec /\ WindowSpec => []PartsTypeOK
<1>1. pgInit => PagesInv /\ pgTypeOK
  <2>1. pgInit => PagesInv
    BY DEF pgInit, PagesInv, CpuPage, DiskPage, DriveTableIsWhole
  <2>2. pgInit => pgTypeOK
    BY DEF pgInit, pgTypeOK, CpuPage, NetworkPage
  <2> QED
    BY <2>1, <2>2
<1>2. lhInit => HistoryInv /\ lhTypeOK
  <2>1. lhInit => HistoryInv
    BY HistoryAssumption, FS_EmptySet DEF lhInit, HistoryInv
  <2>2. ASSUME lhInit PROVE lhTypeOK
    <3>1. hour \in FirstHour..LastHour /\ 0 <= UsageLimit /\ 0 <= RecentLimit
      BY <2>2, HistoryAssumption DEF lhInit
    <3>2. period \in Periods /\ dbOpen = "closed" /\ dbFile \in BOOLEAN /\ notice \in BOOLEAN /\ histRows = {}
      BY <2>2 DEF lhInit, OverviewPage, LocalPage, Periods
    <3>3. strip.days = <<>> /\ usage = <<>> /\ recent = <<>>
      BY <2>2 DEF lhInit, OverviewPage, LocalPage, NoStrip
    <3>4. Len(<<>>) = 0
      OBVIOUS
    <3>5. \A d \in 1..Len(strip.days) : strip.days[d] \in Nat
      BY <3>3, <3>4
    <3>6. Len(usage) <= UsageLimit /\ Len(recent) <= RecentLimit
      BY <3>1, <3>3, <3>4
    <3> QED
      BY <3>1, <3>2, <3>5, <3>6 DEF lhTypeOK
  <2> QED
    BY <2>1, <2>2
<1>3. ASSUME dsInit PROVE dsTypeOK
  <2>1. dsDisk \in [file : Files, look : Looks, key : KeyForms]
    BY <1>3, DashSettingsAssumption DEF dsInit, Files, KeyForms
  <2>2. loadDashSettings.look \in Looks
    BY <2>1, DashSettingsAssumption DEF loadDashSettings
  <2>3. dsPanel \in Looks /\ dsMsg = ""
    BY <1>3, <2>2 DEF dsInit, reloadPanel
  <2>4. dsForm \in [open : BOOLEAN, look : Looks]
    BY <1>3, DashSettingsAssumption DEF dsInit
  <2> QED
    BY <2>1, <2>3, <2>4 DEF dsTypeOK
<1>4. qInit => WindowInv
  <2> SUFFICES ASSUME qInit PROVE WindowInv
    OBVIOUS
  <2>1. qDevices = EmptyDevices /\ EmptyDevices \in DevicesPage /\ EmptyDevices.canSend = (EmptyDevices.selected # NoPeer)
    BY DEF qInit, EmptyDevices, DevicesPage, NoThread, Anyone, Target
  <2>2. qJobs \subseteq Jobs
    BY WindowAssumption DEF qInit, Job, Jobs, loadDashSession, Ops, Anyone, Target
  <2>3. qDialog \in Dialogs
    BY WindowAssumption DEF qInit, Dialogs
  <2> QED
    BY <2>1, <2>2, <2>3 DEF qInit, WindowInv, qTypeOK, Jobs, Anyone, Sections, EmptyCloud, EmptySidebar
<1>5. smTypeOK /\ pgTypeOK /\ lhTypeOK /\ dsTypeOK /\ WindowInv => PartsTypeOK
  BY DEF PartsTypeOK, WindowInv
<1> QED
  BY <1>1, <1>2, <1>3, <1>4, <1>5, WidgetsShowPercentages, PagesStep, PagesTypes, HistoryStep,
     HistoryTypes, DashSettingsTypes, WindowStep, PTL
     DEF PagesSpec, HistorySpec, DashSettingsSpec, WindowSpec
=============================================================================
