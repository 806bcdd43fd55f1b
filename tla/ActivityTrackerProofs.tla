------------------------ MODULE ActivityTrackerProofs ------------------------
(***************************************************************************)
(* Proofs about ActivityTracker: IndInv is an invariant for any windows,   *)
(* settings and bounds, and with it the safety properties it contains.     *)
(***************************************************************************)
EXTENDS ActivityTracker, TLAPS

(***************************************************************************)
(* Types of the records.                                                   *)
(***************************************************************************)

(* The zeroed record and the empty snapshot have the types of their kind.  *)
LEMMA EmptyTypes == NoRecord \in Record /\ NoSnapshot \in Finished
<1>1. NoRecord \in Record
    BY TrackerAssumption DEF NoRecord, Record
<1>2. NoSnapshot \in Finished
    BY <1>1, TrackerAssumption DEF NoSnapshot, Finished
<1> QED
    BY <1>1, <1>2

(* finishCurrentRecord's snapshot of a record is a finished record.        *)
LEMMA FinishedType ==
    ASSUME TypeOK
    PROVE  finished(current_record) \in Finished
<1>1. now \in 0 .. MaxTime /\ wakes \in 0 .. MaxWakes /\ pauses \in 0 .. MaxPauses
    BY TrackerAssumption DEF TypeOK
<1>2. current_record \in Record /\ current_record.start \in 0 .. MaxTime
    BY DEF TypeOK, Record
<1>3. (IF now > current_record.start THEN now - current_record.start ELSE 0) \in 0 .. MaxTime
    BY <1>1, <1>2, TrackerAssumption
<1> QED
    BY <1>1, <1>2, <1>3 DEF finished, Finished

(* startNewRecordLocked makes a record, as long as the bound allows one.   *)
LEMMA StartType ==
    ASSUME TypeOK, opened < MaxSessions, NEW w \in Windows
    PROVE  startNewRecordLocked(w) \in Record
BY TrackerAssumption DEF TypeOK, startNewRecordLocked, Record

(* Adding a row leaves the rows before it alone.                           *)
LEMMA AppendRow ==
    ASSUME rows \in Seq(Finished), NEW f \in Finished
    PROVE  LET new == Append(rows, f)
           IN  /\ new \in Seq(Finished)
               /\ \A i \in DOMAIN new : (i \in DOMAIN rows /\ new[i] = rows[i]) \/ new[i] = f
               /\ \A i \in DOMAIN rows : i \in DOMAIN new /\ new[i] = rows[i]
               /\ \E i \in DOMAIN new : new[i] = f
<1> DEFINE new == Append(rows, f)
<1>1. new \in Seq(Finished) /\ Len(new) = Len(rows) + 1 /\ Len(rows) \in Nat
    OBVIOUS
<1>2. DOMAIN new = 1 .. Len(rows) + 1 /\ DOMAIN rows = 1 .. Len(rows)
    BY <1>1
<1>3. \A i \in 1 .. Len(rows) : new[i] = rows[i]
    OBVIOUS
<1>4. new[Len(rows) + 1] = f
    OBVIOUS
<1> QED
    BY <1>1, <1>2, <1>3, <1>4

(* The initial state satisfies IndInv.                                     *)
LEMMA InitInd == Init => IndInv
<1> SUFFICES ASSUME Init PROVE IndInv
    OBVIOUS
<1> USE TrackerAssumption DEF Init
<1>1. TypeOK
  <2>1. rows \in Seq(Finished) /\ snapshot \in [Threads -> Finished]
    BY EmptyTypes
  <2>2. /\ pc \in [Threads -> WatchPlaces \cup GuiPlaces]
        /\ pc["watch"] \in WatchPlaces
        /\ pc["gui"] \in GuiPlaces
        /\ ret \in [Threads -> {"reopen", "clear"}]
    BY DEF Threads, WatchPlaces, GuiPlaces
  <2>3. now \in 1 .. MaxTime /\ opened \in 0 .. MaxSessions
    OBVIOUS
  <2>4. wakes \in 0 .. MaxWakes
    OBVIOUS
  <2>5. pauses \in 0 .. MaxPauses
    OBVIOUS
  <2>6. backs \in 0 .. MaxBacks
    OBVIOUS
  <2> QED
    BY <2>1, <2>2, <2>3, <2>4, <2>5, <2>6, EmptyTypes DEF TypeOK
<1>2. LatchExclusive /\ SnapshotInv
    BY DEF LatchExclusive, SnapshotInv, Saving, Threads
<1>3. WindowMatchesRecord /\ QuietWhenSuspended /\ RecordInv
    BY DEF WindowMatchesRecord, QuietWhenSuspended, RecordInv, NoRecord
<1>4. NoRowSpansSuspension /\ NoRecordLost
    BY DEF NoRowSpansSuspension, NoRecordLost
<1>5. Control /\ HandedOver
    BY DEF Control, HandedOver, Opening, ClosingPlaces, Threads
<1> QED
    BY <1>1, <1>2, <1>3, <1>4, <1>5 DEF IndInv

(***************************************************************************)
(* finishCurrentRecord and closeCurrentSession, by either thread.          *)
(***************************************************************************)

(* A call that returns at the latch leaves the record to the thread whose  *)
(* snapshot it is.                                                         *)
LEMMA FinishSkipInd ==
    ASSUME IndInv, NEW t \in Threads, FinishSkip(t)
    PROVE  IndInv'
<1> USE TrackerAssumption DEF IndInv, FinishSkip, Goto, tracked, switches, outside, stored
<1>1. TypeOK'
    BY DEF TypeOK, Control, Threads, WatchPlaces, GuiPlaces
<1>2. LatchExclusive' /\ WindowMatchesRecord' /\ RecordInv'
    BY DEF TypeOK, LatchExclusive, WindowMatchesRecord, RecordInv, Saving, Threads
<1>3. NoRowSpansSuspension' /\ NoRecordLost'
    BY DEF TypeOK, NoRowSpansSuspension, NoRecordLost, Accounted, Settled, Saving, Threads
<1>4. QuietWhenSuspended' /\ Control'
    BY DEF TypeOK, QuietWhenSuspended, Control, Opening, ClosingPlaces, Threads
<1>5. SnapshotInv'
    BY DEF TypeOK, SnapshotInv, Settled, Saving, Threads
<1>6. HandedOver'
    BY DEF TypeOK, HandedOver, LatchExclusive, SnapshotInv, RecordInv, Accounted, Settled,
           Saving, Threads
<1> QED
    BY <1>1, <1>2, <1>3, <1>4, <1>5, <1>6 DEF IndInv

(* The latch goes up, and the snapshot is the open record.                 *)
LEMMA FinishBeginInd ==
    ASSUME IndInv, NEW t \in Threads, FinishBegin(t)
    PROVE  IndInv'
<1> USE TrackerAssumption DEF IndInv, FinishBegin, Goto, tracked, switches, outside, stored
<1>1. TypeOK'
    BY FinishedType DEF TypeOK, Threads, WatchPlaces, GuiPlaces
<1>2. LatchExclusive' /\ WindowMatchesRecord' /\ RecordInv'
    BY DEF TypeOK, LatchExclusive, WindowMatchesRecord, RecordInv, Saving, Threads
<1>3. NoRowSpansSuspension' /\ NoRecordLost'
    BY DEF TypeOK, NoRowSpansSuspension, NoRecordLost, Accounted, Settled, Saving, Threads
<1>4. QuietWhenSuspended' /\ Control'
    BY DEF TypeOK, QuietWhenSuspended, Control, Opening, ClosingPlaces, Threads
<1>5. SnapshotInv'
    BY DEF TypeOK, SnapshotInv, LatchExclusive, RecordInv, Settled, Saving, finished
<1>6. HandedOver'
    BY DEF TypeOK, HandedOver, Accounted, Settled, Saving, Threads
<1> QED
    BY <1>1, <1>2, <1>3, <1>4, <1>5, <1>6 DEF IndInv

(* The insert, or the decision against it, settles the snapshot; a row     *)
(* that is added spans no suspension because the record it comes from did  *)
(* not.                                                                    *)
LEMMA FinishSaveInd ==
    ASSUME IndInv, NEW t \in Threads, FinishSave(t)
    PROVE  IndInv'
<1> USE TrackerAssumption DEF IndInv, FinishSave, Goto, tracked, switches, outside
<1> DEFINE snap == snapshot[t]
<1>1. t \in Saving /\ snap \in Finished
    BY DEF TypeOK, Saving
<1>2. snap.rec.sid \in 1 .. opened /\ snap.wakes = snap.rec.wakes
    BY <1>1 DEF SnapshotInv
<1>3. rows' = rows \/ rows' = Append(rows, snap)
    OBVIOUS
<1>4. /\ rows' \in Seq(Finished)
      /\ \A i \in DOMAIN rows' : (i \in DOMAIN rows /\ rows'[i] = rows[i]) \/ rows'[i] = snap
      /\ \A i \in DOMAIN rows : i \in DOMAIN rows' /\ rows'[i] = rows[i]
  <2>1. CASE rows' = rows
    BY <2>1 DEF TypeOK
  <2>2. CASE rows' = Append(rows, snap)
    BY <2>2, <1>1, AppendRow DEF TypeOK
  <2> QED
    BY <1>3, <2>1, <2>2
<1>5. \A s : Settled(s) => Settled(s)'
    BY <1>4 DEF Settled
<1>6. Settled(snap.rec.sid)'
  <2>1. CASE rows' = Append(rows, snap)
    BY <2>1, <1>1, AppendRow DEF Settled, TypeOK
  <2>2. CASE dropped' = dropped \cup {snap.rec.sid}
    BY <2>2 DEF Settled
  <2> QED
    BY <2>1, <2>2
<1>7. TypeOK'
  <2>1. snap.rec.sid \in 1 .. MaxSessions
    BY <1>2 DEF TypeOK
  <2>2. dropped' = dropped \/ dropped' = dropped \cup {snap.rec.sid}
    OBVIOUS
  <2>3. dropped' \subseteq 1 .. MaxSessions
    BY <2>1, <2>2 DEF TypeOK
  <2> QED
    BY <1>4, <2>3 DEF TypeOK, Threads, WatchPlaces, GuiPlaces
<1>8. LatchExclusive' /\ WindowMatchesRecord' /\ RecordInv'
    BY DEF TypeOK, LatchExclusive, WindowMatchesRecord, RecordInv, Saving, Threads
<1>9. NoRowSpansSuspension'
    BY <1>2, <1>4 DEF NoRowSpansSuspension
<1>10. Saving' = Saving
    BY DEF TypeOK, Saving
<1>11. \A s : Accounted(s) => Accounted(s)'
    BY <1>5, <1>10 DEF Accounted
<1>12. NoRecordLost'
    BY <1>11 DEF NoRecordLost
<1>13. QuietWhenSuspended' /\ Control'
    BY DEF TypeOK, QuietWhenSuspended, Control, Opening, ClosingPlaces, Threads
<1>14. SnapshotInv'
    BY <1>5, <1>6, <1>10 DEF TypeOK, SnapshotInv, Saving
<1>15. HandedOver'
    BY <1>11 DEF TypeOK, HandedOver, Threads
<1> QED
    BY <1>7, <1>8, <1>9, <1>12, <1>13, <1>14, <1>15 DEF IndInv

(* The latch goes down; the snapshot it drops is settled by then.          *)
LEMMA FinishReleaseInd ==
    ASSUME IndInv, NEW t \in Threads, FinishRelease(t)
    PROVE  IndInv'
<1> USE TrackerAssumption DEF IndInv, FinishRelease, Goto, tracked, switches, outside, stored
<1>1. TypeOK'
    BY EmptyTypes DEF TypeOK, Control, Threads, WatchPlaces, GuiPlaces
<1>2. LatchExclusive' /\ WindowMatchesRecord' /\ RecordInv'
    BY DEF TypeOK, LatchExclusive, WindowMatchesRecord, RecordInv, Saving, Threads
<1>3. NoRowSpansSuspension' /\ NoRecordLost'
    BY DEF TypeOK, NoRowSpansSuspension, NoRecordLost, SnapshotInv, Accounted, Settled, Saving,
           Threads
<1>4. QuietWhenSuspended' /\ Control'
    BY DEF TypeOK, QuietWhenSuspended, Control, Opening, ClosingPlaces, Threads
<1>5. SnapshotInv'
    BY DEF TypeOK, SnapshotInv, LatchExclusive, Settled, Saving, Threads
<1>6. HandedOver'
    BY DEF TypeOK, HandedOver, LatchExclusive, SnapshotInv, Accounted, Settled, Saving, Threads
<1> QED
    BY <1>1, <1>2, <1>3, <1>4, <1>5, <1>6 DEF IndInv

(* With no window there is no record, so a suspension that finds nothing   *)
(* to close is quiet.                                                      *)
LEMMA CloseNothingInd ==
    ASSUME IndInv, NEW t \in Threads, CloseNothing(t)
    PROVE  IndInv'
<1> USE TrackerAssumption
    DEF IndInv, CloseNothing, AfterClose, Goto, tracked, switches, outside, stored
<1>1. TypeOK'
    BY DEF TypeOK, Threads, WatchPlaces, GuiPlaces
<1>2. LatchExclusive' /\ WindowMatchesRecord' /\ RecordInv'
    BY DEF TypeOK, LatchExclusive, WindowMatchesRecord, RecordInv, Saving, Threads
<1>3. NoRowSpansSuspension' /\ NoRecordLost'
    BY DEF TypeOK, NoRowSpansSuspension, NoRecordLost, Accounted, Settled, Saving, Threads
<1>4. QuietWhenSuspended' /\ Control'
    BY DEF TypeOK, QuietWhenSuspended, WindowMatchesRecord, RecordInv, Control, Opening,
           ClosingPlaces, Threads
<1>5. SnapshotInv' /\ HandedOver'
    BY DEF TypeOK, SnapshotInv, HandedOver, Accounted, Settled, Saving, Threads
<1> QED
    BY <1>1, <1>2, <1>3, <1>4, <1>5 DEF IndInv

(* The call of finishCurrentRecord from closeCurrentSession.               *)
LEMMA CloseOpenInd ==
    ASSUME IndInv, NEW t \in Threads, CloseOpen(t)
    PROVE  IndInv'
<1> USE TrackerAssumption DEF IndInv, CloseOpen, Goto, tracked, switches, outside, stored
<1>1. TypeOK'
    BY DEF TypeOK, Threads, WatchPlaces, GuiPlaces
<1>2. LatchExclusive' /\ WindowMatchesRecord' /\ RecordInv'
    BY DEF TypeOK, LatchExclusive, WindowMatchesRecord, RecordInv, Saving, Threads
<1>3. NoRowSpansSuspension' /\ NoRecordLost'
    BY DEF TypeOK, NoRowSpansSuspension, NoRecordLost, Accounted, Settled, Saving, Threads
<1>4. QuietWhenSuspended' /\ Control'
    BY DEF TypeOK, QuietWhenSuspended, Control, Opening, ClosingPlaces, Threads
<1>5. SnapshotInv' /\ HandedOver'
    BY DEF TypeOK, SnapshotInv, HandedOver, Accounted, Settled, Saving, Threads
<1> QED
    BY <1>1, <1>2, <1>3, <1>4, <1>5 DEF IndInv

(* The record that is zeroed was handed over before.                       *)
LEMMA CloseClearInd ==
    ASSUME IndInv, NEW t \in Threads, CloseClear(t)
    PROVE  IndInv'
<1> USE TrackerAssumption
    DEF IndInv, CloseClear, AfterClose, Goto, tracked, switches, outside, stored
<1>1. TypeOK'
    BY EmptyTypes DEF TypeOK, Threads, WatchPlaces, GuiPlaces
<1>2. LatchExclusive' /\ WindowMatchesRecord' /\ RecordInv'
    BY DEF TypeOK, LatchExclusive, WindowMatchesRecord, RecordInv, NoRecord, Saving, Threads
<1>3. NoRowSpansSuspension'
    BY DEF NoRowSpansSuspension
<1>4. NoRecordLost'
    BY DEF TypeOK, NoRecordLost, HandedOver, NoRecord, Accounted, Settled, Saving, Threads
<1>5. QuietWhenSuspended' /\ Control'
    BY DEF TypeOK, QuietWhenSuspended, Control, Opening, ClosingPlaces, Threads
<1>6. SnapshotInv' /\ HandedOver'
    BY DEF TypeOK, SnapshotInv, HandedOver, Accounted, Settled, Saving, Threads
<1> QED
    BY <1>1, <1>2, <1>3, <1>4, <1>5, <1>6 DEF IndInv

(***************************************************************************)
(* The watch thread.                                                       *)
(***************************************************************************)

(* The top of watchLoop.                                                   *)
LEMMA WatchLoopInd ==
    ASSUME IndInv, WatchLoop
    PROVE  IndInv'
<1> USE TrackerAssumption DEF IndInv, WatchLoop, Goto, tracked, switches, outside, stored
<1>1. TypeOK'
    BY DEF TypeOK, Threads, WatchPlaces, GuiPlaces
<1>2. LatchExclusive' /\ WindowMatchesRecord' /\ RecordInv'
    BY DEF TypeOK, LatchExclusive, WindowMatchesRecord, RecordInv, Saving, Threads
<1>3. NoRowSpansSuspension' /\ NoRecordLost'
    BY DEF TypeOK, NoRowSpansSuspension, NoRecordLost, Accounted, Settled, Saving, Threads
<1>4. QuietWhenSuspended' /\ Control'
    BY DEF TypeOK, QuietWhenSuspended, Control, Opening, ClosingPlaces, Threads
<1>5. SnapshotInv' /\ HandedOver'
    BY DEF TypeOK, SnapshotInv, HandedOver, Accounted, Settled, Saving, Threads
<1> QED
    BY <1>1, <1>2, <1>3, <1>4, <1>5 DEF IndInv

(* The lookup of the foreground window: a record may still be opened after *)
(* it.                                                                     *)
LEMMA MonitorLookupInd ==
    ASSUME IndInv, MonitorLookup
    PROVE  IndInv'
<1> USE TrackerAssumption DEF IndInv, MonitorLookup, getActiveWindowInfo, Goto, tracked, switches, outside, stored
<1>1. TypeOK'
    BY DEF TypeOK, Threads, WatchPlaces, GuiPlaces
<1>2. LatchExclusive' /\ WindowMatchesRecord' /\ RecordInv'
    BY DEF TypeOK, LatchExclusive, WindowMatchesRecord, RecordInv, Saving, Threads
<1>3. NoRowSpansSuspension' /\ NoRecordLost'
    BY DEF TypeOK, NoRowSpansSuspension, NoRecordLost, Accounted, Settled, Saving, Threads
<1>4. QuietWhenSuspended' /\ Control'
    BY DEF TypeOK, QuietWhenSuspended, Control, Opening, ClosingPlaces, Threads
<1>5. SnapshotInv' /\ HandedOver'
    BY DEF TypeOK, SnapshotInv, HandedOver, Accounted, Settled, Saving, Threads
<1> QED
    BY <1>1, <1>2, <1>3, <1>4, <1>5 DEF IndInv

(* Nothing to do for monitor_activity.                                     *)
LEMMA MonitorSameInd ==
    ASSUME IndInv, MonitorSame
    PROVE  IndInv'
<1> USE TrackerAssumption
    DEF IndInv, MonitorSame, changed, Goto, tracked, switches, outside, stored
<1>1. TypeOK'
    BY DEF TypeOK, Threads, WatchPlaces, GuiPlaces
<1>2. LatchExclusive' /\ WindowMatchesRecord' /\ RecordInv'
    BY DEF TypeOK, LatchExclusive, WindowMatchesRecord, RecordInv, Saving, Threads
<1>3. NoRowSpansSuspension' /\ NoRecordLost'
    BY DEF TypeOK, NoRowSpansSuspension, NoRecordLost, Accounted, Settled, Saving, Threads
<1>4. QuietWhenSuspended' /\ Control'
    BY DEF TypeOK, QuietWhenSuspended, Control, Opening, ClosingPlaces, Threads
<1>5. SnapshotInv' /\ HandedOver'
    BY DEF TypeOK, SnapshotInv, HandedOver, Accounted, Settled, Saving, Threads
<1> QED
    BY <1>1, <1>2, <1>3, <1>4, <1>5 DEF IndInv

(* The old record is to be finished before the new one is opened.          *)
LEMMA MonitorChangedInd ==
    ASSUME IndInv, MonitorChanged
    PROVE  IndInv'
<1> USE TrackerAssumption
    DEF IndInv, MonitorChanged, changed, Goto, tracked, switches, outside, stored
<1>1. TypeOK'
    BY DEF TypeOK, Threads, WatchPlaces, GuiPlaces
<1>2. LatchExclusive' /\ WindowMatchesRecord' /\ RecordInv'
    BY DEF TypeOK, LatchExclusive, WindowMatchesRecord, RecordInv, Saving, Threads
<1>3. NoRowSpansSuspension' /\ NoRecordLost'
    BY DEF TypeOK, NoRowSpansSuspension, NoRecordLost, Accounted, Settled, Saving, Threads
<1>4. QuietWhenSuspended' /\ Control'
    BY DEF TypeOK, QuietWhenSuspended, Control, Opening, ClosingPlaces, Threads
<1>5. SnapshotInv' /\ HandedOver'
    BY DEF TypeOK, SnapshotInv, HandedOver, Accounted, Settled, Saving, Threads
<1> QED
    BY <1>1, <1>2, <1>3, <1>4, <1>5 DEF IndInv

(* The first record after a reset replaces none, and no suspension has     *)
(* begun.                                                                  *)
LEMMA MonitorFirstInd ==
    ASSUME IndInv, MonitorFirst
    PROVE  IndInv'
<1> USE TrackerAssumption DEF IndInv, MonitorFirst, Goto, tracked, switches, outside, stored
<1>1. TypeOK'
    BY StartType DEF TypeOK, Control, Opening, Threads, WatchPlaces, GuiPlaces
<1>2. LatchExclusive' /\ WindowMatchesRecord' /\ RecordInv'
    BY DEF TypeOK, LatchExclusive, WindowMatchesRecord, RecordInv, Control, Opening, Saving,
           Threads, startNewRecordLocked
<1>3. NoRowSpansSuspension'
    BY DEF NoRowSpansSuspension
<1>4. \A s : Accounted(s) => Accounted(s)'
    BY DEF TypeOK, Accounted, Settled, Saving, Threads
<1>5. NoRecordLost'
  <2>1. current_record.sid = 0
    BY DEF TypeOK, WindowMatchesRecord, RecordInv, NoRecord
  <2>2. opened' = opened + 1 /\ current_record'.sid = opened + 1
    BY DEF startNewRecordLocked
  <2>3. opened \in Nat
    BY DEF TypeOK
  <2> QED
    BY <1>4, <2>1, <2>2, <2>3 DEF NoRecordLost
<1>6. QuietWhenSuspended' /\ Control'
    BY DEF TypeOK, QuietWhenSuspended, Control, Opening, ClosingPlaces, Threads
<1>7. SnapshotInv'
    BY DEF TypeOK, SnapshotInv, LatchExclusive, Settled, Saving, Control, ClosingPlaces, Threads
<1>8. HandedOver'
  <2>1. CASE suspended
    BY <2>1 DEF TypeOK, HandedOver, Accounted, Settled, Saving, Threads
  <2>2. CASE ~suspended
    <3>1. pc["gui"] # "clear" /\ pc["gui"] # "reopen"
      BY <2>2 DEF TypeOK, Control, ClosingPlaces, GuiPlaces
    <3>2. pc'["watch"] = "limits" /\ pc'["gui"] = pc["gui"]
      BY DEF TypeOK, Threads
    <3> QED
      BY <3>1, <3>2 DEF HandedOver, Threads
  <2> QED
    BY <2>1, <2>2
<1> QED
    BY <1>1, <1>2, <1>3, <1>4, <1>5, <1>6, <1>7, <1>8 DEF IndInv

(* The record that is replaced was handed over, and a suspension that      *)
(* began meanwhile keeps the new one from being opened.                    *)
LEMMA MonitorReopenInd ==
    ASSUME IndInv, MonitorReopen
    PROVE  IndInv'
<1> USE TrackerAssumption DEF IndInv, MonitorReopen, Goto, tracked, switches, outside, stored
<1>1. TypeOK'
    BY StartType DEF TypeOK, Control, Opening, Threads, WatchPlaces, GuiPlaces
<1>2. LatchExclusive' /\ WindowMatchesRecord' /\ RecordInv'
    BY DEF TypeOK, LatchExclusive, WindowMatchesRecord, RecordInv, Control, Opening, Saving,
           Threads, startNewRecordLocked
<1>3. NoRowSpansSuspension'
    BY DEF NoRowSpansSuspension
<1>4. \A s : Accounted(s) => Accounted(s)'
    BY DEF TypeOK, Accounted, Settled, Saving, Threads
<1>5. NoRecordLost'
    BY <1>4 DEF TypeOK, NoRecordLost, HandedOver, WindowMatchesRecord, RecordInv, NoRecord, Threads,
                startNewRecordLocked
<1>6. QuietWhenSuspended' /\ Control'
    BY DEF TypeOK, QuietWhenSuspended, Control, Opening, ClosingPlaces, Threads
<1>7. SnapshotInv'
    BY DEF TypeOK, SnapshotInv, LatchExclusive, Settled, Saving, Control, ClosingPlaces, Threads
<1>8. HandedOver'
  <2>1. CASE suspended
    BY <2>1 DEF TypeOK, HandedOver, Accounted, Settled, Saving, Threads
  <2>2. CASE ~suspended
    <3>1. pc["gui"] # "clear" /\ pc["gui"] # "reopen"
      BY <2>2 DEF TypeOK, Control, ClosingPlaces, GuiPlaces
    <3>2. pc'["watch"] = "limits" /\ pc'["gui"] = pc["gui"]
      BY DEF TypeOK, Threads
    <3> QED
      BY <3>1, <3>2 DEF HandedOver, Threads
  <2> QED
    BY <2>1, <2>2
<1> QED
    BY <1>1, <1>2, <1>3, <1>4, <1>5, <1>6, <1>7, <1>8 DEF IndInv

(* No limit is hit.                                                        *)
LEMMA LimitsPassInd ==
    ASSUME IndInv, LimitsPass
    PROVE  IndInv'
<1> USE TrackerAssumption DEF IndInv, LimitsPass, Goto, tracked, switches, outside, stored
<1>1. TypeOK'
    BY DEF TypeOK, Threads, WatchPlaces, GuiPlaces
<1>2. LatchExclusive' /\ WindowMatchesRecord' /\ RecordInv'
    BY DEF TypeOK, LatchExclusive, WindowMatchesRecord, RecordInv, Saving, Threads
<1>3. NoRowSpansSuspension' /\ NoRecordLost'
    BY DEF TypeOK, NoRowSpansSuspension, NoRecordLost, Accounted, Settled, Saving, Threads
<1>4. QuietWhenSuspended' /\ Control'
    BY DEF TypeOK, QuietWhenSuspended, Control, Opening, ClosingPlaces, Threads
<1>5. SnapshotInv' /\ HandedOver'
    BY DEF TypeOK, SnapshotInv, HandedOver, Accounted, Settled, Saving, Threads
<1> QED
    BY <1>1, <1>2, <1>3, <1>4, <1>5 DEF IndInv

(* A limit is hit: the session is to be closed.                            *)
LEMMA LimitsHitInd ==
    ASSUME IndInv, LimitsHit
    PROVE  IndInv'
<1> USE TrackerAssumption DEF IndInv, LimitsHit, Goto, tracked, switches, outside, stored
<1>1. TypeOK'
    BY DEF TypeOK, Record, Threads, WatchPlaces, GuiPlaces
<1>2. LatchExclusive' /\ WindowMatchesRecord' /\ RecordInv'
    BY DEF TypeOK, LatchExclusive, WindowMatchesRecord, RecordInv, Saving, Threads
<1>3. NoRowSpansSuspension' /\ NoRecordLost'
    BY DEF TypeOK, NoRowSpansSuspension, NoRecordLost, Accounted, Settled, Saving, Threads
<1>4. QuietWhenSuspended' /\ Control'
    BY DEF TypeOK, QuietWhenSuspended, Control, Opening, ClosingPlaces, Threads
<1>5. SnapshotInv' /\ HandedOver'
    BY DEF TypeOK, SnapshotInv, HandedOver, Accounted, Settled, Saving, Threads
<1> QED
    BY <1>1, <1>2, <1>3, <1>4, <1>5 DEF IndInv

(* The process is killed.                                                  *)
LEMMA LimitsKillInd ==
    ASSUME IndInv, LimitsKill
    PROVE  IndInv'
<1> USE TrackerAssumption DEF IndInv, LimitsKill, Goto, tracked, switches, outside, stored
<1>1. TypeOK'
    BY DEF TypeOK, Threads, WatchPlaces, GuiPlaces
<1>2. LatchExclusive' /\ WindowMatchesRecord' /\ RecordInv'
    BY DEF TypeOK, LatchExclusive, WindowMatchesRecord, RecordInv, Saving, Threads
<1>3. NoRowSpansSuspension' /\ NoRecordLost'
    BY DEF TypeOK, NoRowSpansSuspension, NoRecordLost, Accounted, Settled, Saving, Threads
<1>4. QuietWhenSuspended' /\ Control'
    BY DEF TypeOK, QuietWhenSuspended, Control, Opening, ClosingPlaces, Threads
<1>5. SnapshotInv' /\ HandedOver'
    BY DEF TypeOK, SnapshotInv, HandedOver, Accounted, Settled, Saving, Threads
<1> QED
    BY <1>1, <1>2, <1>3, <1>4, <1>5 DEF IndInv

(***************************************************************************)
(* The gui thread and the surroundings.                                    *)
(***************************************************************************)

(* The flag goes up before the record is closed.                           *)
LEMMA SuspendInd ==
    ASSUME IndInv, Suspend
    PROVE  IndInv'
<1> USE TrackerAssumption DEF IndInv, Suspend, Goto, tracked, switches, outside, stored
<1>1. TypeOK'
    BY DEF TypeOK, Threads, WatchPlaces, GuiPlaces
<1>2. LatchExclusive' /\ WindowMatchesRecord' /\ RecordInv'
    BY DEF TypeOK, LatchExclusive, WindowMatchesRecord, RecordInv, Saving, Threads
<1>3. NoRowSpansSuspension' /\ NoRecordLost'
    BY DEF TypeOK, NoRowSpansSuspension, NoRecordLost, Accounted, Settled, Saving, Threads
<1>4. QuietWhenSuspended' /\ Control'
    BY DEF TypeOK, QuietWhenSuspended, Control, Opening, ClosingPlaces, Threads
<1>5. SnapshotInv' /\ HandedOver'
    BY DEF TypeOK, SnapshotInv, HandedOver, Accounted, Settled, Saving, Threads
<1> QED
    BY <1>1, <1>2, <1>3, <1>4, <1>5 DEF IndInv

(* A wake-up after a suspension finds no record open, so none comes to     *)
(* span it.                                                                *)
LEMMA ResumeInd ==
    ASSUME IndInv, Resume
    PROVE  IndInv'
<1> USE TrackerAssumption DEF IndInv, Resume, Goto, tracked, switches, outside, stored
<1>1. wakes' \in 0 .. MaxWakes
    BY DEF TypeOK
<1>2. TypeOK'
    BY <1>1 DEF TypeOK
<1>3. LatchExclusive' /\ WindowMatchesRecord' /\ RecordInv'
    BY DEF TypeOK, LatchExclusive, WindowMatchesRecord, QuietWhenSuspended, RecordInv, NoRecord,
           ClosingPlaces, Saving, Threads
<1>4. NoRowSpansSuspension' /\ NoRecordLost'
    BY DEF TypeOK, NoRowSpansSuspension, NoRecordLost, Accounted, Settled, Saving, Threads
<1>5. QuietWhenSuspended' /\ Control'
    BY DEF TypeOK, QuietWhenSuspended, Control, Opening, ClosingPlaces, Threads
<1>6. SnapshotInv' /\ HandedOver'
    BY DEF TypeOK, SnapshotInv, HandedOver, Accounted, Settled, Saving, Threads
<1> QED
    BY <1>1, <1>2, <1>3, <1>4, <1>5, <1>6 DEF IndInv

(* Pausing touches nothing else.                                           *)
LEMMA TogglePauseInd ==
    ASSUME IndInv, TogglePause
    PROVE  IndInv'
<1> USE TrackerAssumption DEF IndInv, TogglePause, Goto, tracked, switches, outside, stored
<1>1. TypeOK'
    BY DEF TypeOK, Threads, WatchPlaces, GuiPlaces
<1>2. LatchExclusive' /\ WindowMatchesRecord' /\ RecordInv'
    BY DEF TypeOK, LatchExclusive, WindowMatchesRecord, RecordInv, Saving, Threads
<1>3. NoRowSpansSuspension' /\ NoRecordLost'
    BY DEF TypeOK, NoRowSpansSuspension, NoRecordLost, Accounted, Settled, Saving, Threads
<1>4. QuietWhenSuspended' /\ Control'
    BY DEF TypeOK, QuietWhenSuspended, Control, Opening, ClosingPlaces, Threads
<1>5. SnapshotInv' /\ HandedOver'
    BY DEF TypeOK, SnapshotInv, HandedOver, Accounted, Settled, Saving, Threads
<1> QED
    BY <1>1, <1>2, <1>3, <1>4, <1>5 DEF IndInv

(* Exit.                                                                   *)
LEMMA QuitInd ==
    ASSUME IndInv, Quit
    PROVE  IndInv'
<1> USE TrackerAssumption DEF IndInv, Quit, Goto, tracked, switches, outside, stored
<1>1. TypeOK'
    BY DEF TypeOK, Threads, WatchPlaces, GuiPlaces
<1>2. LatchExclusive' /\ WindowMatchesRecord' /\ RecordInv'
    BY DEF TypeOK, LatchExclusive, WindowMatchesRecord, RecordInv, Saving, Threads
<1>3. NoRowSpansSuspension' /\ NoRecordLost'
    BY DEF TypeOK, NoRowSpansSuspension, NoRecordLost, Accounted, Settled, Saving, Threads
<1>4. QuietWhenSuspended' /\ Control'
    BY DEF TypeOK, QuietWhenSuspended, Control, Opening, ClosingPlaces, Threads
<1>5. SnapshotInv' /\ HandedOver'
    BY DEF TypeOK, SnapshotInv, HandedOver, Accounted, Settled, Saving, Threads
<1> QED
    BY <1>1, <1>2, <1>3, <1>4, <1>5 DEF IndInv

(* The watch thread has ended.                                             *)
LEMMA JoinInd ==
    ASSUME IndInv, Join
    PROVE  IndInv'
<1> USE TrackerAssumption DEF IndInv, Join, Goto, tracked, switches, outside, stored
<1>1. TypeOK'
    BY DEF TypeOK, Threads, WatchPlaces, GuiPlaces
<1>2. LatchExclusive' /\ WindowMatchesRecord' /\ RecordInv'
    BY DEF TypeOK, LatchExclusive, WindowMatchesRecord, RecordInv, Saving, Threads
<1>3. NoRowSpansSuspension' /\ NoRecordLost'
    BY DEF TypeOK, NoRowSpansSuspension, NoRecordLost, Accounted, Settled, Saving, Threads
<1>4. QuietWhenSuspended' /\ Control'
    BY DEF TypeOK, QuietWhenSuspended, Control, Opening, ClosingPlaces, Threads
<1>5. SnapshotInv' /\ HandedOver'
    BY DEF TypeOK, SnapshotInv, HandedOver, Accounted, Settled, Saving, Threads
<1> QED
    BY <1>1, <1>2, <1>3, <1>4, <1>5 DEF IndInv

(* The user switches windows.                                              *)
LEMMA SwitchWindowInd ==
    ASSUME IndInv, SwitchWindow
    PROVE  IndInv'
<1> USE TrackerAssumption DEF IndInv, SwitchWindow, Goto, tracked, switches, outside, stored
<1>1. TypeOK'
    BY DEF TypeOK, Threads, WatchPlaces, GuiPlaces
<1>2. LatchExclusive' /\ WindowMatchesRecord' /\ RecordInv'
    BY DEF TypeOK, LatchExclusive, WindowMatchesRecord, RecordInv, Saving, Threads
<1>3. NoRowSpansSuspension' /\ NoRecordLost'
    BY DEF TypeOK, NoRowSpansSuspension, NoRecordLost, Accounted, Settled, Saving, Threads
<1>4. QuietWhenSuspended' /\ Control'
    BY DEF TypeOK, QuietWhenSuspended, Control, Opening, ClosingPlaces, Threads
<1>5. SnapshotInv' /\ HandedOver'
    BY DEF TypeOK, SnapshotInv, HandedOver, Accounted, Settled, Saving, Threads
<1> QED
    BY <1>1, <1>2, <1>3, <1>4, <1>5 DEF IndInv

(* The clock goes on.                                                      *)
LEMMA TickInd ==
    ASSUME IndInv, Tick
    PROVE  IndInv'
<1> USE TrackerAssumption DEF IndInv, Tick, Goto, tracked, switches, outside, stored
<1>1. TypeOK'
    BY DEF TypeOK, Threads, WatchPlaces, GuiPlaces
<1>2. LatchExclusive' /\ WindowMatchesRecord' /\ RecordInv'
    BY DEF TypeOK, LatchExclusive, WindowMatchesRecord, RecordInv, Saving, Threads
<1>3. NoRowSpansSuspension' /\ NoRecordLost'
    BY DEF TypeOK, NoRowSpansSuspension, NoRecordLost, Accounted, Settled, Saving, Threads
<1>4. QuietWhenSuspended' /\ Control'
    BY DEF TypeOK, QuietWhenSuspended, Control, Opening, ClosingPlaces, Threads
<1>5. SnapshotInv' /\ HandedOver'
    BY DEF TypeOK, SnapshotInv, HandedOver, Accounted, Settled, Saving, Threads
<1> QED
    BY <1>1, <1>2, <1>3, <1>4, <1>5 DEF IndInv

(* The clock is set back.                                                  *)
LEMMA ClockSetBackInd ==
    ASSUME IndInv, ClockSetBack
    PROVE  IndInv'
<1> USE TrackerAssumption DEF IndInv, ClockSetBack, Goto, tracked, switches, outside, stored
<1>1. TypeOK'
    BY DEF TypeOK, Threads, WatchPlaces, GuiPlaces
<1>2. LatchExclusive' /\ WindowMatchesRecord' /\ RecordInv'
    BY DEF TypeOK, LatchExclusive, WindowMatchesRecord, RecordInv, Saving, Threads
<1>3. NoRowSpansSuspension' /\ NoRecordLost'
    BY DEF TypeOK, NoRowSpansSuspension, NoRecordLost, Accounted, Settled, Saving, Threads
<1>4. QuietWhenSuspended' /\ Control'
    BY DEF TypeOK, QuietWhenSuspended, Control, Opening, ClosingPlaces, Threads
<1>5. SnapshotInv' /\ HandedOver'
    BY DEF TypeOK, SnapshotInv, HandedOver, Accounted, Settled, Saving, Threads
<1> QED
    BY <1>1, <1>2, <1>3, <1>4, <1>5 DEF IndInv

(***************************************************************************)
(* The theorems.                                                           *)
(***************************************************************************)

(* Every step of either thread, the user or the clock preserves IndInv.    *)
LEMMA NextInd == IndInv /\ [Next]_vars => IndInv'
<1> SUFFICES ASSUME IndInv, [Next]_vars PROVE IndInv'
    OBVIOUS
<1>1. ASSUME NEW t \in Threads, Routines(t) PROVE IndInv'
    BY <1>1, FinishSkipInd, FinishBeginInd, FinishSaveInd, FinishReleaseInd, CloseNothingInd,
       CloseOpenInd, CloseClearInd DEF Routines
<1>2. CASE Watch
    BY <1>1, <1>2, WatchLoopInd, MonitorLookupInd, MonitorSameInd, MonitorFirstInd,
       MonitorChangedInd, MonitorReopenInd, LimitsPassInd, LimitsHitInd, LimitsKillInd
       DEF Watch, Threads
<1>3. CASE Gui
    BY <1>1, <1>3, SuspendInd, ResumeInd, TogglePauseInd, QuitInd, JoinInd DEF Gui, Threads
<1>4. CASE Environment
    BY <1>4, SwitchWindowInd, TickInd, ClockSetBackInd DEF Environment
<1>5. CASE UNCHANGED vars
    BY <1>5 DEF vars, IndInv, TypeOK, LatchExclusive, WindowMatchesRecord, QuietWhenSuspended,
                NoRowSpansSuspension, NoRecordLost, Control, Opening, RecordInv, SnapshotInv,
                HandedOver, Accounted, Settled, Saving
<1> QED
    BY <1>2, <1>3, <1>4, <1>5 DEF Next

(* IndInv holds in every state the tracker reaches.                        *)
THEOREM TrackerInvariant == Spec => []IndInv
<1>1. Init => IndInv
    BY InitInd
<1>2. IndInv /\ [Next]_vars => IndInv'
    BY NextInd
<1> QED
    BY <1>1, <1>2, PTL DEF Spec

(* The variables of activity.cpp keep their types.                         *)
THEOREM TypeCorrect == Spec => []TypeOK
<1>1. IndInv => TypeOK
    BY DEF IndInv
<1> QED
    BY <1>1, TrackerInvariant, PTL

(* At most one thread at a time is storing a record, and the latch of      *)
(* finishCurrentRecord is up exactly while one is.                         *)
THEOREM LatchCorrect == Spec => []LatchExclusive
<1>1. IndInv => LatchExclusive
    BY DEF IndInv
<1> QED
    BY <1>1, TrackerInvariant, PTL

(* From the return of activity_suspend to activity_resume no record is     *)
(* open.                                                                   *)
THEOREM SuspensionIsQuiet == Spec => []QuietWhenSuspended
<1>1. IndInv => QuietWhenSuspended
    BY DEF IndInv
<1> QED
    BY <1>1, TrackerInvariant, PTL

(* No stored row counts time the machine was locked or asleep.             *)
THEOREM SleepNotCounted == Spec => []NoRowSpansSuspension
<1>1. IndInv => NoRowSpansSuspension
    BY DEF IndInv
<1> QED
    BY <1>1, TrackerInvariant, PTL

(* No record is overwritten or zeroed before it was handed to              *)
(* db_insert_activity or dropped by the settings.                          *)
THEOREM RecordsAccountedFor == Spec => []NoRecordLost
<1>1. IndInv => NoRecordLost
    BY DEF IndInv
<1> QED
    BY <1>1, TrackerInvariant, PTL

(***************************************************************************)
(* The times of the rows.                                                  *)
(***************************************************************************)

\* The finished records: the rows, and what a thread is about to store.
Stamped == {rows[i] : i \in DOMAIN rows} \cup {snapshot[t] : t \in Saving}

\* The duration finishCurrentRecord stamps.
Measured(f) == f.duration = IF f.end > f.rec.start THEN f.end - f.rec.start ELSE 0

\* Records are numbered in the order in which they are opened.
Numbered ==
    /\ current_record.start # 0 => current_record.sid = opened
    /\ \A f \in Stamped : f.rec.sid <= opened /\ Measured(f)

\* While the clock has not been set back, nothing ends in the future, and
\* what was opened earlier ended before what was opened later began.
InOrder ==
    backs = 0 =>
        /\ current_record.start <= now
        /\ \A f \in Stamped :
              /\ f.rec.start <= f.end /\ f.end <= now
              /\ f.rec.sid < current_record.sid => f.end <= current_record.start
        /\ \A f, g \in Stamped : f.rec.sid < g.rec.sid => f.end <= g.rec.start

\* Only what the settings keep was stored.
RowsKept == \A i \in DOMAIN rows : Kept(rows[i])

TimeInv == Numbered /\ InOrder /\ RowsKept

(* The initial state satisfies TimeInv.                                    *)
LEMMA TimeInit == Init => TimeInv
<1> SUFFICES ASSUME Init PROVE TimeInv
    OBVIOUS
<1>1. Stamped = {}
    BY DEF Init, Stamped, Saving, Threads
<1>2. current_record.start = 0 /\ current_record.sid = 0 /\ now = 1 /\ rows = <<>>
    BY DEF Init, NoRecord
<1> QED
    BY <1>1, <1>2 DEF TimeInv, Numbered, InOrder, RowsKept

(* Rows and snapshots are finished records, so their times can be          *)
(* compared.                                                               *)
LEMMA StampedTypes ==
    ASSUME TypeOK
    PROVE  /\ \A f \in Stamped : f.rec.sid \in Int /\ f.end \in Int /\ f.rec.start \in Int
           /\ current_record.sid \in Int /\ current_record.start \in Int
           /\ now \in Int /\ opened \in Int
<1>1. \A f \in Stamped : f \in Finished
    BY DEF TypeOK, Stamped, Saving
<1>2. \A f \in Finished : f.rec.sid \in Int /\ f.end \in Int /\ f.rec.start \in Int
    BY TrackerAssumption DEF Finished, Record
<1>3. current_record.sid \in Int /\ current_record.start \in Int
    BY TrackerAssumption DEF TypeOK, Record
<1> QED
    BY <1>1, <1>2, <1>3 DEF TypeOK

(* A step that stamps nothing, and opens nothing, keeps the order.         *)
LEMMA QuietStep ==
    ASSUME TypeOK, TimeInv,
           Stamped' \subseteq Stamped,
           current_record' = current_record \/ current_record' = NoRecord,
           opened' = opened, now' = now, backs' = backs
    PROVE  Numbered' /\ InOrder'
<1>1. now \in 1 .. MaxTime
    BY DEF TypeOK
<1>2. \A f \in Stamped : Measured(f)' <=> Measured(f)
    BY DEF Measured
<1>3. NoRecord.start = 0 /\ NoRecord.sid = 0
    BY DEF NoRecord
<1>4. \A f \in Stamped : f.rec.sid \in Nat
  <2>1. \A f \in Stamped : f \in Finished
    BY DEF TypeOK, Stamped, Saving
  <2> QED
    BY <2>1, TrackerAssumption DEF Finished, Record
<1>5. Numbered'
    BY <1>2, <1>3 DEF TimeInv, Numbered, Measured
<1>6. InOrder'
    BY <1>1, <1>3, <1>4, TrackerAssumption DEF TimeInv, InOrder
<1> QED
    BY <1>5, <1>6

(* The first critical section of finishCurrentRecord stamps the newest     *)
(* record with the present time.                                           *)
LEMMA BeginStep ==
    ASSUME IndInv, TimeInv, NEW t \in Threads, FinishBegin(t)
    PROVE  Numbered' /\ InOrder'
<1> DEFINE new == finished(current_record)
<1>1. /\ current_record.start # 0 /\ current_record' = current_record
      /\ opened' = opened /\ now' = now /\ backs' = backs /\ rows' = rows
    BY DEF FinishBegin, tracked, outside, stored
<1>2. Stamped' \subseteq Stamped \cup {new}
    BY <1>1 DEF IndInv, TypeOK, FinishBegin, Goto, Stamped, Saving
<1>3. /\ new.rec = current_record /\ new.end = now
      /\ new.duration = IF now > current_record.start THEN now - current_record.start ELSE 0
    BY DEF finished
<1>4. current_record.sid = opened
    BY <1>1 DEF TimeInv, Numbered
<1>5. TypeOK
    BY DEF IndInv
<1>6. Measured(new)
    BY <1>3 DEF Measured
<1>7. Numbered'
  <2>1. \A f \in Stamped' : f.rec.sid <= opened /\ Measured(f)
    BY <1>2, <1>3, <1>4, <1>5, <1>6, StampedTypes DEF TimeInv, Numbered
  <2> QED
    BY <2>1, <1>1, <1>4 DEF Numbered, Measured
<1>8. InOrder'
  <2> SUFFICES ASSUME backs = 0 PROVE InOrder'
    BY <1>1 DEF InOrder
  <2>1. \A f \in Stamped :
           /\ f.rec.start <= f.end /\ f.end <= now /\ f.rec.sid <= current_record.sid
           /\ f.rec.sid < current_record.sid => f.end <= current_record.start
    BY <1>4 DEF TimeInv, Numbered, InOrder
  <2>2. current_record.start <= now
    BY DEF TimeInv, InOrder
  <2>3. \A f \in Stamped' :
           /\ f.rec.start <= f.end /\ f.end <= now /\ f.rec.sid <= current_record.sid
           /\ f.rec.sid < current_record.sid => f.end <= current_record.start
    BY <2>1, <2>2, <1>2, <1>3, <1>5, StampedTypes
  <2>4. ASSUME NEW f \in Stamped', NEW g \in Stamped', f.rec.sid < g.rec.sid
        PROVE  f.end <= g.rec.start
    <3>1. CASE g = new
      BY <3>1, <2>3, <2>4, <1>3
    <3>2. CASE g # new /\ f = new
      BY <3>2, <2>1, <2>4, <1>2, <1>3, <1>5, StampedTypes
    <3>3. CASE g # new /\ f # new
      BY <3>3, <2>4, <1>2 DEF TimeInv, InOrder
    <3> QED
      BY <3>1, <3>2, <3>3
  <2> QED
    BY <2>2, <2>3, <2>4, <1>1 DEF InOrder
<1> QED
    BY <1>7, <1>8

(* A record that is opened gets the next number, and starts when all the   *)
(* others have ended.                                                      *)
LEMMA OpenStep ==
    ASSUME TypeOK, TimeInv, NEW w,
           Stamped' \subseteq Stamped,
           current_record' = startNewRecordLocked(w),
           opened' = opened + 1, now' = now, backs' = backs
    PROVE  Numbered' /\ InOrder'
<1>1. current_record'.start = now /\ current_record'.sid = opened + 1
    BY DEF startNewRecordLocked
<1>2. Numbered'
  <2>1. \A f \in Stamped' : f.rec.sid <= opened + 1 /\ Measured(f)
    BY StampedTypes DEF TimeInv, Numbered
  <2> QED
    BY <2>1, <1>1 DEF Numbered, Measured
<1>3. InOrder'
  <2>1. now <= now
    BY StampedTypes
  <2> QED
    BY <2>1, <1>1 DEF TimeInv, InOrder
<1> QED
    BY <1>2, <1>3

(* The clock moves forward, or has been set back.                          *)
LEMMA ClockStep ==
    ASSUME TypeOK, TimeInv, Tick \/ ClockSetBack
    PROVE  Numbered' /\ InOrder'
<1>1. Stamped' = Stamped /\ current_record' = current_record /\ opened' = opened
    BY DEF Tick, ClockSetBack, Stamped, Saving, tracked, stored
<1>2. Numbered'
    BY <1>1 DEF TimeInv, Numbered, Measured
<1>3. CASE ClockSetBack
  <2>1. backs' # 0
    BY <1>3 DEF TypeOK, ClockSetBack
  <2> QED
    BY <2>1, <1>2 DEF InOrder
<1>4. CASE Tick
  <2>1. now' = now + 1 /\ backs' = backs
    BY <1>4 DEF Tick
  <2>2. \A x \in Int : x <= now => x <= now'
    BY <2>1, StampedTypes
  <2>3. ASSUME backs = 0
        PROVE  /\ current_record.start <= now'
               /\ \A f \in Stamped : f.rec.start <= f.end /\ f.end <= now'
    BY <2>2, <2>3, StampedTypes DEF TimeInv, InOrder
  <2>4. InOrder'
    BY <2>1, <2>3, <1>1 DEF TimeInv, InOrder
  <2> QED
    BY <2>4, <1>2
<1> QED
    BY <1>3, <1>4

(* Rows are added by FinishSave only, and only what the settings keep.     *)
LEMMA KeptStep ==
    ASSUME TypeOK, RowsKept, [Next]_vars
    PROVE  RowsKept'
<1>1. CASE rows' = rows
    BY <1>1 DEF RowsKept, Kept, settings_is_process_excluded
<1>2. ASSUME NEW t \in Threads, FinishSave(t), rows' # rows
      PROVE  RowsKept'
  <2>1. Kept(snapshot[t]) /\ rows' = Append(rows, snapshot[t]) /\ snapshot[t] \in Finished
    BY <1>2 DEF FinishSave, TypeOK
  <2>2. \A i \in DOMAIN rows' : (i \in DOMAIN rows /\ rows'[i] = rows[i]) \/ rows'[i] = snapshot[t]
    BY <2>1, AppendRow DEF TypeOK
  <2> QED
    BY <2>1, <2>2 DEF RowsKept, Kept, settings_is_process_excluded
<1>3. rows' = rows \/ \E t \in Threads : FinishSave(t)
    BY DEF Next, Watch, Gui, Environment, Routines, vars, Threads, stored,
           FinishSkip, FinishBegin, FinishRelease, CloseNothing, CloseOpen, CloseClear,
           WatchLoop, MonitorLookup, MonitorSame, MonitorFirst, MonitorChanged, MonitorReopen,
           LimitsPass, LimitsHit, LimitsKill, Suspend, Resume, TogglePause, Quit, Join,
           SwitchWindow, Tick, ClockSetBack
<1> QED
    BY <1>1, <1>2, <1>3

(* What a thread stores was stamped before; nobody else stamps anything.   *)
LEMMA RoutineStamps ==
    ASSUME TypeOK, NEW t \in Threads, Routines(t), ~FinishBegin(t)
    PROVE  /\ Stamped' \subseteq Stamped
           /\ current_record' = current_record \/ current_record' = NoRecord
           /\ opened' = opened /\ now' = now /\ backs' = backs
<1> USE DEF Goto, tracked, switches, outside, stored
<1>1. CASE FinishSave(t)
  <2>1. t \in Saving /\ snapshot[t] \in Finished /\ Saving' = Saving /\ snapshot' = snapshot
    BY <1>1 DEF FinishSave, TypeOK, Saving
  <2>2. CASE rows' = rows
    BY <2>1, <2>2, <1>1 DEF FinishSave, Stamped
  <2>3. CASE rows' = Append(rows, snapshot[t])
    <3>1. \A i \in DOMAIN rows' :
             (i \in DOMAIN rows /\ rows'[i] = rows[i]) \/ rows'[i] = snapshot[t]
      BY <2>1, <2>3, AppendRow DEF TypeOK
    <3> QED
      BY <2>1, <3>1, <1>1 DEF FinishSave, Stamped
  <2> QED
    BY <2>2, <2>3, <1>1 DEF FinishSave
<1>2. CASE FinishSkip(t) \/ CloseNothing(t) \/ CloseOpen(t) \/ CloseClear(t)
  <2>1. rows' = rows /\ snapshot' = snapshot
    BY <1>2 DEF FinishSkip, CloseNothing, CloseOpen, CloseClear
  <2>2. Saving' \subseteq Saving
    BY <1>2 DEF FinishSkip, CloseNothing, CloseOpen, CloseClear, AfterClose, TypeOK, Saving,
                Threads
  <2> QED
    BY <2>1, <2>2, <1>2 DEF FinishSkip, CloseNothing, CloseOpen, CloseClear, Stamped
<1>3. CASE FinishRelease(t)
  <2>1. Saving' \subseteq Saving /\ t \notin Saving'
    BY <1>3 DEF FinishRelease, TypeOK, Saving, Threads
  <2>2. \A u \in Saving' : snapshot'[u] = snapshot[u]
    BY <2>1, <1>3 DEF FinishRelease, TypeOK, Saving
  <2> QED
    BY <2>1, <2>2, <1>3 DEF FinishRelease, Stamped
<1> QED
    BY <1>1, <1>2, <1>3 DEF Routines

(* The other steps of the threads leave the rows and the snapshots alone,  *)
(* and the watch thread alone opens records.                               *)
LEMMA ThreadStamps ==
    ASSUME TypeOK, Control,
           \/ WatchLoop \/ MonitorLookup \/ MonitorSame \/ MonitorFirst \/ MonitorChanged
           \/ MonitorReopen \/ LimitsPass \/ LimitsHit \/ LimitsKill
           \/ Suspend \/ Resume \/ TogglePause \/ Quit \/ Join \/ SwitchWindow
    PROVE  /\ Stamped' \subseteq Stamped /\ now' = now /\ backs' = backs
           /\ \/ current_record' = current_record /\ opened' = opened
              \/ current_record' = startNewRecordLocked(cur) /\ opened' = opened + 1
<1> USE DEF Goto, tracked, switches, outside, stored, WatchLoop, MonitorLookup, MonitorSame,
            MonitorFirst, MonitorChanged, MonitorReopen, LimitsPass, LimitsHit, LimitsKill,
            Suspend, Resume, TogglePause, Quit, Join, SwitchWindow
<1>1. rows' = rows /\ snapshot' = snapshot /\ now' = now /\ backs' = backs
    OBVIOUS
<1>2. Saving' \subseteq Saving
    BY DEF TypeOK, Saving, Threads
<1>3. Stamped' \subseteq Stamped
    BY <1>1, <1>2 DEF Stamped
<1>4. \/ current_record' = current_record /\ opened' = opened
      \/ current_record' = startNewRecordLocked(cur) /\ opened' = opened + 1
    OBVIOUS
<1> QED
    BY <1>1, <1>3, <1>4

(* Every step preserves TimeInv.                                           *)
LEMMA TimeNext == IndInv /\ TimeInv /\ [Next]_vars => TimeInv'
<1> SUFFICES ASSUME IndInv, TimeInv, [Next]_vars PROVE TimeInv'
    OBVIOUS
<1>0. TypeOK /\ Control
    BY DEF IndInv
<1>1. RowsKept'
    BY <1>0, KeptStep DEF TimeInv
<1>2. ASSUME NEW t \in Threads, Routines(t) PROVE Numbered' /\ InOrder'
    BY <1>0, <1>2, BeginStep, RoutineStamps, QuietStep
<1>3. ASSUME \/ WatchLoop \/ MonitorLookup \/ MonitorSame \/ MonitorFirst \/ MonitorChanged
             \/ MonitorReopen \/ LimitsPass \/ LimitsHit \/ LimitsKill
             \/ Suspend \/ Resume \/ TogglePause \/ Quit \/ Join \/ SwitchWindow
      PROVE  Numbered' /\ InOrder'
  <2>1. /\ Stamped' \subseteq Stamped /\ now' = now /\ backs' = backs
        /\ \/ current_record' = current_record /\ opened' = opened
           \/ current_record' = startNewRecordLocked(cur) /\ opened' = opened + 1
    BY <1>0, <1>3, ThreadStamps
  <2>2. CASE current_record' = current_record /\ opened' = opened
    BY <2>1, <2>2, <1>0, QuietStep
  <2>3. CASE current_record' = startNewRecordLocked(cur) /\ opened' = opened + 1
    BY <2>1, <2>3, <1>0, OpenStep
  <2> QED
    BY <2>1, <2>2, <2>3
<1>4. ASSUME Tick \/ ClockSetBack PROVE Numbered' /\ InOrder'
    BY <1>0, <1>4, ClockStep
<1>5. ASSUME UNCHANGED vars PROVE Numbered' /\ InOrder'
  <2>1. Stamped' = Stamped
    BY <1>5 DEF vars, Stamped, Saving
  <2> QED
    BY <2>1, <1>0, <1>5, QuietStep DEF vars
<1>6. \/ \E t \in Threads : Routines(t)
      \/ WatchLoop \/ MonitorLookup \/ MonitorSame \/ MonitorFirst \/ MonitorChanged
      \/ MonitorReopen \/ LimitsPass \/ LimitsHit \/ LimitsKill
      \/ Suspend \/ Resume \/ TogglePause \/ Quit \/ Join \/ SwitchWindow
      \/ Tick \/ ClockSetBack
      \/ UNCHANGED vars
    BY DEF Next, Watch, Gui, Environment, Threads
<1>7. Numbered' /\ InOrder'
    BY <1>2, <1>3, <1>4, <1>5, <1>6
<1> QED
    BY <1>1, <1>7 DEF TimeInv

(* TimeInv holds in every state the tracker reaches.                       *)
THEOREM TimesInOrder == Spec => []TimeInv
<1>1. Init => TimeInv
    BY TimeInit
<1>2. IndInv /\ TimeInv /\ [Next]_vars => TimeInv'
    BY TimeNext
<1> QED
    BY <1>1, <1>2, TrackerInvariant, PTL DEF Spec

(* As long as the clock is not set back, no second is stored for two       *)
(* records, however the two threads interleave in finishCurrentRecord.     *)
THEOREM NoSecondCountedTwice == Spec => []RowsDisjoint
<1>1. TimeInv => RowsDisjoint
    BY DEF TimeInv, InOrder, RowsDisjoint, Stamped
<1> QED
    BY <1>1, TimesInOrder, PTL

(* With a minimum duration of a second or more (settings.cpp:50 sets 2) a  *)
(* row has the length of its interval even if the clock is set back while  *)
(* the record is open: such a record is dropped as too short.              *)
THEOREM IntervalsAreWellFormed ==
    ASSUME MinDuration >= 1
    PROVE  Spec => []RowsWellFormed
<1>1. IndInv /\ TimeInv => RowsWellFormed
  <2> SUFFICES ASSUME IndInv, TimeInv, NEW i \in DOMAIN rows
               PROVE  /\ rows[i].end >= rows[i].rec.start
                      /\ rows[i].duration = rows[i].end - rows[i].rec.start
    BY DEF RowsWellFormed
  <2>1. rows[i] \in Stamped /\ Kept(rows[i])
    BY DEF TimeInv, RowsKept, Stamped
  <2>2. rows[i].end \in Int /\ rows[i].rec.start \in Int
    BY <2>1, StampedTypes DEF IndInv
  <2>3. rows[i].duration >= MinDuration /\ Measured(rows[i])
    BY <2>1 DEF TimeInv, Numbered, Kept
  <2>4. rows[i].end > rows[i].rec.start
    BY <2>2, <2>3, TrackerAssumption DEF Measured
  <2> QED
    BY <2>2, <2>3, <2>4 DEF Measured
<1> QED
    BY <1>1, TrackerInvariant, TimesInOrder, PTL

(* With no minimum duration, which the settings page also allows           *)
(* (settingspage.cpp:47), the same holds as long as the clock is not set   *)
(* back.                                                                   *)
THEOREM ForwardClockIsEnough == Spec => [](backs = 0 => RowsWellFormed)
<1>1. IndInv /\ TimeInv => (backs = 0 => RowsWellFormed)
  <2> SUFFICES ASSUME IndInv, TimeInv, backs = 0, NEW i \in DOMAIN rows
               PROVE  /\ rows[i].end >= rows[i].rec.start
                      /\ rows[i].duration = rows[i].end - rows[i].rec.start
    BY DEF RowsWellFormed
  <2>1. rows[i] \in Stamped
    BY DEF Stamped
  <2>2. rows[i].end \in Int /\ rows[i].rec.start \in Int
    BY <2>1, StampedTypes DEF IndInv
  <2>3. rows[i].rec.start <= rows[i].end /\ Measured(rows[i])
    BY <2>1 DEF TimeInv, Numbered, InOrder
  <2> QED
    BY <2>2, <2>3 DEF Measured
<1> QED
    BY <1>1, TrackerInvariant, TimesInOrder, PTL

-----------------------------------------------------------------------------
(***************************************************************************)
(* The part of ExitCompletes and SuspendClosesRecord that needs no         *)
(* fairness: how far a thread is from the end of what it has begun.        *)
(***************************************************************************)

\* The turns of its own that thread t may still take before it leaves the loop
\* of watchLoop, once that is told to stop, or the handler of the message.
TurnsLeft(t) ==
    CASE pc[t] = "monitor" -> 14
      [] pc[t] = "compare" -> 13
      [] pc[t] = "finish" -> IF ret[t] = "reopen" THEN 12 ELSE 6
      [] pc[t] = "save" -> IF ret[t] = "reopen" THEN 11 ELSE 5
      [] pc[t] = "release" -> IF ret[t] = "reopen" THEN 10 ELSE 4
      [] pc[t] = "reopen" -> 9
      [] pc[t] = "limits" -> 8
      [] pc[t] = "close" -> 7
      [] pc[t] = "clear" -> 3
      [] pc[t] = "kill" -> 2
      [] pc[t] = "idle" -> 1
      [] OTHER -> 0

\* The thread stands still, or has fewer turns left than before.
GetsOn(t) == UNCHANGED <<pc[t], ret[t]>> \/ TurnsLeft(t)' < TurnsLeft(t)

\* main() is past the message loop exactly when the workers were told to stop,
\* and past the join only when the watch thread has ended.
ExitInv ==
    /\ running <=> pc["gui"] \notin {"join", "done"}
    /\ pc["gui"] = "done" => pc["watch"] = "done"

\* What no step may do.
ExitStep ==
    /\ ~running => ~running' /\ GetsOn("watch")
    /\ pc["gui"] \in ClosingPlaces => GetsOn("gui")
    /\ pc["gui"] = "done" => UNCHANGED <<tracked, stored, pc>>

(* A turn of finishCurrentRecord or closeCurrentSession brings the thread  *)
(* nearer to its end, and leaves the other one where it is.                *)
LEMMA RoutineTurn ==
    ASSUME TypeOK, Control, NEW t \in Threads, Routines(t)
    PROVE  /\ TurnsLeft(t)' < TurnsLeft(t)
           /\ \A u \in Threads \ {t} : UNCHANGED <<pc[u], ret[u]>>
           /\ running' = running
           /\ pc[t] \in ClosingPlaces
           /\ t = "gui" => pc'["gui"] \in ClosingPlaces \cup {"idle"}
<1> USE DEF Goto, tracked, switches, outside, stored
<1>1. pc \in [Threads -> WatchPlaces \cup GuiPlaces] /\ ret \in [Threads -> {"reopen", "clear"}]
    BY DEF TypeOK
<1>2. CASE FinishSkip(t)
    BY <1>1, <1>2 DEF FinishSkip, TurnsLeft, Control, ClosingPlaces
<1>3. CASE FinishBegin(t)
    BY <1>1, <1>3 DEF FinishBegin, TurnsLeft, ClosingPlaces
<1>4. CASE FinishSave(t)
    BY <1>1, <1>4 DEF FinishSave, TurnsLeft, ClosingPlaces
<1>5. CASE FinishRelease(t)
    BY <1>1, <1>5 DEF FinishRelease, TurnsLeft, Control, ClosingPlaces
<1>6. CASE CloseNothing(t)
    BY <1>1, <1>6 DEF CloseNothing, AfterClose, TurnsLeft, ClosingPlaces
<1>7. CASE CloseOpen(t)
    BY <1>1, <1>7 DEF CloseOpen, TurnsLeft, ClosingPlaces
<1>8. CASE CloseClear(t)
    BY <1>1, <1>8 DEF CloseClear, AfterClose, TurnsLeft, ClosingPlaces
<1> QED
    BY <1>2, <1>3, <1>4, <1>5, <1>6, <1>7, <1>8 DEF Routines

(* The other turns of the watch thread: all but the one at the top of the  *)
(* loop lead on, and that one ends the loop when it is to stop.            *)
LEMMA WatchTurn ==
    ASSUME TypeOK,
           \/ WatchLoop \/ MonitorLookup \/ MonitorSame \/ MonitorFirst \/ MonitorChanged
           \/ MonitorReopen \/ LimitsPass \/ LimitsHit \/ LimitsKill
    PROVE  /\ ~running => TurnsLeft("watch")' < TurnsLeft("watch")
           /\ UNCHANGED <<pc["gui"], ret["gui"]>>
           /\ running' = running
           /\ pc["watch"] # "done"
<1> USE DEF Goto, tracked, switches, outside, stored
<1>1. pc \in [Threads -> WatchPlaces \cup GuiPlaces] /\ ret \in [Threads -> {"reopen", "clear"}]
    BY DEF TypeOK
<1>2. CASE WatchLoop
    BY <1>1, <1>2 DEF WatchLoop, TurnsLeft, Threads
<1>3. CASE MonitorLookup \/ MonitorSame \/ MonitorFirst \/ MonitorReopen
    BY <1>1, <1>3 DEF MonitorLookup, MonitorSame, MonitorFirst, MonitorReopen, TurnsLeft, Threads
<1>4. CASE MonitorChanged
    BY <1>1, <1>4 DEF MonitorChanged, TurnsLeft, Threads
<1>5. CASE LimitsPass \/ LimitsHit \/ LimitsKill
    BY <1>1, <1>5 DEF LimitsPass, LimitsHit, LimitsKill, TurnsLeft, Threads
<1> QED
    BY <1>2, <1>3, <1>4, <1>5

(* Every step keeps ExitInv and is one of those ExitStep allows.           *)
LEMMA ExitNext == IndInv /\ ExitInv /\ [Next]_vars => ExitInv' /\ ExitStep
<1> SUFFICES ASSUME IndInv, ExitInv, [Next]_vars PROVE ExitInv' /\ ExitStep
    OBVIOUS
<1>1. TypeOK /\ Control
    BY DEF IndInv
<1>2. pc \in [Threads -> WatchPlaces \cup GuiPlaces] /\ Threads = {"watch", "gui"}
    BY <1>1 DEF TypeOK, Threads
<1>3. CASE Routines("watch")
    BY <1>1, <1>2, <1>3, RoutineTurn DEF ExitInv, ExitStep, GetsOn, ClosingPlaces
<1>4. CASE Routines("gui")
    BY <1>1, <1>2, <1>4, RoutineTurn DEF ExitInv, ExitStep, GetsOn, ClosingPlaces
<1>5. CASE \/ WatchLoop \/ MonitorLookup \/ MonitorSame \/ MonitorFirst \/ MonitorChanged
           \/ MonitorReopen \/ LimitsPass \/ LimitsHit \/ LimitsKill
    BY <1>1, <1>2, <1>5, WatchTurn DEF ExitInv, ExitStep, GetsOn, ClosingPlaces
<1>6. CASE Suspend
    BY <1>1, <1>2, <1>6 DEF Suspend, Goto, ExitInv, ExitStep, GetsOn, ClosingPlaces
<1>7. CASE Resume \/ TogglePause
    BY <1>1, <1>2, <1>7 DEF Resume, TogglePause, ExitInv, ExitStep, GetsOn, ClosingPlaces
<1>8. CASE Quit
    BY <1>1, <1>2, <1>8 DEF Quit, Goto, ExitInv, ExitStep, GetsOn, ClosingPlaces
<1>9. CASE Join
    BY <1>1, <1>2, <1>9 DEF Join, Goto, switches, ExitInv, ExitStep, GetsOn, ClosingPlaces
<1>10. CASE Environment
    BY <1>10 DEF Environment, SwitchWindow, Tick, ClockSetBack, switches, tracked, stored,
                 ExitInv, ExitStep, GetsOn
<1>11. CASE UNCHANGED vars
    BY <1>11 DEF vars, tracked, stored, ExitInv, ExitStep, GetsOn
<1> QED
    BY <1>3, <1>4, <1>5, <1>6, <1>7, <1>8, <1>9, <1>10, <1>11 DEF Next, Watch, Gui

(* Exit is a matter of fourteen turns: once the workers are told to stop   *)
(* (main.cpp:379) every turn of the watch thread brings it nearer to the   *)
(* end of its loop, wherever the flag met it and whatever the latch does,  *)
(* and nothing turns it back; a lock or sleep event has its handler        *)
(* through in six.  After the join nothing is written: db_close, which     *)
(* follows (main.cpp:391), finds no insert in flight.                      *)
THEOREM ExitIsBounded == Spec => []ExitInv /\ [][ExitStep]_vars
<1>1. Init => ExitInv
    BY DEF Init, ExitInv, Threads
<1>2. IndInv /\ ExitInv /\ [Next]_vars => ExitInv' /\ ExitStep
    BY ExitNext
<1> QED
    BY <1>1, <1>2, TrackerInvariant, PTL DEF Spec
=============================================================================
