--------------------------- MODULE SyncQueueProofs ---------------------------
(***************************************************************************)
(* Proofs about SyncQueue: for any number of rows, sizes, limits, delays   *)
(* and faults the queue keeps the promise of Outbox.                       *)
(***************************************************************************)
EXTENDS SyncQueue, FiniteSetTheorems, TLAPS

-----------------------------------------------------------------------------
(* The parts of the inductive invariant.                                   *)

\* Where the cloud thread has a batch whose answers are not yet recorded.
Uploading == {"send", "attempt", "refresh", "mark"}

\* The bisection stays within the batch.
ReportInBatch ==
    /\ \A k \in DOMAIN report.pending :
          /\ report.pending[k].lo < report.pending[k].hi
          /\ report.pending[k].hi <= Len(batch)
    /\ report.accepted \subseteq 0 .. Len(batch) - 1
    /\ report.rejected \subseteq 0 .. Len(batch) - 1

\* Every record of the batch still waits in the table.
BatchWaits == pc \in Uploading => \A k \in 1 .. Len(batch) : batch[k] \in db \ synced

\* What the report calls accepted is in the cloud, under its key.
AcceptedStored == pc \in Uploading => \A k \in report.accepted : InCloud(batch[k + 1])

QueueInv == TypeOK /\ round < MaxRounds /\ ReportInBatch /\ BatchWaits /\ AcceptedStored

\* The server objected to what the report calls rejected.
RejectedObjected == token_ok /\ \A k \in report.rejected : batch[k + 1] \in objected

-----------------------------------------------------------------------------
(* The query.                                                              *)

\* How many due rows come before row i.
Earlier(i) == {j \in Due : Sooner(j, i)}

\* The order of the query is total: the rank of a row tells it apart.
LEMMA RankIsInjective ==
    ASSUME TypeOK
    PROVE  /\ IsFiniteSet(Due)
           /\ \A i \in Due : Cardinality(Earlier(i)) \in 0 .. Cardinality(Due) - 1
           /\ \A i, j \in Due : Cardinality(Earlier(i)) = Cardinality(Earlier(j)) => i = j
<1>1. Due \subseteq Ids /\ \A i \in Due : i \in Int /\ wait[i] \in Int
  <2>1. N \in Nat /\ inserted \in 0 .. N /\ db \subseteq 1 .. inserted
    BY SyncAssumption DEF TypeOK
  <2>2. db \subseteq Ids /\ \A i \in Ids : i \in Int /\ wait[i] \in Int
    BY <2>1 DEF TypeOK, Ids
  <2> QED
    BY <2>2 DEF Due
<1>2. IsFiniteSet(Due)
  <2>1. N \in Int /\ 1 \in Int
    BY SyncAssumption
  <2>2. IsFiniteSet(Ids)
    BY <2>1, FS_Interval DEF Ids
  <2> QED
    BY <1>1, <2>2, FS_Subset
<1>3. Cardinality(Due) \in Nat
    BY <1>2, FS_CardinalityType
<1>4. \A i \in Due : IsFiniteSet(Earlier(i)) /\ Cardinality(Earlier(i)) \in Nat
    BY <1>2, FS_Subset, FS_CardinalityType DEF Earlier
<1>5. \A i \in Due : Cardinality(Earlier(i)) \in 0 .. Cardinality(Due) - 1
  <2> SUFFICES ASSUME NEW i \in Due PROVE Cardinality(Earlier(i)) < Cardinality(Due)
      BY <1>3, <1>4
  <2>1. Earlier(i) \subseteq Due /\ i \notin Earlier(i)
    BY <1>1 DEF Earlier, Sooner
  <2>2. Cardinality(Earlier(i)) <= Cardinality(Due) /\ Cardinality(Earlier(i)) # Cardinality(Due)
    BY <1>2, <2>1, FS_Subset
  <2> QED
    BY <1>3, <1>4, <2>2
<1>6. ASSUME NEW i \in Due, NEW j \in Due, Sooner(i, j)
      PROVE  Cardinality(Earlier(i)) # Cardinality(Earlier(j))
  <2>1. Earlier(i) \subseteq Earlier(j)
    <3>1. ASSUME NEW k \in Due, Sooner(k, i) PROVE Sooner(k, j)
      <4>1. i \in Int /\ j \in Int /\ k \in Int /\ wait[i] \in Int /\ wait[j] \in Int /\ wait[k] \in Int
        BY <1>1
      <4> QED
        BY <1>6, <3>1, <4>1 DEF Sooner
    <3> QED
      BY <3>1 DEF Earlier
  <2>2. i \in Earlier(j) /\ i \notin Earlier(i)
    BY <1>1, <1>6 DEF Earlier, Sooner
  <2> QED
    BY <1>4, <2>1, <2>2, FS_Subset
<1>7. \A i, j \in Due : i = j \/ Sooner(i, j) \/ Sooner(j, i)
    BY <1>1 DEF Sooner
<1> QED
    BY <1>2, <1>5, <1>6, <1>7

\* So every rank is taken by one row.
LEMMA EveryRankIsTaken ==
    ASSUME TypeOK, NEW k \in 1 .. Cardinality(Due)
    PROVE  \E i \in Due : Cardinality(Earlier(i)) = k - 1
<1> DEFINE ranks == 0 .. Cardinality(Due) - 1
           rank == [i \in Due |-> Cardinality(Earlier(i))]
<1>1. Cardinality(Due) \in Nat
    BY RankIsInjective, FS_CardinalityType
<1>2. IsFiniteSet(ranks) /\ Cardinality(ranks) = Cardinality(Due)
  <2> DEFINE top == Cardinality(Due) - 1
  <2>1. 0 \in Int /\ top \in Int
    BY <1>1
  <2> HIDE DEF top
  <2>2. IsFiniteSet(0 .. top) /\ Cardinality(0 .. top) = IF 0 > top THEN 0 ELSE top - 0 + 1
    BY <2>1, FS_Interval
  <2> QED
    BY <1>1, <2>2 DEF top
<1>3. rank \in Injection(Due, ranks)
  <2>1. rank \in [Due -> ranks]
    BY RankIsInjective
  <2>2. \A i, j \in Due : rank[i] = rank[j] => i = j
    BY RankIsInjective
  <2> QED
    BY <2>1, <2>2 DEF Injection, IsInjective
<1>4. rank \in Surjection(Due, ranks)
    BY <1>2, <1>3, FS_Injection
<1>5. k - 1 \in ranks
    BY <1>1
<1> QED
    BY <1>4, <1>5 DEF Surjection

(* db_get_unsynced_records returns due rows, none of them twice, and no    *)
(* more than MaxRecords.                                                   *)
LEMMA FetchedAreDue ==
    ASSUME TypeOK
    PROVE  /\ db_get_unsynced_records \in Seq(Due)
           /\ Len(db_get_unsynced_records) <= MaxRecords
           /\ \A k, l \in 1 .. Len(db_get_unsynced_records) :
                 db_get_unsynced_records[k] = db_get_unsynced_records[l] => k = l
<1> DEFINE count == IF db_ok THEN Lesser(Cardinality(Due), MaxRecords) ELSE 0
           row(k) == CHOOSE i \in Due : Cardinality(Earlier(i)) = k - 1
<1>1. Cardinality(Due) \in Nat
    BY RankIsInjective, FS_CardinalityType
<1>2. count \in Nat /\ count <= MaxRecords /\ count <= Cardinality(Due)
    BY <1>1, SyncAssumption DEF Lesser
<1> HIDE DEF count
<1>3. \A k \in 1 .. count : row(k) \in Due /\ Cardinality(Earlier(row(k))) = k - 1
    BY <1>1, <1>2, EveryRankIsTaken
<1>4. db_get_unsynced_records = [k \in 1 .. count |-> row(k)]
    BY DEF db_get_unsynced_records, count, Earlier
<1> HIDE DEF row
<1>5. db_get_unsynced_records \in Seq(Due) /\ Len(db_get_unsynced_records) = count
    BY <1>2, <1>3, <1>4
<1>6. \A k, l \in 1 .. count : row(k) = row(l) => k = l
    BY <1>2, <1>3
<1> QED
    BY <1>2, <1>4, <1>5, <1>6

-----------------------------------------------------------------------------
(* The bisection, seen from the queue.                                     *)

\* What Fetch, RoundEnds and Crash set report to.
LEMMA StartReport ==
    ASSUME NEW n \in Nat
    PROVE  /\ Bisect!Start(n) \in Bisect!Reports
           /\ \A k \in DOMAIN Bisect!Start(n).pending :
                 /\ Bisect!Start(n).pending[k].lo < Bisect!Start(n).pending[k].hi
                 /\ Bisect!Start(n).pending[k].hi <= n
           /\ Bisect!Start(n).accepted = {}
           /\ Bisect!Start(n).rejected = {}
<1>1. CASE n = 0
    BY <1>1 DEF Bisect!Start, Bisect!Reports, Bisect!Ranges
<1>2. CASE n > 0
  <2>1. [lo |-> 0, hi |-> n] \in Bisect!Ranges
    BY DEF Bisect!Ranges
  <2> QED
    BY <1>2, <2>1 DEF Bisect!Start, Bisect!Reports
<1> QED
    BY <1>1, <1>2

\* The range sent is one of the batch, and so are the others.
LEMMA TopInBatch ==
    ASSUME TypeOK, ReportInBatch, report.pending # <<>>
    PROVE  /\ Bisect!Top.lo \in Nat /\ Bisect!Top.hi \in Nat
           /\ Bisect!Top.lo < Bisect!Top.hi
           /\ Bisect!Top.hi <= Len(batch)
           /\ Bisect!Members(Bisect!Top) \subseteq 0 .. Len(batch) - 1
           /\ Bisect!Rest \in Seq(Bisect!Ranges)
           /\ \A k \in DOMAIN Bisect!Rest :
                 Bisect!Rest[k].lo < Bisect!Rest[k].hi /\ Bisect!Rest[k].hi <= Len(batch)
<1> DEFINE p == report.pending
<1>1. p \in Seq(Bisect!Ranges) /\ p # <<>> /\ Len(batch) \in Nat
    BY DEF TypeOK, Bisect!Reports
<1>2. \A k \in DOMAIN p : p[k].lo < p[k].hi /\ p[k].hi <= Len(batch)
    BY DEF ReportInBatch
<1> HIDE DEF p
<1>3. Len(p) \in Nat \ {0} /\ DOMAIN p = 1 .. Len(p)
    BY <1>1
<1>4. p[Len(p)] \in Bisect!Ranges /\ p[Len(p)].lo < p[Len(p)].hi /\ p[Len(p)].hi <= Len(batch)
    BY <1>1, <1>2, <1>3
<1>5. p[Len(p)].lo \in Nat /\ p[Len(p)].hi \in Nat
    BY <1>4 DEF Bisect!Ranges
<1>6. p[Len(p)].lo .. p[Len(p)].hi - 1 \subseteq 0 .. Len(batch) - 1
    BY <1>1, <1>4, <1>5
<1>7. /\ SubSeq(p, 1, Len(p) - 1) \in Seq(Bisect!Ranges)
      /\ DOMAIN SubSeq(p, 1, Len(p) - 1) = 1 .. Len(p) - 1
      /\ \A i \in 1 .. Len(p) - 1 : SubSeq(p, 1, Len(p) - 1)[i] = p[i] /\ i \in DOMAIN p
    BY <1>1, <1>3
<1> QED
    BY <1>2, <1>4, <1>5, <1>6, <1>7 DEF p, Bisect!Top, Bisect!Rest, Bisect!Members

\* One answer: the range on top goes to accepted or rejected, or is halved.
LEMMA AnswerReport ==
    ASSUME TypeOK, ReportInBatch, UNCHANGED batch, NEW o \in {"Accepted", "Rejected", "TransportError"},
           Bisect!Answer(o)
    PROVE  /\ report' \in Bisect!Reports
           /\ ReportInBatch'
           /\ report'.accepted = report.accepted \cup (IF o = "Accepted" THEN Bisect!Members(Bisect!Top) ELSE {})
           /\ \/ report'.rejected = report.rejected
              \/ /\ o = "Rejected"
                 /\ Bisect!Top.hi = Bisect!Top.lo + 1
                 /\ report'.rejected = report.rejected \cup {Bisect!Top.lo}
<1> DEFINE top == Bisect!Top
           rest == Bisect!Rest
           mid == top.lo + (top.hi - top.lo) \div 2
<1>1. /\ report.pending # <<>> /\ report \in Bisect!Reports
      /\ report.requests \in Nat /\ report.requests + 1 \in Nat
    BY DEF Bisect!Answer, Bisect!Busy, TypeOK, Bisect!Reports
<1>2. /\ top.lo \in Nat /\ top.hi \in Nat /\ Len(batch) \in Nat
      /\ top.lo < top.hi
      /\ top.hi <= Len(batch)
      /\ Bisect!Members(top) \subseteq 0 .. Len(batch) - 1
      /\ Bisect!Members(top) \subseteq Nat
      /\ rest \in Seq(Bisect!Ranges)
      /\ \A k \in DOMAIN rest : rest[k].lo < rest[k].hi /\ rest[k].hi <= Len(batch)
    BY <1>1, TopInBatch DEF TypeOK
<1> HIDE DEF top, rest
<1>3. report' = Bisect!AfterAnswer(o)
    BY DEF Bisect!Answer
<1>4. CASE o = "Accepted"
  <2>1. report' = [report EXCEPT !.pending = rest, !.requests = @ + 1,
                                 !.accepted = @ \cup Bisect!Members(top)]
    BY <1>3, <1>4 DEF Bisect!AfterAnswer, top, rest
  <2>2. /\ report'.pending = rest
        /\ report'.accepted = report.accepted \cup Bisect!Members(top)
        /\ report'.rejected = report.rejected
        /\ report' \in Bisect!Reports
    BY <1>1, <1>2, <2>1 DEF Bisect!Reports
  <2>3. ReportInBatch'
    BY <1>2, <2>2 DEF ReportInBatch
  <2> QED
    BY <1>4, <2>2, <2>3 DEF top
<1>5. CASE o = "TransportError"
  <2>1. report' = [report EXCEPT !.pending = rest, !.requests = @ + 1, !.aborted = TRUE]
    BY <1>3, <1>5 DEF Bisect!AfterAnswer, Bisect!Failed, rest
  <2>2. /\ report'.pending = rest
        /\ report'.accepted = report.accepted
        /\ report'.rejected = report.rejected
        /\ report' \in Bisect!Reports
    BY <1>1, <1>2, <2>1 DEF Bisect!Reports
  <2>3. ReportInBatch'
    BY <1>2, <2>2 DEF ReportInBatch
  <2> QED
    BY <1>5, <2>2, <2>3
<1>6. CASE o = "Rejected" /\ top.hi - top.lo = 1
  <2>1. report' = [report EXCEPT !.pending = rest, !.requests = @ + 1, !.rejected = @ \cup {top.lo}]
    BY <1>3, <1>6 DEF Bisect!AfterAnswer, top, rest
  <2>2. /\ report'.pending = rest
        /\ report'.accepted = report.accepted
        /\ report'.rejected = report.rejected \cup {top.lo}
        /\ report' \in Bisect!Reports
    BY <1>1, <1>2, <2>1 DEF Bisect!Reports
  <2>3. top.lo \in 0 .. Len(batch) - 1 /\ top.hi = top.lo + 1
    BY <1>2, <1>6
  <2>4. ReportInBatch'
    BY <1>2, <2>2, <2>3 DEF ReportInBatch
  <2> QED
    BY <1>6, <2>2, <2>3, <2>4 DEF top
<1>7. CASE o = "Rejected" /\ top.hi - top.lo # 1
  <2> DEFINE left == [lo |-> top.lo, hi |-> mid]
             right == [lo |-> mid, hi |-> top.hi]
             new == rest \o <<right, left>>
  <2>1. mid \in Nat /\ top.lo < mid /\ mid < top.hi
    <3>1. \A d \in Nat : d >= 2 => d \div 2 \in Nat /\ d \div 2 >= 1 /\ d \div 2 < d
      OBVIOUS
    <3>2. top.hi - top.lo \in Nat /\ top.hi - top.lo >= 2
      BY <1>2, <1>7
    <3>3. PICK h \in Nat : h = (top.hi - top.lo) \div 2 /\ h >= 1 /\ h < top.hi - top.lo
      BY <3>1, <3>2
    <3> QED
      BY <1>2, <3>3
  <2>2. report' = [report EXCEPT !.pending = new, !.requests = @ + 1]
    BY <1>3, <1>7 DEF Bisect!AfterAnswer, Bisect!Halves, top, rest
  <2> HIDE DEF mid
  <2>3. /\ left \in Bisect!Ranges /\ left.lo < left.hi /\ left.hi <= Len(batch)
        /\ right \in Bisect!Ranges /\ right.lo < right.hi /\ right.hi <= Len(batch)
    BY <1>2, <2>1 DEF Bisect!Ranges
  <2> HIDE DEF left, right
  <2>4. /\ new \in Seq(Bisect!Ranges)
        /\ \A k \in DOMAIN new : new[k] \in {left, right} \/ (k \in DOMAIN rest /\ new[k] = rest[k])
    BY <1>2, <2>3
  <2> HIDE DEF new
  <2>5. /\ report'.pending = new
        /\ report'.accepted = report.accepted
        /\ report'.rejected = report.rejected
        /\ report' \in Bisect!Reports
    BY <1>1, <2>2, <2>4 DEF Bisect!Reports
  <2>6. ReportInBatch'
    BY <1>2, <2>3, <2>4, <2>5 DEF ReportInBatch
  <2> QED
    BY <1>7, <2>5, <2>6
<1> QED
    BY <1>4, <1>5, <1>6, <1>7

-----------------------------------------------------------------------------
(* Delays and ages.                                                        *)

\* The limits are numbers.
LEMMA Limits ==
    /\ N \in Nat /\ MaxRecords \in Nat \ {0} /\ MaxRounds \in Nat \ {0}
    /\ RetryBase \in Nat /\ RetryMax \in Nat /\ RetryCap \in Nat /\ AgeCap \in Nat
    /\ SyncInterval \in Nat /\ BackoffBase \in Nat /\ BackoffMax \in Nat /\ MaxCrashes \in Nat
    /\ NeverFailed \in Int /\ NeverFailed <= 0
    /\ StartOf \in [Ids -> Nat]
BY SyncAssumption DEF NeverFailed

\* A row that failed waits for at least a second.
LEMMA DelayIsPositive ==
    ASSUME NEW r \in 0 .. RetryCap
    PROVE  RetryDelay(r) \in Nat /\ RetryDelay(r) >= 1
<1> DEFINE shift == Lesser(r + 1, 20)
<1>1. r \in Nat /\ shift \in Nat
    BY Limits DEF Lesser
<1> HIDE DEF shift
<1>2. 2^shift \in Nat
  <2>1. 1 \in Int /\ shift \in Int
    BY <1>1
  <2>2. IsFiniteSet(1 .. shift) /\ Cardinality(1 .. shift) = IF 1 > shift THEN 0 ELSE shift - 1 + 1
    BY <2>1, FS_Interval
  <2>3. IsFiniteSet(1 .. shift) /\ Cardinality(1 .. shift) = shift
    BY <1>1, <2>2
  <2>4. IsFiniteSet(SUBSET (1 .. shift)) /\ Cardinality(SUBSET (1 .. shift)) = 2^shift
    BY <2>3, FS_SUBSET
  <2> QED
    BY <2>4, FS_CardinalityType
<1> DEFINE power == 2^shift
<1>3. RetryDelay(r) = Greater(1, Lesser(RetryMax, RetryBase * power))
    BY DEF RetryDelay, shift
<1>4. power \in Nat
    BY <1>2
<1> HIDE DEF power
<1>5. RetryBase * power \in Nat
    BY <1>4, Limits
<1> QED
    BY <1>3, <1>5, Limits DEF Greater, Lesser

\* A second never makes a row wait longer, and it keeps the range of wait.
LEMMA AgedIsEarlier ==
    ASSUME TypeOK, NEW i \in Ids
    PROVE  Aged(i) \in Int /\ Aged(i) >= NeverFailed /\ Aged(i) <= Greater(wait[i], 0)
<1> DEFINE old == {k \in Ids : wait[k] \in wait[i] .. -AgeCap}
           older == {wait[j] : j \in old}
<1>1. wait[i] \in Int /\ wait[i] >= NeverFailed
    BY DEF TypeOK
<1>2. Cardinality(older) \in 0 .. N
  <2>1. IsFiniteSet(Ids) /\ Cardinality(Ids) = N
    <3>1. IsFiniteSet(1 .. N) /\ Cardinality(1 .. N) = IF 1 > N THEN 0 ELSE N - 1 + 1
      <4>1. 1 \in Int /\ N \in Int
        BY Limits
      <4> QED
        BY <4>1, FS_Interval
    <3> QED
      BY <3>1, Limits DEF Ids
  <2>2. IsFiniteSet(old) /\ Cardinality(old) <= N
    BY <2>1, FS_Subset
  <2>3. [j \in old |-> wait[j]] \in Surjection(old, older)
    BY DEF Surjection
  <2>4. IsFiniteSet(older) /\ Cardinality(older) <= Cardinality(old)
    BY <2>2, <2>3, FS_Surjection
  <2>5. Cardinality(older) \in Nat /\ Cardinality(old) \in Nat
    BY <2>2, <2>4, FS_CardinalityType
  <2> QED
    BY <2>2, <2>4, <2>5, Limits
<1>3. Aged(i) = CASE wait[i] = NeverFailed -> NeverFailed
                  [] wait[i] > -AgeCap     -> wait[i] - 1
                  [] OTHER                 -> -AgeCap - Cardinality(older)
    BY DEF Aged
<1> HIDE DEF older
<1>4. CASE wait[i] = NeverFailed
  <2>1. \/ Aged(i) = NeverFailed
        \/ wait[i] > -AgeCap /\ Aged(i) = wait[i] - 1
    BY <1>3, <1>4
  <2> QED
    BY <1>1, <1>4, <2>1, Limits DEF Greater, NeverFailed
<1>5. CASE wait[i] # NeverFailed /\ wait[i] > -AgeCap
  <2>1. Aged(i) = wait[i] - 1
    BY <1>3, <1>5
  <2> QED
    BY <1>1, <1>5, <2>1, Limits DEF Greater
<1>6. CASE wait[i] # NeverFailed /\ ~(wait[i] > -AgeCap)
  <2>1. Aged(i) = -AgeCap - Cardinality(older)
    BY <1>3, <1>6
  <2> QED
    BY <1>1, <1>2, <2>1, Limits DEF Greater, NeverFailed
<1> QED
    BY <1>4, <1>5, <1>6

-----------------------------------------------------------------------------
(* The steps of a cycle.                                                   *)

\* What is being sent waits in the table.
LEMMA SendingWaits ==
    ASSUME QueueInv, pc \in Uploading, report.pending # <<>>
    PROVE  Sending \subseteq db \ synced
<1>1. TypeOK /\ ReportInBatch /\ Len(batch) \in Nat
    BY DEF QueueInv, TypeOK
<1>2. \A k \in Bisect!Members(Bisect!Top) : k \in 0 .. Len(batch) - 1
    BY <1>1, TopInBatch
<1>3. \A k \in Bisect!Members(Bisect!Top) : k + 1 \in 1 .. Len(batch)
    BY <1>1, <1>2
<1> QED
    BY <1>3 DEF Sending, QueueInv, BatchWaits

\* An upsert adds the keys of its rows and removes none.
LEMMA UpsertKeys ==
    ASSUME NEW rows
    PROVE  Keyed(Upsert(rows)) = Keyed(cloud) \cup Keyed(rows)
BY DEF Keyed, Upsert

\* The end of a cycle: the backoff stays in its range.
LEMMA EndCycleTypes ==
    ASSUME TypeOK, NEW result, EndCycle(result)
    PROVE  pc' = "idle" /\ sync_backoff' \in 0 .. BackoffMax
BY Limits DEF EndCycle, TypeOK, Lesser

\* The invariant of the initial state.
LEMMA QueueInit == Init => QueueInv
<1> SUFFICES ASSUME Init PROVE QueueInv
    OBVIOUS
<1>1. /\ Bisect!Start(0) \in Bisect!Reports
      /\ \A k \in DOMAIN Bisect!Start(0).pending :
            /\ Bisect!Start(0).pending[k].lo < Bisect!Start(0).pending[k].hi
            /\ Bisect!Start(0).pending[k].hi <= 0
      /\ Bisect!Start(0).accepted = {}
      /\ Bisect!Start(0).rejected = {}
  <2>1. 0 \in Nat
    OBVIOUS
  <2> QED
    BY <2>1, StartReport
<1>2. TypeOK
    BY <1>1, Limits DEF Init, TypeOK, Places
<1>3. ReportInBatch
    BY <1>1 DEF Init, ReportInBatch
<1>4. BatchWaits /\ AcceptedStored
    BY DEF Init, BatchWaits, AcceptedStored, Uploading
<1> QED
    BY <1>2, <1>3, <1>4, Limits DEF Init, QueueInv

\* The beginning of a cycle and of a round, the rest of the bisection.
LEMMA CycleSteps ==
    ASSUME QueueInv, StartCycle \/ BisectEnds \/ BisectOutOfBudget
    PROVE  QueueInv'
<1> USE DEF QueueInv, table, session, timer
<1>1. CASE StartCycle
  <2>1. pc' \in {"idle", "fetch"} /\ sync_backoff' \in 0 .. BackoffMax
    BY <1>1, EndCycleTypes DEF StartCycle, TypeOK
  <2>2. TypeOK' /\ round' < MaxRounds
    BY <1>1, <2>1, Limits DEF StartCycle, TypeOK, Places
  <2> QED
    BY <1>1, <2>1, <2>2
       DEF StartCycle, ReportInBatch, BatchWaits, AcceptedStored, Uploading
<1>2. CASE BisectEnds
  <2>1. TypeOK'
    BY <1>2 DEF BisectEnds, TypeOK, Places
  <2> QED
    BY <1>2, <2>1
       DEF BisectEnds, ReportInBatch, BatchWaits, AcceptedStored, Uploading, InCloud
<1>3. CASE BisectOutOfBudget
  <2>1. /\ report' \in Bisect!Reports
        /\ report'.pending = report.pending
        /\ report'.accepted = report.accepted
        /\ report'.rejected = report.rejected
    BY <1>3 DEF BisectOutOfBudget, Bisect!OutOfBudget, TypeOK, Bisect!Reports
  <2>2. TypeOK'
    BY <1>3, <2>1 DEF BisectOutOfBudget, TypeOK
  <2> QED
    BY <1>3, <2>1, <2>2
       DEF BisectOutOfBudget, ReportInBatch, BatchWaits, AcceptedStored, Uploading, InCloud
<1> QED
    BY <1>1, <1>2, <1>3

\* Every row, here and in the cloud, has been inserted.
LEMMA RowsAreIds ==
    ASSUME TypeOK
    PROVE  db \subseteq Ids /\ cloud \subseteq Ids /\ 1 .. inserted \subseteq Ids
<1>1. inserted \in Nat /\ inserted <= N
    BY Limits DEF TypeOK
<1>2. 1 .. inserted \subseteq 1 .. N
    BY <1>1, Limits
<1> QED
    BY <1>2 DEF TypeOK, Ids

\* A sequence over a set is one over every larger set.
LEMMA SeqMonotone ==
    ASSUME NEW S, NEW T, S \subseteq T, NEW s \in Seq(S)
    PROVE  s \in Seq(T)
<1>1. Len(s) \in Nat /\ s = [k \in 1 .. Len(s) |-> s[k]] /\ \A k \in 1 .. Len(s) : s[k] \in T
    OBVIOUS
<1>2. [k \in 1 .. Len(s) |-> s[k]] \in Seq(T)
    BY <1>1
<1> QED
    BY <1>1, <1>2

\* db_get_unsynced_records and a new report.
LEMMA FetchStep ==
    ASSUME QueueInv, Fetch
    PROVE  QueueInv'
<1> USE DEF QueueInv, table, session, timer
<1>1. batch' \in Seq(Due) /\ Len(batch') \in Nat
    BY FetchedAreDue DEF Fetch
<1>2. \A k \in 1 .. Len(batch') : batch'[k] \in Due
    BY <1>1
<1>3. Due \subseteq db \ synced /\ Due \subseteq Ids
    BY RowsAreIds DEF Due
<1>4. batch' \in Seq(Ids)
    BY <1>1, <1>3, SeqMonotone
<1>5. /\ report' \in Bisect!Reports
      /\ \A k \in DOMAIN report'.pending :
            report'.pending[k].lo < report'.pending[k].hi /\ report'.pending[k].hi <= Len(batch')
      /\ report'.accepted = {}
      /\ report'.rejected = {}
    BY <1>1, StartReport DEF Fetch
<1>6. pc' \in Places /\ sync_backoff' \in 0 .. BackoffMax
    BY EndCycleTypes DEF Fetch, TypeOK, Places
<1>7. TypeOK'
    BY <1>4, <1>5, <1>6 DEF Fetch, TypeOK
<1>8. ReportInBatch'
    BY <1>5 DEF ReportInBatch
<1>9. BatchWaits' /\ AcceptedStored'
    BY <1>2, <1>3, <1>5 DEF Fetch, BatchWaits, AcceptedStored
<1> QED
    BY <1>7, <1>8, <1>9 DEF Fetch

\* A request is answered, or not: network_send_batch.
LEMMA AttemptSteps ==
    ASSUME QueueInv, AttemptLost \/ AttemptBusy \/ AttemptUnauthorized \/ AttemptRefused \/ AttemptAccepted
    PROVE  QueueInv'
<1> USE DEF QueueInv, table, session, timer
<1>1. /\ pc = "attempt" /\ UNCHANGED <<table, batch, round, attempt, timer, session, net, db_ok, crashes>>
      /\ objected' = objected \/ objected' = objected \cup Sending
    BY DEF AttemptLost, AttemptBusy, AttemptUnauthorized, AttemptRefused, AttemptAccepted
<1>2. \/ UNCHANGED <<report, cloud>> /\ pc' = "refresh"
      \/ \E o \in {"Rejected", "TransportError"} :
            /\ Bisect!Answer(o) /\ pc' = "send"
            /\ cloud' \in {cloud, Upsert(Sending)}
      \/ Bisect!Answer("Accepted") /\ pc' = "send" /\ cloud' = Upsert(Sending)
    BY DEF AttemptLost, AttemptBusy, AttemptUnauthorized, AttemptRefused, AttemptAccepted, Returns
<1>3. CASE UNCHANGED <<report, cloud>> /\ pc' = "refresh"
  <2>1. objected' \subseteq Ids
    <3>1. CASE objected' = objected
      BY <3>1 DEF TypeOK
    <3>2. CASE objected' = objected \cup Sending /\ report.pending # <<>>
      BY <1>1, <3>2, SendingWaits, RowsAreIds DEF TypeOK, Uploading
    <3> QED
      BY <1>1, <1>3, <3>1, <3>2 DEF AttemptLost, AttemptBusy, AttemptUnauthorized, AttemptRefused,
         AttemptAccepted, Returns, Bisect!Answer, Bisect!Busy
  <2>2. TypeOK'
    BY <1>1, <1>3, <2>1 DEF TypeOK, Places
  <2> QED
    BY <1>1, <1>3, <2>2 DEF ReportInBatch, BatchWaits, AcceptedStored, Uploading, InCloud
<1>4. ASSUME NEW o \in {"Accepted", "Rejected", "TransportError"}, Bisect!Answer(o), pc' = "send",
             cloud' \in {cloud, Upsert(Sending)}, o = "Accepted" => cloud' = Upsert(Sending)
      PROVE  QueueInv'
  <2>1. report.pending # <<>>
    BY <1>4 DEF Bisect!Answer, Bisect!Busy
  <2>2. Sending \subseteq db \ synced /\ Sending \subseteq Ids /\ Sending \subseteq 1 .. inserted
    BY <1>1, <2>1, SendingWaits, RowsAreIds DEF TypeOK, Uploading
  <2>3. /\ report' \in Bisect!Reports
        /\ ReportInBatch'
        /\ report'.accepted = report.accepted \cup (IF o = "Accepted" THEN Bisect!Members(Bisect!Top) ELSE {})
    BY <1>1, <1>4, AnswerReport
  <2>4. cloud' \subseteq 1 .. inserted
    BY <1>4, <2>2 DEF TypeOK, Upsert
  <2>5. TypeOK'
    BY <1>1, <1>4, <2>2, <2>3, <2>4 DEF TypeOK, Places
  <2>6. BatchWaits'
    BY <1>1 DEF BatchWaits, Uploading
  <2>7. \A i : InCloud(i) => \E j \in cloud' : StartOf[j] = StartOf[i]
    BY <1>4 DEF InCloud, Upsert
  <2>8. o = "Accepted" => \A k \in Bisect!Members(Bisect!Top) :
                             \E j \in cloud' : StartOf[j] = StartOf[batch[k + 1]]
    BY <1>4 DEF Upsert, Sending
  <2>9. AcceptedStored'
    BY <1>1, <2>3, <2>7, <2>8 DEF AcceptedStored, Uploading, InCloud
  <2> QED
    BY <1>1, <2>3, <2>5, <2>6, <2>9
<1> QED
    BY <1>2, <1>3, <1>4

\* The rest of network_send_batch.
LEMMA SendSteps ==
    ASSUME QueueInv, SendBegin \/ RefreshFails \/ RefreshSucceeds
    PROVE  QueueInv'
<1> USE DEF QueueInv, table, session, timer
<1>1. /\ pc \in {"send", "refresh"} /\ pc' \in {"send", "attempt"}
      /\ attempt' \in {0, 1}
      /\ logged_in' \in BOOLEAN /\ token_ok' \in BOOLEAN /\ (token_ok' => logged_in')
      /\ UNCHANGED <<table, cloud, batch, round, timer, net, db_ok, crashes, objected>>
      /\ UNCHANGED report \/ Bisect!Answer("TransportError")
  <2>1. CASE SendBegin
    BY <2>1 DEF SendBegin, Returns, TypeOK
  <2>2. CASE RefreshFails
    <3>1. logged_in' \in BOOLEAN /\ token_ok' = token_ok /\ token_ok = FALSE
      BY <2>2 DEF RefreshFails, TypeOK
    <3> QED
      BY <2>2, <3>1 DEF RefreshFails, Returns, TypeOK
  <2>3. CASE RefreshSucceeds
    <3>1. logged_in' = TRUE /\ token_ok' = TRUE
      BY <2>3 DEF RefreshSucceeds, TypeOK
    <3> QED
      BY <2>3, <3>1 DEF RefreshSucceeds
  <2> QED
    BY <2>1, <2>2, <2>3
<1>2. report' \in Bisect!Reports /\ ReportInBatch' /\ report'.accepted = report.accepted
  <2>1. CASE UNCHANGED report
    BY <1>1, <2>1 DEF TypeOK, ReportInBatch
  <2>2. CASE Bisect!Answer("TransportError")
    BY <1>1, <2>2, AnswerReport
  <2> QED
    BY <1>1, <2>1, <2>2
<1>3. TypeOK'
    BY <1>1, <1>2 DEF TypeOK, Places
<1>4. BatchWaits' /\ AcceptedStored'
    BY <1>1, <1>2 DEF BatchWaits, AcceptedStored, Uploading, InCloud
<1> QED
    BY <1>1, <1>2, <1>3, <1>4

\* db_mark_synced_batch, db_mark_sync_failed and the end of the round.
LEMMA RecordSteps ==
    ASSUME QueueInv, MarkSynced \/ MarkSyncFailed \/ RoundEnds
    PROVE  QueueInv'
<1> USE DEF QueueInv, table, session, timer
<1>1. CASE MarkSynced
  <2>1. synced' \subseteq db
    BY <1>1 DEF MarkSynced, TypeOK
  <2>2. TypeOK'
    BY <1>1, <2>1 DEF MarkSynced, TypeOK, Places
  <2> QED
    BY <1>1, <2>2 DEF MarkSynced, ReportInBatch, BatchWaits, AcceptedStored, Uploading
<1>2. CASE MarkSyncFailed
  <2>1. PICK k \in report.rejected :
          /\ report' = [report EXCEPT !.rejected = @ \ {k}]
          /\ \/ /\ retry' = [retry EXCEPT ![batch[k + 1]] = Lesser(@ + 1, RetryCap)]
                /\ wait' = [wait EXCEPT ![batch[k + 1]] = RetryDelay(retry[batch[k + 1]])]
             \/ UNCHANGED <<retry, wait>>
    BY <1>2 DEF MarkSyncFailed
  <2>2. /\ report' \in Bisect!Reports
        /\ report'.pending = report.pending
        /\ report'.accepted = report.accepted
        /\ report'.rejected \subseteq report.rejected
    BY <2>1 DEF TypeOK, Bisect!Reports
  <2>3. batch[k + 1] \in Ids
    <3>1. k \in 0 .. Len(batch) - 1 /\ Len(batch) \in Nat
      BY <2>1 DEF ReportInBatch, TypeOK
    <3>2. k + 1 \in 1 .. Len(batch)
      BY <3>1
    <3> QED
      BY <3>2 DEF TypeOK
  <2>4. \A i \in Ids : /\ Lesser(retry[i] + 1, RetryCap) \in 0 .. RetryCap
                       /\ RetryDelay(retry[i]) \in Int
                       /\ RetryDelay(retry[i]) >= NeverFailed
    <3>1. \A i \in Ids : retry[i] \in 0 .. RetryCap
      BY DEF TypeOK
    <3>2. \A i \in Ids : RetryDelay(retry[i]) \in Nat
      BY <3>1, DelayIsPositive
    <3>3. \A i \in Ids : Lesser(retry[i] + 1, RetryCap) \in 0 .. RetryCap
      BY <3>1, Limits DEF Lesser
    <3> QED
      BY <3>2, <3>3, Limits
  <2>5. /\ retry' \in [Ids -> 0 .. RetryCap]
        /\ wait' \in [Ids -> Int]
        /\ \A i \in Ids : wait'[i] >= NeverFailed
    BY <2>1, <2>3, <2>4 DEF TypeOK
  <2>6. TypeOK'
    BY <1>2, <2>2, <2>5 DEF MarkSyncFailed, TypeOK
  <2>7. ReportInBatch'
    BY <1>2, <2>2 DEF MarkSyncFailed, ReportInBatch
  <2> QED
    BY <1>2, <2>6, <2>7 DEF MarkSyncFailed, BatchWaits, AcceptedStored, Uploading
<1>3. CASE RoundEnds
  <2>1. /\ Bisect!Start(0) \in Bisect!Reports
        /\ \A k \in DOMAIN Bisect!Start(0).pending :
              /\ Bisect!Start(0).pending[k].lo < Bisect!Start(0).pending[k].hi
              /\ Bisect!Start(0).pending[k].hi <= 0
        /\ Bisect!Start(0).accepted = {}
        /\ Bisect!Start(0).rejected = {}
    <3>1. 0 \in Nat
      OBVIOUS
    <3> QED
      BY <3>1, StartReport
  <2>2. /\ pc' \in {"idle", "fetch"} /\ sync_backoff' \in 0 .. BackoffMax
        /\ round' = round \/ (round' = round + 1 /\ round + 1 # MaxRounds)
    BY <1>3, EndCycleTypes DEF RoundEnds, TypeOK
  <2>3. round' \in 0 .. MaxRounds /\ round' < MaxRounds
    BY <2>2, Limits DEF TypeOK
  <2>4. TypeOK'
    BY <1>3, <2>1, <2>2, <2>3 DEF RoundEnds, TypeOK, Places
  <2>5. ReportInBatch'
    BY <1>3, <2>1 DEF RoundEnds, ReportInBatch
  <2> QED
    BY <2>2, <2>3, <2>4, <2>5 DEF BatchWaits, AcceptedStored, Uploading
<1> QED
    BY <1>1, <1>2, <1>3

\* The surroundings.
LEMMA SurroundingSteps ==
    ASSUME QueueInv, Surroundings
    PROVE  QueueInv'
<1> USE DEF QueueInv, table, session, timer
<1>1. CASE InsertActivity
  <2>1. inserted + 1 \in 0 .. N /\ 1 .. inserted + 1 = (1 .. inserted) \cup {inserted + 1}
    BY <1>1, Limits DEF InsertActivity, TypeOK
  <2>2. TypeOK'
    BY <1>1, <2>1 DEF InsertActivity, TypeOK
  <2> QED
    BY <1>1, <2>2 DEF InsertActivity, ReportInBatch, BatchWaits, AcceptedStored, InCloud
<1>2. CASE DeleteOld
  <2>1. /\ db' \subseteq db /\ synced' \subseteq db' /\ pc = "idle" /\ pc' = "idle"
        /\ UNCHANGED <<inserted, retry, wait, cloud, batch, report, round, attempt,
                       timer, session, net, db_ok, crashes, objected>>
    <3>1. PICK k \in synced : /\ db' = db \ {i \in synced : i <= k}
                              /\ synced' = {i \in synced : i > k}
      BY <1>2 DEF DeleteOld
    <3>2. \A i \in synced : i \in Int
      BY Limits DEF TypeOK
    <3>3. \A i \in synced : i > k => ~(i <= k)
      BY <3>2
    <3> QED
      BY <1>2, <3>1, <3>3 DEF DeleteOld, TypeOK
  <2>2. TypeOK'
    BY <2>1 DEF TypeOK
  <2> QED
    BY <2>1, <2>2 DEF ReportInBatch, BatchWaits, AcceptedStored, Uploading
<1>3. CASE Tick
  <2>1. elapsed' \in 0 .. SyncInterval + BackoffMax
    BY <1>3, Limits DEF Tick, TypeOK, Lesser
  <2>2. wait' \in [Ids -> Int] /\ \A i \in Ids : wait'[i] >= NeverFailed
    BY <1>3, AgedIsEarlier DEF Tick
  <2>3. TypeOK'
    BY <1>3, <2>1, <2>2 DEF Tick, TypeOK
  <2> QED
    BY <1>3, <2>3 DEF Tick, ReportInBatch, BatchWaits, AcceptedStored, InCloud
<1>4. CASE NetChanges \/ DbChanges \/ TokenExpires \/ Logout \/ Login
  <2>1. TypeOK'
    <3>1. CASE NetChanges
      BY <3>1 DEF NetChanges, TypeOK
    <3>2. CASE DbChanges
      BY <3>2 DEF DbChanges, TypeOK
    <3>3. CASE TokenExpires \/ Logout \/ Login
      BY <3>3 DEF TokenExpires, Logout, Login, TypeOK
    <3> QED
      BY <1>4, <3>1, <3>2, <3>3
  <2>2. UNCHANGED <<table, cloud, pc, batch, report, round>>
    BY <1>4 DEF NetChanges, DbChanges, TokenExpires, Logout, Login
  <2> QED
    BY <2>1, <2>2 DEF ReportInBatch, BatchWaits, AcceptedStored, InCloud
<1>5. CASE Crash
  <2>1. /\ Bisect!Start(0) \in Bisect!Reports
        /\ \A k \in DOMAIN Bisect!Start(0).pending :
              /\ Bisect!Start(0).pending[k].lo < Bisect!Start(0).pending[k].hi
              /\ Bisect!Start(0).pending[k].hi <= 0
        /\ Bisect!Start(0).accepted = {}
        /\ Bisect!Start(0).rejected = {}
    <3>1. 0 \in Nat
      OBVIOUS
    <3> QED
      BY <3>1, StartReport
  <2>2. TypeOK' /\ round' < MaxRounds
    <3>1. /\ crashes' \in 0 .. MaxCrashes /\ round' \in 0 .. MaxRounds /\ round' < MaxRounds
          /\ elapsed' \in 0 .. SyncInterval + BackoffMax /\ sync_backoff' \in 0 .. BackoffMax
          /\ batch' \in Seq(Ids) /\ pc' \in Places /\ attempt' \in {0, 1} /\ objected' \subseteq Ids
      BY <1>5, Limits DEF Crash, TypeOK, Places
    <3> QED
      BY <1>5, <2>1, <3>1 DEF Crash, TypeOK
  <2>3. ReportInBatch'
    BY <1>5, <2>1 DEF Crash, ReportInBatch
  <2> QED
    BY <1>5, <2>2, <2>3 DEF Crash, BatchWaits, AcceptedStored, Uploading
<1> QED
    BY <1>1, <1>2, <1>3, <1>4, <1>5 DEF Surroundings

(* A batch under way consists of rows that wait in the table, the report   *)
(* speaks of no other, and what it calls accepted is in the cloud: through *)
(* every answer, fault and crash.                                          *)
THEOREM QueueInvariant == Spec => []QueueInv
<1>1. Init => QueueInv
    BY QueueInit
<1>2. QueueInv /\ [Next]_vars => QueueInv'
  <2> SUFFICES ASSUME QueueInv, [Next]_vars PROVE QueueInv'
      OBVIOUS
  <2>1. CASE CloudThread
    BY <2>1, CycleSteps, FetchStep, AttemptSteps, SendSteps, RecordSteps DEF CloudThread, SendBatch
  <2>2. CASE Surroundings
    BY <2>2, SurroundingSteps
  <2>3. CASE UNCHANGED vars
    <3>1. UNCHANGED <<inserted, db, synced, retry, wait, cloud, pc, batch, report, round, attempt,
                      elapsed, sync_backoff, logged_in, token_ok, net, db_ok, crashes, objected>>
      BY <2>3 DEF vars
    <3>2. TypeOK'
      BY <3>1 DEF QueueInv, TypeOK
    <3> QED
      BY <3>1, <3>2 DEF QueueInv, ReportInBatch, BatchWaits, AcceptedStored, InCloud
  <2> QED
    BY <2>1, <2>2, <2>3 DEF Next
<1> QED
    BY <1>1, <1>2, PTL DEF Spec

-----------------------------------------------------------------------------
(* The promise.                                                            *)

\* The abstract view changes with the table and the cloud only.
LEMMA SameView ==
    ASSUME UNCHANGED <<inserted, cloud>>, db' \ synced' = db \ synced
    PROVE  UNCHANGED Promise!outboxVars
BY DEF Promise!outboxVars, Keyed

\* A step that stores what is being sent delivers an activity that waits.
LEMMA DeliveryStep ==
    ASSUME QueueInv, AttemptLost \/ AttemptAccepted
    PROVE  [Promise!Next]_(Promise!outboxVars)
<1>1. pc \in Uploading /\ UNCHANGED table /\ report.pending # <<>>
    BY DEF AttemptLost, AttemptAccepted, Returns, Bisect!Answer, Bisect!Busy, Uploading
<1>2. cloud' = cloud \/ (ValidPayload /\ cloud' = Upsert(Sending))
    BY DEF AttemptLost, AttemptAccepted
<1>3. CASE cloud' = cloud
    BY <1>1, <1>3, SameView DEF table
<1>4. CASE ValidPayload /\ cloud' = Upsert(Sending)
  <2>1. Sending \subseteq db \ synced
    BY <1>1, SendingWaits
  <2>2. IsFiniteSet(Sending)
    <3>1. IsFiniteSet(Ids)
      <4>1. 1 \in Int /\ N \in Int
        BY Limits
      <4> QED
        BY <4>1, FS_Interval DEF Ids
    <3>2. Sending \subseteq Ids
      BY <2>1, RowsAreIds DEF QueueInv
    <3> QED
      BY <3>1, <3>2, FS_Subset
  <2>3. PICK i : Sending = {i}
    BY <1>4, <2>2, FS_Singleton DEF ValidPayload
  <2>4. Keyed(Sending) = {StartOf[i]} /\ StartOf[i] \in Keyed(db \ synced)
    BY <2>1, <2>3 DEF Keyed
  <2>5. Keyed(cloud') = Keyed(cloud) \cup {StartOf[i]}
    BY <1>4, <2>4, UpsertKeys
  <2>6. Keyed(db' \ synced') = Keyed(db \ synced) /\ Keyed(1 .. inserted') = Keyed(1 .. inserted)
    BY <1>1 DEF table
  <2>7. Promise!Deliver
    BY <2>4, <2>5, <2>6 DEF Promise!Deliver, Keyed
  <2> QED
    BY <2>7 DEF Promise!Next
<1> QED
    BY <1>2, <1>3, <1>4

\* db_mark_synced_batch confirms what is in the cloud.
LEMMA ConfirmStep ==
    ASSUME QueueInv, MarkSynced
    PROVE  [Promise!Next]_(Promise!outboxVars)
<1> DEFINE done == Keyed(db \ synced) \ Keyed(db' \ synced')
<1>1. /\ UNCHANGED <<inserted, db, cloud>>
      /\ synced \subseteq synced'
      /\ synced' \subseteq synced \cup AcceptedIds
    BY DEF MarkSynced
<1>2. \A i \in AcceptedIds : StartOf[i] \in Keyed(cloud)
    BY DEF AcceptedIds, IdsAt, MarkSynced, QueueInv, AcceptedStored, Uploading, InCloud, Keyed
<1>3. \A k \in done : k \in Keyed(cloud)
  <2> SUFFICES ASSUME NEW k \in done PROVE k \in Keyed(cloud)
      OBVIOUS
  <2>1. PICK i \in db \ synced : k = StartOf[i]
    BY DEF Keyed
  <2>2. i \in AcceptedIds
    BY <1>1, <2>1 DEF Keyed
  <2> QED
    BY <1>2, <2>1, <2>2
<1>4. Keyed(db' \ synced') = Keyed(db \ synced) \ done
    BY <1>1 DEF Keyed
<1>5. done \in SUBSET (Keyed(db \ synced) \cap Keyed(cloud))
    BY <1>3
<1> HIDE DEF done
<1>6. Promise!Confirm
    BY <1>1, <1>4, <1>5 DEF Promise!Confirm, Keyed
<1> QED
    BY <1>6 DEF Promise!Next

\* Every step of the queue is one of the outbox, or changes nothing there.
LEMMA PromiseStep ==
    ASSUME QueueInv, [Next]_vars
    PROVE  [Promise!Next]_(Promise!outboxVars)
<1> USE DEF table
<1>1. CASE InsertActivity
  <2>1. inserted + 1 \in Ids /\ inserted + 1 \notin synced
    BY <1>1, Limits DEF InsertActivity, QueueInv, TypeOK, Ids
  <2>2. 1 .. inserted' = (1 .. inserted) \cup {inserted + 1}
    BY <1>1, Limits DEF InsertActivity, QueueInv, TypeOK
  <2>3. db' \ synced' = (db \ synced) \cup {inserted + 1} /\ cloud' = cloud
    BY <1>1, <2>1 DEF InsertActivity
  <2> DEFINE k == StartOf[inserted + 1]
  <2>4. /\ Keyed(1 .. inserted') = Keyed(1 .. inserted) \cup {k}
        /\ Keyed(db' \ synced') = Keyed(db \ synced) \cup {k}
        /\ Keyed(cloud') = Keyed(cloud)
        /\ k \in Keyed(Ids)
    BY <2>1, <2>2, <2>3 DEF Keyed
  <2> HIDE DEF k
  <2>5. Promise!HandOver
    BY <2>4 DEF Promise!HandOver, Keyed
  <2> QED
    BY <2>5 DEF Promise!Next
<1>2. CASE AttemptLost \/ AttemptAccepted
    BY <1>2, DeliveryStep
<1>3. CASE MarkSynced
    BY <1>3, ConfirmStep
<1>4. CASE DeleteOld
  <2>1. UNCHANGED <<inserted, cloud>> /\ db' \ synced' = db \ synced
    <3>1. PICK k \in synced : /\ db' = db \ {i \in synced : i <= k}
                              /\ synced' = {i \in synced : i > k}
      BY <1>4 DEF DeleteOld
    <3>2. \A i \in synced : i \in Int /\ i \in db
      BY Limits DEF QueueInv, TypeOK
    <3>3. \A i \in synced : i > k <=> ~(i <= k)
      BY <3>2
    <3> QED
      BY <1>4, <3>1, <3>3 DEF DeleteOld
  <2> QED
    BY <2>1, SameView
<1>5. CASE UNCHANGED <<inserted, db, synced, cloud>>
    BY <1>5, SameView
<1> QED
    BY <1>1, <1>2, <1>3, <1>4, <1>5
       DEF Next, CloudThread, Surroundings, SendBatch, vars,
           StartCycle, Fetch, BisectEnds, BisectOutOfBudget, SendBegin, AttemptBusy, AttemptUnauthorized,
           AttemptRefused, RefreshFails, RefreshSucceeds, MarkSyncFailed, RoundEnds, Tick, NetChanges,
           DbChanges, TokenExpires, Logout, Login, Crash

(* The upload queue implements the outbox: for any number of rows, batch   *)
(* size, budget and backoff, with bad rows, lost answers, failing          *)
(* statements, logouts and crashes, an activity that was recorded waits    *)
(* until it is in the cloud, and leaves the queue only then.               *)
THEOREM QueueKeepsItsPromise == Spec => NothingLost
<1>1. Init => Promise!Init
    BY DEF Init, Promise!Init, Keyed
<1>2. QueueInv /\ [Next]_vars => [Promise!Next]_(Promise!outboxVars)
    BY PromiseStep
<1> QED
    BY <1>1, <1>2, QueueInvariant, PTL DEF Spec, NothingLost, Promise!Spec

-----------------------------------------------------------------------------
(* Penalties.                                                              *)

\* As long as the token is good, a record is rejected by itself only when
\* the server refused it alone.
LEMMA RejectedStep ==
    ASSUME SessionFaults = FALSE, QueueInv, RejectedObjected, [Next]_vars
    PROVE  RejectedObjected'
<1> USE DEF RejectedObjected, session
<1>0. TypeOK /\ ReportInBatch
    BY DEF QueueInv
<1>1. token_ok'
  <2>1. CASE RefreshFails
    BY <2>1 DEF RefreshFails
  <2>2. CASE TokenExpires \/ Logout
    BY <2>2 DEF TokenExpires, Logout
  <2>3. CASE RefreshSucceeds \/ Login
    BY <2>3 DEF RefreshSucceeds, Login
  <2>4. CASE UNCHANGED token_ok
    BY <2>4
  <2> QED
    BY <2>1, <2>2, <2>3, <2>4
       DEF Next, CloudThread, Surroundings, SendBatch, vars,
           StartCycle, Fetch, BisectEnds, BisectOutOfBudget, SendBegin, AttemptLost, AttemptBusy,
           AttemptUnauthorized, AttemptRefused, AttemptAccepted, MarkSynced, MarkSyncFailed, RoundEnds,
           InsertActivity, DeleteOld, Tick, NetChanges, DbChanges, Crash
<1>2. ASSUME UNCHANGED <<batch, objected>>, report'.rejected \subseteq report.rejected
      PROVE  RejectedObjected'
    BY <1>1, <1>2
<1>3. ASSUME report' = Bisect!Start(0) \/ report' = Bisect!Start(Len(batch')) PROVE RejectedObjected'
  <2>1. report'.rejected = {}
    BY <1>3 DEF Bisect!Start
  <2> QED
    BY <1>1, <2>1
<1>4. CASE Fetch \/ RoundEnds \/ Crash
    BY <1>3, <1>4 DEF Fetch, RoundEnds, Crash
<1>5. CASE AttemptRefused
  <2>1. Bisect!Answer("Rejected") /\ UNCHANGED batch /\ objected \subseteq objected'
    BY <1>5 DEF AttemptRefused, Returns
  <2>2. CASE report'.rejected = report.rejected
    BY <1>1, <2>1, <2>2
  <2>3. CASE /\ Bisect!Top.hi = Bisect!Top.lo + 1
             /\ report'.rejected = report.rejected \cup {Bisect!Top.lo}
    <3>1. Bisect!Top.lo \in Nat
      BY <1>0, <2>1, TopInBatch DEF Bisect!Answer, Bisect!Busy
    <3>2. Bisect!Members(Bisect!Top) = {Bisect!Top.lo}
      BY <2>3, <3>1 DEF Bisect!Members
    <3>3. Sending = {batch[Bisect!Top.lo + 1]}
      BY <3>2 DEF Sending
    <3>4. Cardinality(Sending) = 1
      BY <3>3, FS_Singleton
    <3>5. batch[Bisect!Top.lo + 1] \in objected'
      BY <1>5, <3>3, <3>4 DEF AttemptRefused
    <3> QED
      BY <1>1, <2>1, <2>3, <3>5
  <2> QED
    BY <1>0, <2>1, <2>2, <2>3, AnswerReport
<1>6. ASSUME NEW o \in {"Accepted", "TransportError"}, Bisect!Answer(o), UNCHANGED <<batch, objected>>
      PROVE  RejectedObjected'
  <2>1. report'.rejected = report.rejected
    BY <1>0, <1>6, AnswerReport
  <2> QED
    BY <1>2, <1>6, <2>1
<1>7. CASE SendBegin \/ AttemptLost \/ AttemptBusy \/ AttemptAccepted \/ RefreshFails
    BY <1>2, <1>6, <1>7 DEF SendBegin, AttemptLost, AttemptBusy, AttemptAccepted, RefreshFails, Returns
<1>8. CASE AttemptUnauthorized
    BY <1>8 DEF AttemptUnauthorized
<1>9. CASE MarkSyncFailed \/ BisectOutOfBudget
  <2>1. report'.rejected \subseteq report.rejected /\ UNCHANGED <<batch, objected>>
    BY <1>0, <1>9 DEF MarkSyncFailed, BisectOutOfBudget, Bisect!OutOfBudget, TypeOK, Bisect!Reports
  <2> QED
    BY <1>2, <2>1
<1>10. CASE UNCHANGED <<report, batch, objected>>
    BY <1>2, <1>10
<1> QED
    BY <1>4, <1>5, <1>7, <1>8, <1>9, <1>10
       DEF Next, CloudThread, Surroundings, SendBatch, vars,
           StartCycle, BisectEnds, RefreshSucceeds, MarkSynced,
           InsertActivity, DeleteOld, Tick, NetChanges, DbChanges, TokenExpires, Logout, Login

\* Only db_mark_sync_failed puts a row off.
LEMMA PenaltyStep ==
    ASSUME QueueInv, RejectedObjected, [Next]_vars, NEW i \in Ids, wait'[i] > Greater(wait[i], 0)
    PROVE  i \in objected
<1>1. wait[i] \in Int
    BY DEF QueueInv, TypeOK
<1>2. CASE UNCHANGED wait
    BY <1>1, <1>2 DEF Greater
<1>3. CASE Tick
  <2>1. wait'[i] \in Int /\ wait'[i] <= Greater(wait[i], 0)
    BY <1>3, AgedIsEarlier DEF Tick, QueueInv
  <2> QED
    BY <1>1, <2>1 DEF Greater
<1>4. CASE MarkSyncFailed
  <2>1. PICK k \in report.rejected :
          wait' = [wait EXCEPT ![batch[k + 1]] = RetryDelay(retry[batch[k + 1]])] \/ UNCHANGED wait
    BY <1>4 DEF MarkSyncFailed
  <2>2. CASE i = batch[k + 1]
    BY <2>1, <2>2 DEF RejectedObjected
  <2>3. CASE i # batch[k + 1]
    <3>1. wait'[i] = wait[i]
      BY <2>1, <2>3 DEF QueueInv, TypeOK
    <3> QED
      BY <1>1, <3>1 DEF Greater
  <2> QED
    BY <2>2, <2>3
<1> QED
    BY <1>2, <1>3, <1>4
       DEF Next, CloudThread, Surroundings, SendBatch, vars, table,
           StartCycle, Fetch, BisectEnds, BisectOutOfBudget, SendBegin, AttemptLost, AttemptBusy,
           AttemptUnauthorized, AttemptRefused, AttemptAccepted, RefreshFails, RefreshSucceeds, MarkSynced,
           RoundEnds, InsertActivity, DeleteOld, NetChanges, DbChanges, TokenExpires, Logout, Login, Crash

(* A retry is put off only for a record the server objected to when it was *)
(* sent alone, whatever the network, the server's load and the database    *)
(* do; the session has to last, for a second 401 counts as a rejection     *)
(* (network.cpp).                                                          *)
THEOREM OnlyObjectedArePenalised ==
    ASSUME SessionFaults = FALSE
    PROVE  Spec => PenaltyDeserved
<1>1. Init => RejectedObjected
    BY DEF Init, RejectedObjected, Bisect!Start
<1>2. QueueInv /\ RejectedObjected /\ [Next]_vars => RejectedObjected'
    BY RejectedStep
<1>3. QueueInv /\ RejectedObjected /\ [Next]_vars
      => [\A i \in Ids : wait'[i] > Greater(wait[i], 0) => i \in objected]_vars
    BY PenaltyStep
<1> QED
    BY <1>1, <1>2, <1>3, QueueInvariant, PTL DEF Spec, PenaltyDeserved
=============================================================================
