--------------------------- MODULE BatchSendProofs ---------------------------
(***************************************************************************)
(* Proofs about BatchSend, for every batch size, set of bad records and    *)
(* budget of requests.                                                     *)
(***************************************************************************)
EXTENDS BatchSend, SequenceTheorems, FiniteSetTheorems, TLAPS

(* The stack is what is left after popping its top, and the top.           *)
LEMMA Pop ==
    ASSUME TypeOK, report.pending # <<>>
    PROVE  /\ Top \in Ranges
           /\ Len(report.pending) \in Nat \ {0}
           /\ Rest \in Seq(Ranges)
           /\ Len(Rest) = Len(report.pending) - 1
           /\ \A i \in DOMAIN Rest :
                 /\ i \in DOMAIN report.pending
                 /\ i < Len(report.pending)
                 /\ Rest[i] = report.pending[i]
           /\ Len(report.pending) \in DOMAIN report.pending
           /\ Covered(report.pending) = Covered(Rest) \cup Members(Top)
<1> DEFINE p == report.pending
<1>1. p \in Seq(Ranges) /\ p # <<>>
    BY DEF TypeOK, Reports
<1> HIDE DEF p
<1>2. Len(p) \in Nat \ {0} /\ DOMAIN p = 1 .. Len(p)
    BY <1>1
<1>3. p[Len(p)] \in Ranges
    BY <1>1, <1>2
<1>4. /\ SubSeq(p, 1, Len(p) - 1) \in Seq(Ranges)
      /\ Len(SubSeq(p, 1, Len(p) - 1)) = Len(p) - 1
      /\ DOMAIN SubSeq(p, 1, Len(p) - 1) = 1 .. Len(p) - 1
      /\ \A i \in 1 .. Len(p) - 1 : SubSeq(p, 1, Len(p) - 1)[i] = p[i]
    BY <1>1, <1>2
<1>5. DOMAIN p = (1 .. Len(p) - 1) \cup {Len(p)}
    BY <1>2
<1>6. Covered(p) = Covered(SubSeq(p, 1, Len(p) - 1)) \cup Members(p[Len(p)])
    BY <1>4, <1>5 DEF Covered
<1> QED
    BY <1>2, <1>3, <1>4, <1>6 DEF p, Top, Rest

(* The two halves of a range of more than one record make up the range.    *)
LEMMA Split ==
    ASSUME NEW r \in Ranges, r.lo < r.hi, r.hi - r.lo # 1
    PROVE  /\ Halves(r) \in Seq(Ranges)
           /\ Len(Halves(r)) = 2
           /\ Halves(r)[1].hi = r.hi
           /\ Halves(r)[2].lo = r.lo
           /\ Halves(r)[1].lo = Halves(r)[2].hi
           /\ r.lo < Halves(r)[2].hi
           /\ Halves(r)[2].hi < r.hi
<1> DEFINE mid == r.lo + (r.hi - r.lo) \div 2
<1>1. r.lo \in Nat /\ r.hi \in Nat
    BY DEF Ranges
<1>2. mid \in Nat /\ r.lo < mid /\ mid < r.hi
  <2>1. \A d \in Nat : d >= 2 => d \div 2 \in Nat /\ d \div 2 >= 1 /\ d \div 2 < d
    OBVIOUS
  <2>2. r.hi - r.lo \in Nat /\ r.hi - r.lo >= 2
    BY <1>1
  <2>3. PICK h \in Nat : h = (r.hi - r.lo) \div 2 /\ h >= 1 /\ h < r.hi - r.lo
    BY <2>1, <2>2
  <2> QED
    BY <1>1, <2>3
<1> HIDE DEF mid
<1>3. Halves(r) = <<[lo |-> mid, hi |-> r.hi], [lo |-> r.lo, hi |-> mid]>>
    BY DEF Halves, mid
<1> QED
    BY <1>1, <1>2, <1>3 DEF Ranges

(* The stack after two ranges were pushed on it.                           *)
LEMMA AppendTwo ==
    ASSUME NEW p \in Seq(Ranges), NEW q \in Seq(Ranges), Len(q) = 2
    PROVE  /\ p \o q \in Seq(Ranges)
           /\ DOMAIN (p \o q) = DOMAIN p \cup {Len(p) + 1, Len(p) + 2}
           /\ \A i \in DOMAIN p : (p \o q)[i] = p[i] /\ i \in Nat /\ i <= Len(p)
           /\ (p \o q)[Len(p) + 1] = q[1]
           /\ (p \o q)[Len(p) + 2] = q[2]
           /\ Len(p) \in Nat
<1>1. /\ p \o q \in Seq(Ranges)
      /\ Len(p) \in Nat
      /\ Len(p \o q) = Len(p) + 2
  <2>1. Len(p) \in Nat
    OBVIOUS
  <2>2. p \o q \in Seq(Ranges) /\ Len(p \o q) = Len(p) + Len(q)
    BY ConcatProperties
  <2> QED
    BY <2>1, <2>2
<1>2. DOMAIN p = 1 .. Len(p) /\ DOMAIN (p \o q) = 1 .. Len(p) + 2
    BY <1>1
<1>3. \A i \in 1 .. Len(p) : (p \o q)[i] = p[i]
    BY <1>1
<1>4. (p \o q)[Len(p) + 1] = q[1] /\ (p \o q)[Len(p) + 2] = q[2]
    BY <1>1
<1>5. 1 .. Len(p) + 2 = (1 .. Len(p)) \cup {Len(p) + 1, Len(p) + 2}
    BY <1>1
<1> QED
    BY <1>1, <1>2, <1>3, <1>4, <1>5

(* The initial state satisfies IndInv.                                     *)
LEMMA InitInd == Init => IndInv
<1> SUFFICES ASSUME Init PROVE IndInv
    OBVIOUS
<1>1. count \in Nat /\ count \in Counts
    BY BatchAssumption DEF Init
<1>2. bad \in SUBSET Nat
    BY <1>1, BatchAssumption DEF Init
<1>3. CASE count = 0
  <2>1. report = [pending |-> <<>>, accepted |-> {}, rejected |-> {},
                  aborted |-> FALSE, requests |-> 0]
    BY <1>3 DEF Init, Start
  <2>2. Covered(report.pending) = {}
    BY <2>1 DEF Covered
  <2> QED
    BY <1>1, <1>2, <1>3, <2>1, <2>2
       DEF IndInv, TypeOK, Reports, Stacked, Partition, BlameIsExact
<1>4. CASE count > 0
  <2>1. report = [pending |-> <<[lo |-> 0, hi |-> count]>>, accepted |-> {}, rejected |-> {},
                  aborted |-> FALSE, requests |-> 0]
    BY <1>4 DEF Init, Start
  <2>2. /\ report.pending \in Seq(Ranges)
        /\ DOMAIN report.pending = {1}
        /\ report.pending[1] = [lo |-> 0, hi |-> count]
    BY <1>1, <2>1 DEF Ranges
  <2>3. Covered(report.pending) = 0 .. count - 1
    <3>1. Members(report.pending[1]) = 0 .. count - 1
      BY <2>2 DEF Members
    <3>2. Covered(report.pending) = UNION {Members(report.pending[1])}
      BY <2>2 DEF Covered
    <3> QED
      BY <3>1, <3>2
  <2>4. TypeOK
    BY <1>1, <1>2, <2>1, <2>2 DEF TypeOK, Reports
  <2>5. Stacked
    BY <1>1, <1>4, <2>2 DEF Stacked
  <2>6. Partition /\ BlameIsExact
    BY <2>1, <2>3 DEF Partition, BlameIsExact
  <2> QED
    BY <2>4, <2>5, <2>6 DEF IndInv
<1> QED
    BY <1>1, <1>3, <1>4

(* The answer to one request.                                              *)
LEMMA AnswerInd ==
    ASSUME IndInv, Busy, UNCHANGED <<count, bad>>, NEW o \in Outcomes, report' = AfterAnswer(o),
           o = "Accepted" => Members(Top) \cap bad = {},
           o = "Rejected" => Members(Top) \cap bad # {}
    PROVE  IndInv'
<1> DEFINE answered == report.accepted \cup report.rejected
<1>1. TypeOK /\ report.pending # <<>> /\ report \in Reports
    BY DEF IndInv, Busy, TypeOK
<1>2. /\ Top \in Ranges
      /\ Top.lo \in Nat
      /\ Top.hi \in Nat
      /\ Top.lo < Top.hi
    BY <1>1, Pop DEF IndInv, Stacked, Top, Ranges
<1>3. \A i \in DOMAIN Rest : /\ Rest[i] \in Ranges
                             /\ Rest[i].lo < Rest[i].hi
                             /\ Top.hi <= Rest[i].lo
    BY <1>1, Pop DEF IndInv, Stacked, Top
<1>4. \A i, j \in DOMAIN Rest : i < j => Rest[j].hi <= Rest[i].lo
    BY <1>1, Pop DEF IndInv, Stacked
<1>5. Members(Top) \cap Covered(Rest) = {}
  <2>1. \A i \in DOMAIN Rest : Members(Top) \cap Members(Rest[i]) = {}
    BY <1>2, <1>3 DEF Members, Ranges
  <2> QED
    BY <2>1 DEF Covered
<1>6. Covered(report.pending) = Covered(Rest) \cup Members(Top)
    BY <1>1, Pop
<1>7. /\ Members(Top) \cap answered = {}
      /\ Covered(Rest) \cap answered = {}
      /\ report.accepted \cap report.rejected = {}
      /\ answered \cup Covered(Rest) \cup Members(Top) = 0 .. count - 1
    BY <1>6 DEF IndInv, Partition, Busy
<1>8. Members(Top) \subseteq Nat
    BY <1>2 DEF Members
<1>9. report.requests + 1 \in Nat /\ Rest \in Seq(Ranges)
    BY <1>1, Pop DEF Reports
<1>10. CASE o = "Accepted"
  <2>1. report' = [report EXCEPT !.pending = Rest, !.requests = @ + 1,
                                 !.accepted = @ \cup Members(Top)]
    BY <1>10 DEF AfterAnswer
  <2>2. /\ report'.pending = Rest
        /\ report'.accepted = report.accepted \cup Members(Top)
        /\ report'.rejected = report.rejected
        /\ report'.aborted = report.aborted
        /\ report' \in Reports
    BY <1>1, <1>8, <1>9, <2>1 DEF Reports
  <2>3. TypeOK' /\ Stacked'
    BY <1>1, <1>3, <1>4, <2>2 DEF TypeOK, Stacked
  <2>4. Partition'
    BY <1>5, <1>7, <2>2 DEF Partition
  <2>5. BlameIsExact'
    BY <1>10, <2>2 DEF IndInv, BlameIsExact
  <2> QED
    BY <2>3, <2>4, <2>5 DEF IndInv
<1>11. CASE o = "TransportError"
  <2>1. /\ report'.pending = Rest
        /\ report'.accepted = report.accepted
        /\ report'.rejected = report.rejected
        /\ report'.aborted = TRUE
        /\ report' \in Reports
    BY <1>1, <1>9, <1>11 DEF AfterAnswer, Failed, Reports
  <2>2. TypeOK' /\ Stacked'
    BY <1>1, <1>3, <1>4, <2>1 DEF TypeOK, Stacked
  <2>3. Partition' /\ BlameIsExact'
    BY <1>7, <2>1 DEF IndInv, Partition, BlameIsExact
  <2> QED
    BY <2>2, <2>3 DEF IndInv
<1>12. CASE o = "Rejected" /\ Top.hi - Top.lo = 1
  <2>1. /\ report'.pending = Rest
        /\ report'.accepted = report.accepted
        /\ report'.rejected = report.rejected \cup {Top.lo}
        /\ report'.aborted = report.aborted
        /\ report' \in Reports
    BY <1>1, <1>2, <1>9, <1>12 DEF AfterAnswer, Reports
  <2>2. Members(Top) = {Top.lo}
    BY <1>2, <1>12 DEF Members
  <2>3. TypeOK' /\ Stacked'
    BY <1>1, <1>3, <1>4, <2>1 DEF TypeOK, Stacked
  <2>4. Partition'
    BY <1>5, <1>7, <2>1, <2>2 DEF Partition
  <2>5. BlameIsExact'
    BY <1>12, <2>1, <2>2 DEF IndInv, BlameIsExact
  <2> QED
    BY <2>3, <2>4, <2>5 DEF IndInv
<1>13. CASE o = "Rejected" /\ Top.hi - Top.lo # 1
  <2> DEFINE h == Halves(Top)
             new == Rest \o h
  <2>1. /\ report'.pending = new
        /\ report'.accepted = report.accepted
        /\ report'.rejected = report.rejected
        /\ report'.aborted = report.aborted
        /\ report'.requests = report.requests + 1
        /\ report' = [report EXCEPT !.pending = new, !.requests = report.requests + 1]
    BY <1>1, <1>13 DEF AfterAnswer, Reports
  <2>2. /\ h \in Seq(Ranges) /\ Len(h) = 2
        /\ h[1] \in Ranges /\ h[2] \in Ranges
        /\ h[1].hi = Top.hi /\ h[2].lo = Top.lo /\ h[1].lo = h[2].hi
        /\ Top.lo < h[2].hi /\ h[2].hi < Top.hi
    BY <1>2, <1>13, Split
  <2> HIDE DEF h
  <2>3. /\ new \in Seq(Ranges)
        /\ DOMAIN new = DOMAIN Rest \cup {Len(Rest) + 1, Len(Rest) + 2}
        /\ \A i \in DOMAIN Rest : new[i] = Rest[i] /\ i \in Nat /\ i <= Len(Rest)
        /\ new[Len(Rest) + 1] = h[1]
        /\ new[Len(Rest) + 2] = h[2]
        /\ Len(Rest) \in Nat
    BY <1>9, <2>2, AppendTwo
  <2>4. Covered(new) = Covered(Rest) \cup Members(h[1]) \cup Members(h[2])
    BY <2>3 DEF Covered
  <2> HIDE DEF new
  <2>5. Members(h[1]) \cup Members(h[2]) = Members(Top)
    BY <1>2, <2>2 DEF Members, Ranges
  <2>6. Covered(new) = Covered(Rest) \cup Members(Top)
    BY <2>4, <2>5
  <2>7. TypeOK'
    BY <1>1, <1>9, <2>1, <2>3 DEF TypeOK, Reports
  <2>8. Stacked'
    <3>1. \A i \in DOMAIN new : new[i].lo < new[i].hi
      BY <1>2, <1>3, <2>2, <2>3 DEF Ranges
    <3>2. \A i, j \in DOMAIN new : i < j => new[j].hi <= new[i].lo
      <4> SUFFICES ASSUME NEW i \in DOMAIN new, NEW j \in DOMAIN new, i < j
                   PROVE  new[j].hi <= new[i].lo
          OBVIOUS
      <4>1. CASE i \in DOMAIN Rest /\ j \in DOMAIN Rest
        BY <1>4, <2>3, <4>1
      <4>2. CASE i \in DOMAIN Rest /\ j \notin DOMAIN Rest
        BY <1>2, <1>3, <2>2, <2>3, <4>2 DEF Ranges
      <4>3. CASE i \notin DOMAIN Rest
        BY <2>2, <2>3, <4>3 DEF Ranges
      <4> QED
        BY <4>1, <4>2, <4>3
    <3> QED
      BY <2>1, <3>1, <3>2 DEF Stacked
  <2>9. Partition'
    BY <1>5, <1>7, <2>1, <2>6 DEF Partition
  <2>10. BlameIsExact'
    BY <2>1 DEF IndInv, BlameIsExact
  <2> QED
    BY <2>7, <2>8, <2>9, <2>10 DEF IndInv
<1> QED
    BY <1>10, <1>11, <1>12, <1>13 DEF Outcomes

(* Every step preserves IndInv.                                            *)
LEMMA NextInd == IndInv /\ [Next]_vars => IndInv'
<1> SUFFICES ASSUME IndInv, [Next]_vars PROVE IndInv'
    OBVIOUS
<1>1. CASE Request
    BY <1>1, AnswerInd DEF Request, Answer, Outcomes
<1>2. CASE TransportFails
    BY <1>2, AnswerInd DEF TransportFails, Answer, Outcomes
<1>3. CASE GiveUp
  <2>1. /\ report'.pending = report.pending
        /\ report'.accepted = report.accepted
        /\ report'.rejected = report.rejected
        /\ report'.aborted = TRUE
        /\ report' \in Reports
        /\ UNCHANGED <<count, bad>>
    BY <1>3 DEF GiveUp, OutOfBudget, IndInv, TypeOK, Reports
  <2> QED
    BY <2>1 DEF IndInv, TypeOK, Stacked, Partition, BlameIsExact
<1>4. CASE UNCHANGED vars
    BY <1>4 DEF vars, IndInv, TypeOK, Stacked, Partition, BlameIsExact
<1> QED
    BY <1>1, <1>2, <1>3, <1>4 DEF Next, Done

(* IndInv holds throughout sendWithBisect.                                 *)
THEOREM BatchInvariant == Spec => []IndInv
<1>1. Init => IndInv
    BY InitInd
<1>2. IndInv /\ [Next]_vars => IndInv'
    BY NextInd
<1> QED
    BY <1>1, <1>2, PTL DEF Spec

(* Whatever the batch size, the bad records, the failures and the budget,  *)
(* sendWithBisect loses no record and answers for none twice.              *)
THEOREM NoRecordLostInBisection == Spec => []Partition
<1>1. IndInv => Partition
    BY DEF IndInv
<1> QED
    BY <1>1, BatchInvariant, PTL

(* Only bad records are reported as rejected, and none as accepted.        *)
THEOREM OnlyBadRecordsBlamed == Spec => []BlameIsExact
<1>1. IndInv => BlameIsExact
    BY DEF IndInv
<1> QED
    BY <1>1, BatchInvariant, PTL

-----------------------------------------------------------------------------
(* The budget.                                                             *)

\* How often a range of s records is halved until one is left.
Depth(s) ==
    IF s <= 1 THEN 0 ELSE IF s <= 2 THEN 1 ELSE IF s <= 4 THEN 2 ELSE IF s <= 8 THEN 3
    ELSE IF s <= 16 THEN 4 ELSE IF s <= 32 THEN 5 ELSE IF s <= 64 THEN 6 ELSE 7

\* With no bad record but b every range on the stack costs one request, and
\* the one that holds b two more for every time it will be halved.
CostInv(b) ==
    /\ report.requests + Len(report.pending) <= 15
    /\ \A i \in DOMAIN report.pending :
          /\ report.pending[i].hi - report.pending[i].lo <= 128
          /\ b \in Members(report.pending[i]) =>
                report.requests + Len(report.pending)
                   + 2 * Depth(report.pending[i].hi - report.pending[i].lo) <= 15

\* The bound on the cost, while at most one record is bad, and that only the
\* budget or a transport error breaks the loop.
BudgetInv ==
    /\ IsFiniteSet(bad)
    /\ ~report.aborted => \A b : bad \subseteq {b} => CostInv(b)
    /\ BudgetSuffices

\* Either half is halved once less often.
LEMMA DepthOfHalf ==
    ASSUME NEW s \in 2 .. 128, NEW h \in {s \div 2, s - s \div 2}
    PROVE  Depth(h) \in Nat /\ Depth(h) + 1 <= Depth(s) /\ Depth(s) \in Nat
<1>1. PICK q \in Nat : q = s \div 2 /\ (s = 2 * q \/ s = 2 * q + 1)
    OBVIOUS
<1>2. h \in Nat /\ h >= 1 /\ 2 * h <= s + 1 /\ s \in Nat
    BY <1>1
<1>3. h <= 1 \/ (h <= 2 /\ s > 2) \/ (h <= 4 /\ s > 4) \/ (h <= 8 /\ s > 8) \/ (h <= 16 /\ s > 16)
      \/ (h <= 32 /\ s > 32) \/ (h <= 64 /\ s > 64)
    BY <1>2
<1> QED
    BY <1>2, <1>3 DEF Depth

\* Depth is a small number.
LEMMA DepthBound == \A s \in Int : Depth(s) \in 0 .. 7
BY DEF Depth

\* At most one bad record: there is one that covers them.
LEMMA OneBad ==
    ASSUME IsFiniteSet(bad), Cardinality(bad) <= 1
    PROVE  \E b : bad \subseteq {b}
<1>1. Cardinality(bad) = 0 \/ Cardinality(bad) = 1
    BY FS_CardinalityType
<1>2. CASE Cardinality(bad) = 0
    BY <1>2, FS_EmptySet
<1>3. CASE Cardinality(bad) = 1
    BY <1>3, FS_Singleton
<1> QED
    BY <1>1, <1>2, <1>3

\* The whole batch costs at most 15 requests.
LEMMA BudgetInit ==
    ASSUME Counts \subseteq 0 .. 128, Init
    PROVE  BudgetInv
<1>1. count \in 0 .. 128
    BY DEF Init
<1>2. IsFiniteSet(bad)
  <2>1. PICK f \in [1 .. MaxBad -> -1 .. count - 1] : bad = {f[i] : i \in 1 .. MaxBad} \ {-1}
    BY DEF Init
  <2> DEFINE image == {f[i] : i \in 1 .. MaxBad}
  <2>2. f \in Surjection(1 .. MaxBad, image)
    BY <2>1 DEF Surjection
  <2>3. IsFiniteSet(1 .. MaxBad)
    <3>1. 1 \in Int /\ MaxBad \in Int
      BY BatchAssumption
    <3> QED
      BY <3>1, FS_Interval
  <2>4. IsFiniteSet(image)
    BY <2>2, <2>3, FS_Surjection
  <2> QED
    BY <2>1, <2>4, FS_Difference
<1>3. /\ report.requests = 0 /\ report.aborted = FALSE
      /\ \/ report.pending = <<>>
         \/ report.pending = <<[lo |-> 0, hi |-> count]>>
    BY <1>1 DEF Init, Start
<1>4. Depth(count - 0) \in 0 .. 7
    BY <1>1, DepthBound
<1>5. ASSUME NEW b PROVE CostInv(b)
  <2>1. CASE report.pending = <<>>
    BY <1>3, <2>1 DEF CostInv
  <2>2. CASE report.pending = <<[lo |-> 0, hi |-> count]>>
    <3>1. /\ Len(report.pending) = 1 /\ DOMAIN report.pending = {1}
          /\ report.pending[1].lo = 0 /\ report.pending[1].hi = count
      BY <2>2
    <3> QED
      BY <1>1, <1>3, <1>4, <3>1 DEF CostInv
  <2> QED
    BY <1>3, <2>1, <2>2
<1> QED
    BY <1>2, <1>3, <1>5 DEF BudgetInv, BudgetSuffices

\* An answer is paid for.
LEMMA CostAnswer ==
    ASSUME IndInv, Busy, NEW b, bad \subseteq {b}, CostInv(b), NEW o \in {"Accepted", "Rejected"},
           report' = AfterAnswer(o), o = "Rejected" => Members(Top) \cap bad # {}
    PROVE  CostInv(b)'
<1>1. TypeOK /\ report.pending # <<>> /\ report \in Reports /\ report.requests \in Nat
    BY DEF IndInv, Busy, TypeOK, Reports
<1> DEFINE p == report.pending
           n == Len(report.pending)
<1>2. /\ Top \in Ranges /\ Top.lo \in Nat /\ Top.hi \in Nat /\ Top.lo < Top.hi
      /\ n \in Nat \ {0} /\ n \in DOMAIN p /\ Top = p[n]
      /\ Rest \in Seq(Ranges) /\ Len(Rest) = n - 1
    BY <1>1, Pop DEF IndInv, Stacked, Top, Ranges
<1>3. \A i \in DOMAIN Rest :
         /\ i \in DOMAIN p /\ Rest[i] = p[i] /\ Rest[i] \in Ranges
         /\ Rest[i].lo \in Nat /\ Rest[i].hi \in Nat
         /\ Top.hi <= Rest[i].lo
  <2>1. \A i \in DOMAIN Rest : i \in DOMAIN p /\ i < n /\ Rest[i] = p[i]
    BY <1>1, Pop
  <2>2. \A i \in DOMAIN Rest : Rest[i] \in Ranges
    BY <1>2
  <2>3. \A i \in DOMAIN Rest : Top.hi <= Rest[i].lo
    BY <1>2, <2>1 DEF IndInv, Stacked
  <2> QED
    BY <2>1, <2>2, <2>3 DEF Ranges
<1>4. /\ report.requests + n <= 15
      /\ \A i \in DOMAIN p :
            /\ p[i].hi - p[i].lo <= 128
            /\ b \in Members(p[i]) => report.requests + n + 2 * Depth(p[i].hi - p[i].lo) <= 15
    BY DEF CostInv
<1> HIDE DEF p, n
<1>5. CASE o = "Accepted" \/ Top.hi - Top.lo = 1
  <2>1. report'.pending = Rest /\ report'.requests = report.requests + 1
    BY <1>1, <1>5 DEF AfterAnswer, Reports
  <2>2. report'.requests + Len(report'.pending) = report.requests + n
    BY <1>1, <1>2, <2>1
  <2> QED
    BY <1>3, <1>4, <2>1, <2>2 DEF CostInv
<1>6. CASE o = "Rejected" /\ Top.hi - Top.lo # 1
  <2> DEFINE h == Halves(Top)
             new == Rest \o h
             s == Top.hi - Top.lo
  <2>1. report'.pending = new /\ report'.requests = report.requests + 1
    BY <1>1, <1>6 DEF AfterAnswer, Reports
  <2>2. /\ h \in Seq(Ranges) /\ Len(h) = 2 /\ h[1] \in Ranges /\ h[2] \in Ranges
        /\ h[1].hi = Top.hi /\ h[2].lo = Top.lo /\ h[1].lo = h[2].hi
    BY <1>2, <1>6, Split
  <2>3. s \in 2 .. 128
    <3>1. p[n].hi - p[n].lo <= 128
      BY <1>2, <1>4
    <3>2. Top.hi - Top.lo <= 128
      BY <1>2, <3>1
    <3>3. Top.lo \in Nat /\ Top.hi \in Nat /\ Top.lo < Top.hi /\ Top.hi - Top.lo # 1
      BY <1>2, <1>6
    <3> HIDE DEF h, new
    <3> QED
      BY <3>2, <3>3
  <2>4. h[2].hi - h[2].lo = s \div 2 /\ h[1].hi - h[1].lo = s - s \div 2
    <3>1. h[2].hi = Top.lo + s \div 2
      BY DEF Halves
    <3> HIDE DEF h
    <3>2. PICK q \in Nat : q = s \div 2
      BY <2>3
    <3>3. h[2].hi = Top.lo + q
      BY <3>1, <3>2
    <3>4. Top.lo \in Nat /\ Top.hi \in Nat
      BY <1>2
    <3>5. h[2].hi - h[2].lo = q
      BY <2>2, <3>3, <3>4
    <3>6. h[1].hi - h[1].lo = s - q
      BY <2>2, <3>3, <3>4
    <3> QED
      BY <3>2, <3>5, <3>6
  <2> HIDE DEF h
  <2>5. /\ new \in Seq(Ranges)
        /\ DOMAIN new = DOMAIN Rest \cup {Len(Rest) + 1, Len(Rest) + 2}
        /\ \A i \in DOMAIN Rest : new[i] = Rest[i]
        /\ new[Len(Rest) + 1] = h[1]
        /\ new[Len(Rest) + 2] = h[2]
    BY <1>2, <2>2, AppendTwo
  <2>6. Len(new) = n + 1
    <3>1. Len(new) = Len(Rest) + Len(h)
      BY <1>2, <2>2, ConcatProperties
    <3> QED
      BY <1>2, <2>2, <3>1
  <2> HIDE DEF new
  <2>7. b \in Members(Top)
    BY <1>6
  <2>8. report.requests + n + 2 * Depth(s) <= 15
    BY <1>2, <1>4, <2>7
  <2>9. \A i \in DOMAIN Rest : b \notin Members(Rest[i]) /\ Rest[i].hi - Rest[i].lo <= 128
    <3>1. b \in Int /\ b <= Top.hi - 1 /\ Top.hi \in Nat
      BY <1>2, <2>7 DEF Members
    <3>2. ASSUME NEW i \in DOMAIN Rest PROVE b \notin Members(Rest[i])
      <4>1. Rest[i].lo \in Nat /\ Rest[i].hi \in Nat /\ Top.hi <= Rest[i].lo
        BY <1>3
      <4> QED
        BY <3>1, <4>1 DEF Members
    <3>3. \A i \in DOMAIN Rest : Rest[i].hi - Rest[i].lo <= 128
      BY <1>3, <1>4
    <3> QED
      BY <3>2, <3>3
  <2>10. ASSUME NEW z \in {h[1], h[2]}
         PROVE  /\ z.hi - z.lo <= 128
                /\ report.requests + n + 2 + 2 * Depth(z.hi - z.lo) <= 15
    <3>1. z.hi - z.lo \in {s \div 2, s - s \div 2}
      BY <2>4
    <3>2. Depth(z.hi - z.lo) \in Nat /\ Depth(s) \in Nat /\ Depth(z.hi - z.lo) + 1 <= Depth(s)
      BY <2>3, <3>1, DepthOfHalf
    <3>3. z.hi - z.lo <= 128
      <4>1. s \div 2 <= 128 /\ s - s \div 2 <= 128
        BY <2>3
      <4> QED
        BY <3>1, <4>1
    <3>4. PICK d \in Nat, e \in Nat : d = Depth(z.hi - z.lo) /\ e = Depth(s) /\ d + 1 <= e
      BY <3>2
    <3>5. report.requests + n + 2 + 2 * Depth(z.hi - z.lo) <= 15
      <4>1. report.requests \in Nat /\ n \in Nat
        BY <1>1, <1>2
      <4>2. PICK k \in Nat : k = report.requests + n
        BY <4>1
      <4>3. k + 2 * e <= 15
        BY <2>8, <3>4, <4>2
      <4>4. k + 2 + 2 * d <= 15
        BY <3>4, <4>3
      <4> QED
        BY <3>4, <4>2, <4>4
    <3> QED
      BY <3>3, <3>5
  <2>11. report'.requests + Len(report'.pending) = report.requests + n + 2
    <3>1. Len(report'.pending) = n + 1 /\ report'.requests = report.requests + 1
      BY <2>1, <2>6
    <3>2. n \in Nat /\ report.requests \in Nat
      BY <1>1, <1>2
    <3>3. \A k, r \in Nat : (r + 1) + (k + 1) = r + k + 2
      OBVIOUS
    <3> QED
      BY <3>1, <3>2, <3>3
  <2>12. report.requests + n + 2 <= 15
    <3>1. Depth(h[2].hi - h[2].lo) \in Nat
      BY <2>3, <2>4, DepthOfHalf
    <3> QED
      BY <1>1, <1>2, <2>10, <3>1
  <2> QED
    BY <2>1, <2>5, <2>9, <2>10, <2>11, <2>12 DEF CostInv
<1> QED
    BY <1>5, <1>6

\* Every step keeps the cost within the budget.
LEMMA BudgetNext ==
    ASSUME MaxRequests >= 16, IndInv, BudgetInv, [Next]_vars
    PROVE  BudgetInv'
<1>1. /\ report.requests \in Nat /\ MaxRequests \in Nat /\ Len(report.pending) \in Nat
      /\ report \in Reports
    BY BatchAssumption DEF IndInv, TypeOK, Reports
<1>2. ASSUME Busy, Cardinality(bad) <= 1 PROVE report.requests <= 14
  <2>1. PICK b : bad \subseteq {b}
    BY <1>2, OneBad DEF BudgetInv
  <2>2. report.requests + Len(report.pending) <= 15
    BY <1>2, <2>1 DEF BudgetInv, CostInv, Busy
  <2>3. Len(report.pending) >= 1
    BY <1>1, <1>2, Pop DEF IndInv, Busy
  <2> QED
    BY <1>1, <2>2, <2>3
<1>3. CASE Request
  <2>1. PICK o \in {"Accepted", "Rejected"} :
          /\ report' = AfterAnswer(o)
          /\ o = "Rejected" => Members(Top) \cap bad # {}
    BY <1>3 DEF Request, Answer
  <2>2. Busy /\ bad' = bad
    BY <1>3 DEF Request, Answer
  <2>3. report'.aborted = report.aborted
    BY <1>1, <2>1 DEF AfterAnswer, Reports
  <2>4. ASSUME NEW b, bad \subseteq {b} PROVE CostInv(b)'
    <3>1. CostInv(b)
      BY <2>2, <2>4 DEF BudgetInv, Busy
    <3> QED
      BY <2>1, <2>2, <2>4, <3>1, CostAnswer
  <2> QED
    BY <2>2, <2>3, <2>4 DEF BudgetInv, BudgetSuffices, Busy
<1>4. CASE TransportFails
  <2>1. Busy /\ bad' = bad /\ report'.aborted = TRUE /\ report'.requests = report.requests + 1
    BY <1>1, <1>4 DEF TransportFails, Answer, AfterAnswer, Failed, Reports
  <2>2. Cardinality(bad) <= 1 => report'.requests < MaxRequests
    BY <1>1, <1>2, <2>1
  <2> QED
    BY <2>1, <2>2 DEF BudgetInv, BudgetSuffices
<1>5. CASE GiveUp
  <2>1. Busy /\ bad' = bad /\ report'.aborted = TRUE /\ report.requests >= MaxRequests
    BY <1>1, <1>5 DEF GiveUp, OutOfBudget, Reports
  <2>2. ~(Cardinality(bad) <= 1)
    BY <1>1, <1>2, <2>1
  <2> QED
    BY <2>1, <2>2 DEF BudgetInv, BudgetSuffices
<1>6. CASE UNCHANGED vars
    BY <1>6 DEF vars, BudgetInv, BudgetSuffices, CostInv
<1> QED
    BY <1>3, <1>4, <1>5, <1>6 DEF Next, Done

(* One bad record never exhausts a budget of 16 requests, in any batch of  *)
(* up to 128 records: the 100 records and 20 requests of sync.cpp are      *)
(* well within that, whichever record is bad.                              *)
THEOREM OneBadRecordFits ==
    ASSUME Counts \subseteq 0 .. 128, MaxRequests >= 16
    PROVE  Spec => []BudgetSuffices
<1>1. Init => BudgetInv
    BY BudgetInit
<1>2. IndInv /\ BudgetInv /\ [Next]_vars => BudgetInv'
    BY BudgetNext
<1>3. BudgetInv => BudgetSuffices
    BY DEF BudgetInv
<1> QED
    BY <1>1, <1>2, <1>3, BatchInvariant, PTL DEF Spec

-----------------------------------------------------------------------------
(* How long the loop runs, whatever the server and the transport do.       *)

\* Never more requests than the budget, and never more than it takes to ask
\* for every range a batch can be split into.
SendBound ==
    /\ report.requests <= MaxRequests
    /\ report.requests = 0 \/ report.requests < 2 * count
    /\ Busy /\ report.requests >= MaxRequests => MaxRequests + 1 < 2 * count

\* A turn of the loop spends a request or ends it.
LoopStep == Busy => report'.requests = report.requests + 1 \/ report'.aborted

\* The records below the top are answered: they account for two requests each,
\* and every range on the stack but one for the request that split it.
SpentInv ==
    /\ \A i \in DOMAIN report.pending : report.pending[i].hi + i <= count + 1
    /\ Busy => report.requests + 1 <= 2 * Top.lo + Len(report.pending)
    /\ report.requests = 0 \/ report.requests < 2 * count
    /\ report.requests <= MaxRequests

\* The sums: r requests were made, n ranges wait and the top one is lo, hi of a
\* batch of c; the range below it begins at b.
LEMMA Accounts ==
    /\ \A r, lo, hi, n, c \in Nat :
          n >= 1 /\ lo < hi /\ hi + n <= c + 1 /\ r + 1 <= 2 * lo + n => r + 2 <= 2 * c
    /\ \A r, lo, hi, n, b \in Nat :
          lo < hi /\ r + 1 <= 2 * lo + n /\ hi <= b => r + 2 <= 2 * b + (n - 1)
OBVIOUS

\* What a busy loop has spent falls short of its bound.
LEMMA BusySpent ==
    ASSUME IndInv, SpentInv, Busy
    PROVE  report.requests + 2 <= 2 * count
<1>1. TypeOK /\ report.pending # <<>> /\ report.requests \in Nat /\ count \in Nat
    BY BatchAssumption DEF IndInv, Busy, TypeOK, Reports
<1> DEFINE n == Len(report.pending)
<1>2. /\ Top \in Ranges /\ Top.lo \in Nat /\ Top.hi \in Nat /\ Top.lo < Top.hi
      /\ n \in Nat \ {0} /\ n \in DOMAIN report.pending /\ Top = report.pending[n]
    BY <1>1, Pop DEF IndInv, Stacked, Top, Ranges
<1>3. Top.hi + n <= count + 1 /\ report.requests + 1 <= 2 * Top.lo + n
    BY <1>2 DEF SpentInv
<1>4. n \in Nat /\ n >= 1
    BY <1>2
<1> HIDE DEF n
<1> QED
    BY ONLY <1>1, <1>2, <1>3, <1>4, Accounts

\* An answer that takes the top off the stack, or puts its halves in its place.
LEMMA SpentAnswer ==
    ASSUME IndInv, SpentInv, NEW o \in Outcomes, Answer(o), UNCHANGED count
    PROVE  SpentInv' /\ report'.requests = report.requests + 1
<1>1. /\ TypeOK /\ Busy /\ report.pending # <<>> /\ report \in Reports
      /\ report.requests \in Nat /\ count \in Nat /\ MaxRequests \in Nat
    BY BatchAssumption DEF IndInv, Answer, Busy, TypeOK, Reports
<1> DEFINE n == Len(report.pending)
<1>2. /\ Top \in Ranges /\ Top.lo \in Nat /\ Top.hi \in Nat /\ Top.lo < Top.hi
      /\ n \in Nat \ {0} /\ n \in DOMAIN report.pending /\ Top = report.pending[n]
      /\ Rest \in Seq(Ranges) /\ Len(Rest) = n - 1
    BY <1>1, Pop DEF IndInv, Stacked, Top, Ranges
<1>3. \A i \in DOMAIN Rest :
         /\ i \in Nat /\ i < n /\ Rest[i] \in Ranges
         /\ Rest[i].hi + i <= count + 1
         /\ Top.hi <= Rest[i].lo
    BY <1>1, <1>2, Pop DEF IndInv, Stacked, SpentInv
<1>4. Top.hi + n <= count + 1 /\ report.requests + 1 <= 2 * Top.lo + n
    BY <1>1, <1>2 DEF SpentInv
<1>5. /\ report'.requests = report.requests + 1
      /\ report.requests + 1 <= MaxRequests
      /\ report.requests + 1 < 2 * count
  <2>1. report'.requests = report.requests + 1
    BY <1>1 DEF Answer, AfterAnswer, Failed, Reports
  <2>2. report.requests + 1 <= MaxRequests
    BY <1>1 DEF Answer
  <2> QED
    BY <1>1, <2>1, <2>2, BusySpent
<1>6. CASE report'.pending = Rest
  <2>1. \A i \in DOMAIN report'.pending : report'.pending[i].hi + i <= count + 1
    BY <1>3, <1>6
  <2>2. Busy' => report'.requests + 1 <= 2 * Top'.lo + Len(report'.pending)
    <3> SUFFICES ASSUME Busy' PROVE report'.requests + 1 <= 2 * Top'.lo + Len(report'.pending)
      OBVIOUS
    <3>1. Rest # << >> /\ Len(Rest) \in DOMAIN Rest /\ Top' = Rest[Len(Rest)]
      BY <1>2, <1>6 DEF Busy, Top
    <3>2. Top'.lo \in Nat /\ Top.hi <= Top'.lo
      BY <1>3, <3>1 DEF Ranges
    <3>3. Len(report'.pending) = n - 1
      BY <1>2, <1>6
    <3>4. n \in Nat
      BY <1>2
    <3> HIDE DEF n
    <3>5. report.requests + 2 <= 2 * Top'.lo + (n - 1)
      BY ONLY <1>1, <1>2, <1>4, <3>2, <3>4, Accounts
    <3> QED
      BY ONLY <1>1, <1>5, <3>2, <3>3, <3>4, <3>5
  <2> QED
    BY <1>5, <2>1, <2>2 DEF SpentInv
<1>7. CASE report'.pending = Rest \o Halves(Top) /\ o = "Rejected" /\ Top.hi - Top.lo # 1
  <2> DEFINE h == Halves(Top)
             new == Rest \o h
  <2>1. /\ h \in Seq(Ranges) /\ Len(h) = 2
        /\ h[1].hi = Top.hi /\ h[2].lo = Top.lo /\ h[2].hi < Top.hi /\ h[2].hi \in Nat
    <3>1. /\ h \in Seq(Ranges) /\ Len(h) = 2
          /\ h[1].hi = Top.hi /\ h[2].lo = Top.lo /\ h[2].hi < Top.hi
      BY <1>2, <1>7, Split
    <3> HIDE DEF h
    <3>2. h[2] \in Ranges
      BY <3>1, 2 \in 1 .. 2, ElementOfSeq
    <3> QED
      BY <3>1, <3>2 DEF Ranges
  <2> HIDE DEF h
  <2>2. /\ new \in Seq(Ranges)
        /\ DOMAIN new = DOMAIN Rest \cup {n, n + 1}
        /\ \A i \in DOMAIN Rest : new[i] = Rest[i]
        /\ new[n] = h[1] /\ new[n + 1] = h[2]
    <3>1. Len(Rest) + 1 = n /\ Len(Rest) + 2 = n + 1
      BY <1>2
    <3> HIDE DEF n
    <3>2. /\ new \in Seq(Ranges)
          /\ DOMAIN new = DOMAIN Rest \cup {Len(Rest) + 1, Len(Rest) + 2}
          /\ \A i \in DOMAIN Rest : new[i] = Rest[i]
          /\ new[Len(Rest) + 1] = h[1] /\ new[Len(Rest) + 2] = h[2]
      BY <1>2, <2>1, AppendTwo
    <3> HIDE DEF new
    <3> QED
      BY ONLY <3>1, <3>2
  <2>3. Len(new) = n + 1
    <3>1. Len(new) = Len(Rest) + Len(h)
      BY <1>2, <2>1, ConcatProperties
    <3> QED
      BY <1>2, <2>1, <3>1
  <2>4. report'.pending = new
    BY <1>7 DEF h
  <2> HIDE DEF new, n
  <2>5. \A i \in DOMAIN new : new[i].hi + i <= count + 1
    <3>1. \A i \in DOMAIN Rest : new[i].hi + i <= count + 1
      BY ONLY <1>3, <2>2
    <3>2. h[1].hi + n <= count + 1 /\ h[2].hi + (n + 1) <= count + 1
      BY ONLY <1>1, <1>2, <1>4, <2>1
    <3> QED
      BY ONLY <2>2, <3>1, <3>2
  <2>6. Top'.lo = Top.lo
    <3>1. Top' = new[n + 1]
      BY <2>3, <2>4 DEF Top
    <3> QED
      BY ONLY <2>1, <2>2, <3>1
  <2>7. report'.requests + 1 <= 2 * Top'.lo + Len(report'.pending)
    <3>1. /\ report'.requests = report.requests + 1 /\ Top'.lo = Top.lo
          /\ Len(report'.pending) = n + 1
      BY <1>5, <2>3, <2>4, <2>6
    <3>2. \A r, lo, k \in Nat : r + 1 <= 2 * lo + k => (r + 1) + 1 <= 2 * lo + (k + 1)
      OBVIOUS
    <3>3. report.requests \in Nat /\ Top.lo \in Nat /\ n \in Nat
      BY <1>1, <1>2
    <3> QED
      BY ONLY <1>4, <3>1, <3>2, <3>3
  <2> QED
    BY <1>5, <2>4, <2>5, <2>7 DEF SpentInv
<1>8. \/ report'.pending = Rest
      \/ report'.pending = Rest \o Halves(Top) /\ o = "Rejected" /\ Top.hi - Top.lo # 1
    BY <1>1 DEF Answer, AfterAnswer, Failed, Reports, Outcomes
<1> QED
    BY <1>5, <1>6, <1>7, <1>8

\* Every step keeps SpentInv, and one of a busy loop brings its end nearer.
LEMMA SpentNext == IndInv /\ SpentInv /\ [Next]_vars => SpentInv' /\ [LoopStep]_vars
<1> SUFFICES ASSUME IndInv, SpentInv, [Next]_vars PROVE SpentInv' /\ [LoopStep]_vars
    OBVIOUS
<1>1. CASE Request
  <2>1. PICK o \in Outcomes : Answer(o) /\ UNCHANGED count
    BY <1>1 DEF Request, Outcomes
  <2> QED
    BY <2>1, SpentAnswer DEF LoopStep
<1>2. CASE TransportFails
    BY <1>2, SpentAnswer DEF TransportFails, Outcomes, LoopStep
<1>3. CASE GiveUp
  <2>1. /\ report'.pending = report.pending /\ report'.requests = report.requests
        /\ report'.aborted = TRUE /\ count' = count
    BY <1>3 DEF GiveUp, OutOfBudget, IndInv, TypeOK, Reports
  <2> QED
    BY <2>1 DEF SpentInv, Busy, LoopStep
<1>4. CASE UNCHANGED vars
    BY <1>4 DEF vars, SpentInv, Busy, Top
<1> QED
    BY <1>1, <1>2, <1>3, <1>4 DEF Next, Done

(* sendWithBisect ends by itself: every turn of its loop spends a request  *)
(* or leaves it, and no batch of n records takes more than 2n - 1          *)
(* requests, however many of them are bad and wherever they lie.  So a     *)
(* budget of that size is never what breaks the loop.                      *)
THEOREM BisectionEnds == Spec => []SendBound /\ [][LoopStep]_vars
<1>1. Init => SpentInv
  <2> SUFFICES ASSUME Init PROVE SpentInv
    OBVIOUS
  <2>1. count \in Nat /\ MaxRequests \in Nat
    BY BatchAssumption DEF Init
  <2>2. CASE count = 0
    BY <2>1, <2>2 DEF Init, Start, SpentInv, Busy
  <2>3. CASE count > 0
    <3>1. report.pending = <<[lo |-> 0, hi |-> count]>> /\ report.requests = 0
      BY <2>3 DEF Init, Start
    <3>2. /\ DOMAIN report.pending = {1} /\ Len(report.pending) = 1
          /\ report.pending[1].hi = count /\ Top.lo = 0
      BY <3>1 DEF Top
    <3> QED
      BY <2>1, <3>1, <3>2 DEF SpentInv
  <2> QED
    BY <2>1, <2>2, <2>3
<1>2. IndInv /\ SpentInv /\ [Next]_vars => SpentInv' /\ [LoopStep]_vars
    BY SpentNext
<1>3. IndInv /\ SpentInv => SendBound
  <2> SUFFICES ASSUME IndInv, SpentInv PROVE SendBound
    OBVIOUS
  <2>1. report.requests \in Nat /\ count \in Nat /\ MaxRequests \in Nat
    BY BatchAssumption DEF IndInv, TypeOK, Reports
  <2>2. Busy => report.requests + 2 <= 2 * count
    BY BusySpent
  <2> QED
    BY <2>1, <2>2 DEF SpentInv, SendBound
<1> QED
    BY <1>1, <1>2, <1>3, BatchInvariant, PTL DEF Spec
=============================================================================
