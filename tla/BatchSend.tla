------------------------------ MODULE BatchSend ------------------------------
(***************************************************************************)
(* jit::sendWithBisect (src/includes/agent/agent/batchsend.h): send the    *)
(* records 0..count-1 in as few requests as possible, halving every range  *)
(* the server rejects until the record it objects to stands alone.         *)
(*                                                                         *)
(* report is the BatchReport together with the local stack "pending" of    *)
(* ranges [lo, hi) still to be sent; the top of the stack is its last      *)
(* element.  The send function is a parameter of the C++ template.  Here   *)
(* the server objects to a fixed set of records, "bad", and the transport  *)
(* may fail at any request; SyncQueue runs the same steps with the real    *)
(* sender.                                                                 *)
(***************************************************************************)
EXTENDS Integers, Sequences, FiniteSets

CONSTANTS
    Counts,       \* the batch sizes considered
    MaxBad,       \* bound on the number of bad records in a batch
    MaxRequests,  \* maxRequests: the budget of requests
    Failures      \* whether the transport may fail

ASSUME BatchAssumption ==
    /\ Counts \subseteq Nat
    /\ MaxBad \in Nat
    /\ MaxRequests \in Nat
    /\ Failures \in BOOLEAN

VARIABLES
    count,   \* the number of records in the batch
    bad,     \* the records the server rejects
    report

vars == <<count, bad, report>>

Outcomes == {"Accepted", "Rejected", "TransportError"}

Ranges == [lo : Nat, hi : Nat]

Reports == [pending : Seq(Ranges), accepted : SUBSET Nat, rejected : SUBSET Nat,
            aborted : BOOLEAN, requests : Nat]

\* The records of a range, and those of the whole stack.
Members(r) == r.lo .. (r.hi - 1)

Covered(pending) == UNION {Members(pending[i]) : i \in DOMAIN pending}

TypeOK ==
    /\ count \in Counts
    /\ bad \in SUBSET Nat
    /\ report \in Reports

\* The report before the loop.
Start(n) ==
    [pending |-> IF n > 0 THEN <<[lo |-> 0, hi |-> n]>> ELSE <<>>,
     accepted |-> {}, rejected |-> {}, aborted |-> FALSE, requests |-> 0]

Top == report.pending[Len(report.pending)]

Rest == SubSeq(report.pending, 1, Len(report.pending) - 1)

\* The loop goes on: ranges are left and it was not left by a break.
Busy == report.pending # <<>> /\ ~report.aborted

\* The budget is spent.
OutOfBudget ==
    /\ Busy
    /\ report.requests >= MaxRequests
    /\ report' = [report EXCEPT !.aborted = TRUE]

\* Mutant: the split drops the record in the middle.
HalvesOffByOne(r) ==
    LET mid == r.lo + (r.hi - r.lo) \div 2
    IN  <<[lo |-> mid + 1, hi |-> r.hi], [lo |-> r.lo, hi |-> mid]>>

\* Mutant: the first record is cut off instead of half of the range.
HalvesLinear(r) ==
    <<[lo |-> r.lo + 1, hi |-> r.hi], [lo |-> r.lo, hi |-> r.lo + 1]>>

\* What a rejected range is replaced by: the right half below the left one.
Halves(r) ==
    LET mid == r.lo + (r.hi - r.lo) \div 2
    IN  <<[lo |-> mid, hi |-> r.hi], [lo |-> r.lo, hi |-> mid]>>

\* The break after a transport error: the range is off the stack by then.
Failed == [report EXCEPT !.pending = Rest, !.requests = @ + 1, !.aborted = TRUE]

\* Mutant: a rejected range is given up as a whole.
AfterAnswerNoSplit(outcome) ==
    CASE outcome = "Accepted" ->
            [report EXCEPT !.pending = Rest, !.requests = @ + 1,
                           !.accepted = @ \cup Members(Top)]
      [] outcome = "TransportError" -> Failed
      [] OTHER ->
            [report EXCEPT !.pending = Rest, !.requests = @ + 1,
                           !.rejected = @ \cup Members(Top)]

\* The report after the request for the top range was answered.
AfterAnswer(outcome) ==
    CASE outcome = "Accepted" ->
            [report EXCEPT !.pending = Rest, !.requests = @ + 1,
                           !.accepted = @ \cup Members(Top)]
      [] outcome = "TransportError" -> Failed
      [] outcome = "Rejected" /\ Top.hi - Top.lo = 1 ->
            [report EXCEPT !.pending = Rest, !.requests = @ + 1,
                           !.rejected = @ \cup {Top.lo}]
      [] OTHER ->
            [report EXCEPT !.pending = Rest \o Halves(Top), !.requests = @ + 1]

Answer(outcome) ==
    /\ Busy
    /\ report.requests < MaxRequests
    /\ report' = AfterAnswer(outcome)

-----------------------------------------------------------------------------
Init ==
    /\ count \in Counts
    /\ \E f \in [1 .. MaxBad -> -1 .. count - 1] :   \* -1: one bad record fewer
          bad = {f[i] : i \in 1 .. MaxBad} \ {-1}
    /\ report = Start(count)

\* The server takes a range when it objects to none of its records.
Request ==
    /\ Answer(IF Members(Top) \cap bad = {} THEN "Accepted" ELSE "Rejected")
    /\ UNCHANGED <<count, bad>>

TransportFails ==
    /\ Failures
    /\ Answer("TransportError")
    /\ UNCHANGED <<count, bad>>

GiveUp == OutOfBudget /\ UNCHANGED <<count, bad>>

\* The loop has ended.
Done == ~Busy /\ UNCHANGED vars

Next == Request \/ TransportFails \/ GiveUp \/ Done

Spec == Init /\ [][Next]_vars /\ WF_vars(Next)

-----------------------------------------------------------------------------
(* Every record is in exactly one place: sent and accepted, rejected, or   *)
(* still on the stack (until the loop breaks).  None is sent again after   *)
(* an answer, and none gets lost in a split.                               *)
Partition ==
    /\ report.accepted \cap report.rejected = {}
    /\ Covered(report.pending) \cap (report.accepted \cup report.rejected) = {}
    /\ ~report.aborted =>
          report.accepted \cup report.rejected \cup Covered(report.pending) = 0 .. count - 1

(* Only the records the server objects to are reported as rejected (they   *)
(* are the ones whose retry is put off), and none of them as accepted.     *)
BlameIsExact ==
    /\ report.rejected \subseteq bad
    /\ report.accepted \cap bad = {}

\* The ranges on the stack are not empty and lie above one another: each ends
\* where, or before, the ones below it begin.
Stacked ==
    /\ \A i \in DOMAIN report.pending : report.pending[i].lo < report.pending[i].hi
    /\ \A i, j \in DOMAIN report.pending :
          i < j => report.pending[j].hi <= report.pending[i].lo

\* The inductive invariant behind Partition and BlameIsExact.
IndInv == TypeOK /\ Stacked /\ Partition /\ BlameIsExact

(* "Enough for about 1 bad record in a batch of 100" (sync.cpp:33): with   *)
(* the real limits, one bad record never exhausts the budget; a loop that  *)
(* breaks has met a transport error.                                       *)
BudgetSuffices ==
    Cardinality(bad) <= 1 /\ report.aborted => report.requests < MaxRequests
=============================================================================
