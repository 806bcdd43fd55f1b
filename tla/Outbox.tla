-------------------------------- MODULE Outbox --------------------------------
(***************************************************************************)
(* What the upload queue promises, without its table, batches, retries and *)
(* faults: an activity that was handed over waits until it has been        *)
(* delivered, at least once, and nothing else is delivered.  Activities    *)
(* are told apart by their start time, the key of the cloud's table.       *)
(***************************************************************************)
CONSTANT Keys

VARIABLES
    handed,      \* activities handed over
    waiting,     \* those kept for delivery
    delivered    \* those the cloud has

outboxVars == <<handed, waiting, delivered>>

Init == handed = {} /\ waiting = {} /\ delivered = {}

HandOver ==
    \E k \in Keys : /\ handed' = handed \cup {k}
                    /\ waiting' = waiting \cup {k}
                    /\ UNCHANGED delivered

\* Delivered again when an answer was lost: then nothing changes.
Deliver ==
    \E k \in waiting : delivered' = delivered \cup {k} /\ UNCHANGED <<handed, waiting>>

\* Several at once: the answers of a batch are recorded together.
Confirm ==
    \E done \in SUBSET (waiting \cap delivered) :
        waiting' = waiting \ done /\ UNCHANGED <<handed, delivered>>

Next == HandOver \/ Deliver \/ Confirm

Spec == Init /\ [][Next]_outboxVars
=============================================================================
