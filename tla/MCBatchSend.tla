----------------------------- MODULE MCBatchSend -----------------------------
(* Instances of the bisecting sender: small batches, and full ones.        *)
EXTENDS BatchSend

mcCounts == 0 .. 10 \cup {33, 99, 100}   \* 100 is MAX_RECORDS
=============================================================================
