----------------------------- MODULE MCSyncQueue -----------------------------
(* Instances of the upload queue: one row, or none, is refused.            *)
EXTENDS SyncQueue

mcStartOf == [i \in Ids |-> i]
mcOneInvalid == {1}
mcNoneInvalid == {}
=============================================================================
