---------------------------- MODULE MCAuthSession ----------------------------
(* Instances of the session: the GUI and the cloud thread.                 *)
EXTENDS AuthSession

mcNoFaults == {}
mcTokenFaults == {"lost", "revoke", "disk", "crash"}
mcTrouble == {"trouble"}
mcFull == {}
mcOmits == {"user", "refresh"}
=============================================================================
