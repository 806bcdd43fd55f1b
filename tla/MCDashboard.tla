----------------------------- MODULE MCDashboard -----------------------------
(* The parts of the Qt dashboard that meet only through a call of one      *)
(* another or a file, each on an instance of its own: a behaviour is one   *)
(* part's, and the others rest in an initial state.  The state space is    *)
(* the sum of theirs.  (The family page has a run with the server and the  *)
(* agents.)                                                                *)
EXTENDS SystemMonitor, MachinePages, LocalHistory, DashSettings, Dashboard

VARIABLE part

mcOffset == -1          \* an hour west of Greenwich
mcDrives == <<"C", "D">>

vars == <<smVars, pgVars, lhVars, dsVars, qVars, part>>

Init ==
    /\ part \in {"monitor", "machine", "history", "settings", "window"}
    /\ smInit /\ pgInit /\ lhInit /\ dsInit /\ qInit
    /\ part # "monitor" => \A t \in Thresholds : cpuThreshold <= t
    /\ part # "settings" => dsDisk.file = "missing"
    /\ part # "window" => qSession = Guest

Next ==
    /\ UNCHANGED part
    /\ \/ part = "monitor" /\ smNext /\ UNCHANGED <<pgVars, lhVars, dsVars, qVars>>
       \/ part = "machine" /\ pgNext /\ UNCHANGED <<smVars, lhVars, dsVars, qVars>>
       \/ part = "history" /\ lhNext /\ UNCHANGED <<smVars, pgVars, dsVars, qVars>>
       \/ part = "settings" /\ dsNext /\ UNCHANGED <<smVars, pgVars, lhVars, qVars>>
       \/ part = "window" /\ qNext /\ UNCHANGED <<smVars, pgVars, lhVars, dsVars>>

\* At rest nobody is logged in and no request is under way.
Spec == Init /\ [][Next]_vars /\ qFair

\* The type invariants of the parts.
PartsTypeOK == smTypeOK /\ pgTypeOK /\ lhTypeOK /\ dsTypeOK /\ qTypeOK

\* The widgets keep what they show from call to call and change it only when
\* something differs: colours, rows, thresholds and the account button are
\* those of the last sample, file and session all the same.
ShownIsCurrent == BarsAreTrue /\ DriveTableIsWhole /\ PanelFollowsFile /\ GlyphIsTrue
=============================================================================
