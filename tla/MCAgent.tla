------------------------------- MODULE MCAgent -------------------------------
(* The agent's parts that meet only through a call of one another or a     *)
(* file, each on an instance of its own: a behaviour is one part's, and    *)
(* the others rest in an initial state.  The state space is the sum of     *)
(* theirs.  (The tracker, the upload queue and the session have runs of    *)
(* their own.)                                                             *)
EXTENDS AppLimits, DayTotals, CloudLoop, Settings, RemoteView, ControlPanel, TrayTasks,
        JsonText, HttpClient, DeviceId

VARIABLE part

mcApp == <<1, 0, 2, 0>>                                 \* "1.0.2 release"
mcReleases == {<<1, 0, 2, 0, 0>>, <<1, 0, 2, 2>>, <<1, 0>>}

vars == <<alVars, dtVars, clVars, stVars, rvVars, cpVars, ttVars, jtVars, hcVars, diVars, part>>

Init ==
    /\ part \in {"limits", "totals", "loop", "settings", "remote", "panel", "tasks", "json",
                "http", "device"}
    /\ alInit /\ dtInit /\ clInit /\ stInit /\ rvInit /\ cpInit /\ ttInit /\ jtInit /\ hcInit /\ diInit
    /\ part # "remote" => ~rvSettings.on
    /\ part # "panel" => cpSession = Nobody /\ app_role = "child"
    /\ part # "device" => deviceFile.id = NoId

Next ==
    /\ UNCHANGED part
    /\ \/ /\ part = "limits" /\ alNext
          /\ UNCHANGED <<dtVars, clVars, stVars, rvVars, cpVars, ttVars, jtVars, hcVars, diVars>>
       \/ /\ part = "totals" /\ dtNext
          /\ UNCHANGED <<alVars, clVars, stVars, rvVars, cpVars, ttVars, jtVars, hcVars, diVars>>
       \/ /\ part = "loop" /\ clNext
          /\ UNCHANGED <<alVars, dtVars, stVars, rvVars, cpVars, ttVars, jtVars, hcVars, diVars>>
       \/ /\ part = "settings" /\ stNext
          /\ UNCHANGED <<alVars, dtVars, clVars, rvVars, cpVars, ttVars, jtVars, hcVars, diVars>>
       \/ /\ part = "remote" /\ rvNext
          /\ UNCHANGED <<alVars, dtVars, clVars, stVars, cpVars, ttVars, jtVars, hcVars, diVars>>
       \/ /\ part = "panel" /\ cpNext
          /\ UNCHANGED <<alVars, dtVars, clVars, stVars, rvVars, ttVars, jtVars, hcVars, diVars>>
       \/ /\ part = "tasks" /\ ttNext
          /\ UNCHANGED <<alVars, dtVars, clVars, stVars, rvVars, cpVars, jtVars, hcVars, diVars>>
       \/ /\ part = "json" /\ jtNext
          /\ UNCHANGED <<alVars, dtVars, clVars, stVars, rvVars, cpVars, ttVars, hcVars, diVars>>
       \/ /\ part = "http" /\ hcNext
          /\ UNCHANGED <<alVars, dtVars, clVars, stVars, rvVars, cpVars, ttVars, jtVars, diVars>>
       \/ /\ part = "device" /\ diNext
          /\ UNCHANGED <<alVars, dtVars, clVars, stVars, rvVars, cpVars, ttVars, jtVars, hcVars>>

\* At rest no fair action is enabled: the limits have no session to be fetched
\* or checked for.
Spec == Init /\ [][Next]_vars /\ alFair

\* The type invariants of the parts.
PartsTypeOK ==
    /\ alTypeOK /\ dtTypeOK /\ clTypeOK /\ stTypeOK /\ rvTypeOK /\ cpTypeOK /\ ttTypeOK
    /\ jtTypeOK /\ hcTypeOK /\ diTypeOK

\* What a restart finds is what the program held: the limits' cache with its
\* account (saveCacheToDisk), and the settings with the generated token
\* (settings_load, settings_update), unless the last write failed.
FilesAreCurrent == DiskFollowsCache /\ RestartFindsSettings
=============================================================================
