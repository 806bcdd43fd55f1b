----------------------------- MODULE TrayTasks -----------------------------
(***************************************************************************)
(* What the tray menu starts and does not wait for: update checks          *)
(* (updatechecker.cpp and the tray's three handlers of their results), the *)
(* web dashboard's server with the browser opened when it answers, the     *)
(* dashboard program and the debug console.                                *)
(***************************************************************************)
EXTENDS Integers, Sequences, FiniteSets

CONSTANTS
    AppVersion,     \* APP_VERSION as its parts are read: a part that is no
                    \* number ("2 release") is 0
    Releases,       \* versions the server may have published
    MaxChecks,      \* bound: requests under way
    MaxAttempts,    \* 20 probes
    Clicks          \* clicks on the web dashboard's button

ASSUME TasksAssumption ==
    /\ AppVersion \in Seq(Nat) /\ \A v \in Releases : v \in Seq(Nat)
    /\ MaxChecks \in Nat /\ MaxAttempts \in Nat \ {0}

VARIABLES
    ttChecks,               \* requests of the update checker under way
    m_manualUpdateCheck,
    ttOffered,              \* the menu's "Check for updates" is enabled
    ttDownload,             \* versions offered by the download item: none or one
    m_lastNotifiedVersion,  \* likewise
    ttServer,               \* something listens on port 5000
    ttTimers,               \* per click: idle, probes done so far, or opened
    ttDash,                 \* dashboard processes: number holding the mutex, and with a window
    ttConsole               \* the debug console

upVars == <<ttChecks, m_manualUpdateCheck, ttOffered, ttDownload, m_lastNotifiedVersion>>
webVars == <<ttServer, ttTimers>>
ttVars == <<upVars, webVars, ttDash, ttConsole>>

NotAsking == -1
Opened == MaxAttempts

ttTypeOK ==
    /\ ttChecks \in 0..MaxChecks
    /\ {m_manualUpdateCheck, ttOffered, ttServer} \subseteq BOOLEAN
    /\ ttDownload \subseteq Releases /\ Cardinality(ttDownload) <= 1
    /\ m_lastNotifiedVersion \subseteq Releases /\ Cardinality(m_lastNotifiedVersion) <= 1
    /\ ttTimers \in [Clicks -> NotAsking..Opened]
    /\ ttDash \in [holding : 0..1, windows : 0..1]
    /\ ttConsole \in [ticked : BOOLEAN, created : BOOLEAN, enabled : BOOLEAN]

ttInit ==
    /\ ttChecks = 0 /\ m_manualUpdateCheck = FALSE /\ ttOffered = TRUE
    /\ ttDownload = {} /\ m_lastNotifiedVersion = {}
    /\ ttServer = FALSE /\ ttTimers = [c \in Clicks |-> NotAsking]
    /\ ttDash = [holding |-> 0, windows |-> 0]
    /\ ttConsole = [ticked |-> FALSE, created |-> FALSE, enabled |-> FALSE]

-----------------------------------------------------------------------------
(* Updates.                                                                *)

Part(v, i) == IF i <= Len(v) THEN v[i] ELSE 0

\* A plausible slip: parts one of the versions lacks are not compared.
compareVersionsShort(a, b) ==
    LET n == IF Len(a) < Len(b) THEN Len(a) ELSE Len(b)
        D == {i \in 1..n : Part(a, i) # Part(b, i)}
    IN  IF D = {} THEN Len(a) - Len(b)
        ELSE LET i == CHOOSE k \in D : \A j \in D : k <= j IN Part(a, i) - Part(b, i)

\* compareVersions: the first part that differs decides; a missing part is 0.
compareVersions(a, b) ==
    LET n == IF Len(a) > Len(b) THEN Len(a) ELSE Len(b)
        D == {i \in 1..n : Part(a, i) # Part(b, i)}
    IN  IF D = {} THEN 0
        ELSE LET i == CHOOSE k \in D : \A j \in D : k <= j IN Part(a, i) - Part(b, i)

\* checkNow sends one more request.
checkNow == ttChecks < MaxChecks /\ ttChecks' = ttChecks + 1

\* The timers of the constructor: five seconds after start, then every six hours.
TimedCheck ==
    /\ checkNow /\ m_manualUpdateCheck' = FALSE
    /\ UNCHANGED <<ttOffered, ttDownload, m_lastNotifiedVersion>>

onCheckForUpdates ==
    /\ ttOffered /\ checkNow
    /\ m_manualUpdateCheck' = TRUE /\ ttOffered' = FALSE
    /\ UNCHANGED <<ttDownload, m_lastNotifiedVersion>>

\* onUpdateAvailable: a balloon once per version, or for the user who asked.
onUpdateAvailable(v) ==
    /\ ttOffered' = TRUE /\ ttDownload' = {v} /\ m_manualUpdateCheck' = FALSE
    /\ IF m_manualUpdateCheck \/ v \notin m_lastNotifiedVersion
       THEN m_lastNotifiedVersion' = {v} ELSE UNCHANGED m_lastNotifiedVersion

\* onUpdateUpToDate; onUpdateCheckFailed: a box only for the user who asked.
onUpdateUpToDate ==
    /\ ttOffered' = TRUE /\ m_manualUpdateCheck' = FALSE
    /\ UNCHANGED <<ttDownload, m_lastNotifiedVersion>>
onUpdateCheckFailed ==
    /\ ttOffered' = TRUE /\ m_manualUpdateCheck' = FALSE
    /\ UNCHANGED <<ttDownload, m_lastNotifiedVersion>>

\* onReply: any of the requests under way ends, with an error or a release.
onReply ==
    /\ ttChecks > 0 /\ ttChecks' = ttChecks - 1
    /\ \/ onUpdateCheckFailed
       \/ \E v \in Releases : IF compareVersions(v, AppVersion) > 0 THEN onUpdateAvailable(v)
                              ELSE onUpdateUpToDate

Updates == TimedCheck \/ onCheckForUpdates \/ onReply

-----------------------------------------------------------------------------
(* The web dashboard: the server is another process and may never answer.  *)

ServerChanges == ttServer' = ~ttServer /\ UNCHANGED ttTimers

\* A probe of the port; the GUI waits for it.
isPortOpen == ttServer

\* openWebDashboard: a server that answers is used, a missing program ends it,
\* otherwise it is started and a timer probes the port.
openWebDashboard(c) ==
    /\ ttTimers[c] = NotAsking
    /\ \/ isPortOpen /\ ttTimers' = [ttTimers EXCEPT ![c] = Opened]
       \/ ~isPortOpen /\ ttTimers' = [ttTimers EXCEPT ![c] = 0]
    /\ UNCHANGED ttServer

\* The timer's slot: the browser opens when the port answers, and after the last
\* attempt in any case.
RetryTimer(c) ==
    /\ ttTimers[c] \in 0..MaxAttempts - 1
    /\ ttTimers' = [ttTimers EXCEPT ![c] = IF isPortOpen THEN Opened ELSE @ + 1]
    /\ UNCHANGED ttServer

\* launchDashboard of the tray, for the Python dashboard on the same port: a
\* program that does not start ends it, one that starts is given 1.2 seconds
\* (one tick of the timer) before the browser opens.
launchDashboard(c) ==
    /\ ttTimers[c] = NotAsking
    /\ ttTimers' = [ttTimers EXCEPT ![c] = IF isPortOpen THEN Opened ELSE MaxAttempts - 1]
    /\ UNCHANGED ttServer

Web == ServerChanges \/ \E c \in Clicks : openWebDashboard(c) \/ RetryTimer(c) \/ launchDashboard(c)

-----------------------------------------------------------------------------
(* The dashboard program and the console.                                  *)

\* A plausible slip: the second process asks for the window, not for the mutex.
DashMainByWindow ==
    IF ttDash.windows > 0 THEN UNCHANGED ttDash ELSE ttDash' = [ttDash EXCEPT !.holding = @ + 1]

\* onOpenDashboard always starts a process; its main ends at once when the
\* mutex exists already, whether or not the other one has its window yet.
DashMain ==
    IF ttDash.holding > 0 THEN UNCHANGED ttDash ELSE ttDash' = [ttDash EXCEPT !.holding = 1]
DashWindow == ttDash.holding > 0 /\ ttDash.windows = 0 /\ ttDash' = [ttDash EXCEPT !.windows = 1]
DashExit == ttDash.holding > 0 /\ ttDash' = [holding |-> 0, windows |-> 0]

\* createConsole may fail, and is asked again the next time.
createConsole(ok) == ttConsole.created \/ ok

\* onToggleDebugConsole and jit_console_show.
onToggleDebugConsole(ok) ==
    LET on == ~ttConsole.ticked
    IN  ttConsole' = [ticked |-> on,
                      created |-> IF on THEN createConsole(ok) ELSE ttConsole.created,
                      enabled |-> on /\ createConsole(ok)]

ttNext ==
    \/ Updates /\ UNCHANGED <<webVars, ttDash, ttConsole>>
    \/ Web /\ UNCHANGED <<upVars, ttDash, ttConsole>>
    \/ (DashMain \/ DashWindow \/ DashExit) /\ UNCHANGED <<upVars, webVars, ttConsole>>
    \/ (\E ok \in BOOLEAN : onToggleDebugConsole(ok)) /\ UNCHANGED <<upVars, webVars, ttDash>>

-----------------------------------------------------------------------------
\* A version is offered only when it is newer than the running one, part by
\* part as numbers (compareVersions decides on the first difference), however
\* the answers of several checks overtake each other.
OffersAreNewer ==
    \A v \in ttDownload :
        \E i \in 1..Len(v) :
            /\ Part(v, i) > Part(AppVersion, i)
            /\ \A j \in 1..i - 1 : Part(v, j) = Part(AppVersion, j)

\* The menu's check can be asked for again once nothing is under way: every
\* outcome of every request gives the item back (the three handlers).
CheckComesBack == ttChecks = 0 => ttOffered

\* A check gives the user nothing but newer versions, and can be repeated, with
\* timed and asked-for checks under way at once (onReply, compareVersions).
ChecksAreSound == OffersAreNewer /\ CheckComesBack
=============================================================================
