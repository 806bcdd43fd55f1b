----------------------------- MODULE RemoteView -----------------------------
(***************************************************************************)
(* Remote View: a read-only HTTP server in a thread of the agent           *)
(* (remoteview.cpp), started at launch and restarted by the Save button of *)
(* its page (remoteviewpage.cpp).  One thread accepts and serves; a client *)
(* may connect and say nothing for as long as it likes, and the thread     *)
(* waits for it in recv.  The page's stop waits two seconds for the        *)
(* thread, no longer.                                                      *)
(***************************************************************************)
EXTENDS Integers, FiniteSets

CONSTANTS
    MaxSaves        \* bound: saves of the page, each with a new token

ASSUME RemoteAssumption == MaxSaves \in Nat

VARIABLES
    rvSettings,  \* remote_view_enabled and remote_view_token
    g_running, g_listen_socket, g_thread,
    rvThreads,   \* the accept threads: where each one is
    rvGui,       \* where the page's onSave is
    rvSaves,     \* saves so far
    rvLate       \* history: a stop gave up waiting, or a save failed

rvVars == <<rvSettings, g_running, g_listen_socket, g_thread, rvThreads, rvGui, rvSaves, rvLate>>

Sockets == 0..MaxSaves + 1      \* 0 is INVALID_SOCKET
ThreadIds == 0..MaxSaves + 1    \* 0 is NULL

\* An accept thread: at the loop's head, in accept on a socket, in recv, or
\* about to answer with the settings it read.
Thread ==
    [id : ThreadIds, at : {"loop", "accept", "recv", "answer"}, socket : Sockets,
     read : [on : BOOLEAN, token : 0..MaxSaves]]

rvTypeOK ==
    /\ rvSettings \in [on : BOOLEAN, token : 0..MaxSaves]
    /\ g_running \in BOOLEAN /\ g_listen_socket \in Sockets /\ g_thread \in ThreadIds
    /\ rvThreads \subseteq Thread
    /\ rvGui \in {"idle", "stop", "wait", "start"}
    /\ rvSaves \in 0..MaxSaves /\ rvLate \in BOOLEAN

NewThread(i) == [id |-> i, at |-> "loop", socket |-> 0, read |-> [on |-> FALSE, token |-> 0]]

\* main: the server starts with the settings of the file, when they say so.
rvInit ==
    /\ rvSettings \in [on : BOOLEAN, token : {0}]
    /\ g_running = rvSettings.on
    /\ g_listen_socket = (IF rvSettings.on THEN 1 ELSE 0)
    /\ g_thread = (IF rvSettings.on THEN 1 ELSE 0)
    /\ rvThreads = (IF rvSettings.on THEN {NewThread(1)} ELSE {})
    /\ rvGui = "idle" /\ rvSaves = 0 /\ rvLate = FALSE

-----------------------------------------------------------------------------
(* The accept threads.                                                     *)

Goes(t, u) == rvThreads' = (rvThreads \ {t}) \cup {u}
ThreadOnly == UNCHANGED <<rvSettings, g_running, g_listen_socket, g_thread, rvGui, rvSaves, rvLate>>

\* acceptLoop: the flag is read again before every accept.
acceptLoop(t) ==
    /\ t.at = "loop"
    /\ IF g_running THEN Goes(t, [t EXCEPT !.at = "accept", !.socket = g_listen_socket])
                    ELSE rvThreads' = rvThreads \ {t}
    /\ ThreadOnly

\* accept fails on a socket that was closed; the loop ends if the flag says so.
AcceptFails(t) ==
    /\ t.at = "accept" /\ t.socket # g_listen_socket
    /\ IF g_running THEN Goes(t, [t EXCEPT !.at = "loop"]) ELSE rvThreads' = rvThreads \ {t}
    /\ ThreadOnly

Connect(t) ==
    /\ t.at = "accept" /\ t.socket = g_listen_socket /\ t.socket # 0
    /\ Goes(t, [t EXCEPT !.at = "recv"]) /\ ThreadOnly

\* handleClient: the request arrives, the settings are read and the token
\* compared; a client that goes away, or whose token is wrong, is done with.
handleClient(t) ==
    /\ t.at = "recv"
    /\ \/ Goes(t, [t EXCEPT !.at = "loop"])
       \/ rvSettings.on /\ Goes(t, [t EXCEPT !.at = "answer", !.read = rvSettings])
    /\ ThreadOnly

\* sendResponse with /status or /today.
sendResponse(t) == t.at = "answer" /\ Goes(t, [t EXCEPT !.at = "loop"]) /\ ThreadOnly

-----------------------------------------------------------------------------
(* The page's Save.                                                        *)

\* onSave: the settings are replaced in memory; the server is restarted unless
\* the file could not be written.
onSaveRemote(on, ok) ==
    /\ rvGui = "idle" /\ rvSaves < MaxSaves
    /\ rvSaves' = rvSaves + 1
    /\ rvSettings' = [on |-> on, token |-> rvSaves + 1]
    /\ rvGui' = IF ok THEN "stop" ELSE "idle"
    /\ rvLate' = (rvLate \/ ~ok)
    /\ UNCHANGED <<g_running, g_listen_socket, g_thread, rvThreads>>

\* remoteview_stop up to its wait.
remoteview_stop ==
    /\ rvGui = "stop"
    /\ IF g_running
       THEN /\ g_running' = FALSE /\ g_listen_socket' = 0
            /\ rvGui' = IF g_thread # 0 THEN "wait" ELSE "start"
       ELSE rvGui' = "start" /\ UNCHANGED <<g_running, g_listen_socket>>
    /\ UNCHANGED <<rvSettings, g_thread, rvThreads, rvSaves, rvLate>>

ThreadEnded == \A t \in rvThreads : t.id # g_thread

\* A plausible slip: the handle is closed without a wait.
WaitForThreadNever ==
    /\ rvGui = "wait" /\ rvGui' = "start" /\ g_thread' = 0
    /\ UNCHANGED <<rvSettings, g_running, g_listen_socket, rvThreads, rvSaves, rvLate>>

\* WaitForSingleObject of two seconds: the thread ended, or a client or the
\* database holds it up.
WaitForThread ==
    /\ rvGui = "wait"
    /\ ThreadEnded \/ \E t \in rvThreads : t.id = g_thread /\ t.at \in {"recv", "answer"}
    /\ rvGui' = "start" /\ g_thread' = 0
    /\ rvLate' = (rvLate \/ ~ThreadEnded)
    /\ UNCHANGED <<rvSettings, g_running, g_listen_socket, rvThreads, rvSaves>>

\* remoteview_start: nothing when it is switched off; no socket, or a port
\* that cannot be bound, leaves it stopped.
remoteview_start(bound) ==
    /\ rvGui = "start" /\ rvGui' = "idle"
    /\ IF rvSettings.on /\ bound
       THEN /\ g_running' = TRUE
            /\ g_listen_socket' = rvSaves + 1 /\ g_thread' = rvSaves + 1
            /\ rvThreads' = rvThreads \cup {NewThread(rvSaves + 1)}
       ELSE UNCHANGED <<g_running, g_listen_socket, g_thread, rvThreads>>
    /\ UNCHANGED <<rvSettings, rvSaves, rvLate>>

rvNext ==
    \/ \E t \in rvThreads :
           acceptLoop(t) \/ AcceptFails(t) \/ Connect(t) \/ handleClient(t) \/ sendResponse(t)
    \/ \E on, ok \in BOOLEAN : onSaveRemote(on, ok)
    \/ remoteview_stop \/ WaitForThread
    \/ \E bound \in BOOLEAN : remoteview_start(bound)

-----------------------------------------------------------------------------
\* After a Save whose stop did not give up and whose file was written, at most
\* one thread serves, and what it is about to answer was allowed by the
\* settings in force: an old token, or the switch left on, opens nothing once
\* onSave is over (remoteview_stop waits for the thread before the restart).
OldTokenIsDead ==
    rvGui = "idle" /\ ~rvLate =>
        /\ Cardinality(rvThreads) <= 1
        /\ \A t \in rvThreads : t.at = "answer" => t.read = rvSettings /\ rvSettings.on
=============================================================================
