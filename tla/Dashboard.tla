----------------------------- MODULE Dashboard -----------------------------
(* The Qt dashboard's window (mainwindow.cpp) with its rail, sidebar, cloud *)
(* and devices pages, and the two modal dialogs that change the session     *)
(* file (logindialog.cpp, settingsdialog.cpp, dashsession.cpp). Requests    *)
(* run on threads of their own (asyncutil.h) and come back in any order;    *)
(* the callback is queued to the object that asked, through a raw pointer.  *)
(* The family page is modelled in FamilyPage.                               *)
EXTENDS Integers, FiniteSets

CONSTANTS DashUsers, Guest,    \* accounts; nobody
          Peers, Self, NoPeer, \* the account's other devices; this one; none
          MaxDashJobs,         \* bound: requests under way
          MaxDialogs           \* bound: dialogs opened

ASSUME WindowAssumption ==
    Guest \notin DashUsers /\ NoPeer \notin Peers /\ Self \notin Peers /\ {MaxDashJobs, MaxDialogs} \subseteq Nat

VARIABLES qSession,   \* dash_session.dat: whose, or Guest
          qToken,     \* the session's access token is still accepted
          qGlyph,     \* the account button
          qSection,   \* the rail's section
          qDialog,    \* the dialog that is open; its number is its address
          qJobs,      \* requests under way
          qCloud,     \* whose rows the cloud page shows
          qSidebar,   \* whose machines the sidebar lists
          qDevices,   \* the devices page
          qMessages,  \* device_messages
          qDown       \* the process ended on undefined behaviour

qVars == <<qSession, qToken, qGlyph, qSection, qDialog, qJobs, qCloud, qSidebar, qDevices,
           qMessages, qDown>>

Anyone == DashUsers \cup {Guest}
Ops == {"cloud", "sidebar", "devices", "thread", "send", "export", "login", "password", "logout"}
NoThread == [peer |-> NoPeer, who |-> Guest]
Target == Peers \cup {NoPeer}
Sections == 0..3   \* the rail's buttons: overview, activity, devices, family

\* What the devices page and the window's dialog hold.
DevicesPage == [list : Anyone, selected : Target, pending : Target \cup {Self},
                thread : [peer : Target, who : Anyone], canSend : BOOLEAN]
Dialogs == [kind : {"none", "login", "settings"}, no : 0..MaxDialogs, closing : BOOLEAN]

\* One type invariant for the module's state.
qTypeOK ==
    /\ qSession \in Anyone /\ qToken \in BOOLEAN /\ qGlyph \in Anyone /\ qSection \in Sections
    /\ qDialog \in Dialogs
    /\ qJobs \subseteq [op : Ops, ctx : 0..MaxDialogs, who : Anyone, arg : Target]
    /\ qCloud \in Anyone /\ qSidebar \in Anyone
    /\ qDevices \in DevicesPage /\ qDevices.canSend = (qDevices.selected # NoPeer)
    /\ \A m \in qMessages : m.to \in Peers /\ m.who \in DashUsers

\* DevicesPage's constructor: nothing selected, nothing can be sent.
EmptyDevices == [list |-> Guest, selected |-> NoPeer, pending |-> NoPeer,
                 thread |-> NoThread, canSend |-> FALSE]

\* The cloud page and the sidebar as they are built: nobody's rows.
EmptyCloud == Guest
EmptySidebar == Guest

\* dashsession.cpp: each use reads the file anew; a save that fails keeps it.
loadDashSession == qSession
saveDashSession(u) == {u, qSession}
clearDashSession == Guest

\* runAsync: a thread for the request; ctx 0 is a page of the window.
Job(op, ctx, arg) == [op |-> op, ctx |-> ctx, who |-> loadDashSession, arg |-> arg]

qInit ==
    /\ qSession \in Anyone /\ qToken = TRUE /\ qGlyph = qSession /\ qSection = 0
    /\ qDialog = [kind |-> "none", no |-> 0, closing |-> FALSE]
    /\ qJobs = IF qSession = Guest THEN {} ELSE {Job("sidebar", 0, NoPeer)}
    /\ qCloud = EmptyCloud /\ qSidebar = EmptySidebar /\ qDevices = EmptyDevices
    /\ qMessages = {} /\ qDown = FALSE

Room(n) == Cardinality(qJobs) + n <= MaxDashJobs
WindowFree == ~qDown /\ qDialog.kind = "none"   \* both dialogs are modal

-----------------------------------------------------------------------------
\* The pages' refresh: a request for the session s, or, without one, the page
\* is cleared. The devices page keeps its selection and its buttons.
RefreshJobs(s, ops) ==
    IF s = Guest THEN {} ELSE {[op |-> o, ctx |-> 0, who |-> s, arg |-> NoPeer] : o \in ops}
CloudRefresh(s) == qCloud' = IF s = Guest THEN EmptyCloud ELSE qCloud
SidebarRefresh(s) == qSidebar' = IF s = Guest THEN EmptySidebar ELSE qSidebar
DevicesRefreshed(s) == IF s = Guest THEN [qDevices EXCEPT !.list = Guest, !.thread = NoThread]
                                    ELSE qDevices

\* LeftRail::setCurrentIndex, and what the sections load when they are shown.
setCurrentIndex(i) == qSection' = i
LoadsOf(i) == CASE i = 1 -> {"cloud"} [] i = 2 -> {"devices"} [] OTHER -> {}

\* showSection: the activity and devices sections load anew.
showSection(i) ==
    /\ WindowFree /\ setCurrentIndex(i) /\ Room(1)
    /\ qJobs' = qJobs \cup RefreshJobs(qSession, LoadsOf(i))
    /\ IF i = 1 THEN CloudRefresh(qSession) ELSE UNCHANGED qCloud
    /\ qDevices' = IF i = 2 THEN DevicesRefreshed(qSession) ELSE qDevices
    /\ UNCHANGED <<qSession, qToken, qGlyph, qDialog, qSidebar, qMessages, qDown>>

\* The week and month buttons of the cloud page.
setRange == /\ WindowFree /\ qSection = 1 /\ qSession # Guest /\ Room(1)
            /\ qJobs' = qJobs \cup {Job("cloud", 0, NoPeer)}
            /\ UNCHANGED <<qSession, qToken, qGlyph, qSection, qDialog, qCloud, qSidebar, qDevices,
                           qMessages, qDown>>

exportCsv == /\ WindowFree /\ qSection = 0 /\ qSession # Guest /\ Room(1)
             /\ qJobs' = qJobs \cup {Job("export", 0, NoPeer)}
             /\ UNCHANGED <<qSession, qToken, qGlyph, qSection, qDialog, qCloud, qSidebar, qDevices,
                            qMessages, qDown>>

\* selectDeviceById: the machine to be selected once the list is there.
selectDeviceById(page, d) == [page EXCEPT !.pending = d]

\* A machine of the sidebar: the devices section is shown, then told.
onMachineSelected ==
    /\ WindowFree /\ qSidebar # Guest /\ setCurrentIndex(2) /\ Room(1)
    /\ qJobs' = qJobs \cup RefreshJobs(qSession, {"devices"})
    /\ \E d \in Peers \cup {Self} : qDevices' = selectDeviceById(DevicesRefreshed(qSession), d)
    /\ UNCHANGED <<qSession, qToken, qGlyph, qDialog, qCloud, qSidebar, qMessages, qDown>>

\* loadThread and sendMessage take the token of a session that may be gone:
\* reading it then is undefined, the process ends or asks with a stray token.
Loads(op, d) == /\ qJobs' = qJobs \cup {Job(op, 0, d)}
                /\ qDown' \in IF qSession = Guest THEN BOOLEAN ELSE {FALSE}

\* As it would be if only the constructor set the buttons.
SelectedMute(d) == [qDevices EXCEPT !.selected = d]

\* selectDevice: the buttons are enabled with the first selection.
Selected(d) == [qDevices EXCEPT !.selected = d, !.canSend = TRUE]

selectDevice ==
    /\ WindowFree /\ qSection = 2 /\ qDevices.list # Guest /\ Room(1)
    /\ \E d \in Peers : qDevices' = Selected(d) /\ Loads("thread", d)
    /\ UNCHANGED <<qSession, qToken, qGlyph, qSection, qDialog, qCloud, qSidebar, qMessages>>

\* sendMessage and shareStats: the device is the one selected now.
sendMessage ==
    /\ WindowFree /\ qSection = 2 /\ qDevices.canSend /\ Room(1)
    /\ Loads("send", qDevices.selected)
    /\ UNCHANGED <<qSession, qToken, qGlyph, qSection, qDialog, qCloud, qSidebar, qDevices, qMessages>>

-----------------------------------------------------------------------------
updateAccountGlyph(s) == qGlyph' = s

\* The account button, logged in: after a question, the session file is
\* deleted and every page refreshed.
AccountLogout ==
    /\ WindowFree /\ qSession # Guest
    /\ qSession' = clearDashSession /\ updateAccountGlyph(Guest)
    /\ CloudRefresh(Guest) /\ SidebarRefresh(Guest) /\ qDevices' = DevicesRefreshed(Guest)
    /\ UNCHANGED <<qToken, qSection, qDialog, qJobs, qMessages, qDown>>

\* The dialogs as they are built.
LoginDialog == [kind |-> "login", no |-> qDialog.no + 1, closing |-> FALSE]
SettingsDialog == [kind |-> "settings", no |-> qDialog.no + 1, closing |-> FALSE]

\* It opens the login dialog otherwise; the rail's button opens the settings.
OpenDialog ==
    /\ WindowFree /\ qDialog.no < MaxDialogs
    /\ \/ qSession = Guest /\ qDialog' = LoginDialog
       \/ qDialog' = SettingsDialog
    /\ UNCHANGED <<qSession, qToken, qGlyph, qSection, qJobs, qCloud, qSidebar, qDevices,
                   qMessages, qDown>>

Closed == [qDialog EXCEPT !.kind = "none", !.closing = FALSE]

\* Cancel, Close, or the 600 ms after a logout; openSettings sets the glyph.
CloseDialog ==
    /\ ~qDown /\ qDialog.kind # "none" /\ qDialog' = Closed
    /\ IF qDialog.kind = "settings" THEN updateAccountGlyph(qSession) ELSE UNCHANGED qGlyph
    /\ UNCHANGED <<qSession, qToken, qSection, qJobs, qCloud, qSidebar, qDevices, qMessages, qDown>>

\* doLogin; the Return key calls it although the button is disabled.
doLogin ==
    /\ ~qDown /\ qDialog.kind = "login" /\ Room(1)
    /\ \E u \in DashUsers :
         qJobs' = qJobs \cup {[op |-> "login", ctx |-> qDialog.no, who |-> u, arg |-> NoPeer]}
    /\ UNCHANGED <<qSession, qToken, qGlyph, qSection, qDialog, qCloud, qSidebar, qDevices,
                   qMessages, qDown>>

\* The settings dialog's requests: changePassword, logout(everywhere).
settingsRequest ==
    /\ ~qDown /\ qDialog.kind = "settings" /\ qSession # Guest /\ Room(1)
    /\ \E o \in {"password", "logout"} : qJobs' = qJobs \cup {Job(o, qDialog.no, NoPeer)}
    /\ UNCHANGED <<qSession, qToken, qGlyph, qSection, qDialog, qCloud, qSidebar, qDevices,
                   qMessages, qDown>>

-----------------------------------------------------------------------------
\* The dialog that asked is still there.
Alive(j) == j.ctx = 0 \/ (j.ctx = qDialog.no /\ qDialog.kind # "none")

\* The server's answers (cloud.cpp): a login may be refused, a logout is sent
\* with whatever token there is, and a REST call succeeds only with a token
\* that is still good. Any of them may fail on the way.
login == BOOLEAN
logout(j) == IF j.who = Guest THEN {FALSE} ELSE BOOLEAN
request(j) == IF j.who = Guest \/ ~qToken THEN {FALSE} ELSE BOOLEAN
Outcomes(j) == CASE j.op = "login" -> login [] j.op = "logout" -> logout(j) [] OTHER -> request(j)

\* The login's answer: the session is saved (or the save fails, unnoticed), the
\* dialog closes and every page is refreshed. A refusal is only shown.
LoginDone(j, ok) ==
    IF ~ok THEN /\ UNCHANGED <<qSession, qToken, qGlyph, qDialog, qCloud, qSidebar, qDevices>>
                /\ qJobs' = qJobs \ {j}
    ELSE \E s \in saveDashSession(j.who) :
         /\ qSession' = s /\ qToken' = TRUE /\ updateAccountGlyph(s) /\ qDialog' = Closed
         /\ CloudRefresh(s) /\ SidebarRefresh(s) /\ qDevices' = DevicesRefreshed(s)
         /\ qJobs' = (qJobs \ {j}) \cup RefreshJobs(s, {"cloud", "devices", "sidebar"})

\* As it would be if a refusal kept the session.
LogoutDoneIfTold(j, ok) ==
    /\ IF ok THEN /\ qSession' = Guest /\ updateAccountGlyph(Guest)
                  /\ qDialog' = [qDialog EXCEPT !.closing = TRUE]
             ELSE UNCHANGED <<qSession, qGlyph, qDialog>>
    /\ qJobs' = qJobs \ {j} /\ UNCHANGED <<qToken, qCloud, qSidebar, qDevices>>

\* The logout's answer, whatever it is: the session goes, the pages stay.
LogoutDone(j, ok) ==
    /\ qSession' = clearDashSession /\ updateAccountGlyph(Guest)
    /\ qDialog' = [qDialog EXCEPT !.closing = TRUE]
    /\ qJobs' = qJobs \ {j} /\ UNCHANGED <<qToken, qCloud, qSidebar, qDevices>>

\* loadDevices' answer: the list, and the selection that waited for it. This
\* device is not in the list; after an error the wish is kept.
DevicesLoaded(j, ok) ==
    LET d == qDevices.pending
        filled == [qDevices EXCEPT !.list = IF ok THEN j.who ELSE Guest,
                                   !.pending = IF ok THEN NoPeer ELSE d]
    IN  /\ IF ok /\ d \in Peers
           THEN /\ qDevices' = [Selected(d) EXCEPT !.list = j.who, !.pending = NoPeer]
                /\ qJobs' = (qJobs \ {j}) \cup {Job("thread", 0, d)}
                /\ qDown' \in IF qSession = Guest THEN BOOLEAN ELSE {FALSE}
           ELSE qDevices' = filled /\ qJobs' = qJobs \ {j} /\ UNCHANGED qDown
        /\ UNCHANGED <<qSession, qToken, qGlyph, qDialog, qCloud, qSidebar>>

\* The device a message goes to: the one the request was made with.
sendTarget(j) == j.arg

\* The message is stored; the page then loads the thread it now shows.
SendDone(j, ok) ==
    /\ qMessages' = IF ok THEN qMessages \cup {[to |-> sendTarget(j), who |-> j.who]}
                          ELSE qMessages
    /\ IF ok THEN /\ qJobs' = (qJobs \ {j}) \cup {Job("thread", 0, qDevices.selected)}
                  /\ qDown' \in IF qSession = Guest THEN BOOLEAN ELSE {FALSE}
             ELSE qJobs' = qJobs \ {j} /\ UNCHANGED qDown
    /\ UNCHANGED <<qSession, qToken, qGlyph, qDialog, qCloud, qSidebar, qDevices>>

\* What the pages show when their answer comes, whoever is logged in by then:
\* the cloud page keeps its rows on an error, the other two are cleared.
CloudLoaded(j, ok) == qCloud' = IF ok THEN j.who ELSE qCloud
SidebarLoaded(j, ok) == qSidebar' = IF ok THEN j.who ELSE EmptySidebar
ThreadLoaded(j, ok) ==
    qDevices' = [qDevices EXCEPT !.thread = IF ok THEN [peer |-> j.arg, who |-> j.who] ELSE NoThread]

\* A list or a thread; the answers of the other requests are only shown.
PageLoaded(j, ok) ==
    /\ IF j.op = "cloud" THEN CloudLoaded(j, ok) ELSE UNCHANGED qCloud
    /\ IF j.op = "sidebar" THEN SidebarLoaded(j, ok) ELSE UNCHANGED qSidebar
    /\ IF j.op = "thread" THEN ThreadLoaded(j, ok) ELSE UNCHANGED qDevices
    /\ qJobs' = qJobs \ {j} /\ UNCHANGED <<qSession, qToken, qGlyph, qDialog>>

\* A request ends and its callback runs. Queuing it to a dialog that is gone is
\* undefined: the process ends, or nothing happens.
Finish(j) ==
    /\ ~qDown /\ UNCHANGED qSection
    /\ \E ok \in Outcomes(j) :
         \/ /\ ~Alive(j) /\ qJobs' = qJobs \ {j} /\ qDown' \in BOOLEAN
            /\ UNCHANGED <<qSession, qToken, qGlyph, qDialog, qCloud, qSidebar, qDevices, qMessages>>
         \/ Alive(j) /\ j.op = "login" /\ LoginDone(j, ok) /\ UNCHANGED <<qMessages, qDown>>
         \/ Alive(j) /\ j.op = "logout" /\ LogoutDone(j, ok) /\ UNCHANGED <<qMessages, qDown>>
         \/ j.op = "devices" /\ DevicesLoaded(j, ok) /\ UNCHANGED qMessages
         \/ j.op = "send" /\ SendDone(j, ok)
         \/ /\ Alive(j) /\ j.op \in {"cloud", "sidebar", "thread", "export", "password"}
            /\ PageLoaded(j, ok) /\ UNCHANGED <<qMessages, qDown>>

\* The access token runs out; the dashboard never renews it.
TokenExpires == /\ ~qDown /\ qSession # Guest /\ qToken /\ qToken' = FALSE
                /\ UNCHANGED <<qSession, qGlyph, qSection, qDialog, qJobs, qCloud, qSidebar, qDevices,
                               qMessages, qDown>>

qNext == \/ \E i \in Sections : showSection(i)
         \/ setRange \/ exportCsv \/ onMachineSelected \/ selectDevice \/ sendMessage
         \/ AccountLogout \/ OpenDialog \/ CloseDialog \/ doLogin \/ settingsRequest
         \/ TokenExpires \/ \E j \in qJobs : Finish(j)

\* Every request ends (the HTTP client has timeouts), and the event loop runs.
qFair == WF_qVars(\E j \in qJobs : j.op = "logout" /\ Finish(j))

-----------------------------------------------------------------------------
\* Outside the dialogs the account button tells the truth about the session.
GlyphIsTrue == qDialog.kind = "none" /\ ~qDown => qGlyph = qSession

LogoutAsked == \E j \in qJobs : j.op = "logout" /\ Alive(j)

\* A logout asked for in the settings dialog takes effect whatever the server
\* answers, if the dialog is not closed before the answer.
LogoutTakesEffect == LogoutAsked ~> (qSession = Guest \/ qDialog.kind = "none" \/ qDown)
=============================================================================
