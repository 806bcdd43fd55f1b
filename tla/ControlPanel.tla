---------------------------- MODULE ControlPanel ----------------------------
(***************************************************************************)
(* The agent's tray menu and control panel: TrayIcon owns the menu and the *)
(* pause flag, ControlPanelWindow the sidebar and a stack of pages built   *)
(* once.  A page shows the account of its last refresh; the session        *)
(* changes on the Account page, from the tray menu, and in the cloud       *)
(* thread, which tells nobody.  A message box runs an event loop of its    *)
(* own: while one is open the window takes no input, the tray menu does,   *)
(* and the handler that opened the box goes on when it is closed.          *)
(***************************************************************************)
EXTENDS Integers, FiniteSets

CONSTANTS
    Users,      \* accounts
    Nobody      \* no session

ASSUME WindowAssumption == Nobody \notin Users

VARIABLES
    cpSession,  \* auth_get_session
    app_role,   \* of the settings in memory
    cpPanel,    \* row, hidden rows, account shown by each page, m_paused
    cpMenu,     \* what the tray menu says, and whether it is open
    m_paused,   \* TrayIcon's flag
    cpBox,      \* the message box that is open
    cpChanged   \* history: the session changed after the user's last turn to a page

cpVars == <<cpSession, app_role, cpPanel, cpMenu, m_paused, cpBox, cpChanged>>

Account == Users \cup {Nobody}
Roles == {"child", "parent"}

\* enum Page; the stack and the sidebar have the pages in the same order.
Pages == {"Overview", "Account", "Settings", "RemoteView", "ParentLink", "Family", "Advanced", "About"}
AccountPages == {"Overview", "Account", "ParentLink", "Family"}

Panel == [row : Pages, hidden : SUBSET Pages, shown : [AccountPages -> Account], paused : BOOLEAN]
Menu == [account : Account, role : Roles, paused : BOOLEAN, open : BOOLEAN]

cpTypeOK ==
    /\ cpSession \in Account /\ app_role \in Roles
    /\ cpPanel \in Panel /\ cpMenu \in Menu
    /\ m_paused \in BOOLEAN /\ cpChanged \in BOOLEAN
    /\ cpBox \in {"none", "welcome", "loggedIn", "askLogout", "loggedOut", "saved", "failed"}

-----------------------------------------------------------------------------
(* Refreshing.  p is the panel before; the session and the role are read   *)
(* when the refresh runs.                                                  *)

\* refreshOverview: the greeting, the pause button, today's list and, for an
\* account, its machines.
refreshOverview(p, sess) == [p EXCEPT !.shown["Overview"] = sess]

\* LoginPage shows the form or the account and a logout button; it is built
\* with a refresh.
LoginPage(sess) == sess
LoginPageRefresh(p, sess) == [p EXCEPT !.shown["Account"] = LoginPage(sess)]
ParentLinkRefresh(p, sess) == [p EXCEPT !.shown["ParentLink"] = sess]
FamilyRefreshed(p, sess) == [p EXCEPT !.shown["Family"] = sess]

RefreshRow(p, row, sess) ==
    IF row = "Overview" THEN refreshOverview(p, sess)
    ELSE IF row = "Account" THEN LoginPageRefresh(p, sess)
    ELSE IF row = "ParentLink" THEN ParentLinkRefresh(p, sess)
    ELSE IF row = "Family" THEN FamilyRefreshed(p, sess)
    ELSE p

\* onSidebarRowChanged: the stack follows the row, the page is refreshed.
onSidebarRowChanged(p, row, sess) == RefreshRow([p EXCEPT !.row = row], row, sess)

\* QListWidget::setCurrentRow signals only a change.
setCurrentRow(p, row, sess) == IF p.row = row THEN p ELSE onSidebarRowChanged(p, row, sess)

\* pageToRow: rows are never removed, only hidden.
pageToRow(page) == page

\* refreshSidebarVisibility: one of the two family pages is hidden; a hidden
\* current page gives way to the overview.
refreshSidebarVisibility(p, role, sess) ==
    LET hid == IF role = "parent" THEN {"ParentLink"} ELSE {"Family"}
        q == [p EXCEPT !.hidden = hid]
    IN  IF q.row \in hid THEN setCurrentRow(q, "Overview", sess) ELSE q

\* A plausible slip: the page asked for is refreshed only by the change of the row.
openToByRow(p, page, role, sess) ==
    setCurrentRow(refreshSidebarVisibility(p, role, sess), pageToRow(page), sess)

\* openTo: the sidebar, then the page, then the row.
openTo(p, page, role, sess) ==
    setCurrentRow(RefreshRow(refreshSidebarVisibility(p, role, sess), page, sess), pageToRow(page), sess)

\* rebuildMenu and updateTooltip.
rebuildMenu(m, sess, role, paused) ==
    [m EXCEPT !.account = sess, !.role = role, !.paused = paused]

\* onLoggedInOrOut: three pages, and the menu through accountChanged.
onLoggedInOrOut(p, sess) == FamilyRefreshed(ParentLinkRefresh(refreshOverview(p, sess), sess), sess)

\* onSettingsSaved: the sidebar, the overview, and the menu.
onSettingsSaved(p, role, sess) == refreshOverview(refreshSidebarVisibility(p, role, sess), sess)

\* The constructor: all pages are built, then refreshed, at Overview.
ControlPanelWindow(role, sess) ==
    refreshSidebarVisibility(
        [row |-> "Overview", hidden |-> {}, shown |-> [r \in AccountPages |-> sess], paused |-> FALSE],
        role, sess)

\* main: TrayIcon is built; without a session it welcomes the user.
cpInit ==
    /\ cpSession \in Account /\ app_role \in Roles
    /\ m_paused = FALSE
    /\ cpPanel = ControlPanelWindow(app_role, cpSession)
    /\ cpMenu = [account |-> cpSession, role |-> app_role, paused |-> FALSE, open |-> FALSE]
    /\ cpBox = (IF cpSession = Nobody THEN "welcome" ELSE "none")
    /\ cpChanged = FALSE

-----------------------------------------------------------------------------
(* The tray.                                                               *)

\* onActivated: the menu is rebuilt before it shows; a left click opens the
\* overview.
onActivated(left) ==
    /\ cpMenu' = [rebuildMenu(cpMenu, cpSession, app_role, m_paused) EXCEPT !.open = ~left]
    /\ cpPanel' = IF left THEN openTo(cpPanel, "Overview", app_role, cpSession) ELSE cpPanel
    /\ cpChanged' = IF left THEN FALSE ELSE cpChanged
    /\ UNCHANGED <<cpSession, app_role, m_paused, cpBox>>

\* onLogin, onSettings, onSupabaseSetup, onRemoteView, onAbout, and
\* onParentLinkSettings and onParentDashboard, which ask for a session.
TrayPages ==
    {"Settings", "Advanced", "RemoteView", "About"}
      \cup (IF cpMenu.account = Nobody THEN {"Account"} ELSE {})
      \cup (IF cpSession # Nobody THEN IF cpMenu.role = "parent" THEN {"Family"} ELSE {"ParentLink"}
            ELSE {})

MenuDismissed ==
    /\ cpMenu.open /\ cpMenu' = [cpMenu EXCEPT !.open = FALSE]
    /\ UNCHANGED <<cpSession, app_role, cpPanel, m_paused, cpBox, cpChanged>>

TrayOpens(page) ==
    /\ cpMenu.open /\ page \in TrayPages
    /\ cpMenu' = [cpMenu EXCEPT !.open = FALSE]
    /\ cpPanel' = openTo(cpPanel, page, app_role, cpSession)
    /\ cpChanged' = FALSE
    /\ UNCHANGED <<cpSession, app_role, m_paused, cpBox>>

\* onLogout: the menu knows, the pages do not.
onTrayLogout ==
    /\ cpMenu.open /\ cpMenu.account # Nobody
    /\ cpSession' = Nobody /\ cpChanged' = TRUE
    /\ cpMenu' = [rebuildMenu(cpMenu, Nobody, app_role, m_paused) EXCEPT !.open = FALSE]
    /\ UNCHANGED <<app_role, cpPanel, m_paused, cpBox>>

\* setPaused of the window.
setPaused(p, on) == [p EXCEPT !.paused = on]

\* The menu's item, or the overview's button.
PauseIsOffered == cpMenu.open \/ (cpBox = "none" /\ cpPanel.row = "Overview")

\* onTogglePause, from the menu or the overview's button.
onTogglePause ==
    /\ PauseIsOffered /\ m_paused' = ~m_paused
    /\ cpPanel' = setPaused(cpPanel, m_paused')
    /\ cpMenu' = [rebuildMenu(cpMenu, cpSession, app_role, m_paused') EXCEPT !.open = FALSE]
    /\ UNCHANGED <<cpSession, app_role, cpBox, cpChanged>>

\* The cloud thread loses the session: a refresh was refused.
SessionLost ==
    /\ cpSession # Nobody /\ cpSession' = Nobody /\ cpChanged' = TRUE
    /\ UNCHANGED <<app_role, cpPanel, cpMenu, m_paused, cpBox>>

-----------------------------------------------------------------------------
(* The window, while no box is open.  A click anywhere else first closes   *)
(* the tray's menu.                                                        *)

WindowFree == cpBox = "none" /\ ~cpMenu.open

RowClicked(row) ==
    /\ WindowFree /\ row \notin cpPanel.hidden /\ row # cpPanel.row
    /\ cpPanel' = setCurrentRow(cpPanel, row, cpSession)
    /\ cpChanged' = FALSE
    /\ UNCHANGED <<cpSession, app_role, cpMenu, m_paused, cpBox>>

\* The overview's login button is there when the page says nobody is logged in.
OverviewLogin ==
    /\ WindowFree /\ cpPanel.row = "Overview" /\ cpPanel.shown["Overview"] = Nobody
    /\ cpPanel' = setCurrentRow(cpPanel, "Account", cpSession)
    /\ cpChanged' = FALSE
    /\ UNCHANGED <<cpSession, app_role, cpMenu, m_paused, cpBox>>

\* attempt: a session is there, a box says so; refresh follows the box.
Attempt(u) ==
    /\ WindowFree /\ cpPanel.row = "Account" /\ cpPanel.shown["Account"] = Nobody
    /\ cpSession' = u /\ cpBox' = "loggedIn" /\ cpChanged' = TRUE
    /\ UNCHANGED <<app_role, cpPanel, cpMenu, m_paused>>

\* onLogoutClicked asks, logs out and refreshes, and signals after the box.
AskLogout ==
    /\ WindowFree /\ cpPanel.row = "Account" /\ cpPanel.shown["Account"] # Nobody
    /\ cpBox' = "askLogout"
    /\ UNCHANGED <<cpSession, app_role, cpPanel, cpMenu, m_paused, cpChanged>>

LogoutConfirmed ==
    /\ cpBox = "askLogout" /\ ~cpMenu.open /\ cpBox' = "loggedOut"
    /\ cpSession' = Nobody
    /\ cpPanel' = LoginPageRefresh(cpPanel, Nobody)
    /\ cpChanged' = TRUE
    /\ UNCHANGED <<app_role, cpMenu, m_paused>>

\* onSave of the settings page: the role is in memory before the file is
\* written, the signal comes after the box and only for a success.
SettingsSaved(role, ok) ==
    /\ WindowFree /\ cpPanel.row = "Settings"
    /\ app_role' = role /\ cpBox' = IF ok THEN "saved" ELSE "failed"
    /\ UNCHANGED <<cpSession, cpPanel, cpMenu, m_paused, cpChanged>>

\* A box is closed and its handler goes on.
BoxClosed ==
    /\ cpBox # "none" /\ ~cpMenu.open /\ cpBox' = "none"
    /\ cpPanel' = CASE cpBox = "loggedIn" -> onLoggedInOrOut(LoginPageRefresh(cpPanel, cpSession), cpSession)
                    [] cpBox = "loggedOut" -> onLoggedInOrOut(cpPanel, cpSession)
                    [] cpBox = "saved" -> onSettingsSaved(cpPanel, app_role, cpSession)
                    [] OTHER -> cpPanel
    /\ cpMenu' = IF cpBox \in {"loggedIn", "loggedOut", "saved"}
                 THEN rebuildMenu(cpMenu, cpSession, app_role, m_paused) ELSE cpMenu
    /\ cpChanged' = IF cpBox \in {"loggedIn", "loggedOut"} THEN FALSE ELSE cpChanged
    /\ UNCHANGED <<cpSession, app_role, m_paused>>

cpNext ==
    \/ \E left \in BOOLEAN : onActivated(left)
    \/ \E page \in Pages : TrayOpens(page) \/ RowClicked(page)
    \/ MenuDismissed \/ onTrayLogout \/ onTogglePause \/ SessionLost \/ OverviewLogin
    \/ \E u \in Users : Attempt(u)
    \/ AskLogout \/ LogoutConfirmed \/ BoxClosed
    \/ \E role \in Roles, ok \in BOOLEAN : SettingsSaved(role, ok)

-----------------------------------------------------------------------------
\* The page in front is one the sidebar lists: the role may change under the
\* window, and with a file that cannot be written nothing tells it so; openTo
\* looks at the role before it goes to a page.
FrontPageIsListed == cpPanel.row \notin cpPanel.hidden

\* A page the user has turned to, from the tray or the sidebar, shows the
\* session of that moment, also when it was in front all along and the session
\* had been lost or left behind its back (openTo, onSidebarRowChanged).
TurnedPageIsCurrent ==
    ~cpChanged /\ cpPanel.row \in AccountPages => cpPanel.shown[cpPanel.row] = cpSession

\* The pause flag has three copies (TrayIcon, the window, the menu's text) and
\* is toggled from two places: all tell the same.
PauseIsShown == cpPanel.paused = m_paused /\ cpMenu.paused = m_paused

\* The window and the menu tell the truth, through logins, lost sessions, a role
\* saved from another page and pauses, in any order.
PanelIsTrue == FrontPageIsListed /\ TurnedPageIsCurrent /\ PauseIsShown
=============================================================================
