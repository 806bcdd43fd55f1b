------------------------------ MODULE Settings ------------------------------
(***************************************************************************)
(* The settings of the agent: the copy in memory, settings.ini, the Run    *)
(* key of the registry, and the three pages of the control panel that edit *)
(* them.  Every page is built once, at start, and lives as long as the     *)
(* program, so its fields may be much older than the settings it saves.    *)
(*                                                                         *)
(* AppSettings is abstracted to one field per owner: "general" (intervals, *)
(* role, language, exclusions, autostart: SettingsPage), "supabase" (the   *)
(* URL and the key: SupabaseSetupPage), "remote" (switch and port) and     *)
(* "token" (RemoteViewPage), "backoff" (no page).  A value of "general" is *)
(* a number, and the page's spin boxes hold it in Low..High.               *)
(***************************************************************************)
EXTENDS Integers, FiniteSets, FiniteSetsExt

CONSTANTS
    Low, High,      \* QSpinBox::setRange of the page
    Hand,           \* values a hand-written settings.ini may hold
    MaxToken        \* bound: tokens generated

ASSUME SettingsAssumption ==
    /\ Low \in Nat /\ High \in Nat /\ Low <= High
    /\ Hand \subseteq Nat /\ MaxToken \in Nat

VARIABLES
    g_settings,     \* the copy in memory
    settings_ini,   \* the file, {} when there is none, {s} otherwise
    runKey,         \* autostart as the registry has it
    spage,          \* the fields of the pages
    stUp,           \* the program runs
    stToken,        \* tokens generated so far
    stFailed        \* history: the last write of the file failed

stVars == <<g_settings, settings_ini, runKey, spage, stUp, stToken, stFailed>>

Fields == {"general", "supabase", "remote", "token", "backoff"}
PageFields == [settings |-> {"general"}, supabase |-> {"supabase"}, remote |-> {"remote", "token"}]
Values == Low..High \cup Hand

\* AppSettings; the empty token is 0.
AppSettings ==
    [general : Values, supabase : {0, 1}, remote : {0, 1}, token : 0..MaxToken, backoff : {0, 1}]

setDefaults == [general |-> Low, supabase |-> 0, remote |-> 0, token |-> 0, backoff |-> 0]

\* What the three pages hold in their widgets.
SettingsFields == [general : Low..High]
SupabaseFields == [supabase : {0, 1}]
RemoteViewFields == [remote : {0, 1}, token : 0..MaxToken]

stTypeOK ==
    /\ g_settings \in AppSettings
    /\ settings_ini \subseteq AppSettings /\ Cardinality(settings_ini) <= 1
    /\ runKey \in Values
    /\ [general |-> spage.general] \in SettingsFields
    /\ [supabase |-> spage.supabase] \in SupabaseFields
    /\ [remote |-> spage.remote, token |-> spage.token] \in RemoteViewFields
    /\ stUp \in BOOLEAN /\ stToken \in 0..MaxToken /\ stFailed \in BOOLEAN

-----------------------------------------------------------------------------
(* Writing and reading settings.ini.                                       *)

\* writeFileAtomic: a temporary file takes the place of the old one, or the
\* old one stays as it is.
writeFileAtomic(old, s, ok) == IF ok THEN {s} ELSE old

\* The spin boxes of the page cut what they are given.
SpinValue(v) == Max({Low, Min({High, v})})

\* applyIniValues over the defaults: the keys of the file win.
applyIniValues(file) == IF file = {} THEN setDefaults ELSE CHOOSE s \in file : TRUE

\* SettingsPage, SupabaseSetupPage and RemoteViewPage are built from the
\* settings of the moment.
SettingsPage(s) == [general |-> SpinValue(s.general)]
SupabaseSetupPage(s) == [supabase |-> s.supabase]
RemoteViewPage(s) == [remote |-> s.remote, token |-> s.token]

PagesOf(s) ==
    [general |-> SettingsPage(s).general, supabase |-> SupabaseSetupPage(s).supabase,
     remote |-> RemoteViewPage(s).remote, token |-> RemoteViewPage(s).token]

stInit ==
    /\ g_settings = setDefaults /\ settings_ini = {} /\ runKey = Low
    /\ spage = PagesOf(setDefaults) /\ stUp = FALSE /\ stToken = 0 /\ stFailed = FALSE

\* settings_save writes every field, so what a page did not know goes too.
settings_save(file, s, ok) == writeFileAtomic(file, s, ok)

\* generateRemoteViewToken always has one: without the system's generator it
\* takes the clock and the process id.
generateRemoteViewToken == stToken + 1

\* A plausible slip: the generated token is not written.
settings_loadForgetful(ok1, ok2) ==
    LET read == applyIniValues(settings_ini)
    IN  /\ ok1 /\ ok2 /\ stFailed' = FALSE
        /\ settings_ini' = writeFileAtomic(settings_ini, read, ok1)
        /\ \/ read.token # 0 /\ g_settings' = read /\ UNCHANGED stToken
           \/ /\ read.token = 0 /\ stToken < MaxToken /\ stToken' = stToken + 1
              /\ g_settings' = [read EXCEPT !.token = stToken + 1]

\* settings_load: a missing file is written with the defaults, an empty token
\* is generated and written; both results are ignored.
settings_load(ok1, ok2) ==
    LET read == applyIniValues(settings_ini)
        file == IF settings_ini = {} THEN settings_save({}, read, ok1) ELSE settings_ini
    IN  IF read.token # 0
        THEN /\ ok1 /\ ok2
             /\ g_settings' = read /\ settings_ini' = file
             /\ stFailed' = FALSE /\ UNCHANGED stToken
        ELSE LET new == [read EXCEPT !.token = generateRemoteViewToken]
             IN  /\ settings_ini # {} => ok1
                 /\ stToken < MaxToken
                 /\ stToken' = stToken + 1
                 /\ g_settings' = new
                 /\ settings_ini' = settings_save(file, new, ok2)
                 /\ stFailed' = ~ok2

\* main: the settings are loaded, then the pages of the control panel built.
StartAgent ==
    /\ ~stUp /\ stUp' = TRUE
    /\ \E ok1, ok2 \in BOOLEAN : settings_load(ok1, ok2)
    /\ spage' = PagesOf(g_settings')
    /\ UNCHANGED runKey

\* The process ends, at any moment.
StopAgent == stUp /\ stUp' = FALSE /\ UNCHANGED <<g_settings, settings_ini, runKey, spage, stToken, stFailed>>

\* The owner edits settings.ini, or deletes it, while the agent is down.
EditFile ==
    /\ ~stUp
    /\ \/ \E s \in settings_ini, v \in Hand :
              settings_ini' = {[s EXCEPT !.general = v]} \/ settings_ini' = {[s EXCEPT !.token = 0]}
       \/ settings_ini' = {}
    /\ UNCHANGED <<g_settings, runKey, spage, stUp, stToken, stFailed>>

-----------------------------------------------------------------------------
(* The pages.                                                              *)

\* settings_apply_autostart: the Run key follows, unless the registry refuses.
settings_apply_autostart(s, ok) == runKey' = IF ok THEN s.general ELSE runKey

\* settings_update: memory first, then the registry, then the file.
settings_update(s, reg, ok) ==
    /\ g_settings' = s
    /\ settings_apply_autostart(s, reg)
    /\ settings_ini' = settings_save(settings_ini, s, ok)
    /\ stFailed' = ~ok
    /\ UNCHANGED <<spage, stUp, stToken>>

\* A plausible slip: the page saves the settings it was built from.
WithFieldsWhole(s, fields) == [f \in Fields |-> IF f = "backoff" THEN s[f] ELSE spage[f]]

\* onSave of a page: the settings are read again, the page's fields replaced.
WithFields(s, fields) == [f \in Fields |-> IF f \in fields THEN spage[f] ELSE s[f]]

onSaveSettings(reg, ok) == settings_update(WithFields(g_settings, PageFields.settings), reg, ok)
onSaveSupabase(reg, ok) == settings_update(WithFields(g_settings, PageFields.supabase), reg, ok)
onSaveRemoteView(reg, ok) == settings_update(WithFields(g_settings, PageFields.remote), reg, ok)

EditPage ==
    /\ stUp
    /\ \/ \E v \in Low..High : spage' = [spage EXCEPT !.general = v]
       \/ \E v \in {0, 1} : spage' = [spage EXCEPT !.supabase = v]
       \/ \E v \in {0, 1} : spage' = [spage EXCEPT !.remote = v]
    /\ UNCHANGED <<g_settings, settings_ini, runKey, stUp, stToken, stFailed>>

\* onRegenerateToken: a new token in the field, or an empty one when the
\* system's generator fails.
onRegenerateToken ==
    /\ stUp
    /\ \/ /\ stToken < MaxToken /\ stToken' = stToken + 1
          /\ spage' = [spage EXCEPT !.token = stToken + 1]
       \/ spage' = [spage EXCEPT !.token = 0] /\ UNCHANGED stToken
    /\ UNCHANGED <<g_settings, settings_ini, runKey, stUp, stFailed>>

stNext ==
    \/ StartAgent \/ StopAgent \/ EditFile \/ EditPage \/ onRegenerateToken
    \/ /\ stUp
       /\ \E reg, ok \in BOOLEAN :
              onSaveSettings(reg, ok) \/ onSaveSupabase(reg, ok) \/ onSaveRemoteView(reg, ok)

-----------------------------------------------------------------------------
\* What a page saves is what the other pages saved plus its own fields: a
\* running program changes the settings only by the fields of one page, and
\* never those no page shows (onSave of the three pages reads settings_get).
SaveKeepsTheRest ==
    [][ stUp /\ stUp' =>
          LET changed == {f \in Fields : g_settings'[f] # g_settings[f]}
          IN  \E p \in DOMAIN PageFields : changed \subseteq PageFields[p] ]_stVars

\* Unless the last write failed, a running program's settings are the ones a
\* restart would find, the token shown to the clients of Remote View included.
RestartFindsSettings ==
    stUp /\ ~stFailed => settings_ini = {g_settings}
=============================================================================
