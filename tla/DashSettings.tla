---------------------------- MODULE DashSettings ----------------------------
(* The dashboard's settings file (dashsettings.cpp) and the appearance tab  *)
(* of its settings dialog (settingsdialog.cpp). Besides what the tab shows  *)
(* the file holds an API key that no dialog shows, encrypted for the        *)
(* Windows user, or in clear text when an old version wrote it.             *)
EXTENDS Integers, FiniteSets

CONSTANTS Looks,     \* what the tab holds: font, language, ..., thresholds
          Default    \* DashSettings{}

ASSUME DashSettingsAssumption == Default \in Looks

VARIABLES dsDisk,    \* the settings file
          dsForm,    \* the open dialog's fields, or none
          dsPanel,   \* RightPanel's thresholds
          dsMsg      \* the dialog's message

dsVars == <<dsDisk, dsForm, dsPanel, dsMsg>>

KeyForms == {"absent", "clear", "encrypted", "foreign"}  \* foreign: another user's or machine's
Files == {"missing", "unreadable", "json"}

\* One type invariant for the module's state.
dsTypeOK ==
    /\ dsDisk \in [file : Files, look : Looks, key : KeyForms]
    /\ dsForm \in [open : BOOLEAN, look : Looks] /\ dsPanel \in Looks
    /\ dsMsg \in {"", "saved", "failed"}

\* dpapiUnprotect: what was encrypted for somebody else is as good as empty.
dpapiUnprotect(k) == k = "encrypted"

\* dpapiProtect: an empty key stays empty.
dpapiProtect(key) == IF key THEN "encrypted" ELSE "absent"

\* loadDashSettings: the defaults unless the file parses.
loadDashSettings ==
    IF dsDisk.file = "json"
    THEN [look |-> dsDisk.look, key |-> dsDisk.key = "clear" \/ dpapiUnprotect(dsDisk.key)]
    ELSE [look |-> Default, key |-> FALSE]

\* RightPanel::reloadThresholds, from its constructor too.
reloadPanel == loadDashSettings.look

dsInit ==
    /\ dsDisk \in [file : {"json"}, look : Looks, key : KeyForms]
                  \cup [file : {"missing", "unreadable"}, look : {Default}, key : {"absent"}]
    /\ dsForm = [open |-> FALSE, look |-> Default] /\ dsPanel = reloadPanel /\ dsMsg = ""

-----------------------------------------------------------------------------
\* loadInto: the tab's fields as the settings have them.
loadInto(s) == [open |-> TRUE, look |-> s.look]

\* The dialog's constructor: loadInto(loadDashSettings()).
OpenSettings ==
    /\ ~dsForm.open /\ dsForm' = loadInto(loadDashSettings)
    /\ dsMsg' = "" /\ UNCHANGED <<dsDisk, dsPanel>>

EditForm == /\ dsForm.open /\ \E l \in Looks : dsForm' = [dsForm EXCEPT !.look = l]
            /\ UNCHANGED <<dsDisk, dsPanel, dsMsg>>

CloseSettings == /\ dsForm.open /\ dsForm' = [open |-> FALSE, look |-> Default]
                 /\ UNCHANGED <<dsDisk, dsPanel, dsMsg>>

\* saveDashSettings: a key is encrypted anew, and nothing is written when that
\* fails; the file is replaced as a whole, or not at all.
saveDashSettings(s) ==
    dsDisk' = [file |-> "json", look |-> s.look, key |-> dpapiProtect(s.key)]

\* As it would be if the tab's values were saved without what the file held.
FormOnly(l) == [look |-> l, key |-> FALSE]

\* What is saved: the file's settings with the tab's values in them.
FormOver(l) == [loadDashSettings EXCEPT !.look = l]

\* The Save button; the window's callback has the panel read the file again.
saveAppearance ==
    /\ dsForm.open /\ UNCHANGED dsForm
    /\ \/ saveDashSettings(FormOver(dsForm.look)) /\ dsMsg' = "saved" /\ dsPanel' = reloadPanel'
       \/ dsMsg' = "failed" /\ UNCHANGED <<dsDisk, dsPanel>>

dsNext == OpenSettings \/ EditForm \/ CloseSettings \/ saveAppearance

-----------------------------------------------------------------------------
\* A key that can be read is still there after any save of the other settings,
\* although no dialog holds it: saveAppearance starts from the file.
KeyOutlivesSave == [][loadDashSettings.key => dsDisk'.key \in {"clear", "encrypted"}]_dsVars

\* The right panel alerts by the thresholds in the file.
PanelFollowsFile == dsPanel = loadDashSettings.look
=============================================================================
