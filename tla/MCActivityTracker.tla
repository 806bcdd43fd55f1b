-------------------------- MODULE MCActivityTracker --------------------------
(* Instances of the tracker: an editor and a mail program, one window each,  *)
(* or the two windows as documents of the same editor.                     *)
EXTENDS ActivityTracker

CONSTANTS editor, mail

mcWindows == {editor, mail}
mcProcesses == {"editor.exe", "mail.exe"}
mcProcessOf == [w \in mcWindows |-> IF w = mail THEN "mail.exe" ELSE "editor.exe"]
mcOneProcess == [w \in mcWindows |-> "editor.exe"]
mcNoneExcluded == {}
mcMailExcluded == {"mail.exe"}
=============================================================================
