----------------------------- MODULE AuthSession -----------------------------
(***************************************************************************)
(* The login session of the agent (auth.cpp) and the authenticated calls   *)
(* that renew it (restclient.cpp).                                         *)
(*                                                                         *)
(* The session lives in memory (g_session, under sessionMutex) and in      *)
(* session.dat.  The GUI thread logs in and out; both it and the cloud     *)
(* thread call the server, and a call answered by 401 renews the access    *)
(* token with the refresh token under refreshMutex.  Every critical        *)
(* section, request and file operation is a step of its own.               *)
(*                                                                         *)
(* The server gives out tokens in issues 1, 2, ...: an access token and,   *)
(* with it, a refresh token good for one use.                              *)
(***************************************************************************)
EXTENDS Integers, FiniteSets

CONSTANTS
    Users, NoUser,
    Threads, gui, NoThread,   \* gui is the thread that logs in and out
    MaxIssues,                \* bound on the issues of tokens
    Accounts,                 \* whether the user logs in and out
    Omits,                    \* what a refresh may leave out: "user", "refresh"
    Faults                    \* which faults happen

FaultKinds == {"lost", "trouble", "revoke", "disk", "crash"}

ASSUME AuthAssumption ==
    /\ NoUser \notin Users
    /\ gui \in Threads
    /\ NoThread \notin Threads
    /\ MaxIssues \in Nat \ {0}
    /\ Accounts \in BOOLEAN
    /\ Omits \subseteq {"user", "refresh"}
    /\ Faults \subseteq FaultKinds

VARIABLES
    mem,       \* g_session
    disk,      \* session.dat
    lock,      \* the holder of refreshMutex
    pc,        \* where each thread is
    attempt,   \* restclient_call's attempt
    used,      \* the session a call, or a login, works with
    sent,      \* the refresh token of the refresh under way
    next,      \* the server: the last issue,
    owner,     \* whose each issue is,
    fresh,     \* the access tokens and
    live,      \* the refresh tokens it takes
    chosen,    \* history: the account the user chose last
    excused,   \* history: refresh tokens that died without the agent's doing
    apart      \* history: a write failed, or a login or logout overlapped a refresh

vars == <<mem, disk, lock, pc, attempt, used, sent, next, owner, fresh, live, chosen, excused, apart>>
server == <<next, owner, fresh, live>>
history == <<chosen, excused, apart>>

Issues == 1 .. MaxIssues

\* 0 and NoUser stand for the empty string.
Sessions == [user : Users \cup {NoUser}, access : {0} \cup Issues, refresh : {0} \cup Issues]

NoSession == [user |-> NoUser, access |-> 0, refresh |-> 0]

LoggedIn(s) == s.access # 0

\* loadSessionFromDisk: strtok skips empty lines, so a session with an empty
\* field is not read back.
Load(s) == IF s.user = NoUser \/ s.refresh = 0 THEN NoSession ELSE s

Places == {"idle", "again", "request", "stale", "read", "post", "apply", "save",
           "clear", "delete", "login_apply", "login_save"}

\* Where a login or a logout is under way.
AccountPlaces == {"clear", "delete", "login_apply", "login_save"}

TypeOK ==
    /\ mem \in Sessions
    /\ disk \in Sessions
    /\ lock \in Threads \cup {NoThread}
    /\ pc \in [Threads -> Places]
    /\ attempt \in [Threads -> {0, 1}]
    /\ used \in [Threads -> Sessions]
    /\ sent \in [Threads -> {0} \cup Issues]
    /\ next \in 0 .. MaxIssues
    /\ owner \in [Issues -> Users \cup {NoUser}]
    /\ fresh \subseteq 1 .. next
    /\ live \subseteq 1 .. next
    /\ chosen \in Users \cup {NoUser}
    /\ excused \subseteq Issues
    /\ apart \in BOOLEAN

\* main: auth_load_session finds the session of an earlier login.
Init ==
    /\ \E u \in Users :
          /\ mem = [user |-> u, access |-> 1, refresh |-> 1]
          /\ owner = [n \in Issues |-> IF n = 1 THEN u ELSE NoUser]
          /\ chosen = u
    /\ disk = mem
    /\ lock = NoThread
    /\ pc = [t \in Threads |-> "idle"]
    /\ attempt = [t \in Threads |-> 0]
    /\ used = [t \in Threads |-> NoSession]
    /\ sent = [t \in Threads |-> 0]
    /\ next = 1
    /\ fresh = {1}
    /\ live = {1}
    /\ excused = {}
    /\ apart = FALSE

Goto(t, place) == pc' = [pc EXCEPT ![t] = place]

\* Leave refreshMutex and the call, or go round once more with the new token.
EndCall(t) ==
    /\ Goto(t, "idle")
    /\ lock' = IF lock = t THEN NoThread ELSE lock
    /\ used' = [used EXCEPT ![t] = NoSession]
    /\ sent' = [sent EXCEPT ![t] = 0]
    /\ attempt' = [attempt EXCEPT ![t] = 0]

Retry(t) ==
    /\ Goto(t, "again")
    /\ lock' = IF lock = t THEN NoThread ELSE lock
    /\ used' = [used EXCEPT ![t] = NoSession]
    /\ sent' = [sent EXCEPT ![t] = 0]
    /\ attempt' = [attempt EXCEPT ![t] = @ + 1]

-----------------------------------------------------------------------------
(***************************************************************************)
(* restclient_call.                                                        *)
(***************************************************************************)
Call(t) ==
    /\ pc[t] \in {"idle", "again"}
    /\ Goto(t, "request")
    /\ used' = [used EXCEPT ![t] = mem]
    /\ UNCHANGED <<mem, disk, lock, attempt, sent, server, history>>

\* Not reached, or answered by anything but 401; or a 401 that is not retried.
CallEnds(t) ==
    /\ pc[t] = "request"
    /\ EndCall(t)
    /\ UNCHANGED <<mem, disk, server, history>>

\* The first 401 of a call made with a session.
CallUnauthorized(t) ==
    /\ pc[t] = "request"
    /\ used[t].access \notin fresh
    /\ attempt[t] = 0
    /\ LoggedIn(used[t])
    /\ Goto(t, "stale")
    /\ UNCHANGED <<mem, disk, lock, attempt, used, sent, server, history>>

-----------------------------------------------------------------------------
(***************************************************************************)
(* restclient_refresh_if_stale, and auth_refresh_session under its mutex.  *)
(***************************************************************************)

\* Mutant: the refresh is not serialised.
FreeShared == TRUE

\* refreshMutex can be taken.
Free == lock = NoThread

\* Logged out meanwhile: the call ends with its 401.
StaleLoggedOut(t) ==
    /\ pc[t] = "stale"
    /\ Free
    /\ ~LoggedIn(mem)
    /\ EndCall(t)
    /\ UNCHANGED <<mem, disk, server, history>>

\* Another thread has renewed the token.
StaleRenewed(t) ==
    /\ pc[t] = "stale"
    /\ Free
    /\ LoggedIn(mem)
    /\ mem.access # used[t].access
    /\ Retry(t)
    /\ UNCHANGED <<mem, disk, server, history>>

StaleRefresh(t) ==
    /\ pc[t] = "stale"
    /\ Free
    /\ mem.access = used[t].access
    /\ lock' = t
    /\ Goto(t, "read")
    /\ apart' = (apart \/ pc[gui] \in AccountPlaces)
    /\ UNCHANGED <<mem, disk, attempt, used, sent, server, chosen, excused>>

\* The refresh token is copied; without one there is nothing to do.
RefreshRead(t) ==
    /\ pc[t] = "read"
    /\ IF mem.refresh = 0 THEN EndCall(t)
       ELSE /\ sent' = [sent EXCEPT ![t] = mem.refresh]
            /\ Goto(t, "post")
            /\ UNCHANGED <<lock, used, attempt>>
    /\ UNCHANGED <<mem, disk, server, history>>

\* The server spends refresh token r on a new issue, of which it may leave
\* out the user and, when it lets r live, the refresh token.
Issue(r, omitted) ==
    /\ next < MaxIssues
    /\ next' = next + 1
    /\ owner' = [owner EXCEPT ![next'] = owner[r]]
    /\ fresh' = fresh \cup {next'}
    /\ live' = IF "refresh" \in omitted THEN live ELSE (live \ {r}) \cup {next'}

Issued(r, omitted) ==
    [user |-> IF "user" \in omitted THEN NoUser ELSE owner[r],
     access |-> next + 1,
     refresh |-> IF "refresh" \in omitted THEN 0 ELSE next + 1]

RefreshGranted(t) ==
    /\ pc[t] = "post"
    /\ sent[t] \in live
    /\ \E omitted \in SUBSET Omits :
          /\ Issue(sent[t], omitted)
          /\ used' = [used EXCEPT ![t] = Issued(sent[t], omitted)]
    /\ Goto(t, "apply")
    /\ UNCHANGED <<mem, disk, lock, attempt, sent, history>>

\* Mutant: a refresh that does not get through is repeated under the mutex.
RefreshRepeated(t) ==
    /\ pc[t] = "post"
    /\ Goto(t, "read")
    /\ UNCHANGED <<mem, disk, lock, attempt, used, sent, server, history>>

\* The request did not get through,
RefreshNoConnection(t) ==
    /\ pc[t] = "post"
    /\ EndCall(t)
    /\ UNCHANGED <<mem, disk, server, history>>

\* or it did, but the answer was lost.
RefreshAnswerLost(t) ==
    /\ "lost" \in Faults
    /\ pc[t] = "post"
    /\ sent[t] \in live
    /\ Issue(sent[t], {})
    /\ excused' = excused \cup {sent[t]}
    /\ EndCall(t)
    /\ UNCHANGED <<mem, disk, chosen, apart>>

\* Any status but 2xx: the token is refused, or the server is in trouble.
RefreshRefused(t) ==
    /\ pc[t] = "post"
    /\ sent[t] \notin live \/ "trouble" \in Faults
    /\ Goto(t, "clear")
    /\ UNCHANGED <<mem, disk, lock, attempt, used, sent, server, history>>

\* What the answer leaves out is taken from the session in memory.
Merged(s) ==
    [s EXCEPT !.user = IF s.user = NoUser THEN mem.user ELSE s.user,
              !.refresh = IF s.refresh = 0 THEN mem.refresh ELSE s.refresh]

RefreshApply(t) ==
    /\ pc[t] = "apply"
    /\ mem' = Merged(used[t])
    /\ used' = [used EXCEPT ![t] = mem']
    /\ Goto(t, "save")
    /\ UNCHANGED <<disk, lock, attempt, sent, server, history>>

\* Mutant: the session is not saved.
SaveNothing(t) == UNCHANGED <<disk, apart>>

\* saveSessionToDisk: all or nothing, and its result is not looked at.
Save(t) ==
    \/ disk' = used[t] /\ UNCHANGED apart
    \/ "disk" \in Faults /\ apart' = TRUE /\ UNCHANGED disk

RefreshSave(t) ==
    /\ pc[t] = "save"
    /\ Save(t)
    /\ Retry(t)
    /\ UNCHANGED <<mem, server, chosen, excused>>

-----------------------------------------------------------------------------
(***************************************************************************)
(* auth_logout, by the user or after a refused refresh; auth_login.        *)
(***************************************************************************)
Logout ==
    /\ Accounts
    /\ pc[gui] = "idle"
    /\ LoggedIn(mem)
    /\ chosen' = NoUser
    /\ apart' = (apart \/ lock # NoThread)
    /\ Goto(gui, "clear")
    /\ UNCHANGED <<mem, disk, lock, attempt, used, sent, server, excused>>

LogoutClear(t) ==
    /\ pc[t] = "clear"
    /\ mem' = NoSession
    /\ Goto(t, "delete")
    /\ UNCHANGED <<disk, lock, attempt, used, sent, server, history>>

LogoutDelete(t) ==
    /\ pc[t] = "delete"
    /\ disk' = NoSession
    /\ EndCall(t)
    /\ UNCHANGED <<mem, server, history>>

\* A login the server accepts; one that it does not changes nothing.
Login ==
    /\ Accounts
    /\ pc[gui] = "idle"
    /\ next < MaxIssues
    /\ \E u \in Users :
          /\ chosen' = u
          /\ owner' = [owner EXCEPT ![next + 1] = u]
          /\ used' = [used EXCEPT ![gui] = [user |-> u, access |-> next + 1, refresh |-> next + 1]]
    /\ next' = next + 1
    /\ fresh' = fresh \cup {next'}
    /\ live' = live \cup {next'}
    /\ apart' = (apart \/ lock # NoThread)
    /\ Goto(gui, "login_apply")
    /\ UNCHANGED <<mem, disk, lock, attempt, sent, excused>>

LoginApply(t) ==
    /\ pc[t] = "login_apply"
    /\ mem' = used[t]
    /\ Goto(t, "login_save")
    /\ UNCHANGED <<disk, lock, attempt, used, sent, server, history>>

LoginSave(t) ==
    /\ pc[t] = "login_save"
    /\ Save(t)
    /\ EndCall(t)
    /\ UNCHANGED <<mem, server, chosen, excused>>

-----------------------------------------------------------------------------
(***************************************************************************)
(* The surroundings.                                                       *)
(***************************************************************************)

\* The access token of the session expires.
Expire ==
    /\ mem.access \in fresh
    /\ fresh' = fresh \ {mem.access}
    /\ UNCHANGED <<mem, disk, lock, pc, attempt, used, sent, next, owner, live, history>>

\* The server revokes a refresh token.
Revoke ==
    /\ "revoke" \in Faults
    /\ \E r \in live : live' = live \ {r} /\ excused' = excused \cup {r}
    /\ UNCHANGED <<mem, disk, lock, pc, attempt, used, sent, next, owner, fresh, chosen, apart>>

\* The process dies and starts again with what is in session.dat.
Restart ==
    /\ "crash" \in Faults
    /\ mem' = Load(disk)
    /\ excused' = excused \cup ({disk.refresh} \ (live \cup {0}))
    /\ lock' = NoThread
    /\ pc' = [t \in Threads |-> "idle"]
    /\ attempt' = [t \in Threads |-> 0]
    /\ used' = [t \in Threads |-> NoSession]
    /\ sent' = [t \in Threads |-> 0]
    /\ apart' = FALSE
    /\ UNCHANGED <<disk, server, chosen>>

Stale(t) == StaleLoggedOut(t) \/ StaleRenewed(t) \/ StaleRefresh(t)

\* What the thread does once it has begun a call, a login or a logout.
Continue(t) ==
    \/ pc[t] = "again" /\ Call(t)
    \/ CallEnds(t) \/ CallUnauthorized(t)
    \/ Stale(t)
    \/ RefreshRead(t) \/ RefreshGranted(t) \/ RefreshNoConnection(t) \/ RefreshAnswerLost(t)
    \/ RefreshRefused(t) \/ RefreshApply(t) \/ RefreshSave(t)
    \/ LogoutClear(t) \/ LogoutDelete(t) \/ LoginApply(t) \/ LoginSave(t)

Begin == Logout \/ Login \/ \E t \in Threads : pc[t] = "idle" /\ Call(t)

Next == Begin \/ (\E t \in Threads : Continue(t)) \/ Expire \/ Revoke \/ Restart

\* A thread that has begun something goes on with it, and one that waits for
\* refreshMutex gets it: the others leave it free from one call to the next.
Spec ==
    /\ Init
    /\ [][Next]_vars
    /\ \A t \in Threads : WF_vars(Continue(t)) /\ SF_vars(Stale(t))

-----------------------------------------------------------------------------
(* The agent logs the user out by itself only when the refresh token had   *)
(* expired or been revoked (auth.cpp:408-412), or its successor was lost   *)
(* on the way to session.dat: never because two threads spent the same     *)
(* token (restclient.h:53-55).                                             *)
DeservedLogout ==
    \A t \in Threads : pc[t] = "clear" /\ lock = t => sent[t] \in excused

(* Memory and session.dat hold the same session (auth.h:65-67) whenever no *)
(* thread is about to write one of them, unless a write failed or the user *)
(* logged in or out during a refresh.                                      *)
DiskMatchesMemory ==
    ~apart /\ (\A t \in Threads : pc[t] \notin {"save", "delete", "login_save"})
        => Load(disk) = Load(mem)

(* The session is that of the account the user chose last: a login is not  *)
(* undone, and logging out removes the session (auth.h:45-57).             *)
SessionIsChosen ==
    (\A t \in Threads : pc[t] = "idle") => mem.user \in {chosen, NoUser} /\ disk.user \in {chosen, NoUser}

(* Every call, login and logout ends; no thread keeps refreshMutex while   *)
(* another waits for it.                                                   *)
CallReturns == \A t \in Threads : pc[t] # "idle" ~> pc[t] = "idle"
=============================================================================
