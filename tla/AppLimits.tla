------------------------------ MODULE AppLimits ------------------------------
(***************************************************************************)
(* The child's machine: the cache of the limits set for its account.  The  *)
(* cloud thread pulls them from the server, the watch thread reads the     *)
(* cache, the GUI thread logs accounts in and out between any two steps of *)
(* both, and limits.cache carries the cache over a restart.                *)
(***************************************************************************)
EXTENDS Integers, FiniteSets

CONSTANTS
    Accounts,     \* accounts of this machine
    LimitSet,     \* the process names a limit can be set for, 1..n
    MAX_LIMITS,   \* the limits a client reads
    NoOne         \* nobody, nothing

ASSUME LimitsAssumption == MAX_LIMITS \in Nat /\ LimitSet \subseteq Nat /\ NoOne \notin Accounts

VARIABLES
    alSet,      \* external: app_limits of every account, on the server
    alMe,       \* the account logged in, or NoOne
    alOnline,   \* the server answers
    alCache,    \* g_cacheLoaded, g_cacheUserId, g_cache
    alDisk,     \* limits.cache
    alDirty,    \* history: the last write of limits.cache failed
    alPull,     \* cloud thread, in applimits_refresh_my_limits
    alCheck,    \* watch thread, in applimits_get_my_limits
    alForced    \* the limits of the last check, and of which account

alVars == <<alSet, alMe, alOnline, alCache, alDisk, alDirty, alPull, alCheck, alForced>>

\* A row of app_limits: whose it is, and the rank of its process name.
Row == Accounts \X LimitSet

\* The limits of an account, in a file or in memory.
Held == [user : Accounts \cup {NoOne}, lims : SUBSET Row]
Nothing == [user |-> NoOne, lims |-> {}]

alTypeOK ==
    /\ alSet \in [Accounts -> SUBSET Row]
    /\ alMe \in Accounts \cup {NoOne} /\ alOnline \in BOOLEAN /\ alDirty \in BOOLEAN
    /\ alCache \in [loaded : BOOLEAN, held : Held] /\ Cardinality(alCache.held.lims) <= MAX_LIMITS
    /\ alDisk \in Held /\ alForced \in Held
    /\ alPull.at \in {"idle", "asking", "answered"} /\ alPull.held \in Held
    /\ alCheck \in Accounts \cup {NoOne}

Idle == [at |-> "idle", held |-> Nothing]

alInit ==
    /\ alSet = [u \in Accounts |-> {}]
    /\ alMe = NoOne /\ alOnline = TRUE
    /\ alCache = [loaded |-> FALSE, held |-> Nothing]
    /\ alDisk = Nothing /\ alDirty = FALSE
    /\ alPull = Idle /\ alCheck = NoOne /\ alForced = Nothing

-----------------------------------------------------------------------------
(* Around the cache.                                                       *)

\* A parent sets or deletes limits of account u.
ParentSets(u, lims) ==
    /\ lims # alSet[u]
    /\ alSet' = [alSet EXCEPT ![u] = lims]
    /\ UNCHANGED <<alMe, alOnline, alCache, alDisk, alDirty, alPull, alCheck, alForced>>

LogIn(u) == alMe # u /\ alMe' = u
            /\ UNCHANGED <<alSet, alOnline, alCache, alDisk, alDirty, alPull, alCheck, alForced>>
LogOut == alMe # NoOne /\ alMe' = NoOne
          /\ UNCHANGED <<alSet, alOnline, alCache, alDisk, alDirty, alPull, alCheck, alForced>>

NetworkChanges == alOnline' = ~alOnline
                  /\ UNCHANGED <<alSet, alMe, alCache, alDisk, alDirty, alPull, alCheck, alForced>>

\* The agent ends and starts again; the session is in its own file.
AgentRestart ==
    /\ alCache' = [loaded |-> FALSE, held |-> Nothing]
    /\ alPull' = Idle /\ alCheck' = NoOne /\ alForced' = Nothing
    /\ UNCHANGED <<alSet, alMe, alOnline, alDisk, alDirty>>

-----------------------------------------------------------------------------
(* The file.                                                               *)

\* loadCacheFromDiskLocked: nothing when the file is missing.
loadCacheFromDiskLocked == [loaded |-> TRUE, held |-> alDisk]

\* saveCacheToDisk: writeFileAtomic replaces the file or leaves the old one;
\* its result is ignored.
saveCacheToDisk(held) ==
    \/ alDisk' = held /\ alDirty' = FALSE
    \/ alDisk' = alDisk /\ alDirty' = TRUE

-----------------------------------------------------------------------------
(* applimits_refresh_my_limits, cloud thread.                              *)

\* The session is copied before the request.
RefreshBegin ==
    /\ alPull.at = "idle" /\ alMe # NoOne
    /\ alPull' = [at |-> "asking", held |-> [user |-> alMe, lims |-> {}]]
    /\ UNCHANGED <<alSet, alMe, alOnline, alCache, alDisk, alDirty, alCheck, alForced>>

\* parseLimitsResponse: ordered by process name, the first MAX_LIMITS.
parseLimitsResponse(rows) == {r \in rows : Cardinality({q \in rows : q[2] < r[2]}) < MAX_LIMITS}

\* fetchLimits asks for the rows of the copied account with the token of the
\* moment: the policies show the rows of the caller only.
fetchLimits ==
    /\ alPull.at = "asking" /\ alMe # NoOne /\ alOnline
    /\ LET u == alPull.held.user
           rows == parseLimitsResponse(IF alMe = u THEN alSet[u] ELSE {})
       IN alPull' = [at |-> "answered", held |-> [user |-> u, lims |-> rows]]
    /\ UNCHANGED <<alSet, alMe, alOnline, alCache, alDisk, alDirty, alCheck, alForced>>

\* No connection, or logged out by now: -1, and the cache stays.
fetchFails ==
    /\ alPull.at = "asking" /\ (alMe = NoOne \/ ~alOnline)
    /\ alPull' = Idle
    /\ UNCHANGED <<alSet, alMe, alOnline, alCache, alDisk, alDirty, alCheck, alForced>>

\* Mutant: the answer is stored for the account logged in by then.
RefreshStoreCurrent ==
    LET held == [alPull.held EXCEPT !.user = alMe]
    IN /\ alPull.at = "answered"
       /\ alCache' = [loaded |-> TRUE, held |-> held]
       /\ saveCacheToDisk(held)
       /\ alPull' = Idle
       /\ UNCHANGED <<alSet, alMe, alOnline, alCheck, alForced>>

\* Mutant: the cache is filled once.
RefreshStoreOnce ==
    /\ alPull.at = "answered"
    /\ IF alCache.loaded THEN UNCHANGED <<alCache, alDisk, alDirty>>
       ELSE alCache' = [loaded |-> TRUE, held |-> alPull.held] /\ saveCacheToDisk(alPull.held)
    /\ alPull' = Idle
    /\ UNCHANGED <<alSet, alMe, alOnline, alCheck, alForced>>

\* The answer replaces the cache, under the copied account, and the file when
\* something changed.
RefreshStore ==
    /\ alPull.at = "answered"
    /\ alCache' = [loaded |-> TRUE, held |-> alPull.held]
    /\ IF ~alCache.loaded \/ alCache.held # alPull.held
       THEN saveCacheToDisk(alPull.held) ELSE UNCHANGED <<alDisk, alDirty>>
    /\ alPull' = Idle
    /\ UNCHANGED <<alSet, alMe, alOnline, alCheck, alForced>>

-----------------------------------------------------------------------------
(* applimits_get_my_limits, watch thread.                                  *)

CheckBegin ==
    /\ alCheck = NoOne /\ alMe # NoOne
    /\ alCheck' = alMe
    /\ UNCHANGED <<alSet, alMe, alOnline, alCache, alDisk, alDirty, alPull, alForced>>

\* Under the lock: the file is read once, and a cache of another account
\* gives nothing.
applimits_get_my_limits ==
    LET cache == IF alCache.loaded THEN alCache ELSE loadCacheFromDiskLocked
    IN /\ alCheck # NoOne
       /\ alCache' = cache
       /\ alForced' = [user |-> alCheck,
                       lims |-> IF cache.held.user = alCheck THEN cache.held.lims ELSE {}]
       /\ alCheck' = NoOne
       /\ UNCHANGED <<alSet, alMe, alOnline, alDisk, alDirty, alPull>>

alNext ==
    \/ \E u \in Accounts : LogIn(u) \/ \E lims \in SUBSET ({u} \X LimitSet) : ParentSets(u, lims)
    \/ LogOut \/ NetworkChanges \/ AgentRestart
    \/ RefreshBegin \/ fetchLimits \/ fetchFails \/ RefreshStore
    \/ CheckBegin \/ applimits_get_my_limits

\* The two loops of main.cpp run until the agent quits: a pull is made every
\* minute and a check every 20 seconds.
alFair == /\ WF_alVars(RefreshBegin) /\ WF_alVars(fetchLimits) /\ WF_alVars(fetchFails)
          /\ WF_alVars(RefreshStore) /\ WF_alVars(CheckBegin) /\ WF_alVars(applimits_get_my_limits)

-----------------------------------------------------------------------------
(* Properties.                                                             *)

\* The limits enforced on an account were set for this account: a login that
\* overtakes a pull or a check never puts one child's limits on another.
ForcedAreOwn == \A held \in {alForced, alCache.held, alDisk} : \A r \in held.lims : r[1] = held.user

\* The file is what a restart without a network needs: the cache in memory,
\* once loaded, unless writing it failed.
DiskFollowsCache == alCache.loaded /\ ~alDirty => alDisk = alCache.held

\* An account that stays logged in on a machine that stays online, running
\* and with limits that no longer change is held to them, whatever the cache,
\* the file and a pull in flight held before.
LimitsReachTheWatch ==
    \A u \in Accounts :
       /\ <>[](alMe = u /\ alOnline)
       /\ <>[][UNCHANGED alSet /\ ~AgentRestart]_alVars
       => <>[](alForced = [user |-> u, lims |-> parseLimitsResponse(alSet[u])])
=============================================================================
