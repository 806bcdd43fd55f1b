-------------------------- MODULE AuthSessionProofs --------------------------
(***************************************************************************)
(* Proofs about AuthSession, for any number of threads and token issues    *)
(* and every combination of faults.                                        *)
(***************************************************************************)
EXTENDS AuthSession, TLAPS

-----------------------------------------------------------------------------
(* The parts of the inductive invariant.                                   *)

\* Where a thread is while it refreshes the session.
RefreshPlaces == {"read", "post", "apply", "save"}

\* A call is refreshed for at most once.
FirstAttempt ==
    \A t \in Threads : pc[t] \in RefreshPlaces \cup {"stale"} => attempt[t] = 0

\* refreshMutex: a refresh runs under it, and it is held for nothing else.
\* Only the GUI thread logs in or out without it.
LockInv ==
    \A t \in Threads :
       /\ pc[t] \in RefreshPlaces => lock = t
       /\ lock = t => pc[t] \in RefreshPlaces \cup {"clear", "delete"}
       /\ pc[t] \in AccountPlaces /\ lock # t => t = gui
       /\ lock = t /\ pc[t] # "read" => sent[t] # 0

\* No token is known that was not issued.
KnownAreIssued ==
    /\ mem.refresh <= next
    /\ disk.refresh <= next
    /\ \A t \in Threads : used[t].refresh <= next /\ sent[t] <= next

\* The server takes this refresh token, or it is no fault of the agent's.
Accounted(r) == r = 0 \/ r \in live \/ r \in excused

\* The token in memory is accounted for, but for the moment between a grant
\* and its application, when the thread that spent it holds its successor.
MemoryAccounted ==
    \/ Accounted(mem.refresh)
    \/ \E t \in Threads : pc[t] = "apply" /\ used[t].refresh # 0 /\ sent[t] = mem.refresh

\* So is every token that is about to be sent or stored.
HeldAccounted ==
    \A t \in Threads :
       /\ pc[t] = "post" => Accounted(sent[t])
       /\ pc[t] \in {"apply", "login_apply"} => Accounted(used[t].refresh)

\* Nobody else knows the token of a login before it is stored.
LoginTokenIsNew ==
    pc[gui] = "login_apply" =>
       /\ used[gui].refresh \notin {0, mem.refresh}
       /\ \A t \in Threads :
             /\ sent[t] # used[gui].refresh
             /\ pc[t] = "apply" => used[t].refresh # used[gui].refresh

TokenInv == MemoryAccounted /\ HeldAccounted /\ LoginTokenIsNew /\ DeservedLogout

\* As long as nothing went apart there is one writer of the session, and
\* what it has still to write to session.dat is what it wrote to memory.
WriterInv ==
    ~apart =>
       /\ lock = NoThread \/ lock = gui \/ pc[gui] \notin AccountPlaces
       /\ \A t \in Threads :
             /\ pc[t] \in {"save", "login_save"} => used[t] = mem
             /\ pc[t] = "delete" => mem = NoSession
       /\ (\A t \in Threads : pc[t] \notin {"save", "delete", "login_save"})
             => Load(disk) = Load(mem)

-----------------------------------------------------------------------------
(* Types.                                                                  *)

\* Every session with its fields in range.
LEMMA SessionFields ==
    \A s \in Sessions : /\ s.user \in Users \cup {NoUser}
                        /\ s.access \in {0} \cup Issues
                        /\ s.refresh \in {0} \cup Issues
BY DEF Sessions

LEMMA SessionsMade ==
    /\ NoSession \in Sessions
    /\ \A s \in Sessions : Load(s) \in Sessions
    /\ \A u \in Users \cup {NoUser}, a \in {0} \cup Issues, r \in {0} \cup Issues :
          [user |-> u, access |-> a, refresh |-> r] \in Sessions
BY DEF Sessions, NoSession, Load

\* The initial state is well typed.
LEMMA TypeInit == Init => TypeOK
<1> SUFFICES ASSUME Init PROVE TypeOK
    OBVIOUS
<1>1. 1 \in Issues /\ 1 \in 0 .. MaxIssues /\ 1 .. 1 = {1}
    BY AuthAssumption DEF Issues
<1>2. mem \in Sessions /\ disk \in Sessions
    BY <1>1, SessionsMade DEF Init
<1> QED
    BY <1>1, <1>2, SessionsMade, AuthAssumption DEF Init, TypeOK, Places

\* What the end of a call and a retry leave is well typed.
LEMMA TypeEnd ==
    ASSUME TypeOK, NEW t \in Threads, EndCall(t) \/ (Retry(t) /\ attempt[t] = 0)
    PROVE  /\ lock' \in Threads \cup {NoThread}
           /\ pc' \in [Threads -> Places]
           /\ attempt' \in [Threads -> {0, 1}]
           /\ used' \in [Threads -> Sessions]
           /\ sent' \in [Threads -> {0} \cup Issues]
BY SessionsMade DEF TypeOK, EndCall, Retry, Goto, Places

\* A new issue is well typed.
LEMMA TypeIssue ==
    ASSUME TypeOK, NEW r \in Issues, NEW omitted \in SUBSET Omits, Issue(r, omitted)
    PROVE  /\ Issued(r, omitted) \in Sessions
           /\ next' \in 0 .. MaxIssues
           /\ owner' \in [Issues -> Users \cup {NoUser}]
           /\ fresh' \subseteq 1 .. next'
           /\ live' \subseteq 1 .. next'
<1>1. next \in Nat /\ next + 1 \in Issues /\ next' = next + 1 /\ 1 .. next' = (1 .. next) \cup {next + 1}
    BY AuthAssumption DEF TypeOK, Issue, Issues
<1>2. Issued(r, omitted) \in Sessions
    BY <1>1, SessionsMade DEF TypeOK, Issued
<1> QED
    BY <1>1, <1>2, AuthAssumption DEF TypeOK, Issue, Issues

\* Every step keeps the types.
LEMMA TypeNext == TypeOK /\ FirstAttempt /\ [Next]_vars => TypeOK'
<1> SUFFICES ASSUME TypeOK, FirstAttempt, [Next]_vars PROVE TypeOK'
    OBVIOUS
<1> USE DEF server, history
<1>1. ASSUME NEW t \in Threads, Call(t) PROVE TypeOK'
    BY <1>1 DEF TypeOK, Call, Goto, Places
<1>2. ASSUME NEW t \in Threads, CallEnds(t) \/ StaleLoggedOut(t) \/ RefreshNoConnection(t)
      PROVE  TypeOK'
    BY <1>2, TypeEnd DEF TypeOK, CallEnds, StaleLoggedOut, RefreshNoConnection
<1>3. ASSUME NEW t \in Threads, CallUnauthorized(t) PROVE TypeOK'
    BY <1>3 DEF TypeOK, CallUnauthorized, Goto, Places
<1>4. ASSUME NEW t \in Threads, StaleRenewed(t) PROVE TypeOK'
    BY <1>4, TypeEnd DEF TypeOK, StaleRenewed, FirstAttempt, RefreshPlaces
<1>5. ASSUME NEW t \in Threads, StaleRefresh(t) PROVE TypeOK'
    BY <1>5 DEF TypeOK, StaleRefresh, Goto, Places
<1>6. ASSUME NEW t \in Threads, RefreshRead(t) PROVE TypeOK'
  <2>1. CASE mem.refresh = 0
    BY <1>6, <2>1, TypeEnd DEF TypeOK, RefreshRead
  <2>2. CASE mem.refresh # 0
    BY <1>6, <2>2, SessionFields DEF TypeOK, RefreshRead, Goto, Places
  <2> QED
    BY <2>1, <2>2
<1>7. ASSUME NEW t \in Threads, RefreshGranted(t) PROVE TypeOK'
  <2>1. sent[t] \in Issues
    BY <1>7, AuthAssumption DEF TypeOK, RefreshGranted, Issues
  <2>2. PICK omitted \in SUBSET Omits :
          /\ Issue(sent[t], omitted)
          /\ used' = [used EXCEPT ![t] = Issued(sent[t], omitted)]
    BY <1>7 DEF RefreshGranted
  <2> QED
    BY <1>7, <2>1, <2>2, TypeIssue DEF TypeOK, RefreshGranted, Goto, Places
<1>8. ASSUME NEW t \in Threads, RefreshAnswerLost(t) PROVE TypeOK'
  <2>1. sent[t] \in Issues /\ {} \in SUBSET Omits
    BY <1>8, AuthAssumption DEF TypeOK, RefreshAnswerLost, Issues
  <2> QED
    BY <1>8, <2>1, TypeIssue, TypeEnd DEF TypeOK, RefreshAnswerLost
<1>9. ASSUME NEW t \in Threads, RefreshRefused(t) PROVE TypeOK'
    BY <1>9 DEF TypeOK, RefreshRefused, Goto, Places
<1>10. ASSUME NEW t \in Threads, RefreshApply(t) PROVE TypeOK'
  <2>1. Merged(used[t]) \in Sessions
    BY DEF TypeOK, Merged, Sessions
  <2> QED
    BY <1>10, <2>1 DEF TypeOK, RefreshApply, Goto, Places
<1>11. ASSUME NEW t \in Threads, RefreshSave(t) PROVE TypeOK'
    BY <1>11, TypeEnd DEF TypeOK, RefreshSave, Save, FirstAttempt, RefreshPlaces
<1>12. CASE Logout
    BY <1>12, AuthAssumption DEF TypeOK, Logout, Goto, Places
<1>13. ASSUME NEW t \in Threads, LogoutClear(t) PROVE TypeOK'
    BY <1>13, SessionsMade DEF TypeOK, LogoutClear, Goto, Places
<1>14. ASSUME NEW t \in Threads, LogoutDelete(t) PROVE TypeOK'
    BY <1>14, SessionsMade, TypeEnd DEF TypeOK, LogoutDelete
<1>15. CASE Login
  <2>1. next \in Nat /\ next + 1 \in Issues /\ next' = next + 1 /\ next' \in 0 .. MaxIssues
    BY <1>15, AuthAssumption DEF TypeOK, Login, Issues
  <2>2. 1 .. next' = (1 .. next) \cup {next'}
    BY <2>1
  <2>3. PICK u \in Users :
          /\ chosen' = u
          /\ owner' = [owner EXCEPT ![next + 1] = u]
          /\ used' = [used EXCEPT ![gui] = [user |-> u, access |-> next + 1, refresh |-> next + 1]]
    BY <1>15 DEF Login
  <2>4. used' \in [Threads -> Sessions]
    BY <2>1, <2>3, SessionsMade, AuthAssumption DEF TypeOK
  <2> QED
    BY <1>15, <2>1, <2>2, <2>3, <2>4, AuthAssumption DEF TypeOK, Login, Goto, Places
<1>16. ASSUME NEW t \in Threads, LoginApply(t) PROVE TypeOK'
    BY <1>16 DEF TypeOK, LoginApply, Goto, Places
<1>17. ASSUME NEW t \in Threads, LoginSave(t) PROVE TypeOK'
    BY <1>17, TypeEnd DEF TypeOK, LoginSave, Save
<1>18. CASE Expire
    BY <1>18 DEF TypeOK, Expire
<1>19. CASE Revoke
  <2>1. live \subseteq Issues
    BY AuthAssumption DEF TypeOK, Issues
  <2> QED
    BY <1>19, <2>1 DEF TypeOK, Revoke
<1>20. CASE Restart
  <2>1. Load(disk) \in Sessions /\ NoSession \in Sessions
    BY SessionsMade DEF TypeOK
  <2>2. {disk.refresh} \ (live \cup {0}) \subseteq Issues
    BY SessionFields DEF TypeOK
  <2> QED
    BY <1>20, <2>1, <2>2 DEF TypeOK, Restart, Places
<1>21. CASE UNCHANGED vars
    BY <1>21 DEF TypeOK, vars
<1> QED
    BY <1>1, <1>2, <1>3, <1>4, <1>5, <1>6, <1>7, <1>8, <1>9, <1>10, <1>11, <1>12, <1>13,
       <1>14, <1>15, <1>16, <1>17, <1>18, <1>19, <1>20, <1>21
       DEF Next, Begin, Continue, Stale

-----------------------------------------------------------------------------
(* The mutex.                                                              *)

\* Every step keeps refreshMutex exclusive, and refreshes once for a call.
LEMMA LockNext ==
    TypeOK /\ FirstAttempt /\ LockInv /\ [Next]_vars => FirstAttempt' /\ LockInv'
<1> SUFFICES ASSUME TypeOK, FirstAttempt, LockInv, [Next]_vars PROVE FirstAttempt' /\ LockInv'
    OBVIOUS
<1> USE DEF FirstAttempt, LockInv, RefreshPlaces, AccountPlaces
<1>1. ASSUME NEW t \in Threads, Call(t) \/ CallUnauthorized(t) PROVE FirstAttempt' /\ LockInv'
    BY <1>1 DEF TypeOK, Call, CallUnauthorized, Goto
<1>2. ASSUME NEW t \in Threads, EndCall(t) PROVE FirstAttempt' /\ LockInv'
    BY <1>2, AuthAssumption DEF TypeOK, EndCall, Goto
<1>3. ASSUME NEW t \in Threads, Retry(t) PROVE FirstAttempt' /\ LockInv'
    BY <1>3, AuthAssumption DEF TypeOK, Retry, Goto
<1>4. ASSUME NEW t \in Threads, StaleRefresh(t) PROVE FirstAttempt' /\ LockInv'
    BY <1>4, AuthAssumption DEF TypeOK, StaleRefresh, Free, Goto
<1>5. ASSUME NEW t \in Threads, RefreshRead(t) PROVE FirstAttempt' /\ LockInv'
    BY <1>2, <1>5 DEF TypeOK, RefreshRead, Goto
<1>6. ASSUME NEW t \in Threads,
             RefreshGranted(t) \/ RefreshRefused(t) \/ RefreshApply(t)
             \/ LogoutClear(t) \/ LoginApply(t)
      PROVE  FirstAttempt' /\ LockInv'
    BY <1>6 DEF TypeOK, RefreshGranted, RefreshRefused, RefreshApply, LogoutClear, LoginApply, Goto
<1>7. CASE Logout \/ Login
    BY <1>7, AuthAssumption DEF TypeOK, Logout, Login, Goto
<1>8. CASE Expire \/ Revoke \/ UNCHANGED vars
    BY <1>8 DEF Expire, Revoke, vars
<1>9. CASE Restart
    BY <1>9, AuthAssumption DEF Restart
<1> QED
    BY <1>1, <1>2, <1>3, <1>4, <1>5, <1>6, <1>7, <1>8, <1>9
       DEF Next, Begin, Continue, Stale, CallEnds, StaleLoggedOut, StaleRenewed, RefreshNoConnection,
           RefreshAnswerLost, RefreshSave, LogoutDelete, LoginSave

-----------------------------------------------------------------------------
(* The writers of the session.                                             *)

\* Every step keeps memory and session.dat together.
LEMMA WriterNext ==
    TypeOK /\ LockInv /\ WriterInv /\ [Next]_vars => WriterInv'
<1> SUFFICES ASSUME TypeOK, LockInv, WriterInv, [Next]_vars PROVE WriterInv'
    OBVIOUS
<1> USE DEF LockInv, WriterInv, RefreshPlaces, AccountPlaces, server, history
<1>0. ASSUME ~apart, NEW t \in Threads, NEW u \in Threads, t # u,
             pc[t] \in RefreshPlaces \cup AccountPlaces
      PROVE  pc[u] \notin RefreshPlaces \cup AccountPlaces
    BY <1>0, AuthAssumption
<1>1. ASSUME NEW t \in Threads, UNCHANGED <<mem, disk>>, ~apart' => ~apart,
             pc[t] \notin {"save", "delete", "login_save"}, pc'[t] \notin {"save", "delete", "login_save"},
             \A u \in Threads \ {t} : pc'[u] = pc[u] /\ used'[u] = used[u],
             ~apart' => lock' = NoThread \/ lock' = gui \/ pc'[gui] \notin AccountPlaces
      PROVE  WriterInv'
    BY <1>1
<1>2. ASSUME NEW t \in Threads, Call(t) \/ CallUnauthorized(t) PROVE WriterInv'
    BY <1>1, <1>2, AuthAssumption DEF TypeOK, Call, CallUnauthorized, Goto
<1>3. ASSUME NEW t \in Threads, EndCall(t) \/ Retry(t), pc[t] \in {"request", "stale", "read", "post"},
             UNCHANGED <<mem, disk, apart>>
      PROVE  WriterInv'
    BY <1>1, <1>3, AuthAssumption DEF TypeOK, EndCall, Retry, Goto
<1>4. ASSUME NEW t \in Threads, StaleRefresh(t) PROVE WriterInv'
    BY <1>1, <1>4, AuthAssumption DEF TypeOK, StaleRefresh, Free, Goto
<1>5. ASSUME NEW t \in Threads, RefreshRead(t) \/ RefreshGranted(t) \/ RefreshRefused(t) PROVE WriterInv'
  <2>1. CASE RefreshRead(t) /\ mem.refresh = 0
    BY <1>3, <2>1 DEF RefreshRead
  <2>2. CASE (RefreshRead(t) /\ mem.refresh # 0) \/ RefreshGranted(t) \/ RefreshRefused(t)
    BY <1>1, <2>2, AuthAssumption DEF TypeOK, RefreshRead, RefreshGranted, RefreshRefused, Goto
  <2> QED
    BY <1>5, <2>1, <2>2
<1>6. ASSUME NEW t \in Threads, RefreshApply(t) PROVE WriterInv'
  <2>1. /\ lock = t /\ lock' = lock /\ apart' = apart /\ t # NoThread
        /\ pc'[t] = "save" /\ used'[t] = mem'
        /\ \A u \in Threads \ {t} : pc'[u] = pc[u] /\ used'[u] = used[u]
    BY <1>6, AuthAssumption DEF TypeOK, RefreshApply, Goto
  <2>2. ~apart => \A u \in Threads \ {t} : pc[u] \notin RefreshPlaces \cup AccountPlaces
    BY <1>0, <1>6 DEF RefreshApply
  <2> QED
    BY <2>1, <2>2, AuthAssumption
<1>7. ASSUME NEW t \in Threads, RefreshSave(t) \/ LoginSave(t) PROVE WriterInv'
    BY <1>0, <1>7, AuthAssumption DEF TypeOK, RefreshSave, LoginSave, Save, EndCall, Retry, Goto
<1>8. ASSUME NEW t \in Threads, LogoutClear(t) \/ LoginApply(t) PROVE WriterInv'
  <2>1. /\ lock' = lock /\ apart' = apart
        /\ \/ pc'[t] = "delete" /\ mem' = NoSession
           \/ pc'[t] = "login_save" /\ mem' = used'[t]
        /\ pc[t] \in AccountPlaces
        /\ \A u \in Threads \ {t} : pc'[u] = pc[u] /\ used'[u] = used[u]
    BY <1>8 DEF TypeOK, LogoutClear, LoginApply, Goto
  <2>2. ~apart => \A u \in Threads \ {t} : pc[u] \notin RefreshPlaces \cup AccountPlaces
    BY <1>0, <2>1
  <2> QED
    BY <2>1, <2>2, AuthAssumption
<1>9. ASSUME NEW t \in Threads, LogoutDelete(t) PROVE WriterInv'
  <2>1. /\ lock' \in {lock, NoThread} /\ apart' = apart
        /\ pc'[t] = "idle" /\ disk' = NoSession /\ mem' = mem
        /\ ~apart => mem = NoSession
        /\ \A u \in Threads \ {t} : pc'[u] = pc[u] /\ used'[u] = used[u]
    BY <1>9 DEF TypeOK, LogoutDelete, EndCall, Goto
  <2>2. ~apart => \A u \in Threads \ {t} : pc[u] \notin RefreshPlaces \cup AccountPlaces
    BY <1>0, <1>9 DEF LogoutDelete
  <2> QED
    BY <2>1, <2>2, AuthAssumption
<1>10. CASE Logout \/ Login
    BY <1>10, AuthAssumption DEF TypeOK, Logout, Login, Goto
<1>11. CASE Expire \/ Revoke \/ UNCHANGED vars
    BY <1>11 DEF Expire, Revoke, vars
<1>12. CASE Restart
  <2>1. Load(Load(disk)) = Load(disk)
    BY DEF Load, NoSession
  <2> QED
    BY <1>12, <2>1, AuthAssumption DEF Restart
<1> QED
    BY <1>1, <1>2, <1>3, <1>4, <1>5, <1>6, <1>7, <1>8, <1>9, <1>10, <1>11, <1>12
       DEF Next, Begin, Continue, Stale, CallEnds, StaleLoggedOut, StaleRenewed, RefreshNoConnection,
           RefreshAnswerLost

-----------------------------------------------------------------------------
(* The refresh tokens.                                                     *)

\* Tokens are issued before they are known.
LEMMA IssuedNext == TypeOK /\ KnownAreIssued /\ [Next]_vars => KnownAreIssued'
<1> SUFFICES ASSUME TypeOK, KnownAreIssued, [Next]_vars PROVE KnownAreIssued'
    OBVIOUS
<1> USE DEF KnownAreIssued, server, history
<1>1. next \in Nat /\ \A s \in Sessions : s.refresh \in Nat
    BY AuthAssumption, SessionFields DEF TypeOK, Issues
<1>2. ASSUME NEW t \in Threads, Call(t) \/ CallUnauthorized(t) \/ StaleRefresh(t) \/ RefreshRefused(t)
      PROVE  KnownAreIssued'
    BY <1>2 DEF TypeOK, Call, CallUnauthorized, StaleRefresh, RefreshRefused
<1>3. ASSUME NEW t \in Threads, EndCall(t) \/ Retry(t), UNCHANGED mem,
             UNCHANGED disk \/ disk' = used[t] \/ disk' = NoSession, next' \in {next, next + 1}
      PROVE  KnownAreIssued'
  <2>1. NoSession.refresh = 0
    BY DEF NoSession
  <2>2. \A u \in Threads : used'[u].refresh <= next /\ sent'[u] <= next
    BY <1>1, <1>3, <2>1 DEF TypeOK, EndCall, Retry
  <2>3. used'[t].refresh <= next /\ disk'.refresh <= next
    BY <1>1, <1>3, <2>1, <2>2 DEF TypeOK
  <2>4. \A n \in Nat : n <= next => n <= next'
    BY <1>1, <1>3
  <2>5. mem.refresh \in Nat /\ disk'.refresh \in Nat
    BY <1>1, <1>3, SessionsMade DEF TypeOK
  <2>6. \A u \in Threads : used'[u].refresh \in Nat /\ sent'[u] \in Nat
    BY <1>1, <1>3, <2>1, AuthAssumption DEF TypeOK, EndCall, Retry, Issues
  <2> QED
    BY <1>3, <2>2, <2>3, <2>4, <2>5, <2>6
<1>4. ASSUME NEW t \in Threads, RefreshRead(t) PROVE KnownAreIssued'
    BY <1>1, <1>3, <1>4 DEF TypeOK, RefreshRead
<1>5. ASSUME NEW t \in Threads, RefreshGranted(t) PROVE KnownAreIssued'
  <2>1. next' = next + 1 /\ \A u \in Threads : used'[u].refresh <= next + 1
    BY <1>1, <1>5, SessionFields DEF TypeOK, RefreshGranted, Issue, Issued, Issues
  <2>2. \A n \in Nat : n <= next => n <= next + 1
    BY <1>1
  <2>3. mem.refresh \in Nat /\ disk.refresh \in Nat /\ \A u \in Threads : sent[u] \in Nat
    BY <1>1, AuthAssumption DEF TypeOK, Issues
  <2> QED
    BY <1>5, <2>1, <2>2, <2>3 DEF RefreshGranted
<1>6. ASSUME NEW t \in Threads, RefreshApply(t) PROVE KnownAreIssued'
  <2>1. mem'.refresh <= next
    BY <1>6 DEF TypeOK, RefreshApply, Merged, Sessions
  <2> QED
    BY <1>6, <2>1 DEF TypeOK, RefreshApply
<1>7. ASSUME NEW t \in Threads, LogoutClear(t) \/ LoginApply(t) PROVE KnownAreIssued'
    BY <1>1, <1>7 DEF TypeOK, LogoutClear, LoginApply, NoSession
<1>8. CASE Login
  <2>1. next' = next + 1 /\ \A u \in Threads : used'[u].refresh <= next + 1
    BY <1>1, <1>8 DEF TypeOK, Login
  <2>2. \A n \in Nat : n <= next => n <= next + 1
    BY <1>1
  <2>3. mem.refresh \in Nat /\ disk.refresh \in Nat /\ \A u \in Threads : sent[u] \in Nat
    BY <1>1, AuthAssumption DEF TypeOK, Issues
  <2> QED
    BY <1>8, <2>1, <2>2, <2>3 DEF Login
<1>9. CASE Logout \/ Expire \/ Revoke \/ UNCHANGED vars
    BY <1>9 DEF Logout, Expire, Revoke, vars
<1>10. CASE Restart
    BY <1>1, <1>10 DEF TypeOK, Restart, Load, NoSession
<1>11. ASSUME NEW t \in Threads,
              CallEnds(t) \/ StaleLoggedOut(t) \/ StaleRenewed(t) \/ RefreshNoConnection(t)
              \/ RefreshAnswerLost(t) \/ RefreshSave(t) \/ LogoutDelete(t) \/ LoginSave(t)
       PROVE  KnownAreIssued'
    BY <1>3, <1>11 DEF CallEnds, StaleLoggedOut, StaleRenewed, RefreshNoConnection, RefreshAnswerLost,
                       RefreshSave, LogoutDelete, LoginSave, Save, Issue
<1> QED
    BY <1>2, <1>4, <1>5, <1>6, <1>7, <1>8, <1>9, <1>10, <1>11
       DEF Next, Begin, Continue, Stale

\* Every step keeps the refresh tokens accounted for.
LEMMA TokenNext ==
    ASSUME "trouble" \notin Faults
    PROVE  TypeOK /\ LockInv /\ KnownAreIssued /\ TokenInv /\ [Next]_vars => TokenInv'
<1> SUFFICES ASSUME TypeOK, LockInv, KnownAreIssued, TokenInv, [Next]_vars PROVE TokenInv'
    OBVIOUS
<1> USE DEF server, history
<1>1. \A t, u \in Threads : pc[t] \in RefreshPlaces /\ pc[u] \in RefreshPlaces => t = u
    BY DEF LockInv
<1>2. ASSUME NEW t \in Threads, live \subseteq live', excused \subseteq excused', UNCHANGED mem,
             pc[t] # "apply", pc'[t] \notin {"post", "apply", "login_apply", "clear"},
             \A u \in Threads \ {t} : /\ pc'[u] = pc[u] /\ used'[u] = used[u] /\ sent'[u] = sent[u]
                                      /\ lock' = u => lock = u,
             sent'[t] \in {0, sent[t]}
      PROVE  TokenInv'
  <2>1. MemoryAccounted'
    BY <1>2 DEF TokenInv, MemoryAccounted, Accounted
  <2>2. HeldAccounted'
    BY <1>2 DEF TokenInv, HeldAccounted, Accounted
  <2>3. LoginTokenIsNew'
    BY <1>2, AuthAssumption DEF TokenInv, LoginTokenIsNew
  <2>4. DeservedLogout'
    BY <1>2 DEF TokenInv, DeservedLogout
  <2> QED
    BY <2>1, <2>2, <2>3, <2>4 DEF TokenInv
<1>3. ASSUME NEW t \in Threads, Call(t) \/ CallUnauthorized(t) \/ StaleRefresh(t) PROVE TokenInv'
    BY <1>2, <1>3, AuthAssumption DEF TypeOK, Call, CallUnauthorized, StaleRefresh, Free, Goto
<1>4. ASSUME NEW t \in Threads, EndCall(t) \/ Retry(t), pc[t] # "apply",
             live \subseteq live', excused \subseteq excused', UNCHANGED mem
      PROVE  TokenInv'
    BY <1>2, <1>4, AuthAssumption DEF TypeOK, EndCall, Retry, Goto
<1>5. ASSUME NEW t \in Threads, RefreshRead(t) PROVE TokenInv'
  <2>1. CASE mem.refresh = 0
    BY <1>4, <1>5, <2>1 DEF RefreshRead
  <2>2. CASE mem.refresh # 0
    <3>1. /\ pc'[t] = "post" /\ sent'[t] = mem.refresh
          /\ \A u \in Threads \ {t} : pc'[u] = pc[u] /\ sent'[u] = sent[u] /\ pc[u] # "apply"
          /\ UNCHANGED <<mem, used, lock, live, excused>>
      BY <1>1, <1>5, <2>2 DEF TypeOK, RefreshRead, Goto, RefreshPlaces
    <3>2. Accounted(mem.refresh)
      BY <1>1, <1>5 DEF TokenInv, MemoryAccounted, RefreshRead, RefreshPlaces
    <3>3. MemoryAccounted' /\ HeldAccounted'
      BY <3>1, <3>2 DEF TokenInv, MemoryAccounted, HeldAccounted, Accounted
    <3>4. LoginTokenIsNew' /\ DeservedLogout'
      BY <3>1, AuthAssumption DEF TokenInv, LoginTokenIsNew, DeservedLogout
    <3> QED
      BY <3>3, <3>4 DEF TokenInv
  <2> QED
    BY <2>1, <2>2
<1>6. ASSUME NEW t \in Threads, RefreshGranted(t) PROVE TokenInv'
  <2>1. PICK omitted \in SUBSET Omits :
          /\ Issue(sent[t], omitted)
          /\ used' = [used EXCEPT ![t] = Issued(sent[t], omitted)]
    BY <1>6 DEF RefreshGranted
  <2>2. /\ pc[t] = "post" /\ pc'[t] = "apply"
        /\ \A u \in Threads \ {t} : pc'[u] = pc[u] /\ used'[u] = used[u]
        /\ UNCHANGED <<mem, lock, sent, excused>>
        /\ next' = next + 1
    BY <1>6, <2>1 DEF TypeOK, RefreshGranted, Issue, Goto
  <2>3. \/ used'[t].refresh = 0 /\ live' = live
        \/ used'[t].refresh = next + 1 /\ live' = (live \ {sent[t]}) \cup {next + 1}
    BY <2>1, <2>2 DEF TypeOK, Issue, Issued
  <2>4. \A u \in Threads \ {t} : pc[u] \notin RefreshPlaces
    BY <1>1, <2>2 DEF RefreshPlaces
  <2>5. /\ next \in Nat /\ next + 1 # 0
        /\ \A u \in Threads : sent[u] # next + 1 /\ used[u].refresh # next + 1
    BY AuthAssumption, SessionFields DEF TypeOK, KnownAreIssued, Issues
  <2>6. MemoryAccounted'
    BY <2>2, <2>3, <2>4, <2>5 DEF TokenInv, MemoryAccounted, Accounted, RefreshPlaces
  <2>7. HeldAccounted'
    <3>1. ASSUME NEW u \in Threads \ {t}, pc[u] = "login_apply" PROVE Accounted(used[u].refresh)'
      <4>1. u = gui
        BY <3>1 DEF LockInv, AccountPlaces, RefreshPlaces
      <4>2. Accounted(used[u].refresh) /\ used[u].refresh # sent[t]
        BY <3>1, <4>1 DEF TokenInv, HeldAccounted, LoginTokenIsNew
      <4> QED
        BY <2>2, <2>3, <4>2 DEF Accounted
    <3>2. Accounted(used[t].refresh)'
      BY <2>3 DEF Accounted
    <3> QED
      BY <2>2, <2>4, <3>1, <3>2 DEF HeldAccounted, RefreshPlaces
  <2>8. LoginTokenIsNew'
    BY <2>2, <2>3, <2>4, <2>5, AuthAssumption DEF TokenInv, LoginTokenIsNew, RefreshPlaces
  <2>9. DeservedLogout'
    BY <2>2 DEF TokenInv, DeservedLogout
  <2> QED
    BY <2>6, <2>7, <2>8, <2>9 DEF TokenInv
<1>7. ASSUME NEW t \in Threads, RefreshAnswerLost(t) PROVE TokenInv'
  <2>1. /\ live' = (live \ {sent[t]}) \cup {next'} /\ excused' = excused \cup {sent[t]}
        /\ pc'[t] = "idle" /\ sent'[t] = 0 /\ pc[t] = "post" /\ UNCHANGED mem
        /\ \A u \in Threads \ {t} : /\ pc'[u] = pc[u] /\ used'[u] = used[u] /\ sent'[u] = sent[u]
                                    /\ lock' = u => lock = u
    BY <1>7, AuthAssumption DEF TypeOK, RefreshAnswerLost, Issue, EndCall, Goto
  <2>2. \A r : Accounted(r) => (r = 0 \/ r \in live' \/ r \in excused')
    BY <2>1 DEF Accounted
  <2>3. MemoryAccounted' /\ HeldAccounted'
    BY <2>1, <2>2 DEF TokenInv, MemoryAccounted, HeldAccounted, Accounted
  <2>4. LoginTokenIsNew' /\ DeservedLogout'
    BY <2>1, AuthAssumption DEF TokenInv, LoginTokenIsNew, DeservedLogout
  <2> QED
    BY <2>3, <2>4 DEF TokenInv
<1>8. ASSUME NEW t \in Threads, RefreshRefused(t) PROVE TokenInv'
  <2>1. /\ pc[t] = "post" /\ pc'[t] = "clear"
        /\ \A u \in Threads \ {t} : pc'[u] = pc[u]
        /\ UNCHANGED <<mem, used, lock, sent, live, excused>>
    BY <1>8 DEF TypeOK, RefreshRefused, Goto
  <2>2. sent[t] \in excused
    BY <1>8, <2>1 DEF RefreshRefused, TokenInv, HeldAccounted, Accounted, LockInv, RefreshPlaces
  <2>3. MemoryAccounted' /\ HeldAccounted'
    BY <2>1 DEF TokenInv, MemoryAccounted, HeldAccounted, Accounted
  <2>4. LoginTokenIsNew' /\ DeservedLogout'
    BY <2>1, <2>2, AuthAssumption DEF TokenInv, LoginTokenIsNew, DeservedLogout
  <2> QED
    BY <2>3, <2>4 DEF TokenInv
<1>9. ASSUME NEW t \in Threads, RefreshApply(t) PROVE TokenInv'
  <2>1. /\ pc[t] = "apply" /\ pc'[t] = "save"
        /\ \A u \in Threads \ {t} : pc'[u] = pc[u] /\ used'[u] = used[u]
        /\ UNCHANGED <<lock, sent, live, excused>>
        /\ mem'.refresh = IF used[t].refresh = 0 THEN mem.refresh ELSE used[t].refresh
    BY <1>9 DEF TypeOK, RefreshApply, Merged, Goto, Sessions
  <2>2. \A u \in Threads \ {t} : pc[u] \notin RefreshPlaces
    BY <1>1, <2>1 DEF RefreshPlaces
  <2>3. Accounted(mem'.refresh)
    BY <2>1, <2>2 DEF TokenInv, MemoryAccounted, HeldAccounted, RefreshPlaces
  <2>4. MemoryAccounted' /\ HeldAccounted'
    BY <2>1, <2>3 DEF TokenInv, MemoryAccounted, HeldAccounted, Accounted
  <2>5. LoginTokenIsNew' /\ DeservedLogout'
    BY <2>1, AuthAssumption DEF TokenInv, LoginTokenIsNew, DeservedLogout
  <2> QED
    BY <2>4, <2>5 DEF TokenInv
<1>10. ASSUME NEW t \in Threads,
              CallEnds(t) \/ StaleLoggedOut(t) \/ StaleRenewed(t) \/ RefreshNoConnection(t)
              \/ RefreshSave(t) \/ LogoutDelete(t) \/ LoginSave(t)
       PROVE  TokenInv'
    BY <1>4, <1>10 DEF CallEnds, StaleLoggedOut, StaleRenewed, RefreshNoConnection,
                       RefreshSave, LogoutDelete, LoginSave
<1>11. ASSUME NEW t \in Threads, LogoutClear(t) \/ LoginApply(t) PROVE TokenInv'
  <2>1. /\ pc[t] \in {"clear", "login_apply"} /\ pc'[t] \in {"delete", "login_save"}
        /\ \A u \in Threads \ {t} : pc'[u] = pc[u]
        /\ UNCHANGED <<used, lock, sent, live, excused>>
        /\ \/ mem'.refresh = 0
           \/ pc[t] = "login_apply" /\ mem'.refresh = used[t].refresh
    BY <1>11 DEF TypeOK, LogoutClear, LoginApply, NoSession, Goto
  <2>2. Accounted(mem'.refresh)
    BY <2>1 DEF TokenInv, HeldAccounted, Accounted
  <2>3. MemoryAccounted' /\ HeldAccounted'
    BY <2>1, <2>2 DEF TokenInv, MemoryAccounted, HeldAccounted, Accounted
  <2>4. pc[t] = "login_apply" => t = gui
    BY DEF LockInv, AccountPlaces, RefreshPlaces
  <2>5. LoginTokenIsNew' /\ DeservedLogout'
    BY <2>1, <2>4, AuthAssumption DEF TokenInv, LoginTokenIsNew, DeservedLogout
  <2> QED
    BY <2>3, <2>5 DEF TokenInv
<1>12. CASE Logout
  <2>1. /\ pc[gui] = "idle" /\ pc'[gui] = "clear" /\ lock # gui
        /\ \A u \in Threads \ {gui} : pc'[u] = pc[u]
        /\ UNCHANGED <<mem, used, lock, sent, live, excused>>
    BY <1>12, AuthAssumption DEF TypeOK, Logout, Goto, LockInv, RefreshPlaces
  <2> QED
    BY <2>1, AuthAssumption
       DEF TokenInv, MemoryAccounted, HeldAccounted, Accounted, LoginTokenIsNew, DeservedLogout
<1>13. CASE Login
  <2>1. /\ pc[gui] = "idle" /\ pc'[gui] = "login_apply" /\ used'[gui].refresh = next + 1
        /\ \A u \in Threads \ {gui} : pc'[u] = pc[u] /\ used'[u] = used[u]
        /\ live' = live \cup {next + 1}
        /\ UNCHANGED <<mem, lock, sent, excused>>
    BY <1>13, AuthAssumption DEF TypeOK, Login, Goto
  <2>2. /\ next + 1 # 0 /\ mem.refresh # next + 1
        /\ \A u \in Threads : sent[u] # next + 1 /\ used[u].refresh # next + 1
    BY AuthAssumption, SessionFields DEF TypeOK, KnownAreIssued, Issues
  <2>3. MemoryAccounted' /\ HeldAccounted'
    BY <2>1, AuthAssumption DEF TokenInv, MemoryAccounted, HeldAccounted, Accounted
  <2>4. LoginTokenIsNew' /\ DeservedLogout'
    BY <2>1, <2>2, AuthAssumption DEF TokenInv, LoginTokenIsNew, DeservedLogout
  <2> QED
    BY <2>3, <2>4 DEF TokenInv
<1>14. CASE Revoke
  <2>1. /\ UNCHANGED <<mem, pc, used, lock, sent>> /\ excused \subseteq excused'
        /\ \A r : Accounted(r) => (r = 0 \/ r \in live' \/ r \in excused')
    BY <1>14 DEF Revoke, Accounted
  <2> QED
    BY <2>1 DEF TokenInv, MemoryAccounted, HeldAccounted, Accounted, LoginTokenIsNew, DeservedLogout
<1>15. CASE Restart
  <2>1. /\ pc' = [t \in Threads |-> "idle"]
        /\ Load(disk).refresh \in {0, disk.refresh}
        /\ mem' = Load(disk) /\ live' = live
        /\ excused' = excused \cup ({disk.refresh} \ (live \cup {0}))
    BY <1>15 DEF Restart, Load, NoSession
  <2> QED
    BY <2>1, AuthAssumption
       DEF TokenInv, MemoryAccounted, HeldAccounted, Accounted, LoginTokenIsNew, DeservedLogout
<1>16. CASE Expire \/ UNCHANGED vars
    BY <1>16 DEF Expire, vars, TokenInv, MemoryAccounted, HeldAccounted, Accounted,
                 LoginTokenIsNew, DeservedLogout
<1> QED
    BY <1>3, <1>5, <1>6, <1>7, <1>8, <1>9, <1>10, <1>11, <1>12, <1>13, <1>14, <1>15, <1>16
       DEF Next, Begin, Continue, Stale

-----------------------------------------------------------------------------
(* Theorems.                                                               *)

\* The invariants hold in the initial state.
LEMMA InitInv == Init => FirstAttempt /\ LockInv /\ KnownAreIssued /\ TokenInv /\ WriterInv
<1> SUFFICES ASSUME Init PROVE FirstAttempt /\ LockInv /\ KnownAreIssued /\ TokenInv /\ WriterInv
    OBVIOUS
<1>1. FirstAttempt /\ LockInv
    BY AuthAssumption DEF Init, FirstAttempt, LockInv, RefreshPlaces, AccountPlaces
<1>2. KnownAreIssued
    BY DEF Init, KnownAreIssued, NoSession
<1>3. TokenInv
    BY AuthAssumption
       DEF Init, TokenInv, MemoryAccounted, HeldAccounted, Accounted, LoginTokenIsNew, DeservedLogout
<1>4. WriterInv
    BY AuthAssumption DEF Init, WriterInv
<1> QED
    BY <1>1, <1>2, <1>3, <1>4

(* Sessions, tokens and threads are what they should be, and refreshMutex  *)
(* is exclusive, whatever fails.                                           *)
THEOREM SessionInvariant == Spec => [](TypeOK /\ FirstAttempt /\ LockInv /\ KnownAreIssued)
<1>1. Init => TypeOK /\ FirstAttempt /\ LockInv /\ KnownAreIssued
    BY TypeInit, InitInv
<1>2. /\ TypeOK /\ FirstAttempt /\ LockInv /\ KnownAreIssued
      /\ [Next]_vars
      => (TypeOK /\ FirstAttempt /\ LockInv /\ KnownAreIssued)'
    BY TypeNext, LockNext, IssuedNext
<1> QED
    BY <1>1, <1>2, PTL DEF Spec

(* No thread logs the user out for a refresh token another thread has      *)
(* spent: with any number of threads that renew the session, the agent     *)
(* gives it up only when the server has withdrawn the token, or its        *)
(* successor was lost with an answer, a failed write or a crash.  (A       *)
(* server in trouble does log the user out: RefreshRefused.)               *)
THEOREM LogoutDeserved ==
    ASSUME "trouble" \notin Faults
    PROVE  Spec => []DeservedLogout
<1>1. Init => TokenInv
    BY InitInv
<1>2. TypeOK /\ LockInv /\ KnownAreIssued /\ TokenInv /\ [Next]_vars => TokenInv'
    BY TokenNext
<1>3. TokenInv => DeservedLogout
    BY DEF TokenInv
<1> QED
    BY <1>1, <1>2, <1>3, SessionInvariant, PTL DEF Spec

(* Memory and session.dat hold the same session whenever no write of one   *)
(* of them is outstanding, unless a write failed or a login or logout      *)
(* overlapped a refresh; crashes included.                                 *)
THEOREM DiskFollowsMemory == Spec => []DiskMatchesMemory
<1>1. Init => WriterInv
    BY InitInv
<1>2. TypeOK /\ LockInv /\ WriterInv /\ [Next]_vars => WriterInv'
    BY WriterNext
<1>3. WriterInv => DiskMatchesMemory
    BY DEF WriterInv, DiskMatchesMemory
<1> QED
    BY <1>1, <1>2, <1>3, SessionInvariant, PTL DEF Spec

-----------------------------------------------------------------------------
(* The part of CallReturns that needs no fairness.                         *)

\* A call goes round a second time only with its one retry used up.
SecondRound == \A t \in Threads : pc[t] = "again" => attempt[t] = 1

\* The steps a thread's call, login or logout may still take.
Left(t) ==
    CASE pc[t] = "request" -> IF attempt[t] = 0 THEN 9 ELSE 2
      [] pc[t] = "stale" -> 8
      [] pc[t] = "read" -> 7
      [] pc[t] = "post" -> 6
      [] pc[t] = "apply" -> 5
      [] pc[t] = "save" -> 4
      [] pc[t] = "again" -> 3
      [] pc[t] \in {"clear", "login_apply"} -> 2
      [] pc[t] \in {"delete", "login_save"} -> 1
      [] OTHER -> 0

\* The thread is left where it is, or has come closer to the end of its call.
Closer(t) == \/ pc'[t] = pc[t] /\ attempt'[t] = attempt[t]
             \/ Left(t)' < Left(t)

\* Who waits for refreshMutex waits for a thread that needs no lock to go on.
HolderGoesOn ==
    \A t \in Threads : pc[t] = "stale" /\ ~Free => lock \in Threads /\ Left(lock) \in 1 .. 7

\* The measure at the places.
LEMMA LeftIs ==
    ASSUME TypeOK, NEW t \in Threads
    PROVE  /\ pc[t] = "idle" <=> Left(t) = 0
           /\ Left(t) \in 0 .. 9
           /\ pc[t] \in RefreshPlaces \cup {"clear", "delete"} => Left(t) \in 1 .. 7
BY DEF TypeOK, Places, RefreshPlaces, Left

\* A step of a thread brings its call closer to the end.
LEMMA CloserStep ==
    ASSUME TypeOK, FirstAttempt, SecondRound, NEW t \in Threads, Continue(t)
    PROVE  /\ Left(t)' < Left(t) /\ (pc'[t] = "again" => attempt'[t] = 1)
           /\ \A u \in Threads \ {t} : pc'[u] = pc[u] /\ attempt'[u] = attempt[u]
<1> USE DEF TypeOK, Left, Goto
<1>1. CASE pc[t] = "again" /\ Call(t)
  BY <1>1 DEF Call, SecondRound
<1>2. CASE CallUnauthorized(t)
  BY <1>2 DEF CallUnauthorized
<1>3. CASE CallEnds(t) \/ StaleLoggedOut(t) \/ RefreshNoConnection(t) \/ RefreshAnswerLost(t)
           \/ LogoutDelete(t) \/ LoginSave(t)
  BY <1>3 DEF CallEnds, StaleLoggedOut, RefreshNoConnection, RefreshAnswerLost, LogoutDelete, LoginSave,
              EndCall
<1>4. CASE StaleRenewed(t) \/ RefreshSave(t)
  BY <1>4 DEF StaleRenewed, RefreshSave, Retry, FirstAttempt, RefreshPlaces
<1>5. CASE StaleRefresh(t)
  BY <1>5 DEF StaleRefresh
<1>6. CASE RefreshRead(t)
  BY <1>6 DEF RefreshRead, EndCall
<1>7. CASE RefreshGranted(t) \/ RefreshRefused(t) \/ RefreshApply(t)
  BY <1>7 DEF RefreshGranted, RefreshRefused, RefreshApply
<1>8. CASE LogoutClear(t) \/ LoginApply(t)
  BY <1>8 DEF LogoutClear, LoginApply
<1> QED
  BY <1>1, <1>2, <1>3, <1>4, <1>5, <1>6, <1>7, <1>8 DEF Continue, Stale

\* What a call that has begun may do in a step of anyone.
LEMMA AnyStep ==
    ASSUME TypeOK, FirstAttempt, SecondRound, [Next]_vars
    PROVE  SecondRound' /\ \A t \in Threads : pc[t] # "idle" => Closer(t)
<1>1. ASSUME NEW t \in Threads, Continue(t)
      PROVE  SecondRound' /\ \A u \in Threads : pc[u] # "idle" => Closer(u)
  BY <1>1, CloserStep DEF SecondRound, Closer
<1>2. ASSUME NEW t \in Threads, pc[t] = "idle", UNCHANGED attempt,
             \E place \in Places \ {"again"} : Goto(t, place)
      PROVE  SecondRound' /\ \A u \in Threads : pc[u] # "idle" => Closer(u)
  BY <1>2 DEF SecondRound, Closer, Goto, TypeOK
<1>3. CASE Begin
  <2>1. CASE Logout \/ Login
    BY <1>2, <2>1, AuthAssumption DEF Logout, Login, Places
  <2>2. ASSUME NEW t \in Threads, pc[t] = "idle", Call(t)
        PROVE  SecondRound' /\ \A u \in Threads : pc[u] # "idle" => Closer(u)
    BY <1>2, <2>2 DEF Call, Places
  <2> QED
    BY <1>3, <2>1, <2>2 DEF Begin
<1>4. CASE Expire \/ Revoke \/ UNCHANGED vars
  BY <1>4 DEF Expire, Revoke, vars, SecondRound, Closer
<1>5. CASE Restart
  <2>1. \A u \in Threads : pc'[u] = "idle" /\ Left(u)' = 0
    BY <1>5 DEF Restart, Left
  <2>2. \A u \in Threads : pc[u] # "idle" => Left(u) # 0 /\ Left(u) \in 0 .. 9
    BY LeftIs
  <2> QED
    BY <2>1, <2>2 DEF SecondRound, Closer
<1> QED
  BY <1>1, <1>3, <1>4, <1>5 DEF Next

(* The safety half of CallReturns, for any number of threads: no call,     *)
(* login or logout takes more than nine steps of its own (one retry after  *)
(* one refresh), no step of another thread sets it back, and a thread that *)
(* waits for refreshMutex waits for one that holds no wish for it and is   *)
(* at most seven steps from giving it back (restclient_call,               *)
(* restclient_refresh_if_stale).                                           *)
THEOREM CallsAreBounded ==
    Spec => /\ []HolderGoesOn
            /\ [][\A t \in Threads : pc[t] # "idle" => Closer(t)]_vars
<1>1. Init => SecondRound
  BY DEF Init, SecondRound
<1>2. TypeOK /\ FirstAttempt /\ SecondRound /\ [Next]_vars
        => SecondRound' /\ \A t \in Threads : pc[t] # "idle" => Closer(t)
  BY AnyStep
<1>3. TypeOK /\ LockInv => HolderGoesOn
  BY LeftIs DEF HolderGoesOn, LockInv, Free, TypeOK
<1>4. TypeOK /\ FirstAttempt /\ SecondRound /\ [Next]_vars
        => [\A t \in Threads : pc[t] # "idle" => Closer(t)]_vars
  BY <1>2
<1> QED
  BY <1>1, <1>2, <1>3, <1>4, SessionInvariant, PTL DEF Spec
=============================================================================
