----------------------------- MODULE FamilyPage -----------------------------
(***************************************************************************)
(* FamilyPage of the Qt dashboard, beside the agents of ParentLinks: the   *)
(* same tables, reached through cloud::Client on background threads        *)
(* (runAsync).  A request carries the token and the arguments of the       *)
(* moment of the click; the server serves the requests in any order, and   *)
(* their callbacks run on the GUI thread in any order.                     *)
(***************************************************************************)
EXTENDS ParentLinks

CONSTANTS
    DashParents,   \* the accounts that log in to this dashboard
    Refused,       \* the answer of a request that threw
    Levels,        \* the permission levels the page sets
    MaxJobs        \* bound: requests of the page in flight

ASSUME DashAssumption == DashParents \subseteq Parents /\ Levels \subseteq Level /\ MaxJobs \in Nat

VARIABLES
    dsess,   \* the account of dashboard_session.dat, or None
    fpage,   \* what the widgets of the page hold
    fjobs    \* the requests in flight

fpVars == <<plVars, dsess, fpage, fjobs>>

Rank == [children |-> 1, limits |-> 2, invite |-> 3, approve |-> 4, revoke |-> 5,
         perm |-> 6, set |-> 7, delete |-> 8]

fpTypeOK ==
    /\ plTypeOK
    /\ dsess \in DashParents \cup {None}
    /\ \A i \in DOMAIN fpage.rows : fpage.rows[i] \in Children \X Status
    /\ fpage.sel \in Seq(Children) /\ fpage.cur \in 0..Len(fpage.sel)
    /\ fpage.lims \subseteq Shown /\ fpage.tok \in DashParents \cup {None}
    /\ \A i \in DOMAIN fjobs : fjobs[i].op \in DOMAIN Rank /\ fjobs[i].as \in DashParents \cup {None}
    /\ Len(fjobs) <= MaxJobs

\* The constructor: empty tables, nothing requested.
FamilyPageCtor == [rows |-> <<>>, sel |-> <<>>, cur |-> 0, lims |-> {}, tok |-> None]

fpInit == plInit /\ dsess = None /\ fpage = FamilyPageCtor /\ fjobs = <<>>

-----------------------------------------------------------------------------
(* Requests.  After a logout loadDashSession() is empty, and handlers and  *)
(* callbacks dereference it: the token is then garbage, which the server   *)
(* refuses, or the dashboard crashes.                                      *)

runAsync(op, arg) == [op |-> op, as |-> dsess, arg |-> arg, ans |-> None]

\* The table "My Parents" (loadParents) and the child's times of today are
\* filled by requests of their own, which change nothing else: left out.
loadChildren == <<runAsync("children", None)>>

loadChildSummaryAndLimits(c) == <<runAsync("limits", c)>>

\* Requests are served and answered in any order: they are kept by kind, and
\* more, at most one request, comes after those of its kind.
InFlight(jobs, more) ==
    LET n == Cardinality({k \in DOMAIN jobs : Rank[jobs[k].op] <= Rank[more[1].op]})
    IN IF more = <<>> THEN jobs
       ELSE SubSeq(jobs, 1, n) \o more \o SubSeq(jobs, n + 1, Len(jobs))

Start(jobs) == /\ Len(fjobs) + Len(jobs) <= MaxJobs
               /\ fjobs' = InFlight(fjobs, jobs)

-----------------------------------------------------------------------------
(* cloud::Client: what a request does to the tables and what it answers.   *)
(* Refused: Client::request threw, on a network error, 401, a policy.    *)

listLinksAsParent(u)     == [i \in DOMAIN invited[u] |->
                               <<invited[u][i], links[<<u, invited[u][i]>>].status>>]
listLimitsForChild(u, c) == VisibleLimits(limits, u, c)

approveLink(u, c) == PatchLink(u, u, c, [links[<<u, c>>] EXCEPT !.status = "approved"])
revokeLink(u, c)  == PatchLink(u, u, c, [links[<<u, c>>] EXCEPT !.status = "revoked"])
setPermission(u, c, level) == PatchLink(u, u, c, [links[<<u, c>>] EXCEPT !.level = level])

inviteChild(u, c) == MayInvite(u, c) /\ InsertLink(u, c)
deleteLimit(u, id) == DeleteLimitRow(u, id)

setLimit(u, c, a, l) ==
    /\ MaySetLimit(u, c, a)
    /\ limits[<<c, a>>] = None => ids < MaxIds
    /\ UpsertLimit(u, c, a, l)

Answer(i, ans) == fjobs' = [fjobs EXCEPT ![i].ans = ans]

\* A write: its answer may be lost on the way back.
Written(i) == \E ans \in {"ok", Refused} : Answer(i, ans)

\* Request i reaches the server.  The token of a job without a session is
\* garbage; a patch the policies refuse is an error of the request.
Serve(i) ==
    LET j == fjobs[i]
        u == j.as
    IN /\ j.ans = None /\ u # None
       /\ \/ j.op = "children" /\ UNCHANGED server /\ Answer(i, listLinksAsParent(u))
          \/ j.op = "limits"   /\ UNCHANGED server /\ Answer(i, listLimitsForChild(u, j.arg))
          \/ j.op = "invite"   /\ inviteChild(u, j.arg) /\ Written(i)
          \/ j.op = "approve"  /\ approveLink(u, j.arg) /\ Written(i)
          \/ j.op = "revoke"   /\ revokeLink(u, j.arg) /\ Written(i)
          \/ j.op = "perm"     /\ setPermission(u, j.arg[1], j.arg[2]) /\ Written(i)
          \/ j.op = "set"      /\ setLimit(u, j.arg[1], j.arg[2], j.arg[3]) /\ Written(i)
          \/ j.op = "delete"   /\ deleteLimit(u, j.arg.id) /\ Written(i)
       /\ UNCHANGED <<page, cpage, dsess, fpage>>

\* Client::request throws, nothing was done.
Refuse(i) ==
    /\ fjobs[i].ans = None
    /\ Answer(i, Refused)
    /\ UNCHANGED <<plVars, dsess, fpage>>

-----------------------------------------------------------------------------
(* Callbacks.                                                              *)

Rest(i, more) == /\ Len(fjobs) - 1 + Len(more) <= MaxJobs
                 /\ fjobs' = InFlight(RemoveAt(fjobs, i), more)

\* loadChildren's answer: the table, and a selector of the approved children.
\* Adding the first item to the cleared selector selects it, which loads its
\* limits; without one the table keeps what it shows.
ChildrenLoaded(i) ==
    LET rows == fjobs[i].ans
        ok   == SelectSeq(rows, LAMBDA r : r[2] = "approved")
        sel  == [k \in DOMAIN ok |-> ok[k][1]]
    IN /\ fpage' = [fpage EXCEPT !.rows = rows, !.tok = dsess, !.sel = sel,
                                 !.cur = IF sel = <<>> THEN 0 ELSE 1]
       /\ Rest(i, IF sel = <<>> THEN <<>> ELSE loadChildSummaryAndLimits(sel[1]))

LimitsLoaded(i) == fpage' = [fpage EXCEPT !.lims = fjobs[i].ans] /\ Rest(i, <<>>)

Deliver(i) ==
    LET j == fjobs[i]
    IN /\ j.ans # None
       /\ \/ /\ j.op \in {"approve", "revoke"} \/ (j.op = "invite" /\ j.ans # Refused)
             /\ UNCHANGED fpage /\ Rest(i, loadChildren)
          \/ /\ j.op = "delete"
             /\ UNCHANGED fpage /\ Rest(i, loadChildSummaryAndLimits(j.arg.child))
          \/ /\ j.op = "set" /\ j.ans # Refused
             /\ UNCHANGED fpage /\ Rest(i, loadChildSummaryAndLimits(j.arg[1]))
          \/ /\ \/ j.op = "perm"
                \/ j.op \in {"children", "limits", "invite", "set"} /\ j.ans = Refused
             /\ UNCHANGED fpage /\ Rest(i, <<>>)
          \/ j.op = "children" /\ j.ans # Refused /\ ChildrenLoaded(i)
          \/ j.op = "limits" /\ j.ans # Refused /\ LimitsLoaded(i)
       /\ UNCHANGED <<plVars, dsess>>

-----------------------------------------------------------------------------
(* The user.                                                               *)

\* refresh(): logged out it empties the children and the selector, not the
\* limits.
FamilyRefresh ==
    IF dsess = None
    THEN fpage' = [fpage EXCEPT !.rows = <<>>, !.sel = <<>>, !.cur = 0]
         /\ UNCHANGED fjobs
    ELSE UNCHANGED fpage /\ Start(loadChildren)

ShowFamily == FamilyRefresh /\ UNCHANGED <<plVars, dsess>>

\* The shell logs in or out and refreshes the page.
DashLogin(u) == dsess = None /\ dsess' = u /\ UNCHANGED <<plVars, fpage>>
                /\ Len(fjobs) < MaxJobs
                /\ fjobs' = InFlight(fjobs, <<[loadChildren[1] EXCEPT !.as = u]>>)

DashLogout == /\ dsess # None /\ dsess' = None
              /\ fpage' = [fpage EXCEPT !.rows = <<>>, !.sel = <<>>, !.cur = 0]
              /\ UNCHANGED <<plVars, fjobs>>

Click(jobs) == Start(jobs) /\ UNCHANGED <<plVars, dsess, fpage>>

InviteClicked(c) == Click(<<runAsync("invite", c)>>)

\* A row offers "Approve" while it was pending when read, "Revoke" otherwise.
RowClicked(k) ==
    LET r == fpage.rows[k]
    IN Click(<<runAsync(IF r[2] = "pending" THEN "approve" ELSE "revoke", r[1])>>)

\* The token is the one of the moment the rows were loaded.
PermissionChanged(k, level) ==
    Click(<<[runAsync("perm", <<fpage.rows[k][1], level>>) EXCEPT !.as = fpage.tok]>>)

onChildSelected(k) ==
    /\ k # fpage.cur
    /\ Start(loadChildSummaryAndLimits(fpage.sel[k]))
    /\ fpage' = [fpage EXCEPT !.cur = k]
    /\ UNCHANGED <<plVars, dsess>>

\* The child of the limit is the one selected at the click; the amount and
\* the block are independent here.
SetLimitClicked(a, l) ==
    /\ fpage.cur # 0
    /\ Click(<<runAsync("set", <<fpage.sel[fpage.cur], a, l>>)>>)

DeleteClicked(r) == Click(<<runAsync("delete", r)>>)

\* "loadDashSession()->accessToken" without a session; the program is started
\* again.
DashCrash == dsess = None /\ fpage' = FamilyPageCtor /\ fjobs' = <<>> /\ UNCHANGED <<plVars, dsess>>

fpPage ==
    \/ \E i \in DOMAIN fjobs : Serve(i) \/ Refuse(i) \/ Deliver(i)
    \/ ShowFamily
    \/ DashLogout \/ DashCrash
    \/ \E u \in DashParents : DashLogin(u)
    \/ \E c \in Children : InviteClicked(c)
    \/ \E k \in DOMAIN fpage.rows : RowClicked(k) \/ \E v \in Levels : PermissionChanged(k, v)
    \/ \E k \in DOMAIN fpage.sel : onChildSelected(k)
    \/ \E a \in Apps, l \in Limit : SetLimitClicked(a, l)
    \/ \E r \in fpage.lims : DeleteClicked(r)

fpNext == (plNext /\ UNCHANGED <<dsess, fpage, fjobs>>) \/ fpPage

-----------------------------------------------------------------------------
(* Properties.                                                             *)

\* The rows a delete may start from, or has started from.
Deletable == (UNION {page[p].limits : p \in AgentParents}) \cup fpage.lims
             \cup {fjobs[i].arg : i \in {k \in DOMAIN fjobs : fjobs[k].op = "delete"}}

\* A delete, on a page or in flight, holds the id of the limit its row shows,
\* however old the row: it never removes another child's or application's.
DeleteHitsShownRow ==
    \A r \in Deletable, ca \in Children \X Apps :
       limits[ca] # None /\ limits[ca].id = r.id => ca = <<r.child, r.app>>
=============================================================================
