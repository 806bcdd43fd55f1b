----------------------------- MODULE ParentLinks -----------------------------
(***************************************************************************)
(* Parents, children and the limits parents set: the tables parent_links   *)
(* and app_limits with their row level security (migrations 004 and 006),  *)
(* the client calls of parentlink.cpp and applimits.cpp, and the two pages *)
(* of the agent that make them, ParentPage and ParentLinkPage.             *)
(*                                                                         *)
(* The pages call the server synchronously on the GUI thread, so a handler *)
(* is one step here; a page keeps the rows it read until its next refresh, *)
(* and the other accounts change the tables in between.                    *)
(***************************************************************************)
EXTENDS Integers, Sequences, FiniteSets, SequencesExt

CONSTANTS
    Parents, Children,   \* accounts
    AgentParents,        \* the parents who work with the agent's ParentPage
    Apps,                \* process names
    Amounts,             \* daily_limit_sec as ParentPage sends it, -1: null
    None,                \* no row, no child
    MaxLinks,            \* MAX_LINKS, the rows a client reads
    MaxIds               \* bound: identities app_limits hands out

ASSUME FamilyAssumption ==
    /\ Parents \cap Children = {} /\ AgentParents \subseteq Parents
    /\ None \notin Parents \cup Children
    /\ MaxLinks \in Nat /\ MaxIds \in Nat /\ Amounts \subseteq Int

VARIABLES
    links,     \* parent_links: [Parents \X Children -> row], "none": no row
    invited,   \* order of creation of the links of every account
    limits,    \* app_limits, unique (child_user_id, process_name)
    ids,       \* identities handed out by app_limits
    consents,  \* history: the links the child has approved
    page,      \* ParentPage of the agents of AgentParents
    cpage      \* ParentLinkPage of the children: the parents it lists

server == <<links, invited, limits, ids, consents>>
plVars == <<server, page, cpage>>

Status == {"none", "pending", "approved", "revoked"}
Level  == {"full", "view_only"}

\* What a limit says: an amount of seconds or none, and whether it blocks.
Limit == [daily : Amounts, blocked : BOOLEAN]

LimitRow == [id : 1..MaxIds, by : Parents, daily : Amounts, blocked : BOOLEAN]
Shown    == [id : 1..MaxIds, child : Children, app : Apps]

ParentLinkPage == Seq(Parents)

plTypeOK ==
    /\ links \in [Parents \X Children -> [status : Status, level : Level]]
    /\ \A u \in Parents : invited[u] \in Seq(Children)
    /\ \A u \in Children : invited[u] \in Seq(Parents)
    /\ limits \in [Children \X Apps -> LimitRow \cup {None}]
    /\ ids \in 0..MaxIds
    /\ consents \subseteq Parents \X Children
    /\ \A p \in AgentParents :
         /\ page[p].list \in Seq(Children)
         /\ page[p].sel \in 0..Len(page[p].list)
         /\ page[p].shown \in Children \cup {None}
         /\ page[p].limits \subseteq Shown
    /\ \A c \in Children : cpage[c] \in ParentLinkPage

\* Empty tables; the constructors of both pages end in a refresh.
ParentPageCtor == [list |-> <<>>, sel |-> 0, shown |-> None, limits |-> {}]
ParentLinkPageCtor == <<>>

plInit ==
    /\ links = [pc \in Parents \X Children |-> [status |-> "none", level |-> "full"]]
    /\ invited = [u \in Parents \cup Children |-> <<>>]
    /\ limits = [ca \in Children \X Apps |-> None]
    /\ ids = 0
    /\ consents = {}
    /\ page = [p \in AgentParents |-> ParentPageCtor]
    /\ cpage = [c \in Children |-> ParentLinkPageCtor]

-----------------------------------------------------------------------------
(* The tables and their policies.                                          *)

Approved(p, c) == links[<<p, c>>].status = "approved"

\* Mutant: the update policy of the parent forgets its WITH CHECK.
MayUpdateLinkUnchecked(u, p, c, row) == u \in {p, c}

\* Policies "child can approve or revoke" and "parent can revoke own invite":
\* the child may leave any row, the parent only a revoked one.
MayUpdateLink(u, p, c, row) == u = c \/ (u = p /\ row.status = "revoked")

\* PATCH parent_links?id=eq... by account u.
PatchLink(u, p, c, row) ==
    /\ links' = IF MayUpdateLink(u, p, c, row) THEN [links EXCEPT ![<<p, c>>] = row]
                ELSE links
    /\ consents' = IF u = c /\ row.status = "approved" THEN consents \cup {<<p, c>>}
                   ELSE consents
    /\ UNCHANGED <<invited, limits, ids>>

\* Policy "parent can create pending invite" under unique (parent, child).
MayInvite(p, c) == links[<<p, c>>].status = "none"

InsertLink(p, c) ==
    /\ links' = [links EXCEPT ![<<p, c>>].status = "pending"]
    /\ invited' = [invited EXCEPT ![p] = <<c>> \o @, ![c] = <<p>> \o @]
    /\ UNCHANGED <<limits, ids, consents>>

\* Mutant: the policy has no set_by = auth.uid() in its WITH CHECK.
MaySetLimitAnyAuthor(u, c, a) == Approved(u, c)

\* Policy "approved parent can set limits": the link is approved, and the row
\* that results has set_by = auth.uid().  The upsert sends no set_by, so an
\* update keeps the one of the parent who inserted the row.
MaySetLimit(u, c, a) ==
    /\ Approved(u, c)
    /\ limits[<<c, a>>] # None => limits[<<c, a>>].by = u

\* Mutant: the identity of a deleted row is handed out again.
FreshIdReused == IF \E n \in 1..ids : \A ca \in DOMAIN limits :
                         limits[ca] # None => limits[ca].id # n
                 THEN 1 ELSE ids + 1

\* "bigint generated by default as identity".
FreshId == ids + 1

\* POST app_limits?on_conflict=child_user_id,process_name, merge-duplicates.
UpsertLimit(u, c, a, l) ==
    LET old == limits[<<c, a>>]
        id  == IF old = None THEN FreshId ELSE old.id
    IN /\ limits' = [limits EXCEPT ![<<c, a>>] =
                       [id |-> id, by |-> IF old = None THEN u ELSE old.by,
                        daily |-> l.daily, blocked |-> l.blocked]]
       /\ ids' = IF old = None THEN ids + 1 ELSE ids
       /\ UNCHANGED <<links, invited, consents>>

\* DELETE app_limits?id=eq...: rows the policy hides are not deleted, and the
\* answer is a success either way.
DeleteLimitRow(u, id) ==
    /\ limits' = [ca \in DOMAIN limits |->
                    IF limits[ca] # None /\ limits[ca].id = id /\ Approved(u, ca[1])
                    THEN None ELSE limits[ca]]
    /\ UNCHANGED <<links, invited, ids, consents>>

\* SELECT app_limits of child c as account u, from the rows tbl.
VisibleLimits(tbl, u, c) ==
    {r \in Shown : /\ r.child = c /\ (u = c \/ Approved(u, c))
                  /\ tbl[<<c, r.app>>] # None /\ tbl[<<c, r.app>>].id = r.id}

-----------------------------------------------------------------------------
(* The client calls: what a list shows when the server cannot be reached   *)
(* is what it shows when there is nothing.                                 *)

Listed(all, reached) == IF reached THEN SubSeq(all, 1, IF Len(all) < MaxLinks THEN Len(all) ELSE MaxLinks)
                        ELSE <<>>

parentlink_list_as_parent(p, reached) == Listed(invited[p], reached)
parentlink_list_as_child(c, reached)  == Listed(invited[c], reached)

applimits_list_for_child(tbl, u, c, reached) == IF reached THEN VisibleLimits(tbl, u, c) ELSE {}

-----------------------------------------------------------------------------
(* ParentPage.                                                             *)

\* Mutant: the limits of the child shown before stay on the page.
refreshChildrenKeeps(p, list) ==
    [page[p] EXCEPT !.list = list, !.sel = IF @ <= Len(list) THEN @ ELSE 0]

\* The rows are replaced under the selection, which keeps its row number and
\* is dropped only when its row goes; the limits table is emptied.
refreshChildren(p, list) ==
    [list |-> list, sel |-> IF page[p].sel <= Len(list) THEN page[p].sel ELSE 0,
     shown |-> None, limits |-> {}]

selectedChildUserId(p) == IF page[p].sel = 0 THEN None ELSE page[p].list[page[p].sel]

\* refreshLimits for the child in row i, with the rows the server returned.
refreshLimits(p, i, rows) ==
    [page[p] EXCEPT !.sel = i, !.shown = IF i = 0 THEN None ELSE page[p].list[i],
                    !.limits = IF i = 0 THEN {} ELSE rows]

\* refresh(), when the page comes to the front.
ParentPageRefresh(p) ==
    /\ \E reached \in BOOLEAN :
         page' = [page EXCEPT ![p] = refreshChildren(p, parentlink_list_as_parent(p, reached))]
    /\ UNCHANGED <<server, cpage>>

\* onChildSelectionChanged: the user selects row i, or nothing.
onChildSelectionChanged(p, i) ==
    /\ i \in 0..Len(page[p].list) /\ i # page[p].sel
    /\ \E reached \in BOOLEAN :
         page' = [page EXCEPT ![p] = refreshLimits(p, i,
                    IF i = 0 THEN {} ELSE applimits_list_for_child(limits, p, page[p].list[i], reached))]
    /\ UNCHANGED <<server, cpage>>

\* onInvite: find_user_id_by_email, then the insert; 409 and errors change
\* nothing.  A successful invitation re-reads the children.
onInvite(p, c) ==
    /\ MayInvite(p, c)
    /\ InsertLink(p, c)
    /\ \E reached \in BOOLEAN :
         page' = [page EXCEPT ![p] = refreshChildren(p, Listed(invited'[p], reached))]
    /\ UNCHANGED cpage

\* onSaveLimit: blocked or "no limit" sends null for the amount.
onSaveLimit(p, a, l) ==
    LET c == selectedChildUserId(p)
    IN /\ c # None
       /\ l.blocked => l.daily = -1
       /\ MaySetLimit(p, c, a)
       /\ limits[<<c, a>>] = None => ids < MaxIds
       /\ UpsertLimit(p, c, a, l)
       /\ \E reached \in BOOLEAN :
            page' = [page EXCEPT ![p] = refreshLimits(p, page[p].sel,
                       applimits_list_for_child(limits', p, c, reached))]
       /\ UNCHANGED cpage

\* onDeleteLimit: the id of the selected row of the limits table, as read.
onDeleteLimit(p, r) ==
    /\ r \in page[p].limits
    /\ DeleteLimitRow(p, r.id)
    /\ \E reached \in BOOLEAN :
         page' = [page EXCEPT ![p] = refreshLimits(p, page[p].sel,
                    IF page[p].sel = 0 THEN {}
                    ELSE applimits_list_for_child(limits', p, selectedChildUserId(p), reached))]
    /\ UNCHANGED cpage

-----------------------------------------------------------------------------
(* ParentLinkPage.                                                         *)

ParentLinkPageRefresh(c) ==
    /\ \E reached \in BOOLEAN :
         cpage' = [cpage EXCEPT ![c] = parentlink_list_as_child(c, reached)]
    /\ UNCHANGED <<server, page>>

\* selectedLinkId: the link of a row the page lists, as it was read.
selectedLinkId(c) == ToSet(cpage[c])

\* updateStatus by the child, on the selected row; then refresh().
updateStatus(c, p, status) ==
    /\ p \in selectedLinkId(c)
    /\ PatchLink(c, p, c, [links[<<p, c>>] EXCEPT !.status = status])
    /\ \E reached \in BOOLEAN :
         cpage' = [cpage EXCEPT ![c] = parentlink_list_as_child(c, reached)]
    /\ UNCHANGED page

onApprove(c, p) == updateStatus(c, p, "approved")
onRevoke(c, p)  == updateStatus(c, p, "revoked")

plNext ==
    \/ \E p \in AgentParents :
         \/ ParentPageRefresh(p)
         \/ \E i \in 0..Cardinality(Children) : onChildSelectionChanged(p, i)
         \/ \E c \in Children : onInvite(p, c)
         \/ \E a \in Apps, l \in Limit : onSaveLimit(p, a, l)
         \/ \E r \in page[p].limits : onDeleteLimit(p, r)
    \/ \E c \in Children :
         \/ ParentLinkPageRefresh(c)
         \/ \E p \in Parents : onApprove(c, p) \/ onRevoke(c, p)

-----------------------------------------------------------------------------
(* Properties.                                                             *)

\* A link is approved only if its child approved it: whatever the parents'
\* clients send (the dashboard's FamilyPage offers "Approve" to the parent),
\* the policies leave the decision to the child.
Consent == \A pc \in Parents \X Children :
              links[pc].status = "approved" => pc \in consents

\* A limit is set, changed or deleted only while a link to its child is
\* approved, and what it says changes only while its author's is: of two
\* parents neither changes what the other one set, and the pages' stale lists
\* do not help a parent whose link was revoked.
OnlyApprovedParentsChangeLimits ==
    [][\A ca \in Children \X Apps :
          limits'[ca] # limits[ca] =>
             \E p \in Parents : Approved(p, ca[1]) /\ (limits'[ca] # None => limits'[ca].by = p)]_plVars

\* The limits on the page are those of the child a save would go to: the
\* selection keeps its row number when an invitation shifts the rows.
ShownIsTarget ==
    \A p \in AgentParents :
       page[p].shown # None => page[p].shown = selectedChildUserId(p)
=============================================================================
