---------------------------- MODULE FamilyProofs ----------------------------
(***************************************************************************)
(* Proofs about ParentLinks and FamilyPage: the agents' pages and the      *)
(* dashboard, for any accounts, applications and number of requests in     *)
(* flight.                                                                 *)
(***************************************************************************)
EXTENDS FamilyPage, FiniteSetTheorems, TLAPS

\* All the accounts with their pages and the dashboard, from empty tables.
FamilySpec == fpInit /\ [][fpNext]_fpVars

(***************************************************************************)
(* The inductive invariant.                                                *)
(***************************************************************************)

\* The tables have a row for every key, and no other.
TableShape ==
    /\ DOMAIN links = Parents \X Children
    /\ \A pc \in Parents \X Children :
          links[pc] = [status |-> links[pc].status, level |-> links[pc].level]
    /\ limits = [ca \in Children \X Apps |-> limits[ca]]
    /\ ids \in Nat

\* Identities are handed out once.
IdsUnique ==
    /\ \A ca \in Children \X Apps : limits[ca] # None => limits[ca].id \in 1 .. ids
    /\ \A ca, cb \in Children \X Apps :
          limits[ca] # None /\ limits[cb] # None /\ limits[ca].id = limits[cb].id => ca = cb

TablesInv == TableShape /\ Consent /\ IdsUnique

\* Row r was read from the limits: its identity has been handed out, and no
\* other limit has it.
TrueRow(r) ==
    /\ r.id \in 1 .. ids
    /\ \A ca \in Children \X Apps :
          limits[ca] # None /\ limits[ca].id = r.id => ca = <<r.child, r.app>>

PageShape ==
    /\ DOMAIN page = AgentParents
    /\ \A p \in AgentParents :
          page[p] = [list |-> page[p].list, sel |-> page[p].sel,
                     shown |-> page[p].shown, limits |-> page[p].limits]

\* The agents' pages show rows that were read.
PagesInv ==
    /\ PageShape /\ ShownIsTarget
    /\ \A p \in AgentParents : \A r \in page[p].limits : TrueRow(r)

Account == DashParents \cup {None}

\* So does the dashboard's, which acts for an account that logged in.
DashInv ==
    /\ fpage = [rows |-> fpage.rows, sel |-> fpage.sel, cur |-> fpage.cur,
                lims |-> fpage.lims, tok |-> fpage.tok]
    /\ dsess \in Account /\ fpage.tok \in Account
    /\ \A r \in fpage.lims : TrueRow(r)

\* A request acts for an account; a delete names a row that was read, and the
\* answer to a request for limits holds such rows.
GoodJob(j) ==
    /\ j = [op |-> j.op, as |-> j.as, arg |-> j.arg, ans |-> j.ans]
    /\ j.as \in Account
    /\ j.op = "delete" => TrueRow(j.arg)
    /\ j.op = "limits" /\ j.ans # None /\ j.ans # Refused => \A r \in j.ans : TrueRow(r)

Jobs(s) == {s[i] : i \in DOMAIN s}

JobsInv ==
    /\ fjobs \in Seq(Jobs(fjobs))
    /\ \A j \in Jobs(fjobs) : GoodJob(j)

FamilyInv == TablesInv /\ PagesInv /\ DashInv /\ JobsInv

(***************************************************************************)
(* The tables.                                                             *)
(***************************************************************************)

(* An update of a link: only the child's own makes an approved one.        *)
LEMMA PatchKeeps ==
    ASSUME TablesInv, NEW u, NEW p, NEW c, NEW row,
           row = [status |-> row.status, level |-> row.level] \/ <<p, c>> \notin Parents \X Children,
           PatchLink(u, p, c, row)
    PROVE  TablesInv' /\ limits' = limits /\ ids' = ids
<1>1. limits' = limits /\ ids' = ids
    BY DEF PatchLink
<1>2. links' = links \/ links' = [links EXCEPT ![<<p, c>>] = row]
    BY DEF PatchLink
<1>3. TableShape'
    BY <1>1, <1>2 DEF TablesInv, TableShape
<1>4. Consent'
  <2> SUFFICES ASSUME NEW pc \in Parents \X Children, links'[pc].status = "approved"
               PROVE  pc \in consents'
    BY DEF Consent
  <2>1. consents \subseteq consents'
    BY DEF PatchLink
  <2>2. CASE links'[pc] = links[pc]
    BY <2>1, <2>2 DEF TablesInv, Consent
  <2>3. CASE links'[pc] # links[pc]
    <3>1. pc = <<p, c>> /\ MayUpdateLink(u, p, c, row) /\ links'[pc] = row
      BY <2>3 DEF PatchLink, TablesInv, TableShape
    <3>2. row.status = "approved"
      BY <3>1
    <3>3. u = c
      BY <3>1, <3>2 DEF MayUpdateLink
    <3> QED
      BY <3>1, <3>2, <3>3 DEF PatchLink
  <2> QED
    BY <2>2, <2>3
<1>5. IdsUnique'
    BY <1>1 DEF TablesInv, IdsUnique
<1> QED
    BY <1>1, <1>3, <1>4, <1>5 DEF TablesInv

(* An invitation is pending.                                               *)
LEMMA InsertKeeps ==
    ASSUME TablesInv, NEW p, NEW c, InsertLink(p, c)
    PROVE  TablesInv' /\ limits' = limits /\ ids' = ids
<1>1. limits' = limits /\ ids' = ids /\ consents' = consents
    BY DEF InsertLink
<1>2. links' = [links EXCEPT ![<<p, c>>] = [links[<<p, c>>] EXCEPT !.status = "pending"]]
    BY DEF InsertLink
<1>3. ASSUME NEW pc \in Parents \X Children
      PROVE  /\ links'[pc] = [status |-> links'[pc].status, level |-> links'[pc].level]
             /\ links'[pc].status = "approved" => links'[pc] = links[pc]
  <2>1. CASE pc # <<p, c>>
    BY <2>1, <1>2 DEF TablesInv, TableShape
  <2>2. CASE pc = <<p, c>>
    <3> DEFINE old == links[pc]
    <3>1. old = [status |-> old.status, level |-> old.level]
      BY DEF TablesInv, TableShape
    <3>2. links'[pc] = [old EXCEPT !.status = "pending"]
      BY <2>2, <1>2 DEF TablesInv, TableShape
    <3> HIDE DEF old
    <3> QED
      BY <3>1, <3>2
  <2> QED
    BY <2>1, <2>2
<1>4. TableShape'
  <2>1. DOMAIN links' = Parents \X Children
    BY <1>2 DEF TablesInv, TableShape
  <2> QED
    BY <1>1, <1>3, <2>1 DEF TablesInv, TableShape
<1>5. Consent'
    BY <1>1, <1>3 DEF TablesInv, Consent
<1>6. IdsUnique'
    BY <1>1 DEF TablesInv, IdsUnique
<1> QED
    BY <1>1, <1>4, <1>5, <1>6 DEF TablesInv

(* A limit that is inserted has a new identity, one that is updated keeps  *)
(* its own.                                                                *)
LEMMA UpsertKeeps ==
    ASSUME TablesInv, NEW u, NEW c, NEW a, NEW l, UpsertLimit(u, c, a, l)
    PROVE  TablesInv' /\ \A r : TrueRow(r) => TrueRow(r)'
<1> DEFINE key == <<c, a>>
           old == limits[key]
<1>0. ids \in Nat /\ limits = [ca \in Children \X Apps |-> limits[ca]]
    BY DEF TablesInv, TableShape
<1>1. ids' \in Nat /\ ids' >= ids /\ (old = None => ids' = ids + 1)
    BY <1>0 DEF UpsertLimit
<1>2. /\ limits' = [ca \in Children \X Apps |-> limits'[ca]]
      /\ \A ca \in Children \X Apps : ca # key => limits'[ca] = limits[ca]
    BY <1>0 DEF UpsertLimit
<1>3. key \in Children \X Apps =>
         limits'[key].id = IF old = None THEN ids + 1 ELSE old.id
    BY <1>0 DEF UpsertLimit, FreshId
<1>4. TableShape'
  <2>1. links' = links
    BY DEF UpsertLimit
  <2> QED
    BY <2>1, <1>1, <1>2 DEF TablesInv, TableShape
<1>5. Consent'
    BY DEF UpsertLimit, TablesInv, Consent
<1>6. \A ca \in Children \X Apps : limits[ca] # None => limits[ca].id \in 1 .. ids
    BY DEF TablesInv, IdsUnique
<1>7. \A ca \in Children \X Apps : limits'[ca] # None => limits'[ca].id \in 1 .. ids'
    BY <1>0, <1>1, <1>2, <1>3, <1>6
<1>8. ASSUME NEW ca \in Children \X Apps, NEW cb \in Children \X Apps,
             limits'[ca] # None, limits'[cb] # None, limits'[ca].id = limits'[cb].id
      PROVE  ca = cb
  <2>1. CASE ca # key /\ cb # key
    BY <2>1, <1>2, <1>8 DEF TablesInv, IdsUnique
  <2>2. CASE ca = key /\ cb # key
    BY <2>2, <1>0, <1>2, <1>3, <1>6, <1>8 DEF TablesInv, IdsUnique
  <2>3. CASE ca # key /\ cb = key
    BY <2>3, <1>0, <1>2, <1>3, <1>6, <1>8 DEF TablesInv, IdsUnique
  <2> QED
    BY <2>1, <2>2, <2>3
<1>9. ASSUME NEW r, TrueRow(r) PROVE TrueRow(r)'
  <2>1. r.id \in 1 .. ids'
    BY <1>0, <1>1, <1>9 DEF TrueRow
  <2>2. ASSUME NEW ca \in Children \X Apps, limits'[ca] # None, limits'[ca].id = r.id
        PROVE  ca = <<r.child, r.app>>
    <3>1. CASE ca # key
      BY <3>1, <2>2, <1>2, <1>9 DEF TrueRow
    <3>2. CASE ca = key
      BY <3>2, <2>2, <1>0, <1>3, <1>9 DEF TrueRow
    <3> QED
      BY <3>1, <3>2
  <2> QED
    BY <2>1, <2>2 DEF TrueRow
<1> QED
    BY <1>4, <1>5, <1>7, <1>8, <1>9 DEF TablesInv, IdsUnique

(* A delete takes rows away.                                               *)
LEMMA DeleteKeeps ==
    ASSUME TablesInv, NEW u, NEW id, DeleteLimitRow(u, id)
    PROVE  TablesInv' /\ \A r : TrueRow(r) => TrueRow(r)'
<1>1. ids' = ids /\ links' = links /\ consents' = consents
    BY DEF DeleteLimitRow
<1>2. /\ limits' = [ca \in Children \X Apps |-> limits'[ca]]
      /\ \A ca \in Children \X Apps : limits'[ca] = None \/ limits'[ca] = limits[ca]
    BY DEF DeleteLimitRow, TablesInv, TableShape
<1>3. TableShape'
    BY <1>1, <1>2 DEF TablesInv, TableShape
<1>4. Consent'
    BY <1>1 DEF TablesInv, Consent
<1>5. IdsUnique'
    BY <1>1, <1>2 DEF TablesInv, IdsUnique
<1>6. \A r : TrueRow(r) => TrueRow(r)'
    BY <1>1, <1>2 DEF TrueRow
<1> QED
    BY <1>3, <1>4, <1>5, <1>6 DEF TablesInv

(* A step that leaves the limits alone keeps the rows that were read true. *)
LEMMA SameLimits ==
    ASSUME limits' = limits, ids' = ids
    PROVE  \A r : TrueRow(r) => TrueRow(r)'
BY DEF TrueRow

(* The rows a SELECT returns are those of the table.                       *)
LEMMA VisibleAreTrue ==
    ASSUME TablesInv, NEW u, NEW c
    PROVE  \A r \in VisibleLimits(limits, u, c) : TrueRow(r)
<1> SUFFICES ASSUME NEW r \in VisibleLimits(limits, u, c) PROVE TrueRow(r)
    OBVIOUS
<1>1. /\ r.child = c /\ limits[<<c, r.app>>] # None /\ limits[<<c, r.app>>].id = r.id
      /\ <<c, r.app>> \in Children \X Apps
    BY DEF VisibleLimits, Shown
<1> QED
    BY <1>1 DEF TablesInv, IdsUnique, TrueRow

(* So are those a page reads after its own change.                         *)
LEMMA VisibleAfter ==
    ASSUME TablesInv', NEW u, NEW c
    PROVE  \A r \in VisibleLimits(limits', u, c) : TrueRow(r)'
<1> SUFFICES ASSUME NEW r \in VisibleLimits(limits', u, c) PROVE TrueRow(r)'
    OBVIOUS
<1>1. /\ r.child = c /\ limits'[<<c, r.app>>] # None /\ limits'[<<c, r.app>>].id = r.id
      /\ <<c, r.app>> \in Children \X Apps
    BY DEF VisibleLimits, Shown
<1> QED
    BY <1>1 DEF TablesInv, IdsUnique, TrueRow

(***************************************************************************)
(* The agents' pages.                                                      *)
(***************************************************************************)

(* refreshLimits shows the child of the row it selects.                    *)
LEMMA LimitsShown ==
    ASSUME PagesInv, \A r : TrueRow(r) => TrueRow(r)',
           NEW p \in AgentParents, NEW i, NEW rows, \A r \in rows : TrueRow(r)',
           page' = [page EXCEPT ![p] = refreshLimits(p, i, rows)]
    PROVE  PagesInv'
<1>1. DOMAIN page' = AgentParents
    BY DEF PagesInv, PageShape
<1>2. ASSUME NEW q \in AgentParents
      PROVE  /\ page'[q] = [list |-> page'[q].list, sel |-> page'[q].sel,
                            shown |-> page'[q].shown, limits |-> page'[q].limits]
             /\ page'[q].shown # None =>
                   page'[q].sel # 0 /\ page'[q].shown = page'[q].list[page'[q].sel]
             /\ \A r \in page'[q].limits : TrueRow(r)'
  <2>1. CASE q # p
    <3>1. page'[q] = page[q]
      BY <2>1 DEF PagesInv, PageShape
    <3>2. page[q].shown # None => page[q].sel # 0 /\ page[q].shown = page[q].list[page[q].sel]
      BY DEF PagesInv, ShownIsTarget, selectedChildUserId
    <3> QED
      BY <3>1, <3>2 DEF PagesInv, PageShape
  <2>2. CASE q = p
    <3> DEFINE old == page[p]
               shown == IF i = 0 THEN None ELSE old.list[i]
               lims == IF i = 0 THEN {} ELSE rows
    <3>1. old = [list |-> old.list, sel |-> old.sel, shown |-> old.shown, limits |-> old.limits]
      BY DEF PagesInv, PageShape
    <3>2. page'[p] = [old EXCEPT !.sel = i, !.shown = shown, !.limits = lims]
      BY DEF PagesInv, PageShape, refreshLimits
    <3> HIDE DEF old
    <3>3. page'[p] = [list |-> old.list, sel |-> i, shown |-> shown, limits |-> lims]
      <4> HIDE DEF shown, lims
      <4> QED
        BY <3>1, <3>2
    <3> QED
      BY <3>3, <2>2
  <2> QED
    BY <2>1, <2>2
<1>3. ShownIsTarget'
  <2>1. \A q \in AgentParents :
           page'[q].shown # None =>
              page'[q].sel # 0 /\ page'[q].shown = page'[q].list[page'[q].sel]
    BY <1>2
  <2> QED
    BY <2>1 DEF ShownIsTarget, selectedChildUserId
<1> QED
    BY <1>1, <1>2, <1>3 DEF PagesInv, PageShape

(* refreshChildren shows no limits.                                        *)
LEMMA ChildrenShown ==
    ASSUME PagesInv, \A r : TrueRow(r) => TrueRow(r)', NEW p \in AgentParents, NEW list,
           page' = [page EXCEPT ![p] = refreshChildren(p, list)]
    PROVE  PagesInv'
<1>1. DOMAIN page' = AgentParents
    BY DEF PagesInv, PageShape
<1>2. ASSUME NEW q \in AgentParents
      PROVE  /\ page'[q] = [list |-> page'[q].list, sel |-> page'[q].sel,
                            shown |-> page'[q].shown, limits |-> page'[q].limits]
             /\ page'[q].shown # None =>
                   page'[q].sel # 0 /\ page'[q].shown = page'[q].list[page'[q].sel]
             /\ \A r \in page'[q].limits : TrueRow(r)'
  <2>1. CASE q # p
    <3>1. page'[q] = page[q]
      BY <2>1 DEF PagesInv, PageShape
    <3>2. page[q].shown # None => page[q].sel # 0 /\ page[q].shown = page[q].list[page[q].sel]
      BY DEF PagesInv, ShownIsTarget, selectedChildUserId
    <3> QED
      BY <3>1, <3>2 DEF PagesInv, PageShape
  <2>2. CASE q = p
    <3> DEFINE sel == IF page[p].sel <= Len(list) THEN page[p].sel ELSE 0
    <3>1. page'[p] = [list |-> list, sel |-> sel, shown |-> None, limits |-> {}]
      BY DEF PagesInv, PageShape, refreshChildren
    <3> HIDE DEF sel
    <3> QED
      BY <3>1, <2>2
  <2> QED
    BY <2>1, <2>2
<1>3. ShownIsTarget'
  <2>1. \A q \in AgentParents :
           page'[q].shown # None =>
              page'[q].sel # 0 /\ page'[q].shown = page'[q].list[page'[q].sel]
    BY <1>2
  <2> QED
    BY <2>1 DEF ShownIsTarget, selectedChildUserId
<1> QED
    BY <1>1, <1>2, <1>3 DEF PagesInv, PageShape

(* A page that is left alone keeps showing rows that were read.            *)
LEMMA PagesStay ==
    ASSUME PagesInv, \A r : TrueRow(r) => TrueRow(r)', page' = page
    PROVE  PagesInv'
BY DEF PagesInv, PageShape, ShownIsTarget, selectedChildUserId

(* The agents' steps: their own pages and the tables.                      *)
LEMMA AgentStep ==
    ASSUME TablesInv, PagesInv, plNext
    PROVE  TablesInv' /\ PagesInv' /\ \A r : TrueRow(r) => TrueRow(r)'
<1>1. ASSUME UNCHANGED server
      PROVE  TablesInv' /\ \A r : TrueRow(r) => TrueRow(r)'
    BY <1>1, SameLimits DEF server, TablesInv, TableShape, Consent, IdsUnique
<1>2. ASSUME NEW p \in AgentParents, ParentPageRefresh(p)
      PROVE  TablesInv' /\ PagesInv' /\ \A r : TrueRow(r) => TrueRow(r)'
    BY <1>1, <1>2, ChildrenShown DEF ParentPageRefresh
<1>3. ASSUME NEW p \in AgentParents, NEW i, onChildSelectionChanged(p, i)
      PROVE  TablesInv' /\ PagesInv' /\ \A r : TrueRow(r) => TrueRow(r)'
  <2>1. TablesInv' /\ \A r : TrueRow(r) => TrueRow(r)'
    BY <1>1, <1>3 DEF onChildSelectionChanged
  <2>2. PICK reached \in BOOLEAN :
           page' = [page EXCEPT ![p] = refreshLimits(p, i,
                      IF i = 0 THEN {}
                      ELSE applimits_list_for_child(limits, p, page[p].list[i], reached))]
    BY <1>3 DEF onChildSelectionChanged
  <2> DEFINE rows == IF i = 0 THEN {}
                     ELSE applimits_list_for_child(limits, p, page[p].list[i], reached)
  <2>3. \A r \in rows : TrueRow(r)'
    BY <2>1, VisibleAreTrue DEF applimits_list_for_child
  <2> HIDE DEF rows
  <2>4. page' = [page EXCEPT ![p] = refreshLimits(p, i, rows)]
    BY <2>2 DEF rows
  <2> QED
    BY <2>1, <2>3, <2>4, LimitsShown
<1>4. ASSUME NEW p \in AgentParents, NEW c \in Children, onInvite(p, c)
      PROVE  TablesInv' /\ PagesInv' /\ \A r : TrueRow(r) => TrueRow(r)'
  <2>1. TablesInv' /\ \A r : TrueRow(r) => TrueRow(r)'
    BY <1>4, InsertKeeps, SameLimits DEF onInvite
  <2> QED
    BY <2>1, <1>4, ChildrenShown DEF onInvite
<1>5. ASSUME NEW p \in AgentParents, NEW a \in Apps, NEW l \in Limit, onSaveLimit(p, a, l)
      PROVE  TablesInv' /\ PagesInv' /\ \A r : TrueRow(r) => TrueRow(r)'
  <2> DEFINE c == selectedChildUserId(p)
  <2>1. TablesInv' /\ \A r : TrueRow(r) => TrueRow(r)'
    BY <1>5, UpsertKeeps DEF onSaveLimit
  <2>2. PICK reached \in BOOLEAN :
           page' = [page EXCEPT ![p] = refreshLimits(p, page[p].sel,
                      applimits_list_for_child(limits', p, c, reached))]
    BY <1>5 DEF onSaveLimit
  <2> DEFINE rows == applimits_list_for_child(limits', p, c, reached)
  <2>3. \A r \in rows : TrueRow(r)'
    BY <2>1, VisibleAfter DEF applimits_list_for_child
  <2> HIDE DEF rows
  <2>4. page' = [page EXCEPT ![p] = refreshLimits(p, page[p].sel, rows)]
    BY <2>2 DEF rows
  <2> QED
    BY <2>1, <2>3, <2>4, LimitsShown
<1>6. ASSUME NEW p \in AgentParents, NEW s \in page[p].limits, onDeleteLimit(p, s)
      PROVE  TablesInv' /\ PagesInv' /\ \A r : TrueRow(r) => TrueRow(r)'
  <2>1. TablesInv' /\ \A r : TrueRow(r) => TrueRow(r)'
    BY <1>6, DeleteKeeps DEF onDeleteLimit
  <2>2. PICK reached \in BOOLEAN :
           page' = [page EXCEPT ![p] = refreshLimits(p, page[p].sel,
                      IF page[p].sel = 0 THEN {}
                      ELSE applimits_list_for_child(limits', p, selectedChildUserId(p), reached))]
    BY <1>6 DEF onDeleteLimit
  <2> DEFINE rows == IF page[p].sel = 0 THEN {}
                     ELSE applimits_list_for_child(limits', p, selectedChildUserId(p), reached)
  <2>3. \A r \in rows : TrueRow(r)'
    BY <2>1, VisibleAfter DEF applimits_list_for_child
  <2> HIDE DEF rows
  <2>4. page' = [page EXCEPT ![p] = refreshLimits(p, page[p].sel, rows)]
    BY <2>2 DEF rows
  <2> QED
    BY <2>1, <2>3, <2>4, LimitsShown
<1>7. ASSUME NEW c \in Children, ParentLinkPageRefresh(c)
      PROVE  TablesInv' /\ PagesInv' /\ \A r : TrueRow(r) => TrueRow(r)'
    BY <1>1, <1>7, PagesStay DEF ParentLinkPageRefresh
<1>8. ASSUME NEW c \in Children, NEW p \in Parents, NEW status, updateStatus(c, p, status)
      PROVE  TablesInv' /\ PagesInv' /\ \A r : TrueRow(r) => TrueRow(r)'
  <2> DEFINE old == links[<<p, c>>]
             row == [old EXCEPT !.status = status]
  <2>1. PatchLink(c, p, c, row) /\ page' = page
    BY <1>8 DEF updateStatus
  <2>2. old = [status |-> old.status, level |-> old.level]
    BY DEF TablesInv, TableShape
  <2>3. row = [status |-> row.status, level |-> row.level]
    <3> HIDE DEF old
    <3> QED
      BY <2>2
  <2> HIDE DEF row
  <2>4. TablesInv' /\ limits' = limits /\ ids' = ids
    BY <2>1, <2>3, PatchKeeps
  <2> QED
    BY <2>1, <2>4, SameLimits, PagesStay
<1> QED
    BY <1>2, <1>3, <1>4, <1>5, <1>6, <1>7, <1>8 DEF plNext, onApprove, onRevoke

(***************************************************************************)
(* The requests in flight.                                                 *)
(***************************************************************************)

(* A sequence over a set is one over its own elements, and over any larger *)
(* set.                                                                    *)
LEMMA OwnElements ==
    ASSUME NEW S, NEW s \in Seq(S)
    PROVE  Jobs(s) \subseteq S /\ s \in Seq(Jobs(s))
<1>1. DOMAIN s = 1 .. Len(s) /\ Len(s) \in Nat /\ \A i \in 1 .. Len(s) : s[i] \in S
    OBVIOUS
<1>2. s \in [1 .. Len(s) -> Jobs(s)]
    BY <1>1 DEF Jobs
<1>3. Jobs(s) \subseteq S
    BY <1>1 DEF Jobs
<1>4. s \in Seq(Jobs(s))
    BY <1>1, <1>2
<1> QED
    BY <1>3, <1>4

(* A sequence over a set is one over any larger set.                       *)
LEMMA Widen ==
    ASSUME NEW S, NEW T, S \subseteq T, NEW s \in Seq(S)
    PROVE  s \in Seq(T)
<1>1. DOMAIN s = 1 .. Len(s) /\ Len(s) \in Nat /\ \A i \in 1 .. Len(s) : s[i] \in T
    OBVIOUS
<1>2. s \in [1 .. Len(s) -> T]
    BY <1>1
<1> QED
    BY <1>1, <1>2

(* A part of a sequence of jobs is one.                                    *)
LEMMA PartOfJobs ==
    ASSUME NEW S, NEW s \in Seq(S), NEW m \in Int, NEW n \in Int, m >= 1, n <= Len(s)
    PROVE  SubSeq(s, m, n) \in Seq(S)
OBVIOUS

(* The places of a sequence.                                               *)
LEMMA Places ==
    ASSUME NEW n \in Nat
    PROVE  IsFiniteSet(1 .. n) /\ Cardinality(1 .. n) = n
<1>1. 1 \in Int /\ n \in Int
    OBVIOUS
<1>2. IsFiniteSet(1 .. n) /\ Cardinality(1 .. n) = IF 1 > n THEN 0 ELSE n - 1 + 1
    BY <1>1, FS_Interval
<1> QED
    BY <1>2

(* InFlight puts the new request somewhere between the others.             *)
LEMMA InFlightJobs ==
    ASSUME NEW S, NEW s \in Seq(S), NEW more \in Seq(S)
    PROVE  InFlight(s, more) \in Seq(S)
<1> DEFINE before == {k \in DOMAIN s : Rank[s[k].op] <= Rank[more[1].op]}
           n == Cardinality(before)
<1>1. Len(s) \in Nat /\ DOMAIN s = 1 .. Len(s)
    OBVIOUS
<1>2. 1 \in Int /\ Len(s) \in Int
    BY <1>1
<1>3. IsFiniteSet(1 .. Len(s)) /\ Cardinality(1 .. Len(s)) = Len(s)
    BY <1>1, Places
<1>4. n \in Nat /\ n <= Len(s)
  <2>1. before \subseteq 1 .. Len(s)
    BY <1>1
  <2> HIDE DEF before
  <2> QED
    BY <1>3, <2>1, FS_Subset, FS_CardinalityType
<1> HIDE DEF n
<1>5. SubSeq(s, 1, n) \in Seq(S) /\ SubSeq(s, n + 1, Len(s)) \in Seq(S)
  <2>1. n + 1 \in Int /\ n + 1 >= 1 /\ n \in Int /\ Len(s) <= Len(s) /\ 1 >= 1
    BY <1>1, <1>4
  <2> QED
    BY <1>2, <1>4, <2>1, PartOfJobs
<1>6. SubSeq(s, 1, n) \o more \o SubSeq(s, n + 1, Len(s)) \in Seq(S)
    BY <1>5
<1> QED
    BY <1>6 DEF InFlight, n

(* A request that is started: the others stay as they are.                 *)
LEMMA Started ==
    ASSUME JobsInv, NEW j, fjobs' = InFlight(fjobs, <<j>>)
    PROVE  fjobs' \in Seq(Jobs(fjobs')) /\ Jobs(fjobs') \subseteq Jobs(fjobs) \cup {j}
<1> DEFINE S == Jobs(fjobs) \cup {j}
<1>1. fjobs \in Seq(S)
    BY Widen DEF JobsInv
<1>2. <<j>> \in Seq(S)
    OBVIOUS
<1> HIDE DEF S
<1>3. fjobs' \in Seq(S)
    BY <1>1, <1>2, InFlightJobs
<1> QED
    BY <1>3, OwnElements DEF S

(* A request that has been answered is taken out, and its callback may     *)
(* start another.                                                          *)
LEMMA Followed ==
    ASSUME JobsInv, NEW i \in DOMAIN fjobs, NEW more, NEW j,
           more = <<>> \/ more = <<j>>, Rest(i, more)
    PROVE  fjobs' \in Seq(Jobs(fjobs')) /\ Jobs(fjobs') \subseteq Jobs(fjobs) \cup {j}
<1> DEFINE S == Jobs(fjobs) \cup {j}
<1>1. fjobs \in Seq(S)
    BY Widen DEF JobsInv
<1>2. more \in Seq(S)
  <2>1. <<>> \in Seq(S) /\ <<j>> \in Seq(S)
    OBVIOUS
  <2> QED
    BY <2>1
<1> HIDE DEF S
<1>3. Len(fjobs) \in Nat /\ i \in 1 .. Len(fjobs)
    BY <1>1
<1>4. SubSeq(fjobs, 1, i - 1) \in Seq(S) /\ SubSeq(fjobs, i + 1, Len(fjobs)) \in Seq(S)
  <2>1. /\ 1 \in Int /\ i - 1 \in Int /\ i + 1 \in Int /\ Len(fjobs) \in Int
        /\ 1 >= 1 /\ i + 1 >= 1 /\ i - 1 <= Len(fjobs) /\ Len(fjobs) <= Len(fjobs)
    BY <1>3
  <2> QED
    BY <1>1, <2>1, PartOfJobs
<1>5. RemoveAt(fjobs, i) \in Seq(S)
    BY <1>4 DEF RemoveAt
<1>6. fjobs' \in Seq(S)
    BY <1>2, <1>5, InFlightJobs DEF Rest
<1> QED
    BY <1>6, OwnElements DEF S

(* A request that is answered keeps the rest of its fields.                *)
LEMMA Answered ==
    ASSUME JobsInv, NEW i \in DOMAIN fjobs, NEW ans, Answer(i, ans)
    PROVE  /\ fjobs' \in Seq(Jobs(fjobs'))
           /\ Jobs(fjobs') \subseteq Jobs(fjobs) \cup {[op |-> fjobs[i].op, as |-> fjobs[i].as,
                                                        arg |-> fjobs[i].arg, ans |-> ans]}
<1> DEFINE old == fjobs[i]
           j == [op |-> old.op, as |-> old.as, arg |-> old.arg, ans |-> ans]
           S == Jobs(fjobs) \cup {j}
<1>1. old = [op |-> old.op, as |-> old.as, arg |-> old.arg, ans |-> old.ans]
  <2>1. old \in Jobs(fjobs)
    BY DEF Jobs
  <2> HIDE DEF old
  <2> QED
    BY <2>1 DEF JobsInv, GoodJob
<1>2. [old EXCEPT !.ans = ans] = j
  <2> HIDE DEF old
  <2> QED
    BY <1>1
<1>3. fjobs' = [fjobs EXCEPT ![i] = j]
    BY <1>2 DEF Answer
<1> HIDE DEF j
<1>4. fjobs \in Seq(S) /\ j \in S
    BY Widen DEF JobsInv
<1> HIDE DEF S
<1>5. fjobs' \in Seq(S)
    BY <1>3, <1>4
<1>6. Jobs(fjobs') \subseteq S /\ fjobs' \in Seq(Jobs(fjobs'))
    BY <1>5, OwnElements
<1> QED
    BY <1>6 DEF S, j

(* What is known of the requests stays known.                              *)
LEMMA JobsStay ==
    ASSUME JobsInv, \A r : TrueRow(r) => TrueRow(r)', NEW j, GoodJob(j)',
           fjobs' \in Seq(Jobs(fjobs')), Jobs(fjobs') \subseteq Jobs(fjobs) \cup {j}
    PROVE  JobsInv'
<1>1. ASSUME NEW k \in Jobs(fjobs) PROVE GoodJob(k)'
  <2>1. GoodJob(k)
    BY DEF JobsInv
  <2> QED
    BY <2>1 DEF GoodJob
<1> QED
    BY <1>1 DEF JobsInv, Jobs

(* A request starts without an answer; if it is no delete nothing is asked *)
(* of its argument.                                                        *)
LEMMA NewJob ==
    ASSUME NEW j, NEW op, NEW as \in Account, NEW arg, op # "delete",
           j = [op |-> op, as |-> as, arg |-> arg, ans |-> None]
    PROVE  GoodJob(j)'
BY DEF GoodJob

(* The dashboard's page, when a step leaves it alone.                      *)
LEMMA DashStays ==
    ASSUME DashInv, \A r : TrueRow(r) => TrueRow(r)', fpage' = fpage, dsess' = dsess
    PROVE  DashInv'
BY DEF DashInv

(***************************************************************************)
(* The dashboard's steps.                                                  *)
(***************************************************************************)

(* What the server does for a request keeps the tables in order.           *)
LEMMA ServeTables ==
    ASSUME TablesInv, NEW i, Serve(i)
    PROVE  TablesInv' /\ \A r : TrueRow(r) => TrueRow(r)'
<1> DEFINE j == fjobs[i]
           u == j.as
<1>1. CASE UNCHANGED server
    BY <1>1, SameLimits DEF server, TablesInv, TableShape, Consent, IdsUnique
<1>2. ASSUME NEW c, PatchLink(u, u, c, [links[<<u, c>>] EXCEPT !.status = "approved"])
                    \/ PatchLink(u, u, c, [links[<<u, c>>] EXCEPT !.status = "revoked"])
      PROVE  TablesInv' /\ \A r : TrueRow(r) => TrueRow(r)'
  <2> DEFINE old == links[<<u, c>>]
  <2>1. PICK status : PatchLink(u, u, c, [old EXCEPT !.status = status])
    BY <1>2
  <2> DEFINE row == [old EXCEPT !.status = status]
  <2>2. <<u, c>> \in Parents \X Children => old = [status |-> old.status, level |-> old.level]
    BY DEF TablesInv, TableShape
  <2>3. row = [status |-> row.status, level |-> row.level] \/ <<u, c>> \notin Parents \X Children
    <3> HIDE DEF old
    <3> QED
      BY <2>2
  <2> HIDE DEF row
  <2>4. PatchLink(u, u, c, row)
    BY <2>1 DEF row
  <2> QED
    BY <2>3, <2>4, PatchKeeps, SameLimits
<1>3. ASSUME NEW c, NEW level, setPermission(u, c, level)
      PROVE  TablesInv' /\ \A r : TrueRow(r) => TrueRow(r)'
  <2> DEFINE old == links[<<u, c>>]
             row == [old EXCEPT !.level = level]
  <2>2. <<u, c>> \in Parents \X Children => old = [status |-> old.status, level |-> old.level]
    BY DEF TablesInv, TableShape
  <2>3. row = [status |-> row.status, level |-> row.level] \/ <<u, c>> \notin Parents \X Children
    <3> HIDE DEF old
    <3> QED
      BY <2>2
  <2> HIDE DEF row
  <2>4. PatchLink(u, u, c, row)
    BY <1>3 DEF row, setPermission
  <2> QED
    BY <2>3, <2>4, PatchKeeps, SameLimits
<1>4. ASSUME NEW c, inviteChild(u, c)
      PROVE  TablesInv' /\ \A r : TrueRow(r) => TrueRow(r)'
    BY <1>4, InsertKeeps, SameLimits DEF inviteChild
<1>5. ASSUME NEW c, NEW a, NEW l, setLimit(u, c, a, l)
      PROVE  TablesInv' /\ \A r : TrueRow(r) => TrueRow(r)'
    BY <1>5, UpsertKeeps DEF setLimit
<1>6. ASSUME NEW id, deleteLimit(u, id)
      PROVE  TablesInv' /\ \A r : TrueRow(r) => TrueRow(r)'
    BY <1>6, DeleteKeeps DEF deleteLimit
<1> QED
    BY <1>1, <1>2, <1>3, <1>4, <1>5, <1>6 DEF Serve, approveLink, revokeLink

(* The answer to a request for limits holds rows of the table.             *)
LEMMA ServeStep ==
    ASSUME FamilyInv, NEW i \in DOMAIN fjobs, Serve(i)
    PROVE  FamilyInv'
<1> DEFINE old == fjobs[i]
<1>1. TablesInv' /\ \A r : TrueRow(r) => TrueRow(r)'
    BY ServeTables DEF FamilyInv
<1>2. page' = page /\ fpage' = fpage /\ dsess' = dsess
    BY DEF Serve
<1>3. GoodJob(old)
    BY DEF FamilyInv, JobsInv, Jobs
<1>4. PICK ans : Answer(i, ans) /\ (old.op = "limits" =>
                                       \E u : ans = VisibleLimits(limits, u, old.arg))
    BY DEF Serve, Written, listLimitsForChild
<1> DEFINE j == [op |-> old.op, as |-> old.as, arg |-> old.arg, ans |-> ans]
<1>5. old.op = "limits" => \A r \in ans : TrueRow(r)'
    BY <1>1, <1>4, VisibleAreTrue DEF FamilyInv
<1>6. fjobs' \in Seq(Jobs(fjobs')) /\ Jobs(fjobs') \subseteq Jobs(fjobs) \cup {j}
    BY <1>4, Answered DEF FamilyInv
<1> HIDE DEF old
<1>7. \A k : k = j => GoodJob(k)'
    BY <1>1, <1>3, <1>5 DEF GoodJob
<1> HIDE DEF j
<1>8. JobsInv'
    BY <1>1, <1>6, <1>7, JobsStay DEF FamilyInv
<1> QED
    BY <1>1, <1>2, <1>8, PagesStay, DashStays DEF FamilyInv

(* Steps of the dashboard that leave the tables and the agents alone.      *)
LEMMA TablesStay ==
    ASSUME TablesInv, PagesInv, UNCHANGED plVars
    PROVE  TablesInv' /\ PagesInv' /\ \A r : TrueRow(r) => TrueRow(r)'
<1>1. TablesInv' /\ \A r : TrueRow(r) => TrueRow(r)'
    BY SameLimits DEF plVars, server, TablesInv, TableShape, Consent, IdsUnique
<1> QED
    BY <1>1, PagesStay DEF plVars

(* A request that fails changes nothing.                                   *)
LEMMA RefuseStep ==
    ASSUME FamilyInv, NEW i \in DOMAIN fjobs, Refuse(i)
    PROVE  FamilyInv'
<1> DEFINE old == fjobs[i]
           j == [op |-> old.op, as |-> old.as, arg |-> old.arg, ans |-> Refused]
<1>1. TablesInv' /\ PagesInv' /\ \A r : TrueRow(r) => TrueRow(r)'
    BY TablesStay DEF FamilyInv, Refuse
<1>2. DashInv'
    BY <1>1, DashStays DEF FamilyInv, Refuse
<1>3. GoodJob(old)
    BY DEF FamilyInv, JobsInv, Jobs
<1>4. fjobs' \in Seq(Jobs(fjobs')) /\ Jobs(fjobs') \subseteq Jobs(fjobs) \cup {j}
    BY Answered DEF FamilyInv, Refuse
<1> HIDE DEF old
<1>5. \A k : k = j => GoodJob(k)'
    BY <1>1, <1>3 DEF GoodJob
<1> HIDE DEF j
<1>6. JobsInv'
    BY <1>1, <1>4, <1>5, JobsStay DEF FamilyInv
<1> QED
    BY <1>1, <1>2, <1>6 DEF FamilyInv

(* The callbacks: only loadChildSummaryAndLimits's fills the limits.       *)
LEMMA DeliverStep ==
    ASSUME FamilyInv, NEW i \in DOMAIN fjobs, Deliver(i)
    PROVE  FamilyInv'
<1> DEFINE old == fjobs[i]
<1>1. TablesInv' /\ PagesInv' /\ \A r : TrueRow(r) => TrueRow(r)'
    BY TablesStay DEF FamilyInv, Deliver
<1>2. dsess' = dsess /\ dsess \in Account
    BY DEF Deliver, FamilyInv, DashInv
<1>3. PICK op, arg, more :
        /\ op \in {"children", "limits"}
        /\ more = <<>> \/ more = <<runAsync(op, arg)>>
        /\ Rest(i, more)
    BY DEF Deliver, ChildrenLoaded, LimitsLoaded, loadChildren, loadChildSummaryAndLimits
<1> DEFINE j == runAsync(op, arg)
<1>4. \A k : k = j => GoodJob(k)'
  <2>1. op # "delete" /\ j = [op |-> op, as |-> dsess, arg |-> arg, ans |-> None]
    BY <1>3 DEF runAsync
  <2> QED
    BY <2>1, <1>2, NewJob
<1> HIDE DEF j
<1>5. fjobs' \in Seq(Jobs(fjobs')) /\ Jobs(fjobs') \subseteq Jobs(fjobs) \cup {j}
    BY <1>3, Followed DEF FamilyInv, j
<1>6. JobsInv'
    BY <1>1, <1>4, <1>5, JobsStay DEF FamilyInv
<1>7. DashInv'
  <2>1. CASE fpage' = fpage
    BY <2>1, <1>1, <1>2, DashStays DEF FamilyInv
  <2>2. CASE old.op = "children" /\ ChildrenLoaded(i)
    <3>1. PICK rows, sel, cur :
             fpage' = [fpage EXCEPT !.rows = rows, !.tok = dsess, !.sel = sel, !.cur = cur]
      BY <2>2 DEF ChildrenLoaded
    <3>2. fpage' = [rows |-> rows, sel |-> sel, cur |-> cur, lims |-> fpage.lims, tok |-> dsess]
      BY <3>1 DEF FamilyInv, DashInv
    <3> QED
      BY <3>2, <1>1, <1>2 DEF FamilyInv, DashInv
  <2>3. CASE old.op = "limits" /\ old.ans # None /\ old.ans # Refused /\ LimitsLoaded(i)
    <3>1. fpage' = [fpage EXCEPT !.lims = old.ans]
      BY <2>3 DEF LimitsLoaded
    <3>2. fpage' = [rows |-> fpage.rows, sel |-> fpage.sel, cur |-> fpage.cur,
                    lims |-> old.ans, tok |-> fpage.tok]
      BY <3>1 DEF FamilyInv, DashInv
    <3>3. \A r \in old.ans : TrueRow(r)'
      BY <2>3, <1>1 DEF FamilyInv, JobsInv, Jobs, GoodJob
    <3> QED
      BY <3>2, <3>3, <1>2 DEF FamilyInv, DashInv
  <2> QED
    BY <2>1, <2>2, <2>3 DEF Deliver
<1> QED
    BY <1>1, <1>6, <1>7 DEF FamilyInv

(* The user's clicks, logging in and out, and a crash.                     *)
LEMMA UserStep ==
    ASSUME FamilyInv,
           \/ ShowFamily \/ DashLogout \/ DashCrash
           \/ \E u \in DashParents : DashLogin(u)
           \/ \E c \in Children : InviteClicked(c)
           \/ \E k \in DOMAIN fpage.rows : RowClicked(k) \/ \E v \in Levels : PermissionChanged(k, v)
           \/ \E k \in DOMAIN fpage.sel : onChildSelected(k)
           \/ \E a \in Apps, l \in Limit : SetLimitClicked(a, l)
           \/ \E r \in fpage.lims : DeleteClicked(r)
    PROVE  FamilyInv'
<1> USE DEF FamilyInv
<1>1. TablesInv' /\ PagesInv' /\ \A r : TrueRow(r) => TrueRow(r)'
  <2>1. UNCHANGED plVars
    BY DEF ShowFamily, FamilyRefresh, DashLogout, DashCrash, DashLogin, InviteClicked, RowClicked,
           PermissionChanged, onChildSelected, SetLimitClicked, DeleteClicked, Click
  <2> QED
    BY <2>1, TablesStay
<1>2. ASSUME NEW j, GoodJob(j)', Start(<<j>>) PROVE JobsInv'
    BY <1>1, <1>2, Started, JobsStay DEF Start
<1>3. ASSUME NEW op, NEW as \in Account, NEW arg, op # "delete",
             Start(<<[op |-> op, as |-> as, arg |-> arg, ans |-> None]>>)
      PROVE  JobsInv'
    BY <1>2, <1>3, NewJob
<1>4. ASSUME fjobs' = fjobs PROVE JobsInv'
    BY <1>1, <1>4 DEF JobsInv, GoodJob
<1>5. ASSUME NEW rows, NEW sel, NEW cur, dsess' \in Account,
             fpage' = [fpage EXCEPT !.rows = rows, !.sel = sel, !.cur = cur]
      PROVE  DashInv'
  <2>1. fpage' = [rows |-> rows, sel |-> sel, cur |-> cur, lims |-> fpage.lims, tok |-> fpage.tok]
    BY <1>5 DEF DashInv
  <2> QED
    BY <2>1, <1>1, <1>5 DEF DashInv
<1>6. ASSUME dsess' \in Account, fpage' = fpage PROVE DashInv'
    BY <1>1, <1>6 DEF DashInv
<1>7. dsess \in Account /\ fpage.tok \in Account /\ None \in Account
    BY DEF DashInv, Account
<1>8. CASE ShowFamily
    BY <1>1, <1>3, <1>4, <1>5, <1>6, <1>7, <1>8
       DEF ShowFamily, FamilyRefresh, loadChildren, runAsync
<1>9. CASE DashLogout
    BY <1>1, <1>4, <1>5, <1>7, <1>9 DEF DashLogout
<1>10. CASE DashCrash
  <2>1. DashInv'
    BY <1>7, <1>10 DEF DashCrash, FamilyPageCtor, DashInv
  <2>2. JobsInv'
    BY <1>10 DEF DashCrash, JobsInv, Jobs
  <2> QED
    BY <1>1, <2>1, <2>2
<1>11. ASSUME NEW u \in DashParents, DashLogin(u) PROVE FamilyInv'
  <2> DEFINE j == [op |-> "children", as |-> u, arg |-> None, ans |-> None]
  <2>1. fjobs' = InFlight(fjobs, <<j>>) /\ fpage' = fpage /\ dsess' \in Account
    BY <1>11 DEF DashLogin, loadChildren, runAsync, Account
  <2>2. \A k : k = j => GoodJob(k)'
    BY NewJob DEF Account
  <2> HIDE DEF j
  <2>3. JobsInv'
    BY <2>1, <2>2, <1>1, Started, JobsStay
  <2> QED
    BY <1>1, <1>6, <2>1, <2>3
<1>12. CASE \E c \in Children : InviteClicked(c)
    BY <1>1, <1>3, <1>6, <1>7, <1>12 DEF InviteClicked, Click, runAsync
<1>13. ASSUME NEW k, RowClicked(k) PROVE FamilyInv'
    BY <1>1, <1>3, <1>6, <1>7, <1>13 DEF RowClicked, Click, runAsync
<1>14. ASSUME NEW k, NEW v, PermissionChanged(k, v) PROVE FamilyInv'
  <2>1. Start(<<[op |-> "perm", as |-> fpage.tok, arg |-> <<fpage.rows[k][1], v>>,
                 ans |-> None]>>)
    BY <1>14 DEF PermissionChanged, Click, runAsync
  <2>2. JobsInv'
    BY <2>1, <1>3, <1>7
  <2> QED
    BY <1>1, <1>6, <1>7, <1>14, <2>2 DEF PermissionChanged, Click
<1>15. ASSUME NEW k, onChildSelected(k) PROVE FamilyInv'
  <2>1. JobsInv'
    BY <1>3, <1>7, <1>15 DEF onChildSelected, loadChildSummaryAndLimits, runAsync
  <2>2. fpage' = [fpage EXCEPT !.rows = fpage.rows, !.sel = fpage.sel, !.cur = k]
    BY <1>15 DEF onChildSelected, DashInv
  <2>3. dsess' \in Account
    BY <1>7, <1>15 DEF onChildSelected
  <2>4. DashInv'
    BY <1>5, <2>2, <2>3
  <2> QED
    BY <1>1, <2>1, <2>4
<1>16. ASSUME NEW a, NEW l, SetLimitClicked(a, l) PROVE FamilyInv'
    BY <1>1, <1>3, <1>6, <1>7, <1>16 DEF SetLimitClicked, Click, runAsync
<1>17. ASSUME NEW r \in fpage.lims, DeleteClicked(r) PROVE FamilyInv'
  <2> DEFINE j == [op |-> "delete", as |-> dsess, arg |-> r, ans |-> None]
  <2>1. Start(<<j>>) /\ fpage' = fpage /\ dsess' = dsess
    BY <1>17 DEF DeleteClicked, Click, runAsync
  <2>2. TrueRow(r)'
    BY <1>1, <1>17 DEF DashInv
  <2>3. \A k : k = j => GoodJob(k)'
    BY <2>2, <1>7 DEF GoodJob
  <2> HIDE DEF j
  <2> QED
    BY <2>1, <2>3, <1>1, <1>2, <1>6, <1>7
<1> QED
    BY <1>8, <1>9, <1>10, <1>11, <1>12, <1>13, <1>14, <1>15, <1>16, <1>17

(***************************************************************************)
(* The theorems.                                                           *)
(***************************************************************************)

(* Empty tables and pages.                                                 *)
LEMMA FamilyStart == fpInit => FamilyInv
<1> SUFFICES ASSUME fpInit PROVE FamilyInv
    OBVIOUS
<1> USE DEF fpInit, plInit
<1>1. TablesInv
    BY DEF TablesInv, TableShape, Consent, IdsUnique
<1>2. PagesInv
    BY DEF PagesInv, PageShape, ShownIsTarget, ParentPageCtor
<1>3. DashInv
    BY DEF DashInv, FamilyPageCtor, Account
<1>4. JobsInv
    BY DEF JobsInv, Jobs
<1> QED
    BY <1>1, <1>2, <1>3, <1>4 DEF FamilyInv

(* Every step of an agent, the server or the dashboard preserves FamilyInv. *)
LEMMA FamilyStep == FamilyInv /\ [fpNext]_fpVars => FamilyInv'
<1> SUFFICES ASSUME FamilyInv, [fpNext]_fpVars PROVE FamilyInv'
    OBVIOUS
<1>1. CASE plNext /\ UNCHANGED <<dsess, fpage, fjobs>>
  <2>1. TablesInv' /\ PagesInv' /\ \A r : TrueRow(r) => TrueRow(r)'
    BY <1>1, AgentStep DEF FamilyInv
  <2>2. DashInv'
    BY <1>1, <2>1, DashStays DEF FamilyInv
  <2>3. JobsInv'
    BY <1>1, <2>1 DEF FamilyInv, JobsInv, GoodJob
  <2> QED
    BY <2>1, <2>2, <2>3 DEF FamilyInv
<1>2. CASE fpPage
    BY <1>2, ServeStep, RefuseStep, DeliverStep, UserStep DEF fpPage
<1>3. CASE UNCHANGED fpVars
  <2>1. TablesInv' /\ PagesInv' /\ \A r : TrueRow(r) => TrueRow(r)'
    BY <1>3, TablesStay DEF FamilyInv, fpVars
  <2>2. DashInv' /\ JobsInv'
    BY <1>3, <2>1, DashStays DEF FamilyInv, fpVars, JobsInv, GoodJob
  <2> QED
    BY <2>1, <2>2 DEF FamilyInv
<1> QED
    BY <1>1, <1>2, <1>3 DEF fpNext

(* FamilyInv holds in every state the accounts and the dashboard reach.    *)
THEOREM FamilyInvariant == FamilySpec => []FamilyInv
<1> QED
    BY FamilyStart, FamilyStep, PTL DEF FamilySpec

(* A link is approved only if its child approved it, whatever a parent's   *)
(* agent or dashboard sends, in whatever order the requests are served.    *)
THEOREM ApprovalIsTheChilds == FamilySpec => []Consent
<1>1. FamilyInv => Consent
    BY DEF FamilyInv, TablesInv
<1> QED
    BY <1>1, FamilyInvariant, PTL

(* The limits ParentPage shows are those of the child it would save for.   *)
THEOREM PageShowsTarget == FamilySpec => []ShownIsTarget
<1>1. FamilyInv => ShownIsTarget
    BY DEF FamilyInv, PagesInv
<1> QED
    BY <1>1, FamilyInvariant, PTL

(* A delete by id removes the limit its row showed or nothing, however     *)
(* many limits were deleted, set again and re-read since.                  *)
THEOREM DeletesHitTheirRow == FamilySpec => []DeleteHitsShownRow
<1>1. FamilyInv => DeleteHitsShownRow
  <2> SUFFICES ASSUME FamilyInv, NEW r \in Deletable PROVE TrueRow(r)
    BY DEF DeleteHitsShownRow, TrueRow
  <2>1. CASE r \in UNION {page[p].limits : p \in AgentParents}
    BY <2>1 DEF FamilyInv, PagesInv
  <2>2. CASE r \in fpage.lims
    BY <2>2 DEF FamilyInv, DashInv
  <2>3. CASE r \in {fjobs[i].arg : i \in {k \in DOMAIN fjobs : fjobs[k].op = "delete"}}
    BY <2>3 DEF FamilyInv, JobsInv, Jobs, GoodJob
  <2> QED
    BY <2>1, <2>2, <2>3 DEF Deletable
<1> QED
    BY <1>1, FamilyInvariant, PTL

\* A change of a limit has an approved parent behind it, its author unless it
\* is a delete.
Authorised ==
    \A ca \in Children \X Apps :
       limits'[ca] # limits[ca] =>
          \E p \in Parents : Approved(p, ca[1]) /\ (limits'[ca] # None => limits'[ca].by = p)

(* The policies of app_limits on a POST.                                   *)
LEMMA UpsertAuthorised ==
    ASSUME TableShape, NEW u \in Parents, NEW c, NEW a, NEW l,
           MaySetLimit(u, c, a), UpsertLimit(u, c, a, l)
    PROVE  Authorised
<1> SUFFICES ASSUME NEW ca \in Children \X Apps, limits'[ca] # limits[ca]
             PROVE  Approved(u, ca[1]) /\ limits'[ca].by = u
    BY DEF Authorised
<1>1. ca = <<c, a>>
    BY DEF TableShape, UpsertLimit
<1>2. limits'[ca].by = IF limits[ca] = None THEN u ELSE limits[ca].by
    BY <1>1 DEF TableShape, UpsertLimit
<1> QED
    BY <1>1, <1>2 DEF MaySetLimit

(* The policies of app_limits on a DELETE.                                 *)
LEMMA DeleteAuthorised ==
    ASSUME TableShape, NEW u \in Parents, NEW id, DeleteLimitRow(u, id)
    PROVE  Authorised
<1> SUFFICES ASSUME NEW ca \in Children \X Apps, limits'[ca] # limits[ca]
             PROVE  Approved(u, ca[1]) /\ limits'[ca] = None
    BY DEF Authorised
<1> QED
    BY DEF TableShape, DeleteLimitRow

(* Limits change only at the hand of a parent whose link the child has     *)
(* approved and not revoked; what one parent set no other changes.         *)
THEOREM LimitsAreGuarded == FamilySpec => OnlyApprovedParentsChangeLimits
<1>1. FamilyInv /\ [fpNext]_fpVars => [Authorised]_plVars
  <2> SUFFICES ASSUME FamilyInv, [fpNext]_fpVars, limits' # limits PROVE Authorised
    BY DEF Authorised
  <2>0. TableShape /\ AgentParents \subseteq Parents /\ DashParents \subseteq Parents
    BY FamilyAssumption, DashAssumption DEF FamilyInv, TablesInv
  <2>1. CASE plNext
    <3>1. \E p \in AgentParents :
             \/ \E a \in Apps, l \in Limit : onSaveLimit(p, a, l)
             \/ \E r \in page[p].limits : onDeleteLimit(p, r)
      BY <2>1 DEF plNext, ParentPageRefresh, onChildSelectionChanged, onInvite, InsertLink,
                  ParentLinkPageRefresh, onApprove, onRevoke, updateStatus, PatchLink, server
    <3> QED
      BY <3>1, <2>0, UpsertAuthorised, DeleteAuthorised DEF onSaveLimit, onDeleteLimit
  <2>2. ASSUME NEW i \in DOMAIN fjobs, Serve(i) PROVE Authorised
    <3> DEFINE j == fjobs[i]
    <3>1. j.as \in Parents
      BY <2>0, <2>2 DEF Serve, FamilyInv, JobsInv, Jobs, GoodJob, Account
    <3>2. \/ \E c, a, l : setLimit(j.as, c, a, l)
          \/ \E id : deleteLimit(j.as, id)
      BY <2>2 DEF Serve, server, inviteChild, InsertLink, approveLink, revokeLink, setPermission,
                  PatchLink
    <3> QED
      BY <2>0, <3>1, <3>2, UpsertAuthorised, DeleteAuthorised DEF setLimit, deleteLimit
  <2>3. CASE fpPage
    <3>1. \E i \in DOMAIN fjobs : Serve(i)
      BY <2>3 DEF fpPage, plVars, server, Refuse, Deliver, ShowFamily, DashLogout, DashCrash,
                  DashLogin, InviteClicked, RowClicked, PermissionChanged, onChildSelected,
                  SetLimitClicked, DeleteClicked, Click
    <3> QED
      BY <2>2, <3>1
  <2>4. ~ UNCHANGED fpVars
    BY DEF fpVars, plVars, server
  <2> QED
    BY <2>1, <2>3, <2>4 DEF fpNext
<1>2. FamilySpec => [][Authorised]_plVars
    BY <1>1, FamilyInvariant, PTL DEF FamilySpec
<1> QED
    BY <1>2 DEF OnlyApprovedParentsChangeLimits, Authorised
=============================================================================
