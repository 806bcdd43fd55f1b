------------------------------ MODULE MCFamily ------------------------------
(* Who takes part is chosen once: two parents with an agent and one child, *)
(* one parent with an agent and two children, or the dashboard, one child  *)
(* and two applications (only blocks are set there).                       *)
EXTENDS FamilyPage

CONSTANTS p1, p2, c1, c2, a1, a2

VARIABLE side

MCAmounts == {-1}

Absent == CASE side = "parents"   -> [users |-> {c2}, apps |-> {a2}]
            [] side = "children"  -> [users |-> {p2}, apps |-> {a2}]
            [] side = "dashboard" -> [users |-> {p1, c2}, apps |-> {}]

\* Nobody invites those who are absent, and they open no page.
Away == /\ \A u \in Absent.users : /\ invited'[u] = invited[u]
                                   /\ u \in AgentParents => page'[u] = page[u]
                                   /\ u \in Children => cpage'[u] = cpage[u]
        /\ \A a \in Absent.apps, c \in Children : limits'[<<c, a>>] = None
        /\ side = "dashboard" =>
             /\ \A i \in DOMAIN fjobs' : fjobs'[i].op = "set" => fjobs'[i].arg[3].blocked
             /\ cpage'[c1] = cpage[c1] \/ cpage'[c1] # <<>>

vars == <<fpVars, side>>
Init == fpInit /\ side \in {"parents", "children", "dashboard"}
Next == /\ fpNext /\ Away /\ UNCHANGED side
        /\ IF side = "dashboard" THEN UNCHANGED page ELSE UNCHANGED <<dsess, fpage, fjobs>>
Spec == Init /\ [][Next]_vars
=============================================================================
