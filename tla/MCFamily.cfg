CONSTANTS
    p1 = p1  p2 = p2  c1 = c1  c2 = c2  a1 = a1  a2 = a2
    Parents = {p1, p2}
    Children = {c1, c2}
    AgentParents = {p1, p2}
    DashParents = {p2}
    Apps = {a1, a2}
    Amounts <- MCAmounts
    None = None
    Refused = Refused
    MaxLinks = 2
    MaxIds = 2
    Levels = {"full"}
    MaxJobs = 2
SPECIFICATION Spec
INVARIANTS
    Consent
    DeleteHitsShownRow
    ShownIsTarget
PROPERTIES
    OnlyApprovedParentsChangeLimits
CHECK_DEADLOCK FALSE
