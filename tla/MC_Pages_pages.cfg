SPECIFICATION PagesSpec
CONSTANTS
    Req = {r1, r2, r3}
    lead = lead
    handler = handler
    User = {lead, handler}
    Report = {p1}
    Case = {c1}
    Null = Null
    RoleOf <- MCRoleOf
    Ops = {"open", "status", "reassign"}
    SignedIn = {"live", "elevated"}
    Targets = {"archived", "investigating", "intake"}
    Events = {}
    Ticks = {1}
    MaxActive = 1
    PoolSize = 2
    View = {v1, v2}
SYMMETRY TabSymmetry
INVARIANTS
    PagesTypeOK
    PageHistoryExplains
    PageShownToAssigned
PROPERTIES
    OpenedStaysOutOfQueue
