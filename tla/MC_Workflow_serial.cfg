SPECIFICATION Spec
CONSTANTS
    Req = {r1, r2, r3, r4, r5}
    lead = lead
    lead2 = lead2
    handler = handler
    handler2 = handler2
    reporter = reporter
    User = {lead, handler}
    Report = {p1}
    Case = {c1}
    Null = Null
    RoleOf <- MCRoleOf
    Ops = {"open", "status", "reassign"}
    SignedIn = {"live", "elevated"}
    Targets = {"triage", "investigating", "resolved", "archived"}
    Events = {"lapse", "signout"}
    Ticks = {1}
    MaxActive = 1
    PoolSize = 1
SYMMETRY RequestSymmetry
INVARIANTS
    OpenCasesUnstamped
    NewestFirstShowsAssignee
PROPERTIES
    ImplementsLifecycle
