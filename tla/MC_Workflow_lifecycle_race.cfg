SPECIFICATION FairSpec
CONSTANTS
    Req = {r1, r2, r3, r4}
    lead = lead
    lead2 = lead2
    handler = handler
    handler2 = handler2
    reporter = reporter
    User = {lead}
    Report = {p1}
    Case = {c1}
    Null = Null
    RoleOf <- MCRoleOf
    Ops = {"open", "status"}
    SignedIn = {"elevated"}
    Targets = {"triage", "investigating", "resolved", "archived"}
    Events = {}
    Ticks = {1}
    MaxActive = 4
    PoolSize = 4
PROPERTIES
    LockedTransitions
