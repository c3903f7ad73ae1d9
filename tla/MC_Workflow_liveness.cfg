SPECIFICATION FairSpec
CONSTANTS
    Req = {r1, r2, r3}
    lead = lead
    lead2 = lead2
    handler = handler
    handler2 = handler2
    reporter = reporter
    User = {lead}
    Report = {p1}
    Case = {c1}
    Null = Null
    RoleOf <- MCRoleOf
    Ops = {"open", "status", "note", "reassign", "disclose"}
    SignedIn = {"none", "live", "elevated"}
    Targets = {"investigating", "archived"}
    Events = {"signin", "reauth", "deactivate"}
    Ticks = {1}
    MaxActive = 3
    PoolSize = 2
INVARIANTS
    GatedByReauth
PROPERTIES
    RequestsAnswered
