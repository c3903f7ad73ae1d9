SPECIFICATION Spec
CONSTANTS
    Req = {r1, r2, r3}
    lead = lead
    lead2 = lead2
    handler = handler
    handler2 = handler2
    reporter = reporter
    User = {lead, handler}
    Report = {p1}
    Case = {c1}
    Null = Null
    RoleOf <- MCRoleOf
    Ops = {"open", "reassign"}
    SignedIn = {"elevated"}
    Targets = {"investigating"}
    Events = {}
    Ticks = {1}
    MaxActive = 3
    PoolSize = 3
INVARIANTS
    NewestFirstShowsAssignee
