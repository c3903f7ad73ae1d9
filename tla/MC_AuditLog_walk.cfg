SPECIFICATION AuditSpec
CONSTANTS
    Req = {r1, r2, r3}
    lead = lead
    handler = handler
    auditor = auditor
    User = {lead, handler}
    Report = {p1}
    Case = {c1}
    Null = Null
    RoleOf <- MCRoleOf
    Ops = {"open", "status", "note", "reassign", "disclose"}
    SignedIn = {"elevated"}
    Targets = {"investigating"}
    Events = {}
    Ticks = {1}
    MaxActive = 2
    PoolSize = 2
    Auditor = {t1}
    Filters <- DisclosuresSince
    UrlPages = {0, 1, 2}
    PageSize = 1
    MaxPage = 3
SYMMETRY RequestSymmetry
INVARIANTS
    AuditTypeOK
    WalkMissesNothing
    EmptyPageMeansNoMatch
    EveryTypeSelectable
