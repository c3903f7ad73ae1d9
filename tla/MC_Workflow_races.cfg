SPECIFICATION Spec
CONSTANTS
    Req = {r1, r2, r3, r4}
    lead = lead
    lead2 = lead2
    handler = handler
    handler2 = handler2
    reporter = reporter
    User = {lead, handler}
    Report = {p1}
    Case = {c1, c2}
    Null = Null
    RoleOf <- MCRoleOf
    Ops = {"open", "status", "note", "reassign", "disclose"}
    SignedIn = {"elevated"}
    Targets = {"intake", "investigating", "archived"}
    Events = {}
    Ticks = {1}
    MaxActive = 3
    PoolSize = 4
SYMMETRY RowSymmetry
INVARIANTS
    TypeOK
    LedgerReplay
    TerminalStamped
    StaffWorkWasAssigned
    OneCasePerReport
    ReporterViewInSync
    DisclosuresPaired
    ViewingIsLogged
    NoWaitCycle
PROPERTIES
    ImplementsLedger
