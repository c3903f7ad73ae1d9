SPECIFICATION ExportSpec
CONSTANTS
    Req = {r1, r2}
    lead = lead
    handler = handler
    auditor = auditor
    User = {lead}
    Report = {p1}
    Case = {c1}
    Null = Null
    RoleOf <- MCRoleOf
    Ops = {"open", "status", "disclose"}
    SignedIn = {"elevated"}
    Targets = {"investigating"}
    Events = {}
    Ticks = {0, 1}
    MaxActive = 1
    PoolSize = 2
    Exp = {e1, e2}
    Days = {1, 2}
    DayLength = 1
    MaxRangeDays = 1
    LastDay = 3
SYMMETRY RowSymmetry
INVARIANTS
    ExportTypeOK
    SettledComplete
    EarlierListsSupported
    AdjacentExportsConcatenate
