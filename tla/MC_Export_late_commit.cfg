SPECIFICATION ExportSpec
CONSTANTS
    Req = {r1, r2}
    lead = lead
    handler = handler
    auditor = auditor
    User = {lead}
    Report = {p1}
    Case = {c1}
    Null = Null
    RoleOf <- MCRoleOf
    Ops = {"open"}
    SignedIn = {"elevated"}
    Targets = {"investigating"}
    Events = {}
    Ticks = {1}
    MaxActive = 2
    PoolSize = 2
    Exp = {e1}
    Days = {1}
    DayLength = 1
    MaxRangeDays = 1
    LastDay = 2
INVARIANTS
    RangeCovered
