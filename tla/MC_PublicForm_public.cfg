SPECIFICATION PublicSpec
CONSTANTS
    Req = {r1, r2, r3}
    lead = lead
    User = {lead}
    Report = {p1, p2}
    Case = {c1, c2}
    Null = Null
    RoleOf <- MCRoleOf
    Ops = {"open", "status"}
    SignedIn = {"elevated"}
    Targets = {"investigating", "intake"}
    Events = {"lapse"}
    Ticks = {1}
    MaxActive = 1
    PoolSize = 2
    Form = {f1, f2}
    Token = {t1, t2}
    Summaries <- Fine
    Bodies <- Fine
    Emails = {"noise", ""}
    Severities = {"low", "other"}
    Channels = {"web"}
SYMMETRY RequestSymmetry
INVARIANTS
    PublicTypeOK
    ReceiptOpensOwnReport
PROPERTIES
    ImplementsReporterView
CHECK_DEADLOCK FALSE
