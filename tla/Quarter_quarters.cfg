SPECIFICATION Spec
CONSTANTS
    FirstYear = 2096
    LastYear = 2103
    DayLength = 1
    MaxRangeDays = 434
    LastDay = 95745399
INVARIANTS
    ProposesClosedQuarter
    YearAndOverlapAccepted
PROPERTIES
    ProposalsAbut
CHECK_DEADLOCK FALSE
