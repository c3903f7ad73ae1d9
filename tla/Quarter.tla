------------------------------ MODULE Quarter ------------------------------
(***************************************************************************)
(* The dates the export form proposes (last_full_quarter_range in          *)
(* src/handlers/audit.rs) against the ranges the export accepts, day by    *)
(* day over the Gregorian calendar.                                        *)
(***************************************************************************)
EXTENDS Calendar

CONSTANTS FirstYear, LastYear   \* bound: the years a run goes through

ASSUME QuarterAssumption ==
    FirstYear \in Nat \ {0} /\ LastYear \in Nat /\ FirstYear <= LastYear

VARIABLE today   \* Utc::now().date_naive(), as days since 0000-12-31

-----------------------------------------------------------------------------
(* chrono's calendar.                                                      *)

Leap(y) == y % 4 = 0 /\ (y % 100 = 0 => y % 400 = 0)

\* NaiveDate::from_ymd_opt(y, m, 1).
FirstOf(y, m) ==
    365 * (y - 1) + (y - 1) \div 4 - (y - 1) \div 100 + (y - 1) \div 400
    + (367 * m - 362) \div 12
    + (IF m <= 2 THEN 0 ELSE IF Leap(y) THEN -1 ELSE -2)
    + 1

YearOf(d) == CHOOSE y \in FirstYear..LastYear : FirstOf(y, 1) <= d /\ d < FirstOf(y + 1, 1)
MonthOf(d) == CHOOSE m \in 1..12 :
    FirstOf(YearOf(d), m) <= d /\ (m < 12 => d < FirstOf(YearOf(d), m + 1))

-----------------------------------------------------------------------------
\* Mutants: the first quarter looks back into its own year; the end is the
\* first day of the next quarter.
LastFullQuarter_SameYear(d) ==
    LET q == (MonthOf(d) - 1) \div 3 + 1
        index == IF q = 1 THEN 4 ELSE q - 1
        fromMonth == (index - 1) * 3 + 1
    IN  [from |-> FirstOf(YearOf(d), fromMonth),
         to |-> (IF fromMonth + 3 > 12 THEN FirstOf(YearOf(d) + 1, 1)
                 ELSE FirstOf(YearOf(d), fromMonth + 3)) - 1]

LastFullQuarter_NotPred(d) ==
    LET q == (MonthOf(d) - 1) \div 3 + 1
        year == IF q = 1 THEN YearOf(d) - 1 ELSE YearOf(d)
        index == IF q = 1 THEN 4 ELSE q - 1
        fromMonth == (index - 1) * 3 + 1
    IN  [from |-> FirstOf(year, fromMonth),
         to |-> IF fromMonth + 3 > 12 THEN FirstOf(year + 1, 1)
                ELSE FirstOf(year, fromMonth + 3)]

LastFullQuarter(d) ==
    LET q == (MonthOf(d) - 1) \div 3 + 1
        year == IF q = 1 THEN YearOf(d) - 1 ELSE YearOf(d)
        index == IF q = 1 THEN 4 ELSE q - 1
        fromMonth == (index - 1) * 3 + 1
    IN  [from |-> FirstOf(year, fromMonth),
         to |-> (IF fromMonth + 3 > 12 THEN FirstOf(year + 1, 1)
                 ELSE FirstOf(year, fromMonth + 3)) - 1]

Init == today = FirstOf(FirstYear, 1)
Next == today < FirstOf(LastYear, 12) /\ today' = today + 1
Spec == Init /\ [][Next]_today

-----------------------------------------------------------------------------
\* The proposed range is the quarter closed last: over today, and no full
\* quarter has passed since (audit.rs:554-557); and the export takes it.
ProposesClosedQuarter ==
    LET range == LastFullQuarter(today) IN
    /\ range.to < today /\ today <= range.to + 92
    /\ RangeAccepted(range.from, range.to)

\* From one day to the next the proposal stays or moves to the days right
\* after it: taking every proposal leaves no day out and repeats none.
ProposalsAbut ==
    [][LET range == LastFullQuarter(today)
           next == LastFullQuarter(today')
       IN  next = range \/ next.from = range.to + 1]_today

\* "a full year + a one-month overlap is fine" (export.rs:90-92), whichever
\* month it begins with.
YearAndOverlapAccepted ==
    LET y == YearOf(today)
        m == MonthOf(today)
        end == IF m = 12 THEN FirstOf(y + 2, 1) ELSE FirstOf(y + 1, m + 1)
    IN  RangeAccepted(FirstOf(y, m), end - 1)
=============================================================================
