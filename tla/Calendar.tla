------------------------------ MODULE Calendar ------------------------------
(***************************************************************************)
(* Dates and instants, the way src/handlers/export.rs turns a range of     *)
(* dates, both of them inclusive, into a half-open range of instants.      *)
(***************************************************************************)
EXTENDS Integers

CONSTANTS
    DayLength,      \* instants per day
    MaxRangeDays,   \* MAX_RANGE_DAYS
    LastDay         \* NaiveDate::MAX, the date without a successor

ASSUME CalendarAssumption ==
    DayLength \in Nat \ {0} /\ MaxRangeDays \in Nat /\ LastDay \in Nat

Midnight(d) == d * DayLength
DayOf(at) == at \div DayLength

\* WHERE created_at >= $1 AND created_at < $2, with $2 the midnight after `to'.
\* Mutants: $2 is the midnight of `to'; the comparison is <=.
InRange_ToExcluded(at, from, to) == Midnight(from) <= at /\ at < Midnight(to)
InRange_ClosedAbove(at, from, to) == Midnight(from) <= at /\ at <= Midnight(to + 1)
InRange(at, from, to) == Midnight(from) <= at /\ at < Midnight(to + 1)

\* The three refusals: an empty range, one too wide, one whose last day has
\* no successor (succ_opt).
\* Mutant: the widest range is twelve months of 31 days.
RangeAccepted_OneYear(from, to) == from <= to /\ to - from <= 12 * 31 /\ to < LastDay
RangeAccepted(from, to) == from <= to /\ to - from <= MaxRangeDays /\ to < LastDay
=============================================================================
