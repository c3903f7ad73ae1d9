--------------------------- MODULE Quarter_proofs ---------------------------
(***************************************************************************)
(* Proofs about the proposals of the export form, for every range of years *)
(* of the Gregorian calendar.  `Dated' says that a day lies in a month of  *)
(* its years; within a month the proposal does not change, and MonthStarts *)
(* says how far apart the months are.                                      *)
(***************************************************************************)
EXTENDS Quarter, TLAPS

LeapDay(y) == IF Leap(y) THEN 1 ELSE 0

LEMMA Quotients ==
    ASSUME NEW y \in Int
    PROVE  /\ y \div 4 = (y - 1) \div 4 + (IF y % 4 = 0 THEN 1 ELSE 0)
           /\ y \div 100 = (y - 1) \div 100 + (IF y % 100 = 0 THEN 1 ELSE 0)
           /\ y \div 400 = (y - 1) \div 400 + (IF y % 400 = 0 THEN 1 ELSE 0)
  OBVIOUS

\* A year has 365 days, or 366, and the months start where they do.
LEMMA MonthStarts ==
    ASSUME NEW y \in Int
    PROVE  /\ FirstOf(y, 1) \in Int /\ LeapDay(y) \in {0, 1}
           /\ FirstOf(y, 2) = FirstOf(y, 1) + 31
           /\ FirstOf(y, 3) = FirstOf(y, 1) + 59 + LeapDay(y)
           /\ FirstOf(y, 4) = FirstOf(y, 1) + 90 + LeapDay(y)
           /\ FirstOf(y, 5) = FirstOf(y, 1) + 120 + LeapDay(y)
           /\ FirstOf(y, 6) = FirstOf(y, 1) + 151 + LeapDay(y)
           /\ FirstOf(y, 7) = FirstOf(y, 1) + 181 + LeapDay(y)
           /\ FirstOf(y, 8) = FirstOf(y, 1) + 212 + LeapDay(y)
           /\ FirstOf(y, 9) = FirstOf(y, 1) + 243 + LeapDay(y)
           /\ FirstOf(y, 10) = FirstOf(y, 1) + 273 + LeapDay(y)
           /\ FirstOf(y, 11) = FirstOf(y, 1) + 304 + LeapDay(y)
           /\ FirstOf(y, 12) = FirstOf(y, 1) + 334 + LeapDay(y)
           /\ FirstOf(y + 1, 1) = FirstOf(y, 1) + 365 + LeapDay(y)
  <1>1. FirstOf(y + 1, 1) = FirstOf(y, 1) + 365 + LeapDay(y)
    <2>1. FirstOf(y + 1, 1) = 365 * y + y \div 4 - y \div 100 + y \div 400 + 1
      BY DEF FirstOf
    <2>2. FirstOf(y, 1) =
             365 * (y - 1) + (y - 1) \div 4 - (y - 1) \div 100 + (y - 1) \div 400 + 1
      BY DEF FirstOf
    <2>3. y % 400 = 0 => y % 100 = 0 OBVIOUS
    <2>4. y % 100 = 0 => y % 4 = 0 OBVIOUS
    <2>. QED BY <2>1, <2>2, <2>3, <2>4, Quotients DEF LeapDay, Leap
  <1>2. FirstOf(y, 1) \in Int /\ LeapDay(y) \in {0, 1} BY DEF FirstOf, LeapDay
  <1>3. /\ FirstOf(y, 2) = FirstOf(y, 1) + 31
        /\ FirstOf(y, 3) = FirstOf(y, 1) + 59 + LeapDay(y)
        /\ FirstOf(y, 4) = FirstOf(y, 1) + 90 + LeapDay(y)
        /\ FirstOf(y, 5) = FirstOf(y, 1) + 120 + LeapDay(y)
        /\ FirstOf(y, 6) = FirstOf(y, 1) + 151 + LeapDay(y)
        /\ FirstOf(y, 7) = FirstOf(y, 1) + 181 + LeapDay(y)
    BY DEF FirstOf, LeapDay
  <1>4. /\ FirstOf(y, 8) = FirstOf(y, 1) + 212 + LeapDay(y)
        /\ FirstOf(y, 9) = FirstOf(y, 1) + 243 + LeapDay(y)
        /\ FirstOf(y, 10) = FirstOf(y, 1) + 273 + LeapDay(y)
        /\ FirstOf(y, 11) = FirstOf(y, 1) + 304 + LeapDay(y)
        /\ FirstOf(y, 12) = FirstOf(y, 1) + 334 + LeapDay(y)
    BY DEF FirstOf, LeapDay
  <1>. QED BY <1>1, <1>2, <1>3, <1>4

LEMMA YearsInOrder ==
    ASSUME NEW y \in Int, NEW z \in Int, y < z
    PROVE  FirstOf(y + 1, 1) <= FirstOf(z, 1)
  BY DEF FirstOf

LEMMA MonthsInOrder ==
    ASSUME NEW y \in Int, NEW m \in 1..12, NEW n \in 1..12, m < n
    PROVE  FirstOf(y, m) + 28 <= FirstOf(y, n)
  <1>1. (367 * n - 362) \div 12 >= (367 * m - 362) \div 12 + 30 OBVIOUS
  <1>2. CASE m > 2 BY <1>1, <1>2 DEF FirstOf
  <1>3. CASE m <= 2
    <2>1. PICK b \in {0, 1, 2} :
             FirstOf(y, n) = FirstOf(y, 1) + (367 * n - 362) \div 12 - b
      BY DEF FirstOf
    <2>2. FirstOf(y, m) = FirstOf(y, 1) + (367 * m - 362) \div 12 BY <1>3 DEF FirstOf
    <2>3. FirstOf(y, 1) \in Int BY DEF FirstOf
    <2>. QED BY <1>1, <2>1, <2>2, <2>3
  <1>. QED BY <1>2, <1>3

-----------------------------------------------------------------------------
(* The month a day is in.                                                  *)

NextFirst(y, m) == IF m = 12 THEN FirstOf(y + 1, 1) ELSE FirstOf(y, m + 1)

InMonth(d, y, m) == FirstOf(y, m) <= d /\ d < NextFirst(y, m)

LEMMA MonthBounds ==
    ASSUME NEW y \in Int, NEW m \in 1..12
    PROVE  /\ FirstOf(y, m) \in Int /\ NextFirst(y, m) \in Int
           /\ FirstOf(y, 1) <= FirstOf(y, m)
           /\ FirstOf(y, m) < NextFirst(y, m)
           /\ NextFirst(y, m) <= FirstOf(y + 1, 1)
  <1>1. /\ FirstOf(y, m) \in Int /\ FirstOf(y, 1) \in Int /\ FirstOf(y, 12) \in Int
        /\ FirstOf(y + 1, 1) \in Int /\ (m < 12 => FirstOf(y, m + 1) \in Int)
    BY DEF FirstOf
  <1>2. FirstOf(y, 12) + 28 <= FirstOf(y + 1, 1)
    <2>1. /\ FirstOf(y, 12) = FirstOf(y, 1) + 334 + LeapDay(y)
          /\ FirstOf(y + 1, 1) = FirstOf(y, 1) + 365 + LeapDay(y)
          /\ FirstOf(y, 1) \in Int /\ LeapDay(y) \in {0, 1}
      BY MonthStarts
    <2>. QED BY <2>1
  <1>3. m > 1 => FirstOf(y, 1) + 28 <= FirstOf(y, m) BY MonthsInOrder
  <1>4. m < 12 => FirstOf(y, m) + 28 <= FirstOf(y, m + 1) BY MonthsInOrder
  <1>5. m < 11 => FirstOf(y, m + 1) + 28 <= FirstOf(y, 12) BY MonthsInOrder
  <1>. QED BY <1>1, <1>2, <1>3, <1>4, <1>5 DEF NextFirst

\* chrono's year() and month() are the year and the month the day is in.
LEMMA DateOf ==
    ASSUME NEW d \in Int, NEW y \in FirstYear..LastYear, NEW m \in 1..12, InMonth(d, y, m)
    PROVE  YearOf(d) = y /\ MonthOf(d) = m
  <1>0. FirstYear..LastYear \subseteq Int /\ y \in Int BY QuarterAssumption
  <1>1. FirstOf(y, 1) <= d /\ d < FirstOf(y + 1, 1)
    <2>1. /\ FirstOf(y, 1) \in Int /\ FirstOf(y + 1, 1) \in Int
          /\ FirstOf(y, m) \in Int /\ NextFirst(y, m) \in Int
          /\ FirstOf(y, 1) <= FirstOf(y, m) /\ NextFirst(y, m) <= FirstOf(y + 1, 1)
      <3>1. FirstOf(y, 1) \in Int /\ FirstOf(y + 1, 1) \in Int
        BY <1>0 DEF FirstOf
      <3>. QED BY <1>0, <3>1, MonthBounds
    <2>. QED BY <2>1 DEF InMonth
  <1>2. ASSUME NEW z \in FirstYear..LastYear, FirstOf(z, 1) <= d, d < FirstOf(z + 1, 1)
        PROVE  z = y
    <2>1. z \in Int /\ FirstOf(z, 1) \in Int /\ FirstOf(z + 1, 1) \in Int
          /\ FirstOf(y, 1) \in Int /\ FirstOf(y + 1, 1) \in Int
      BY <1>0 DEF FirstOf
    <2>2. ~ z < y BY <1>0, <1>1, <1>2, <2>1, YearsInOrder
    <2>3. ~ y < z BY <1>0, <1>1, <1>2, <2>1, YearsInOrder
    <2>. QED BY <1>0, <2>1, <2>2, <2>3
  <1>3. YearOf(d) = y BY <1>1, <1>2 DEF YearOf
  <1>4. FirstOf(y, m) <= d /\ (m < 12 => d < FirstOf(y, m + 1))
    BY DEF InMonth, NextFirst
  <1>5. ASSUME NEW n \in 1..12, FirstOf(y, n) <= d, n < 12 => d < FirstOf(y, n + 1)
        PROVE  n = m
    <2>1. ASSUME NEW i \in 1..12, NEW k \in 1..12, i < k,
                 d < FirstOf(y, i + 1), FirstOf(y, k) <= d
          PROVE  FALSE
      <3>1. FirstOf(y, i + 1) \in Int /\ FirstOf(y, k) \in Int
        <4>1. i + 1 \in 1..12 BY <2>1
        <4>. QED BY <1>0, <4>1, MonthBounds
      <3>2. i + 1 < k => FirstOf(y, i + 1) + 28 <= FirstOf(y, k)
        BY <1>0, <2>1, MonthsInOrder
      <3>. QED BY <2>1, <3>1, <3>2
    <2>2. ~ n < m BY <1>4, <1>5, <2>1
    <2>3. ~ m < n BY <1>4, <1>5, <2>1
    <2>. QED BY <2>2, <2>3
  <1>6. MonthOf(d) = CHOOSE n \in 1..12 :
             FirstOf(y, n) <= d /\ (n < 12 => d < FirstOf(y, n + 1))
    BY <1>3 DEF MonthOf
  <1>. QED BY <1>3, <1>4, <1>5, <1>6

-----------------------------------------------------------------------------
(* The proposal of a day depends on its quarter alone.                     *)

Proposal(y, q) ==
    [from |-> IF q = 1 THEN FirstOf(y - 1, 10) ELSE FirstOf(y, 3 * q - 5),
     to |-> FirstOf(y, 3 * q - 2) - 1]

LEMMA ProposalOf ==
    ASSUME NEW d \in Int, NEW y \in FirstYear..LastYear, NEW m \in 1..12, InMonth(d, y, m)
    PROVE  LastFullQuarter(d) = Proposal(y, (m - 1) \div 3 + 1)
  <1>1. YearOf(d) = y /\ MonthOf(d) = m BY DateOf
  <1>2. y \in Int BY QuarterAssumption
  <1>. DEFINE q == (m - 1) \div 3 + 1
  <1>3. q \in 1..4 OBVIOUS
  <1>4. LastFullQuarter(d) =
           LET year == IF q = 1 THEN y - 1 ELSE y
               index == IF q = 1 THEN 4 ELSE q - 1
               fromMonth == (index - 1) * 3 + 1
           IN  [from |-> FirstOf(year, fromMonth),
                to |-> (IF fromMonth + 3 > 12 THEN FirstOf(year + 1, 1)
                        ELSE FirstOf(year, fromMonth + 3)) - 1]
    BY <1>1 DEF LastFullQuarter
  <1>. HIDE DEF q
  <1>5. CASE q = 1
    <2>1. (4 - 1) * 3 + 1 = 10 /\ y - 1 + 1 = y /\ 3 * 1 - 2 = 1 BY <1>2
    <2>. QED BY <1>4, <1>5, <2>1 DEF Proposal, q
  <1>6. CASE q # 1
    <2>1. /\ (q - 1 - 1) * 3 + 1 = 3 * q - 5 /\ 3 * q - 5 + 3 = 3 * q - 2
          /\ ~ 3 * q - 2 > 12
      BY <1>3, <1>6
    <2>. QED BY <1>4, <1>6, <2>1 DEF Proposal, q
  <1>. QED BY <1>5, <1>6

\* A proposal is a whole quarter.
LEMMA ProposalBounds ==
    ASSUME NEW y \in Int, NEW q \in 1..4
    PROVE  /\ Proposal(y, q).from \in Int /\ Proposal(y, q).to \in Int
           /\ Proposal(y, q).from + 89 <= Proposal(y, q).to
           /\ Proposal(y, q).to <= Proposal(y, q).from + 91
  <1>1. /\ Proposal(y, q).from = IF q = 1 THEN FirstOf(y - 1, 10) ELSE FirstOf(y, 3 * q - 5)
        /\ Proposal(y, q).to = FirstOf(y, 3 * q - 2) - 1
    BY DEF Proposal
  <1>2. CASE q = 1
    <2>1. /\ FirstOf(y - 1, 10) = FirstOf(y - 1, 1) + 273 + LeapDay(y - 1)
          /\ FirstOf(y - 1 + 1, 1) = FirstOf(y - 1, 1) + 365 + LeapDay(y - 1)
          /\ FirstOf(y - 1, 1) \in Int /\ LeapDay(y - 1) \in {0, 1}
      BY MonthStarts
    <2>2. 3 * q - 2 = 1 /\ y - 1 + 1 = y BY <1>2
    <2>. QED BY <1>1, <1>2, <2>1, <2>2
  <1>3. CASE q = 2
    <2>1. 3 * q - 5 = 1 /\ 3 * q - 2 = 4 BY <1>3
    <2>2. /\ FirstOf(y, 4) = FirstOf(y, 1) + 90 + LeapDay(y)
          /\ FirstOf(y, 1) \in Int /\ LeapDay(y) \in {0, 1}
      BY MonthStarts
    <2>. QED BY <1>1, <1>3, <2>1, <2>2
  <1>4. CASE q = 3
    <2>1. 3 * q - 5 = 4 /\ 3 * q - 2 = 7 BY <1>4
    <2>2. /\ FirstOf(y, 4) = FirstOf(y, 1) + 90 + LeapDay(y)
          /\ FirstOf(y, 7) = FirstOf(y, 1) + 181 + LeapDay(y)
          /\ FirstOf(y, 1) \in Int /\ LeapDay(y) \in {0, 1}
      BY MonthStarts
    <2>. QED BY <1>1, <1>4, <2>1, <2>2
  <1>5. CASE q = 4
    <2>1. 3 * q - 5 = 7 /\ 3 * q - 2 = 10 BY <1>5
    <2>2. /\ FirstOf(y, 7) = FirstOf(y, 1) + 181 + LeapDay(y)
          /\ FirstOf(y, 10) = FirstOf(y, 1) + 273 + LeapDay(y)
          /\ FirstOf(y, 1) \in Int /\ LeapDay(y) \in {0, 1}
      BY MonthStarts
    <2>. QED BY <1>1, <1>5, <2>1, <2>2
  <1>. QED BY <1>2, <1>3, <1>4, <1>5

\* The quarter after a proposal holds every day the proposal is made on.
LEMMA ProposalIsLast ==
    ASSUME NEW d \in Int, NEW y \in Int, NEW m \in 1..12, InMonth(d, y, m)
    PROVE  LET to == Proposal(y, (m - 1) \div 3 + 1).to IN to < d /\ d <= to + 92
  <1>. DEFINE q == (m - 1) \div 3 + 1
  <1>1. q \in 1..4 /\ 3 * q - 2 <= m /\ m <= 3 * q OBVIOUS
  <1>2. Proposal(y, q).to = FirstOf(y, 3 * q - 2) - 1 BY DEF Proposal
  <1>. HIDE DEF q
  <1>3. 3 * q - 2 \in 1..12 /\ 3 * q \in 1..12 BY <1>1
  <1>4. /\ FirstOf(y, 3 * q - 2) \in Int /\ FirstOf(y, 3 * q) \in Int
        /\ FirstOf(y, m) \in Int /\ NextFirst(y, m) \in Int /\ NextFirst(y, 3 * q) \in Int
    BY <1>3, MonthBounds
  <1>5. FirstOf(y, 3 * q - 2) <= FirstOf(y, m)
    BY <1>1, <1>3, <1>4, MonthsInOrder
  <1>6. NextFirst(y, m) <= NextFirst(y, 3 * q)
    <2>1. CASE m < 3 * q
      <3>1. m + 1 \in 1..12 /\ NextFirst(y, m) = FirstOf(y, m + 1)
        BY <1>3, <2>1 DEF NextFirst
      <3>2. FirstOf(y, m + 1) <= FirstOf(y, 3 * q)
        <4>1. CASE m + 1 < 3 * q
          <5>1. FirstOf(y, m + 1) + 28 <= FirstOf(y, 3 * q)
            BY <1>3, <3>1, <4>1, MonthsInOrder
          <5>2. FirstOf(y, m + 1) \in Int BY <3>1, MonthBounds
          <5>. QED BY <1>4, <5>1, <5>2
        <4>2. CASE m + 1 = 3 * q BY <1>4, <4>2
        <4>. QED BY <1>3, <2>1, <4>1, <4>2
      <3>3. FirstOf(y, 3 * q) < NextFirst(y, 3 * q) BY <1>3, MonthBounds
      <3>. QED BY <1>4, <3>1, <3>2, <3>3
    <2>2. CASE m = 3 * q BY <1>4, <2>2
    <2>. QED BY <1>1, <2>1, <2>2
  <1>7. NextFirst(y, 3 * q) <= FirstOf(y, 3 * q - 2) + 92
    <2>1. CASE q = 1
      <3>1. 3 * q - 2 = 1 /\ 3 * q = 3 /\ 3 + 1 = 4 /\ 3 # 12 BY <2>1
      <3>2. /\ FirstOf(y, 4) = FirstOf(y, 1) + 90 + LeapDay(y)
            /\ FirstOf(y, 1) \in Int /\ LeapDay(y) \in {0, 1}
        BY MonthStarts
      <3>3. NextFirst(y, 3) = FirstOf(y, 4) BY <3>1 DEF NextFirst
      <3>. QED BY <3>1, <3>2, <3>3
    <2>2. CASE q = 2
      <3>1. 3 * q - 2 = 4 /\ 3 * q = 6 /\ 6 + 1 = 7 /\ 6 # 12 BY <2>2
      <3>2. /\ FirstOf(y, 4) = FirstOf(y, 1) + 90 + LeapDay(y)
            /\ FirstOf(y, 7) = FirstOf(y, 1) + 181 + LeapDay(y)
            /\ FirstOf(y, 1) \in Int /\ LeapDay(y) \in {0, 1}
        BY MonthStarts
      <3>3. NextFirst(y, 6) = FirstOf(y, 7) BY <3>1 DEF NextFirst
      <3>. QED BY <3>1, <3>2, <3>3
    <2>3. CASE q = 3
      <3>1. 3 * q - 2 = 7 /\ 3 * q = 9 /\ 9 + 1 = 10 /\ 9 # 12 BY <2>3
      <3>2. /\ FirstOf(y, 7) = FirstOf(y, 1) + 181 + LeapDay(y)
            /\ FirstOf(y, 10) = FirstOf(y, 1) + 273 + LeapDay(y)
            /\ FirstOf(y, 1) \in Int /\ LeapDay(y) \in {0, 1}
        BY MonthStarts
      <3>3. NextFirst(y, 9) = FirstOf(y, 10) BY <3>1 DEF NextFirst
      <3>. QED BY <3>1, <3>2, <3>3
    <2>4. CASE q = 4
      <3>1. 3 * q - 2 = 10 /\ 3 * q = 12 BY <2>4
      <3>2. /\ FirstOf(y, 10) = FirstOf(y, 1) + 273 + LeapDay(y)
            /\ FirstOf(y, 1) \in Int /\ LeapDay(y) \in {0, 1}
            /\ FirstOf(y + 1, 1) = FirstOf(y, 1) + 365 + LeapDay(y)
        BY MonthStarts
      <3>3. NextFirst(y, 12) = FirstOf(y + 1, 1) BY DEF NextFirst
      <3>. QED BY <3>1, <3>2, <3>3
    <2>. QED BY <1>1, <2>1, <2>2, <2>3, <2>4
  <1>8. FirstOf(y, m) <= d /\ d < NextFirst(y, m) BY DEF InMonth
  <1>9. Proposal(y, q).to < d /\ d <= Proposal(y, q).to + 92
    BY <1>2, <1>4, <1>5, <1>6, <1>7, <1>8
  <1>. QED BY <1>9 DEF q

-----------------------------------------------------------------------------
(* Thirteen months.                                                        *)

LEMMA ThirteenMonths ==
    ASSUME NEW y \in Int, NEW m \in 1..12
    PROVE  /\ FirstOf(y, m) \in Int /\ NextFirst(y + 1, m) \in Int
           /\ FirstOf(y, m) < NextFirst(y + 1, m)
           /\ NextFirst(y + 1, m) <= FirstOf(y, m) + 397
  <1>1. ASSUME NEW z \in Int, NEW n \in 1..12
        PROVE  FirstOf(z, n) = FirstOf(z, 1) + (367 * n - 362) \div 12
                               - (IF n <= 2 THEN 0 ELSE 2 - LeapDay(z))
    BY DEF FirstOf, LeapDay
  <1>2. /\ FirstOf(y, 1) \in Int /\ LeapDay(y) \in {0, 1} /\ LeapDay(y + 1) \in {0, 1}
        /\ FirstOf(y + 1, 1) = FirstOf(y, 1) + 365 + LeapDay(y)
        /\ FirstOf(y + 1 + 1, 1) = FirstOf(y + 1, 1) + 365 + LeapDay(y + 1)
    BY MonthStarts
  <1>3. FirstOf(y, m) = FirstOf(y, 1) + (367 * m - 362) \div 12
                        - (IF m <= 2 THEN 0 ELSE 2 - LeapDay(y))
    BY <1>1
  <1>4. CASE m = 12
    <2>1. NextFirst(y + 1, m) = FirstOf(y + 1 + 1, 1) BY <1>4 DEF NextFirst
    <2>2. (367 * 12 - 362) \div 12 = 336 OBVIOUS
    <2>. QED BY <1>2, <1>3, <1>4, <2>1, <2>2
  <1>5. CASE m < 12
    <2>1. NextFirst(y + 1, m) = FirstOf(y + 1, m + 1) /\ m + 1 \in 1..12
      BY <1>5 DEF NextFirst
    <2>2. FirstOf(y + 1, m + 1) = FirstOf(y + 1, 1) + (367 * (m + 1) - 362) \div 12
                                  - (IF m + 1 <= 2 THEN 0 ELSE 2 - LeapDay(y + 1))
      BY <1>1, <2>1
    <2>3. /\ (367 * (m + 1) - 362) \div 12 - (367 * m - 362) \div 12 \in {30, 31}
          /\ (367 * (m + 1) - 362) \div 12 \in Int /\ (367 * m - 362) \div 12 \in Int
      OBVIOUS
    <2>. QED BY <1>2, <1>3, <1>5, <2>1, <2>2, <2>3
  <1>. QED BY <1>4, <1>5

-----------------------------------------------------------------------------
(* Every day of a behaviour is in a month of its years.                    *)

Dated ==
    /\ today \in Int /\ today <= FirstOf(LastYear, 12)
    /\ \E y \in FirstYear..LastYear, m \in 1..12 : InMonth(today, y, m)

\* The day after is in the same month, or the first of the next.
LEMMA DayAfter ==
    ASSUME NEW d \in Int, NEW y \in FirstYear..LastYear, NEW m \in 1..12,
           InMonth(d, y, m), d < FirstOf(LastYear, 12)
    PROVE  \/ InMonth(d + 1, y, m)
           \/ m < 12 /\ InMonth(d + 1, y, m + 1)
           \/ m = 12 /\ y + 1 \in FirstYear..LastYear /\ InMonth(d + 1, y + 1, 1)
  <1>1. y \in Int /\ y + 1 \in Int BY QuarterAssumption
  <1>2. FirstOf(y, m) \in Int /\ NextFirst(y, m) \in Int BY <1>1, MonthBounds
  <1>3. FirstOf(y, m) <= d /\ d < NextFirst(y, m) BY DEF InMonth
  <1>4. CASE d + 1 < NextFirst(y, m) BY <1>2, <1>3, <1>4 DEF InMonth
  <1>5. CASE d + 1 = NextFirst(y, m) /\ m < 12
    <2>1. m + 1 \in 1..12 /\ NextFirst(y, m) = FirstOf(y, m + 1) BY <1>5 DEF NextFirst
    <2>2. FirstOf(y, m + 1) < NextFirst(y, m + 1) /\ FirstOf(y, m + 1) \in Int
      BY <1>1, <2>1, MonthBounds
    <2>. QED BY <1>5, <2>1, <2>2 DEF InMonth
  <1>6. CASE d + 1 = NextFirst(y, m) /\ m = 12
    <2>1. NextFirst(y, m) = FirstOf(y + 1, 1) BY <1>6 DEF NextFirst
    <2>2. FirstOf(y + 1, 1) < NextFirst(y + 1, 1) /\ FirstOf(y + 1, 1) \in Int
      BY <1>1, MonthBounds
    <2>3. y # LastYear BY <1>2, <1>3, <1>6
    <2>4. y + 1 \in FirstYear..LastYear BY <2>3, QuarterAssumption
    <2>. QED BY <1>6, <2>1, <2>2, <2>4 DEF InMonth
  <1>. QED BY <1>2, <1>3, <1>4, <1>5, <1>6

LEMMA DaysDated == Spec => []Dated
  <1>1. Init => Dated
    <2>. SUFFICES ASSUME Init PROVE Dated OBVIOUS
    <2>1. FirstYear \in Int /\ LastYear \in Int /\ FirstYear \in FirstYear..LastYear
      BY QuarterAssumption
    <2>2. /\ FirstOf(FirstYear, 1) \in Int /\ FirstOf(LastYear, 1) \in Int
          /\ FirstOf(LastYear, 12) \in Int
      BY <2>1, MonthBounds
    <2>3. FirstOf(FirstYear, 1) < NextFirst(FirstYear, 1) BY <2>1, MonthBounds
    <2>4. InMonth(today, FirstYear, 1) BY <2>2, <2>3 DEF Init, InMonth
    <2>5. FirstOf(LastYear, 1) + 28 <= FirstOf(LastYear, 12) BY <2>1, MonthsInOrder
    <2>6. FirstOf(FirstYear, 1) <= FirstOf(LastYear, 1)
      <3>1. CASE FirstYear = LastYear BY <2>2, <3>1
      <3>2. CASE FirstYear < LastYear
        <4>1. FirstOf(FirstYear + 1, 1) <= FirstOf(LastYear, 1)
          BY <2>1, <3>2, YearsInOrder
        <4>2. /\ FirstOf(FirstYear + 1, 1) = FirstOf(FirstYear, 1) + 365 + LeapDay(FirstYear)
              /\ LeapDay(FirstYear) \in {0, 1}
          BY <2>1, MonthStarts
        <4>. QED BY <2>2, <4>1, <4>2
      <3>. QED BY <3>1, <3>2, QuarterAssumption
    <2>. QED BY <2>1, <2>2, <2>4, <2>5, <2>6 DEF Init, Dated
  <1>2. Dated /\ [Next]_today => Dated'
    <2>. SUFFICES ASSUME Dated, [Next]_today PROVE Dated' OBVIOUS
    <2>1. CASE Next
      <3>1. today < FirstOf(LastYear, 12) /\ today' = today + 1 BY <2>1 DEF Next
      <3>2. today \in Int /\ FirstOf(LastYear, 12) \in Int
        BY QuarterAssumption, MonthBounds DEF Dated
      <3>3. PICK y \in FirstYear..LastYear, m \in 1..12 : InMonth(today, y, m) BY DEF Dated
      <3>4. \/ InMonth(today + 1, y, m)
            \/ m < 12 /\ InMonth(today + 1, y, m + 1)
            \/ m = 12 /\ y + 1 \in FirstYear..LastYear /\ InMonth(today + 1, y + 1, 1)
        BY <3>1, <3>2, <3>3, DayAfter
      <3>5. \E z \in FirstYear..LastYear, n \in 1..12 : InMonth(today + 1, z, n)
        BY <3>4
      <3>6. (\E z \in FirstYear..LastYear, n \in 1..12 : InMonth(today, z, n))'
        BY <3>1, <3>5 DEF InMonth, NextFirst, FirstOf
      <3>. QED BY <3>1, <3>2, <3>6 DEF Dated, FirstOf
    <2>2. CASE UNCHANGED today BY <2>2 DEF Dated, InMonth, NextFirst, FirstOf
    <2>. QED BY <2>1, <2>2
  <1>. QED BY <1>1, <1>2, PTL DEF Spec

-----------------------------------------------------------------------------
(* What the form proposes, and what the export accepts.                    *)

\* The proposal is the quarter closed last, and the export takes it: in every
\* year, if its bound lets a quarter pass and the calendar goes that far.
THEOREM ClosedQuarterProposed ==
    ASSUME MaxRangeDays >= 91, FirstOf(LastYear, 12) <= LastDay
    PROVE  Spec => []ProposesClosedQuarter
  <1>1. Dated => ProposesClosedQuarter
    <2>. SUFFICES ASSUME Dated PROVE ProposesClosedQuarter OBVIOUS
    <2>1. today \in Int /\ today <= FirstOf(LastYear, 12) BY DEF Dated
    <2>2. PICK y \in FirstYear..LastYear, m \in 1..12 : InMonth(today, y, m) BY DEF Dated
    <2>3. y \in Int /\ LastYear \in Int BY QuarterAssumption
    <2>. DEFINE q == (m - 1) \div 3 + 1
    <2>4. q \in 1..4 OBVIOUS
    <2>5. LastFullQuarter(today) = Proposal(y, q) BY <2>1, <2>2, ProposalOf
    <2>6. Proposal(y, q).to < today /\ today <= Proposal(y, q).to + 92
      BY <2>1, <2>2, <2>3, ProposalIsLast
    <2>. HIDE DEF q
    <2>7. /\ Proposal(y, q).from \in Int /\ Proposal(y, q).to \in Int
          /\ Proposal(y, q).from + 89 <= Proposal(y, q).to
          /\ Proposal(y, q).to <= Proposal(y, q).from + 91
      BY <2>3, <2>4, ProposalBounds
    <2>8. FirstOf(LastYear, 12) \in Int BY <2>3, MonthBounds
    <2>9. RangeAccepted(Proposal(y, q).from, Proposal(y, q).to)
      BY <2>1, <2>6, <2>7, <2>8, CalendarAssumption DEF RangeAccepted
    <2>. QED BY <2>5, <2>6, <2>9 DEF ProposesClosedQuarter
  <1>. QED BY <1>1, DaysDated, PTL

\* From one day to the next the proposal stays or moves to the days right
\* after it, whatever the years.
THEOREM ProposalsFollow == Spec => ProposalsAbut
  <1>. DEFINE Abut ==
           LastFullQuarter(today') = LastFullQuarter(today)
           \/ LastFullQuarter(today').from = LastFullQuarter(today).to + 1
  <1>1. Dated /\ Next => Abut
    <2>. SUFFICES ASSUME Dated, Next PROVE Abut OBVIOUS
    <2>1. today < FirstOf(LastYear, 12) /\ today' = today + 1 /\ today \in Int
          /\ today + 1 \in Int
      BY DEF Next, Dated
    <2>2. PICK y \in FirstYear..LastYear, m \in 1..12 : InMonth(today, y, m) BY DEF Dated
    <2>3. y \in Int BY QuarterAssumption
    <2>. DEFINE q == (m - 1) \div 3 + 1
    <2>4. LastFullQuarter(today) = Proposal(y, q) BY <2>1, <2>2, ProposalOf
    <2>5. CASE InMonth(today + 1, y, m)
      <3>1. LastFullQuarter(today + 1) = Proposal(y, q) BY <2>1, <2>5, ProposalOf
      <3>. QED BY <2>1, <2>4, <3>1
    <2>6. CASE m < 12 /\ InMonth(today + 1, y, m + 1)
      <3>1. m + 1 \in 1..12 BY <2>6
      <3>2. LastFullQuarter(today + 1) = Proposal(y, (m + 1 - 1) \div 3 + 1)
        BY <2>1, <2>6, <3>1, ProposalOf
      <3>3. (m + 1 - 1) \div 3 + 1 = q \/ (m + 1 - 1) \div 3 + 1 = q + 1 OBVIOUS
      <3>4. Proposal(y, q + 1).from = Proposal(y, q).to + 1
        <4>1. q \in 1..4 OBVIOUS
        <4>. HIDE DEF q
        <4>2. q + 1 # 1 /\ 3 * (q + 1) - 5 = 3 * q - 2 /\ 3 * q - 2 \in Int BY <4>1
        <4>3. FirstOf(y, 3 * q - 2) \in Int BY <2>3, <4>2 DEF FirstOf
        <4>. QED BY <4>2, <4>3 DEF Proposal
      <3>. QED BY <2>1, <2>4, <3>2, <3>3, <3>4
    <2>7. CASE m = 12 /\ y + 1 \in FirstYear..LastYear /\ InMonth(today + 1, y + 1, 1)
      <3>1. LastFullQuarter(today + 1) = Proposal(y + 1, (1 - 1) \div 3 + 1)
        BY <2>1, <2>7, ProposalOf
      <3>2. (1 - 1) \div 3 + 1 = 1 /\ y + 1 - 1 = y BY <2>3
      <3>3. q = 4 BY <2>7
      <3>4. FirstOf(y, 10) \in Int BY <2>3, MonthBounds
      <3>5. Proposal(y + 1, 1).from = FirstOf(y, 10) BY <3>2 DEF Proposal
      <3>6. Proposal(y, 4).to = FirstOf(y, 10) - 1 BY DEF Proposal
      <3>. QED BY <2>1, <2>4, <3>1, <3>2, <3>3, <3>4, <3>5, <3>6
    <2>. QED BY <2>1, <2>2, <2>5, <2>6, <2>7, DayAfter
  <1>2. Dated /\ [Next]_today =>
           [LET range == LastFullQuarter(today)
                next == LastFullQuarter(today')
            IN  next = range \/ next.from = range.to + 1]_today
    BY <1>1
  <1>. QED BY <1>2, DaysDated, PTL DEF Spec, ProposalsAbut

\* A full year and the month after it fit the widest range, whichever month
\* it begins with, in every year.
THEOREM ThirteenMonthsAccepted ==
    ASSUME MaxRangeDays >= 396, FirstOf(LastYear + 2, 1) <= LastDay
    PROVE  Spec => []YearAndOverlapAccepted
  <1>1. Dated => YearAndOverlapAccepted
    <2>. SUFFICES ASSUME Dated PROVE YearAndOverlapAccepted OBVIOUS
    <2>1. PICK y \in FirstYear..LastYear, m \in 1..12 : InMonth(today, y, m) BY DEF Dated
    <2>2. y \in Int /\ LastYear \in Int /\ y <= LastYear BY QuarterAssumption
    <2>3. YearOf(today) = y /\ MonthOf(today) = m BY <2>1, DateOf DEF Dated
    <2>4. NextFirst(y + 1, m) = IF m = 12 THEN FirstOf(y + 2, 1) ELSE FirstOf(y + 1, m + 1)
      <3>1. y + 1 + 1 = y + 2 BY <2>2
      <3>. QED BY <3>1 DEF NextFirst
    <2>5. /\ FirstOf(y, m) \in Int /\ NextFirst(y + 1, m) \in Int
          /\ FirstOf(y, m) < NextFirst(y + 1, m)
          /\ NextFirst(y + 1, m) <= FirstOf(y, m) + 397
      BY <2>2, ThirteenMonths
    <2>6. NextFirst(y + 1, m) <= LastDay
      <3>1. y + 1 \in Int /\ LastYear + 2 \in Int /\ y + 1 < LastYear + 2 BY <2>2
      <3>2. NextFirst(y + 1, m) <= FirstOf(y + 1 + 1, 1) BY <3>1, MonthBounds
      <3>3. FirstOf(y + 1 + 1, 1) <= FirstOf(LastYear + 2, 1) BY <3>1, YearsInOrder
      <3>4. FirstOf(y + 1 + 1, 1) \in Int /\ FirstOf(LastYear + 2, 1) \in Int
        BY <3>1, MonthBounds
      <3>. QED BY <2>5, <3>2, <3>3, <3>4, CalendarAssumption
    <2>7. RangeAccepted(FirstOf(y, m), NextFirst(y + 1, m) - 1)
      BY <2>5, <2>6, CalendarAssumption DEF RangeAccepted
    <2>. QED BY <2>3, <2>4, <2>7 DEF YearAndOverlapAccepted
  <1>. QED BY <1>1, DaysDated, PTL
=============================================================================
