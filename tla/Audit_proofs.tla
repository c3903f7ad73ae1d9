---------------------------- MODULE Audit_proofs ----------------------------
(***************************************************************************)
(* Proofs about AuditLog, for every number of tabs, every page size, every *)
(* largest page and whatever the workflow writes meanwhile.                *)
(*   FiniteHistory  case_actions can be counted                            *)
(*   AllWithin      a tab stays within the rows that match                 *)
(*   AllAhead       what a walk has not shown is on pages to come          *)
(***************************************************************************)
EXTENDS AuditLog, History_proofs, FiniteSetTheorems

\* What an invariant of the workflow says holds while auditors read.
LEMMA AuditRunsWorkflow == AuditSpec => Spec
  <1>1. AuditInit => Init BY DEF AuditInit
  <1>2. [AuditNext]_auditVars => [Next]_vars BY DEF AuditNext, auditVars
  <1>. QED BY <1>1, <1>2, PTL DEF AuditSpec, Spec

FiniteHistory == IsFiniteSet(caseActions)

LEMMA FiniteStep ==
    ASSUME Typed, Locked, FiniteHistory, [Next]_vars
    PROVE  FiniteHistory'
  <1>1. ASSUME NEW r \in Req, Start(r) \/ Step(r) \/ Cancel(r) PROVE FiniteHistory'
    <2>1. CASE UNCHANGED caseActions BY <2>1 DEF FiniteHistory
    <2>2. ASSUME NEW row, caseActions' = caseActions \cup {row} PROVE FiniteHistory'
      BY <2>2, FS_AddElement DEF FiniteHistory
    <2>. QED BY <1>1, <2>1, <2>2, RequestTime DEF Appends
  <1>2. UNCHANGED caseActions => FiniteHistory' BY DEF FiniteHistory
  <1>3. ASSUME NEW p \in Report, Submit(p) PROVE FiniteHistory' BY <1>2, <1>3 DEF Submit
  <1>4. ASSUME NEW u \in User, Framework(u) PROVE FiniteHistory'
    BY <1>2, <1>4, FrameworkQuiet DEF tables
  <1>5. UNCHANGED vars => FiniteHistory' BY <1>2 DEF vars, tables
  <1>. QED BY <1>1, <1>3, <1>4, <1>5 DEF Next, Quiescent

LEMMA HistoryIsFinite == Spec => []FiniteHistory
  <1>1. Init => FiniteHistory BY FS_EmptySet DEF Init, FiniteHistory
  <1>. QED BY <1>1, FiniteStep, Layered, PTL DEF Spec

LEMMA MatchingFinite ==
    ASSUME FiniteHistory, NEW f
    PROVE  IsFiniteSet(Matching(f)) /\ Cardinality(Matching(f)) \in Nat
  <1>1. Matching(f) \in SUBSET caseActions BY DEF Matching
  <1>2. IsFiniteSet(Matching(f)) BY <1>1, FS_Subset DEF FiniteHistory
  <1>. QED BY <1>2, FS_CardinalityType

\* Rows only join what a filter matches.
LEMMA MatchingGrows ==
    ASSUME FiniteHistory', caseActions \subseteq caseActions', NEW f
    PROVE  /\ Matching(f) \subseteq Matching(f)'
           /\ Cardinality(Matching(f)) <= Cardinality(Matching(f)')
  <1>1. Matching(f) \in SUBSET Matching(f)' BY DEF Matching
  <1>2. IsFiniteSet(Matching(f)')
    <2>1. Matching(f)' \in SUBSET caseActions' BY DEF Matching
    <2>. QED BY <2>1, FS_Subset DEF FiniteHistory
  <1>. QED BY <1>1, <1>2, FS_Subset

-----------------------------------------------------------------------------
(* LIMIT and OFFSET.                                                       *)

\* The first n rows in the order of the list are n rows, or all of them.
LEMMA NewestCounted ==
    ASSUME NEW rows, IsFiniteSet(rows), NEW n \in Nat, NEW first \in Newest(rows, n)
    PROVE  /\ first \in SUBSET rows /\ IsFiniteSet(first)
           /\ Cardinality(rows) <= n => first = rows
           /\ Cardinality(rows) > n => Cardinality(first) = n
  <1>1. Cardinality(rows) \in Nat BY FS_CardinalityType
  <1>2. CASE Cardinality(rows) <= n
    BY <1>1, <1>2 DEF Newest
  <1>3. CASE Cardinality(rows) > n
    <2>1. first \in SUBSET rows /\ Cardinality(first) = n BY <1>1, <1>3 DEF Newest
    <2>. QED BY <1>1, <1>3, <2>1, FS_Subset
  <1>. QED BY <1>1, <1>2, <1>3

\* Where times differ, a row is among the first n exactly when fewer than
\* n rows are newer.
LEMMA NewestRanked ==
    ASSUME NEW rows, IsFiniteSet(rows), NEW n \in Nat, NEW first \in Newest(rows, n),
           NEW b \in rows, \A a \in rows : a.at \in Nat,
           \A a \in rows : a.at = b.at => a = b
    PROVE  LET newer == {a \in rows : a.at > b.at} IN
           b \in first <=> Cardinality(newer) < n
  <1>. DEFINE newer == {a \in rows : a.at > b.at}
  <1>1. /\ newer \in SUBSET rows /\ IsFiniteSet(newer) /\ Cardinality(newer) \in Nat
        /\ Cardinality(rows) \in Nat
    <2>1. newer \in SUBSET rows OBVIOUS
    <2>. QED BY <2>1, FS_Subset, FS_CardinalityType
  <1>2. first \in SUBSET rows /\ IsFiniteSet(first) BY NewestCounted
  <1>3. CASE Cardinality(rows) <= n
    <2>1. b \in first BY <1>3, NewestCounted
    <2>2. newer \in SUBSET (rows \ {b}) OBVIOUS
    <2>3. IsFiniteSet(rows \ {b}) /\ Cardinality(rows \ {b}) = Cardinality(rows) - 1
      BY FS_RemoveElement
    <2>4. Cardinality(newer) <= Cardinality(rows) - 1 BY <2>2, <2>3, FS_Subset
    <2>. QED BY <1>1, <1>3, <2>1, <2>4
  <1>4. CASE Cardinality(rows) > n
    <2>1. Cardinality(first) = n BY <1>4, NewestCounted
    <2>2. \A a \in first, c \in rows \ first : c.at <= a.at
      BY <1>1, <1>4 DEF Newest
    <2>3. ASSUME b \in first PROVE Cardinality(newer) < n
      <3>1. newer \in SUBSET (first \ {b})
        <4>. SUFFICES ASSUME NEW a \in newer PROVE a \in first /\ a # b OBVIOUS
        <4>1. a # b OBVIOUS
        <4>2. a \in first BY <2>2, <2>3
        <4>. QED BY <4>1, <4>2
      <3>2. IsFiniteSet(first \ {b}) /\ Cardinality(first \ {b}) = n - 1
        BY <1>2, <2>1, <2>3, FS_RemoveElement
      <3>3. Cardinality(newer) <= n - 1 BY <3>1, <3>2, FS_Subset
      <3>. QED BY <1>1, <3>3
    <2>4. ASSUME b \notin first PROVE Cardinality(newer) >= n
      <3>1. first \in SUBSET newer
        <4>. SUFFICES ASSUME NEW a \in first PROVE a \in newer OBVIOUS
        <4>1. a \in rows /\ a # b /\ b.at <= a.at BY <1>2, <2>2, <2>4
        <4>. QED BY <4>1
      <3>. QED BY <1>1, <2>1, <3>1, FS_Subset
    <2>. QED BY <1>1, <2>3, <2>4
  <1>. QED BY <1>1, <1>3, <1>4

\* The rows up to the end of page p are PageSize more than those before it.
LEMMA PageBounds ==
    ASSUME NEW p \in Nat \ {0}
    PROVE  /\ (p - 1) * PageSize \in Nat /\ p * PageSize \in Nat
           /\ p * PageSize = (p - 1) * PageSize + PageSize
           /\ (p - 1) * PageSize < p * PageSize
  <1>1. PageSize \in Nat \ {0} BY AuditAssumption
  <1>2. (p - 1) * PageSize \in Nat /\ p * PageSize \in Nat BY <1>1
  <1>3. p * PageSize = (p - 1) * PageSize + PageSize BY <1>1
  <1>. QED BY <1>1, <1>2, <1>3

\* The pager offers Next exactly when rows follow the page.
LEMMA NextMeansMore ==
    ASSUME NEW x, x.total \in Nat, x.page \in Nat \ {0}
    PROVE  NextOffered(x) <=> x.total > x.page * PageSize
  <1>. DEFINE q == Pages(x.total)
              n == x.total + PageSize - 1
  <1>1. PageSize \in Nat \ {0} BY AuditAssumption
  <1>2. q \in Int /\ q * PageSize <= n /\ n < (q + 1) * PageSize
    BY <1>1 DEF Pages
  <1>3. \A i, j \in Int : i <= j => i * PageSize <= j * PageSize BY <1>1
  <1>. HIDE DEF q
  <1>4. x.page < q => x.total > x.page * PageSize
    <2>. SUFFICES ASSUME x.page < q PROVE x.total > x.page * PageSize OBVIOUS
    <2>1. (x.page + 1) * PageSize <= q * PageSize BY <1>2, <1>3
    <2>2. (x.page + 1) * PageSize = x.page * PageSize + PageSize BY <1>1
    <2>. QED BY <1>1, <1>2, <2>1, <2>2
  <1>5. x.total > x.page * PageSize => x.page < q /\ x.total > PageSize
    <2>. SUFFICES ASSUME x.total > x.page * PageSize PROVE x.page < q /\ x.total > PageSize
      OBVIOUS
    <2>1. 1 * PageSize <= x.page * PageSize BY <1>3
    <2>2. ASSUME q <= x.page PROVE FALSE
      <3>1. (q + 1) * PageSize <= (x.page + 1) * PageSize BY <1>2, <1>3, <2>2
      <3>2. (x.page + 1) * PageSize = x.page * PageSize + PageSize BY <1>1
      <3>. QED BY <1>1, <1>2, <3>1, <3>2
    <2>. QED BY <1>1, <1>2, <2>1, <2>2
  <1>. QED BY <1>4, <1>5 DEF NextOffered, q

-----------------------------------------------------------------------------
(* What a tab may do.                                                      *)

\* A request for page n of filter f that starts a walk or jumps anywhere.
Asked(f, n) ==
    [Closed EXCEPT !.stage = "list", !.filter = f, !.page = n,
                   !.walk = IF n = 1 THEN "fresh" ELSE "off"]

\* A request for page n by a link of the pager.
Turned(x, n) == [x EXCEPT !.stage = "list", !.page = n, !.rows = {}]

Listed(x, rows, before, upto) ==
    [x EXCEPT !.stage = "count", !.rows = upto \ before,
              !.walk = IF x.walk = "fresh" THEN "on" ELSE x.walk,
              !.base = IF x.walk = "fresh" THEN rows ELSE x.base,
              !.seen = x.seen \cup (upto \ before)]

Counted(x, n) == [x EXCEPT !.stage = "shown", !.total = n]

\* What a step of a tab in state x makes of it.
TabMoves(x, y) ==
    \/ y = Closed
    \/ \E f \in Filter, n \in 1..MaxPage : y = Asked(f, n)
    \/ \E n \in 1..MaxPage :
          /\ x.stage = "shown" /\ y = Turned(x, n)
          /\ n <= x.page \/ (NextOffered(x) /\ n = x.page + 1)
    \/ /\ x.stage = "list"
       /\ \E before \in Newest(Matching(x.filter), (x.page - 1) * PageSize),
             upto \in Newest(Matching(x.filter), x.page * PageSize) :
             /\ before \subseteq upto
             /\ y = Listed(x, Matching(x.filter), before, upto)
    \/ x.stage = "count" /\ y = Counted(x, Cardinality(Matching(x.filter)))

LEMMA ClampRange == \A n \in Int : Clamp(n) \in 1..MaxPage
  BY AuditAssumption DEF Clamp

LEMMA TabStepMoves ==
    ASSUME AuditTypeOK, TypeOK, NEW t \in Auditor, TabStep(t)
    PROVE  \E y : TabMoves(rd[t], y) /\ rd' = [rd EXCEPT ![t] = y]
  <1>. DEFINE x == rd[t]
  <1>0. x \in Tab BY DEF AuditTypeOK
  <1>1. ASSUME NEW y, Visit(t, y), TabMoves(x, y)
        PROVE  \E z : TabMoves(rd[t], z) /\ rd' = [rd EXCEPT ![t] = z]
    <2>1. PICK u \in User : rd' = [rd EXCEPT ![t] = IF RequireRole(u, "supervisor") THEN y ELSE Closed]
      BY <1>1 DEF Visit
    <2>2. TabMoves(x, Closed) BY DEF TabMoves
    <2>. QED BY <1>1, <2>1, <2>2
  <1>2. ASSUME NEW f \in Filter, NEW n \in Int, Open(t, f, n)
        PROVE  \E z : TabMoves(rd[t], z) /\ rd' = [rd EXCEPT ![t] = z]
    <2>1. Visit(t, Asked(f, Clamp(n))) BY <1>2 DEF Open, Asked, Following
    <2>2. TabMoves(x, Asked(f, Clamp(n))) BY ClampRange DEF TabMoves
    <2>. QED BY <1>1, <2>1, <2>2
  <1>3. ASSUME NEW n \in Int, x.stage = "shown", Turn(t, n),
               n <= x.page \/ (NextOffered(x) /\ n = x.page + 1), n >= 1
        PROVE  \E z : TabMoves(rd[t], z) /\ rd' = [rd EXCEPT ![t] = z]
    <2>1. Visit(t, Turned(x, Clamp(n))) BY <1>3 DEF Turn, Turned, Following
    <2>2. Clamp(n) = n \/ Clamp(n) <= x.page
      BY <1>0, <1>3, AuditAssumption DEF Clamp, Tab
    <2>3. TabMoves(x, Turned(x, Clamp(n))) BY <1>3, <2>2, ClampRange DEF TabMoves
    <2>. QED BY <1>1, <2>1, <2>3
  <1>4. NoFilter \in Filter BY DEF NoFilter, Filter
  <1>5. x.filter \in Filter /\ x.page \in 1..MaxPage /\ x.rows \subseteq ActionRow BY <1>0 DEF Tab
  <1>6. CASE TypeUrl(t) BY <1>2, <1>6, AuditAssumption DEF TypeUrl
  <1>7. CASE ClickNext(t)
    <2>1. x.page + 1 \in Int /\ x.page + 1 >= 1 BY <1>5, AuditAssumption
    <2>. QED BY <1>3, <1>7, <2>1 DEF ClickNext
  <1>8. CASE ClickPrev(t)
    <2>1. x.page - 1 \in Int /\ x.page - 1 >= 1 /\ x.page - 1 <= x.page
      BY <1>5, <1>8, AuditAssumption DEF ClickPrev, PrevOffered
    <2>. QED BY <1>3, <1>8, <2>1 DEF ClickPrev
  <1>9. CASE SubmitForm(t) BY <1>2, <1>9, AuditAssumption DEF SubmitForm
  <1>10. CASE ClickChip(t)
    <2>1. PICK field \in FilterFields : Open(t, [x.filter EXCEPT ![field] = Null], 1)
      BY <1>10 DEF ClickChip
    <2>2. [x.filter EXCEPT ![field] = Null] \in Filter BY <1>5 DEF Filter, FilterFields
    <2>. QED BY <1>2, <2>1, <2>2
  <1>11. CASE ClickRow(t)
    <2>1. PICK a \in x.rows : \/ Open(t, [NoFilter EXCEPT !.corr = a.corr], 1)
                              \/ Open(t, [NoFilter EXCEPT !.actor = a.actor], 1)
      BY <1>11 DEF ClickRow
    <2>2. a.corr \in Req /\ a.actor \in User BY <1>5 DEF ActionRow
    <2>3. /\ [NoFilter EXCEPT !.corr = a.corr] \in Filter
          /\ [NoFilter EXCEPT !.actor = a.actor] \in Filter
      BY <2>2 DEF NoFilter, Filter
    <2>. QED BY <1>2, <2>1, <2>3
  <1>12. CASE ListRows(t)
    <2>1. PICK before \in Newest(Matching(x.filter), (x.page - 1) * PageSize),
               upto \in Newest(Matching(x.filter), x.page * PageSize) :
             before \subseteq upto
             /\ rd' = [rd EXCEPT
                ![t].stage = Following["list"],
                ![t].rows = upto \ before,
                ![t].walk = IF x.walk = "fresh" THEN "on" ELSE x.walk,
                ![t].base = IF x.walk = "fresh" THEN Matching(x.filter) ELSE x.base,
                ![t].seen = x.seen \cup (upto \ before)]
      BY <1>12 DEF ListRows
    <2>2. rd' = [rd EXCEPT ![t] = Listed(x, Matching(x.filter), before, upto)]
      BY <2>1 DEF Listed, Following, AuditTypeOK
    <2>3. TabMoves(x, Listed(x, Matching(x.filter), before, upto))
      BY <1>12, <2>1 DEF TabMoves, ListRows
    <2>. QED BY <2>2, <2>3
  <1>13. CASE CountRows(t)
    <2>. DEFINE n == Cardinality(Matching(x.filter))
    <2>1. rd' = [rd EXCEPT ![t] = Counted(x, n)]
      BY <1>13 DEF CountRows, Counted, Following, AuditTypeOK
    <2>2. TabMoves(x, Counted(x, n)) BY <1>13 DEF TabMoves, CountRows
    <2>. QED BY <2>1, <2>2
  <1>14. CASE DropTab(t) BY <1>14 DEF DropTab, TabMoves
  <1>. QED BY <1>6, <1>7, <1>8, <1>9, <1>10, <1>11, <1>12, <1>13, <1>14 DEF TabStep

LEMMA MovesTyped ==
    ASSUME TypeOK, FiniteHistory, NEW x \in Tab, NEW y, TabMoves(x, y)
    PROVE  y \in Tab
  <1>1. Closed \in Tab BY AuditAssumption DEF Closed, Tab, NoFilter, Filter
  <1>2. Matching(x.filter) \subseteq ActionRow BY DEF Matching, TypeOK
  <1>3. ASSUME NEW f \in Filter, NEW n \in 1..MaxPage PROVE Asked(f, n) \in Tab
    BY <1>1, <1>3 DEF Asked, Tab
  <1>4. ASSUME NEW n \in 1..MaxPage PROVE Turned(x, n) \in Tab BY <1>4 DEF Turned, Tab
  <1>5. ASSUME NEW before, NEW n \in Nat, NEW upto \in Newest(Matching(x.filter), n)
        PROVE  Listed(x, Matching(x.filter), before, upto) \in Tab
    <2>1. upto \subseteq ActionRow BY <1>2, <1>5, MatchingFinite, NewestCounted
    <2>2. upto \ before \in SUBSET ActionRow /\ x.seen \cup (upto \ before) \in SUBSET ActionRow
      BY <2>1 DEF Tab
    <2>3. /\ (IF x.walk = "fresh" THEN "on" ELSE x.walk) \in {"off", "fresh", "on"}
          /\ (IF x.walk = "fresh" THEN Matching(x.filter) ELSE x.base) \in SUBSET ActionRow
      BY <1>2 DEF Tab
    <2>. QED BY <2>2, <2>3 DEF Listed, Tab
  <1>6. x.page \in Nat /\ x.page * PageSize \in Nat BY AuditAssumption DEF Tab
  <1>7. Counted(x, Cardinality(Matching(x.filter))) \in Tab BY MatchingFinite DEF Counted, Tab
  <1>. QED BY <1>1, <1>3, <1>4, <1>5, <1>6, <1>7 DEF TabMoves

LEMMA TypesMove ==
    ASSUME Typed, FiniteHistory, AuditTypeOK, [AuditNext]_auditVars
    PROVE  AuditTypeOK'
  <1>1. ASSUME NEW t \in Auditor, TabStep(t) PROVE AuditTypeOK'
    <2>1. PICK y : TabMoves(rd[t], y) /\ rd' = [rd EXCEPT ![t] = y]
      BY <1>1, TabStepMoves DEF Typed
    <2>2. y \in Tab BY <2>1, MovesTyped DEF AuditTypeOK, Typed
    <2>. QED BY <2>1, <2>2 DEF AuditTypeOK
  <1>2. UNCHANGED rd => AuditTypeOK' BY DEF AuditTypeOK
  <1>. QED BY <1>1, <1>2 DEF AuditNext, auditVars

\* Whatever auditors type and click, and whatever is written meanwhile, a tab
\* holds a filter, a page number in range and rows of the history.
THEOREM AuditTyped == AuditSpec => []AuditTypeOK
  <1>1. AuditInit => AuditTypeOK
    BY AuditAssumption DEF AuditInit, AuditTypeOK, Closed, Tab, NoFilter, Filter
  <1>2. Typed /\ FiniteHistory /\ AuditTypeOK /\ [AuditNext]_auditVars => AuditTypeOK'
    BY TypesMove
  <1>. QED BY <1>1, <1>2, AuditRunsWorkflow, HistoryIsFinite, Layered, PTL DEF AuditSpec

\* audit.rs:458-460: the handlers write no type that the filter form lacks.
THEOREM TypesSelectable == AuditSpec => []EveryTypeSelectable
  <1>1. TypeOK => EveryTypeSelectable
    BY DEF TypeOK, ActionRow, ActionType, EveryTypeSelectable, FilterOptions
  <1>. QED BY <1>1, AuditRunsWorkflow, TypeCorrect, PTL

-----------------------------------------------------------------------------
(* The walk.                                                               *)

\* How many rows of the filter are newer than b.
Newer(b, f) == {a \in Matching(f) : a.at > b.at}
Rank(b, f) == Cardinality(Newer(b, f))

\* A tab stays within the rows that match, and what it has counted of them
\* is still there.
Within(x) ==
    /\ x.walk = "fresh" => x.stage = "list" /\ x.page = 1
    /\ x.walk # "off" =>
          x.page = 1 \/ Cardinality(Matching(x.filter)) > (x.page - 1) * PageSize
    /\ x.stage = "shown" => x.total <= Cardinality(Matching(x.filter))
    /\ x.walk = "on" => x.base \subseteq Matching(x.filter)
    /\ x.walk = "on" /\ x.stage \in {"count", "shown"} /\ x.rows = {} => x.base = {}

AllWithin == \A t \in Auditor : Within(rd[t])

\* The rows a walk has not shown yet are on pages to come: no new row and no
\* turn of a page has moved one of them behind the reader.
Ahead(x) ==
    x.walk = "on" =>
       /\ x.stage = "list" =>
             \A b \in x.base \ x.seen : Rank(b, x.filter) >= (x.page - 1) * PageSize
       /\ x.stage \in {"count", "shown"} =>
             \A b \in x.base \ x.seen : Rank(b, x.filter) >= x.page * PageSize
       /\ x.stage = "shown" => x.base \subseteq x.seen \/ x.total > x.page * PageSize

AllAhead == \A t \in Auditor : Ahead(rd[t])

\* No two rows share a created_at.
NoTies == \A a, b \in caseActions : a.at = b.at => a = b

LEMMA WithinMoves ==
    ASSUME TypeOK, FiniteHistory, NEW x \in Tab, NEW y, TabMoves(x, y), Within(x)
    PROVE  Within(y)
  <1>. DEFINE rows == Matching(x.filter)
              N == Cardinality(rows)
  <1>0. /\ x.page \in Nat \ {0} /\ x.total \in Nat /\ x.page * PageSize \in Nat
        /\ PageSize \in Nat \ {0}
        /\ \A p \in Nat \ {0} : (p - 1) * PageSize \in Nat
    BY AuditAssumption, PageBounds DEF Tab
  <1>1. N \in Nat /\ IsFiniteSet(rows) BY MatchingFinite
  <1>2. CASE y = Closed BY <1>2 DEF Within, Closed
  <1>3. ASSUME NEW f, NEW n \in 1..MaxPage, y = Asked(f, n) PROVE Within(y)
    BY <1>3 DEF Within, Asked, Closed
  <1>4. ASSUME NEW n \in 1..MaxPage, x.stage = "shown", y = Turned(x, n),
               n <= x.page \/ (NextOffered(x) /\ n = x.page + 1)
        PROVE  Within(y)
    <2>1. /\ y.stage = "list" /\ y.page = n /\ y.filter = x.filter /\ y.walk = x.walk
          /\ y.base = x.base
      BY <1>4 DEF Turned, Tab
    <2>2. ASSUME x.walk # "off", n # 1 PROVE N > (n - 1) * PageSize
      <3>1. CASE n <= x.page
        <4>1. (n - 1) * PageSize <= (x.page - 1) * PageSize BY <1>0, <3>1
        <4>2. x.page # 1 BY <2>2, <3>1
        <4>3. N > (x.page - 1) * PageSize BY <2>2, <4>2 DEF Within
        <4>. QED BY <1>0, <1>1, <4>1, <4>3
      <3>2. CASE NextOffered(x) /\ n = x.page + 1
        <4>1. x.total > x.page * PageSize BY <1>0, <3>2, NextMeansMore
        <4>2. x.total <= N BY <1>4 DEF Within
        <4>3. n - 1 = x.page BY <1>0, <3>2
        <4>. QED BY <1>0, <1>1, <4>1, <4>2, <4>3
      <3>. QED BY <1>4, <3>1, <3>2
    <2>3. x.walk # "fresh" BY <1>4 DEF Within
    <2>4. x.walk = "on" => x.base \subseteq rows BY DEF Within
    <2>. QED BY <2>1, <2>2, <2>3, <2>4 DEF Within
  <1>5. ASSUME x.stage = "list",
               NEW before \in Newest(rows, (x.page - 1) * PageSize),
               NEW upto \in Newest(rows, x.page * PageSize),
               before \subseteq upto, y = Listed(x, rows, before, upto)
        PROVE  Within(y)
    <2>1. /\ y.stage = "count" /\ y.page = x.page /\ y.filter = x.filter
          /\ y.rows = upto \ before
          /\ y.walk = IF x.walk = "fresh" THEN "on" ELSE x.walk
          /\ y.base = IF x.walk = "fresh" THEN rows ELSE x.base
      BY <1>5 DEF Listed, Tab
    <2>2. y.walk = "on" => y.base \subseteq rows BY <2>1 DEF Within
    <2>3. ASSUME y.walk = "on", upto \subseteq before PROVE rows = {}
      <3>1. x.page = 1 \/ N > (x.page - 1) * PageSize BY <2>1, <2>3 DEF Within
      <3>2. /\ upto = before
            /\ N <= x.page * PageSize => upto = rows
            /\ N > x.page * PageSize => Cardinality(upto) = x.page * PageSize
            /\ N > (x.page - 1) * PageSize => Cardinality(before) = (x.page - 1) * PageSize
            /\ N <= (x.page - 1) * PageSize => before = rows
        <4>1. (x.page - 1) * PageSize \in Nat /\ x.page * PageSize \in Nat BY <1>0
        <4>2. upto = before BY <1>5, <2>3, Zenon
        <4>3. /\ N <= x.page * PageSize => upto = rows
              /\ N > x.page * PageSize => Cardinality(upto) = x.page * PageSize
          BY <1>1, <4>1, NewestCounted
        <4>4. /\ N > (x.page - 1) * PageSize => Cardinality(before) = (x.page - 1) * PageSize
              /\ N <= (x.page - 1) * PageSize => before = rows
          BY <1>1, <4>1, NewestCounted
        <4>. QED BY <4>2, <4>3, <4>4
      <3>3. (x.page - 1) * PageSize < x.page * PageSize BY <1>0, PageBounds
      <3>4. N <= (x.page - 1) * PageSize
        BY <1>0, <1>1, <3>2, <3>3
      <3>5. x.page = 1 /\ N = 0
        <4>1. x.page = 1 BY <1>0, <1>1, <3>1, <3>4
        <4>2. (x.page - 1) * PageSize = 0 BY <1>0, <4>1
        <4>. QED BY <1>1, <3>4, <4>1, <4>2
      <3>. QED BY <1>1, <3>5, FS_EmptySet
    <2>4. x.walk # "off" => x.page = 1 \/ N > (x.page - 1) * PageSize BY DEF Within
    <2>. QED BY <2>1, <2>2, <2>3, <2>4 DEF Within
  <1>6. ASSUME x.stage = "count", y = Counted(x, N) PROVE Within(y)
    <2>1. /\ y.stage = "shown" /\ y.page = x.page /\ y.filter = x.filter /\ y.total = N
          /\ y.rows = x.rows /\ y.walk = x.walk /\ y.base = x.base
      BY <1>6 DEF Counted, Tab
    <2>. QED BY <1>1, <1>6, <2>1 DEF Within
  <1>. QED BY <1>2, <1>3, <1>4, <1>5, <1>6 DEF TabMoves

LEMMA WithinGrows ==
    ASSUME FiniteHistory', FiniteHistory, caseActions \subseteq caseActions', UNCHANGED rd,
           AuditTypeOK, AllWithin
    PROVE  AllWithin'
  <1>. SUFFICES ASSUME NEW t \in Auditor PROVE Within(rd[t])' BY DEF AllWithin
  <1>1. PICK x : x = rd[t] /\ x = rd'[t] /\ x \in Tab BY DEF AuditTypeOK
  <1>2. Within(x) BY <1>1 DEF AllWithin
  <1>3. PICK f : f = x.filter OBVIOUS
  <1>4. /\ Matching(f) \subseteq Matching(f)'
        /\ Cardinality(Matching(f)) <= Cardinality(Matching(f)')
        /\ Cardinality(Matching(f)) \in Nat /\ Cardinality(Matching(f)') \in Nat
    <2>1. IsFiniteSet(Matching(f)')
      <3>1. Matching(f)' \in SUBSET caseActions' BY DEF Matching
      <3>. QED BY <3>1, FS_Subset DEF FiniteHistory
    <2>. QED BY <2>1, MatchingGrows, MatchingFinite, FS_CardinalityType
  <1>5. x.total \in Nat /\ x.page \in Nat \ {0} /\ (x.page - 1) * PageSize \in Nat
    BY <1>1, AuditAssumption, PageBounds DEF Tab
  <1>6. Matching(rd[t].filter)' = Matching(f)' BY <1>1, <1>3 DEF Matching
  <1>. QED BY <1>1, <1>2, <1>3, <1>4, <1>5, <1>6 DEF Within

LEMMA WithinStep ==
    ASSUME Typed, FiniteHistory, FiniteHistory', AuditTypeOK, AllWithin, [AuditNext]_auditVars
    PROVE  AllWithin'
  <1>1. ASSUME NEW t \in Auditor, TabStep(t), UNCHANGED vars PROVE AllWithin'
    <2>1. PICK y : TabMoves(rd[t], y) /\ rd' = [rd EXCEPT ![t] = y]
      BY <1>1, TabStepMoves DEF Typed
    <2>2. \A u \in Auditor : Within(rd[u]) BY DEF AllWithin
    <2>3. Within(y) BY <2>1, <2>2, WithinMoves DEF AuditTypeOK, Typed
    <2>4. \A u \in Auditor : rd'[u] = (IF u = t THEN y ELSE rd[u]) BY <2>1 DEF AuditTypeOK
    <2>5. \A u \in Auditor : Within(rd'[u]) BY <2>2, <2>3, <2>4
    <2>6. UNCHANGED caseActions BY <1>1 DEF vars, tables
    <2>. QED BY <2>5, <2>6 DEF AllWithin, Within, Matching
  <1>2. ASSUME [Next]_vars, UNCHANGED rd PROVE AllWithin'
    BY <1>2, HistoryGrows, WithinGrows
  <1>. QED BY <1>1, <1>2 DEF AuditNext, auditVars

LEMMA TabsStayWithin == AuditSpec => []AllWithin
  <1>1. AuditInit => AllWithin BY DEF AuditInit, AllWithin, Within, Closed
  <1>2. Typed /\ FiniteHistory /\ FiniteHistory' /\ AuditTypeOK /\ AllWithin
           /\ [AuditNext]_auditVars => AllWithin'
    BY WithinStep
  <1>. QED
    BY <1>1, <1>2, AuditRunsWorkflow, HistoryIsFinite, Layered, AuditTyped, PTL DEF AuditSpec

\* audit.rs:112-114, 651-680: by its own links an auditor never comes to a
\* page without rows, unless no row matched.
THEOREM NoEmptyPage == AuditSpec => []EmptyPageMeansNoMatch
  <1>1. AllWithin => EmptyPageMeansNoMatch BY DEF AllWithin, Within, EmptyPageMeansNoMatch
  <1>. QED BY <1>1, TabsStayWithin, PTL

LEMMA CreatedNat == ASSUME TypeOK, NEW a \in caseActions PROVE a.at \in Nat
  BY DEF TypeOK, ActionRow

LEMMA RankBounds ==
    ASSUME FiniteHistory, NEW f, NEW b \in Matching(f)
    PROVE  Rank(b, f) \in Nat /\ (TypeOK => Rank(b, f) < Cardinality(Matching(f)))
  <1>1. IsFiniteSet(Matching(f)) /\ Cardinality(Matching(f)) \in Nat BY MatchingFinite
  <1>2. Newer(b, f) \in SUBSET Matching(f) BY DEF Newer
  <1>3. IsFiniteSet(Newer(b, f)) /\ Cardinality(Newer(b, f)) \in Nat
    BY <1>1, <1>2, FS_Subset, FS_CardinalityType
  <1>4. ASSUME TypeOK PROVE Cardinality(Newer(b, f)) < Cardinality(Matching(f))
    <2>1. b \notin Newer(b, f)
      <3>1. b.at \in Nat BY <1>4, CreatedNat DEF Matching
      <3>. QED BY <3>1 DEF Newer
    <2>2. Newer(b, f) \in SUBSET (Matching(f) \ {b}) BY <1>2, <2>1
    <2>3. /\ IsFiniteSet(Matching(f) \ {b})
          /\ Cardinality(Matching(f) \ {b}) = Cardinality(Matching(f)) - 1
      BY <1>1, FS_RemoveElement
    <2>4. Cardinality(Newer(b, f)) <= Cardinality(Matching(f)) - 1 BY <2>2, <2>3, FS_Subset
    <2>. QED BY <1>1, <1>3, <2>4
  <1>. QED BY <1>3, <1>4 DEF Rank

\* New rows push old ones towards later pages, never back.
LEMMA RankGrows ==
    ASSUME FiniteHistory, FiniteHistory', caseActions \subseteq caseActions',
           NEW f, NEW b \in Matching(f)
    PROVE  Rank(b, f) <= Rank(b, f)' /\ Rank(b, f) \in Nat /\ Rank(b, f)' \in Nat
  <1>1. Newer(b, f) \in SUBSET (Newer(b, f)') BY MatchingGrows DEF Newer
  <1>2. Newer(b, f)' \in SUBSET caseActions' BY DEF Newer, Matching
  <1>3. IsFiniteSet(Newer(b, f)') BY <1>2, FS_Subset DEF FiniteHistory
  <1>. QED BY <1>1, <1>3, RankBounds, FS_Subset, FS_CardinalityType DEF Rank

LEMMA AheadMoves ==
    ASSUME TypeOK, FiniteHistory, NoTies, NEW x \in Tab, NEW y, TabMoves(x, y),
           Within(x), Ahead(x)
    PROVE  Ahead(y)
  <1>. DEFINE f == x.filter
              rows == Matching(f)
              before(p) == (p - 1) * PageSize
              upto(p) == p * PageSize
  <1>0. /\ x.page \in Nat \ {0} /\ x.total \in Nat /\ PageSize \in Nat \ {0}
        /\ \A p \in Nat \ {0} : before(p) \in Nat /\ upto(p) \in Nat /\ before(p) <= upto(p)
    BY AuditAssumption, PageBounds DEF Tab
  <1>1. Cardinality(rows) \in Nat /\ IsFiniteSet(rows) /\ rows \subseteq caseActions
    BY MatchingFinite DEF Matching
  <1>2. \A b \in rows : Rank(b, f) \in Nat /\ Rank(b, f) < Cardinality(rows)
    BY RankBounds
  <1>3. x.walk = "on" => x.base \subseteq rows BY DEF Within
  <1>4. CASE y = Closed BY <1>4 DEF Ahead, Closed
  <1>5. ASSUME NEW g, NEW n \in 1..MaxPage, y = Asked(g, n) PROVE Ahead(y)
    BY <1>5 DEF Ahead, Asked, Closed
  <1>6. ASSUME NEW n \in 1..MaxPage, x.stage = "shown", y = Turned(x, n),
               n <= x.page \/ (NextOffered(x) /\ n = x.page + 1)
        PROVE  Ahead(y)
    <2>1. /\ y.stage = "list" /\ y.page = n /\ y.filter = f /\ y.walk = x.walk
          /\ y.base = x.base /\ y.seen = x.seen
      BY <1>6 DEF Turned, Tab
    <2>2. (n - 1) * PageSize <= x.page * PageSize BY <1>0, <1>6
    <2>3. (n - 1) * PageSize \in Nat BY <1>0
    <2>4. ASSUME x.walk = "on", NEW b \in x.base \ x.seen PROVE Rank(b, f) >= (n - 1) * PageSize
      <3>1. Rank(b, f) >= x.page * PageSize BY <1>6, <2>4 DEF Ahead
      <3>2. Rank(b, f) \in Nat BY <1>2, <1>3, <2>4
      <3>. QED BY <1>0, <2>2, <2>3, <3>1, <3>2
    <2>. QED BY <2>1, <2>4 DEF Ahead
  <1>7. ASSUME x.stage = "list",
               NEW bef \in Newest(rows, (x.page - 1) * PageSize),
               NEW upt \in Newest(rows, x.page * PageSize),
               bef \subseteq upt, y = Listed(x, rows, bef, upt)
        PROVE  Ahead(y)
    <2>1. /\ y.stage = "count" /\ y.page = x.page /\ y.filter = f
          /\ y.walk = IF x.walk = "fresh" THEN "on" ELSE x.walk
          /\ y.base = IF x.walk = "fresh" THEN rows ELSE x.base
          /\ y.seen = x.seen \cup (upt \ bef)
      BY <1>7 DEF Listed, Tab
    <2>2. ASSUME y.walk = "on", NEW b \in y.base \ y.seen
          PROVE  Rank(b, f) >= x.page * PageSize
      <3>1. b \in rows /\ b \notin x.seen /\ b \notin upt \ bef BY <1>3, <2>1, <2>2
      <3>2. Rank(b, f) >= (x.page - 1) * PageSize
        <4>1. CASE x.walk = "fresh"
          <5>1. (x.page - 1) * PageSize = 0 BY <1>0, <4>1 DEF Within
          <5>. QED BY <1>2, <3>1, <5>1
        <4>2. CASE x.walk # "fresh" BY <1>7, <2>1, <2>2, <3>1, <4>2 DEF Ahead
        <4>. QED BY <4>1, <4>2
      <3>3. /\ \A a \in rows : a.at \in Nat
            /\ \A a \in rows : a.at = b.at => a = b
        BY <1>1, <3>1, CreatedNat DEF NoTies
      <3>4. Rank(b, f) = Cardinality({a \in rows : a.at > b.at})
        BY DEF Rank, Newer
      <3>5. (x.page - 1) * PageSize \in Nat /\ x.page * PageSize \in Nat BY <1>0
      <3>6. Rank(b, f) \in Nat BY <1>2, <3>1
      <3>7. b \notin bef
        <4>1. b \in bef <=> Rank(b, f) < (x.page - 1) * PageSize
          BY <1>1, <1>7, <3>1, <3>3, <3>4, <3>5, NewestRanked
        <4>. QED BY <3>2, <3>5, <3>6, <4>1
      <3>8. b \in upt <=> Rank(b, f) < x.page * PageSize
        BY <1>1, <1>7, <3>1, <3>3, <3>4, <3>5, NewestRanked
      <3>. QED BY <3>1, <3>5, <3>6, <3>7, <3>8
    <2>. QED BY <2>1, <2>2 DEF Ahead
  <1>8. ASSUME x.stage = "count", y = Counted(x, Cardinality(rows)) PROVE Ahead(y)
    <2>1. /\ y.stage = "shown" /\ y.page = x.page /\ y.filter = f
          /\ y.total = Cardinality(rows) /\ y.walk = x.walk
          /\ y.base = x.base /\ y.seen = x.seen
      BY <1>8 DEF Counted, Tab
    <2>2. ASSUME x.walk = "on", NEW b \in x.base \ x.seen
          PROVE  Rank(b, f) >= x.page * PageSize /\ Cardinality(rows) > x.page * PageSize
      <3>1. Rank(b, f) >= x.page * PageSize BY <1>8, <2>2 DEF Ahead
      <3>2. Rank(b, f) \in Nat /\ Rank(b, f) < Cardinality(rows) BY <1>2, <1>3, <2>2
      <3>3. x.page * PageSize \in Nat BY <1>0
      <3>. QED BY <1>1, <3>1, <3>2, <3>3
    <2>. QED BY <2>1, <2>2 DEF Ahead
  <1>. QED BY <1>4, <1>5, <1>6, <1>7, <1>8 DEF TabMoves

LEMMA AheadGrows ==
    ASSUME FiniteHistory, FiniteHistory', caseActions \subseteq caseActions', UNCHANGED rd,
           AuditTypeOK, AllWithin, AllAhead
    PROVE  AllAhead'
  <1>. SUFFICES ASSUME NEW t \in Auditor PROVE Ahead(rd[t])' BY DEF AllAhead
  <1>1. PICK x : x = rd[t] /\ x = rd'[t] /\ x \in Tab BY DEF AuditTypeOK
  <1>2. Within(x) /\ Ahead(x) BY <1>1 DEF AllWithin, AllAhead
  <1>3. PICK f : f = x.filter OBVIOUS
  <1>4. x.page \in Nat \ {0} /\ (x.page - 1) * PageSize \in Nat /\ x.page * PageSize \in Nat
    BY <1>1, AuditAssumption, PageBounds DEF Tab
  <1>5. ASSUME x.walk = "on", NEW b \in x.base
        PROVE  Rank(b, f) <= Rank(b, f)' /\ Rank(b, f) \in Nat /\ Rank(b, f)' \in Nat
    BY <1>2, <1>3, <1>5, RankGrows DEF Within
  <1>6. \A b : Rank(b, rd[t].filter)' = Rank(b, f)'
    BY <1>1, <1>3 DEF Rank, Newer, Matching
  <1>. QED BY <1>1, <1>2, <1>3, <1>4, <1>5, <1>6 DEF Ahead

LEMMA AheadStep ==
    ASSUME Typed, FiniteHistory, FiniteHistory', AuditTypeOK, NoTies, AllWithin, AllAhead,
           [AuditNext]_auditVars
    PROVE  AllAhead'
  <1>1. ASSUME NEW t \in Auditor, TabStep(t), UNCHANGED vars PROVE AllAhead'
    <2>1. PICK y : TabMoves(rd[t], y) /\ rd' = [rd EXCEPT ![t] = y]
      BY <1>1, TabStepMoves DEF Typed
    <2>2. \A u \in Auditor : Ahead(rd[u]) BY DEF AllAhead
    <2>3. Ahead(y)
      BY <2>1, <2>2, AheadMoves DEF AuditTypeOK, Typed, AllWithin
    <2>4. \A u \in Auditor : rd'[u] = (IF u = t THEN y ELSE rd[u]) BY <2>1 DEF AuditTypeOK
    <2>5. \A u \in Auditor : Ahead(rd'[u]) BY <2>2, <2>3, <2>4
    <2>6. UNCHANGED caseActions BY <1>1 DEF vars, tables
    <2>. QED BY <2>5, <2>6 DEF AllAhead, Ahead, Rank, Newer, Matching
  <1>2. ASSUME [Next]_vars, UNCHANGED rd PROVE AllAhead'
    BY <1>2, HistoryGrows, AheadGrows
  <1>. QED BY <1>1, <1>2 DEF AuditNext, auditVars

\* audit.rs:226-252: a walk from page 1 that ends where Next ends has shown
\* every row that matched when it began, whatever was written in between, as
\* long as no two rows share a created_at.
THEOREM WalkIsComplete == AuditSpec /\ []NoTies => []WalkMissesNothing
  <1>1. AuditInit => AllAhead BY DEF AuditInit, AllAhead, Ahead, Closed
  <1>2. Typed /\ FiniteHistory /\ FiniteHistory' /\ AuditTypeOK /\ NoTies /\ AllWithin
           /\ AllAhead /\ [AuditNext]_auditVars => AllAhead'
    BY AheadStep
  <1>3. AuditTypeOK /\ AllAhead => WalkMissesNothing
    <2>. SUFFICES ASSUME AuditTypeOK, AllAhead, NEW t \in Auditor, rd[t].stage = "shown",
                         rd[t].walk = "on", ~NextOffered(rd[t])
                  PROVE  rd[t].base \subseteq rd[t].seen
      BY DEF WalkMissesNothing
    <2>1. rd[t].total \in Nat /\ rd[t].page \in Nat \ {0}
      BY AuditAssumption DEF AuditTypeOK, Tab
    <2>2. ~(rd[t].total > rd[t].page * PageSize) BY <2>1, NextMeansMore
    <2>. QED BY <2>2 DEF AllAhead, Ahead
  <1>. QED
    BY <1>1, <1>2, <1>3, AuditRunsWorkflow, HistoryIsFinite, Layered, AuditTyped,
       TabsStayWithin, PTL DEF AuditSpec
=============================================================================
