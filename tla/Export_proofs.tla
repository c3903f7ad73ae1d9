--------------------------- MODULE Export_proofs ---------------------------
(***************************************************************************)
(* Proofs about the files the export writes, on top of the layers of       *)
(* Workflow_proofs and History_proofs.                                     *)
(*   Fresh      the stamps a step may put on the rows it adds: NOW(), or   *)
(*              the NOW() of a transaction under way                       *)
(*   OpenedOn   a case and its case_opened row carry one stamp             *)
(*   FileOK     what a file holds is in its range and supported            *)
(*   CompleteOK what a settled file has read is all there is, for good     *)
(***************************************************************************)
EXTENDS Export, History_proofs

Fresh(at) == at = clock \/ \E q \in Req : pc[q] \in InTx /\ at = loc[q].at

OpenedOn ==
    \A c \in Case : cases[c] # Null =>
       \E a \in caseActions : a.case = c /\ a.type = "case_opened" /\ a.at = openedAt[c]

\* An export past its first SELECT, its second, its third, its fourth.
HasReports == {"cases", "actions", "disclosures", "sign", "done"}
HasCases == {"actions", "disclosures", "sign", "done"}
HasActions == {"disclosures", "sign", "done"}
HasAll == {"sign", "done"}

Says(a, row) ==
    /\ a.case = row.id /\ a.type \in {"case_opened", "status_changed"}
    /\ StatusSaid(a) = row.status

\* The history in file x has the opening of the listed case and, unless it is
\* out of range, a row that names its status.
Explained(x, row) ==
    /\ \E a \in x.actions : a.case = row.id /\ a.type = "case_opened"
    /\ \E a \in caseActions : Says(a, row) /\ (InRange(a.at, x.from, x.to) => a \in x.actions)

FileOK(x) ==
    /\ x.stage \in {"reports"} \cup HasReports => x.from <= x.to
    /\ x.stage \in HasReports =>
          \A p \in x.reports : reports[p] # Null /\ InRange(submittedAt[p], x.from, x.to)
    /\ x.stage \in HasCases =>
          \A row \in x.cases :
             /\ cases[row.id] # Null /\ InRange(openedAt[row.id], x.from, x.to)
             /\ \E a \in caseActions : Says(a, row)
    /\ x.stage \in HasActions =>
          /\ \A a \in x.actions : a \in caseActions /\ InRange(a.at, x.from, x.to)
          /\ \A row \in x.cases : Explained(x, row)
    /\ x.stage \in HasAll =>
          /\ \A d \in x.disclosures : d \in disclosures /\ InRange(d.at, x.from, x.to)
          /\ \A a \in x.actions : a.type = "disclosure_consumed" =>
                \E d \in x.disclosures : d.corr = a.corr

CompleteOK(x) ==
    x.settled /\ x.stage \in HasReports =>
       /\ Settled(x.from, x.to)
       /\ \A p \in Report :
             p \in x.reports <=> reports[p] # Null /\ InRange(submittedAt[p], x.from, x.to)
       /\ x.stage \in HasCases =>
             \A c \in Case : (\E row \in x.cases : row.id = c)
                                <=> cases[c] # Null /\ InRange(openedAt[c], x.from, x.to)
       /\ x.stage \in HasActions =>
             \A a \in caseActions : InRange(a.at, x.from, x.to) => a \in x.actions
       /\ x.stage \in HasAll =>
             \A d \in disclosures : InRange(d.at, x.from, x.to) => d \in x.disclosures

Exports ==
    /\ ExportTypeOK /\ OpenedOn
    /\ \A e \in Exp : FileOK(ex[e]) /\ CompleteOK(ex[e])

-----------------------------------------------------------------------------
(* The calendar.                                                           *)

\* The half-open range of instants is the range of days, both inclusive.
LEMMA RangeOfDays ==
    ASSUME NEW at \in Nat, NEW from \in Nat, NEW to \in Nat
    PROVE  InRange(at, from, to) <=> Within(at, from, to)
  <1>. DEFINE n == DayLength
              q == at \div n
  <1>1. n \in Nat /\ n > 0 BY CalendarAssumption
  <1>2. q \in Int /\ q * n <= at /\ at < q * n + n BY <1>1
  <1>. HIDE DEF n, q
  <1>3. \A a, b \in Int : a <= b => a * n <= b * n BY <1>1
  <1>4. \A a \in Int : (a + 1) * n = a * n + n BY <1>1
  <1>5. from * n <= at <=> from <= q
    <2>1. CASE from <= q BY <1>1, <1>2, <1>3, <2>1
    <2>2. CASE ~(from <= q)
      <3>1. (q + 1) * n <= from * n BY <1>2, <1>3, <2>2
      <3>. QED BY <1>1, <1>2, <1>4, <2>2, <3>1
    <2>. QED BY <2>1, <2>2
  <1>6. at < (to + 1) * n <=> q <= to
    <2>1. CASE q <= to
      <3>1. (q + 1) * n <= (to + 1) * n BY <1>2, <1>3, <2>1
      <3>. QED BY <1>1, <1>2, <1>4, <2>1, <3>1
    <2>2. CASE ~(q <= to)
      <3>1. (to + 1) * n <= q * n BY <1>2, <1>3, <2>2
      <3>. QED BY <1>1, <1>2, <2>2, <3>1
    <2>. QED BY <2>1, <2>2
  <1>. QED BY <1>5, <1>6 DEF InRange, Within, Midnight, DayOf, n, q

LEMMA MidnightInt == ASSUME NEW d \in Nat PROVE Midnight(d) \in Int /\ Midnight(d + 1) \in Int
  BY CalendarAssumption DEF Midnight

-----------------------------------------------------------------------------
(* Time.                                                                   *)

\* The clock does not go back, and a transaction keeps the stamp it began with.
LEMMA TimeStep ==
    ASSUME Typed, Locked, [Next]_vars
    PROVE  /\ clock \in Nat /\ clock' \in Nat /\ clock' >= clock
           /\ \A q \in Req : pc'[q] \in InTx => Fresh(loc'[q].at)
  <1>0. clock \in Nat BY DEF Typed, TypeOK
  <1>1. ASSUME UNCHANGED <<clock, requests>>
        PROVE  /\ clock' \in Nat /\ clock' >= clock
               /\ \A q \in Req : pc'[q] \in InTx => Fresh(loc'[q].at)
    BY <1>0, <1>1 DEF requests, Fresh
  <1>2. ASSUME NEW r \in Req, Start(r) \/ Step(r) \/ Cancel(r)
        PROVE  /\ clock' \in Nat /\ clock' >= clock
               /\ \A q \in Req : pc'[q] \in InTx => Fresh(loc'[q].at)
    <2>1. /\ clock' \in Nat /\ clock' >= clock
          /\ pc'[r] \in InTx =>
                \/ pc[r] \in InTx /\ loc'[r].at = loc[r].at
                \/ pc[r] \notin InTx /\ loc'[r].at = clock
      BY <1>2, RequestTime
    <2>2. \A q \in Req \ {r} : pc'[q] = pc[q] /\ loc'[q] = loc[q]
      BY <1>2, Moves
    <2>. QED BY <2>1, <2>2 DEF Fresh
  <1>3. ASSUME NEW p \in Report, Submit(p) PROVE UNCHANGED <<clock, requests>>
    BY <1>3 DEF Submit, counters
  <1>4. ASSUME NEW u \in User, Framework(u) PROVE UNCHANGED <<clock, requests>>
    BY <1>4, FrameworkQuiet DEF counters
  <1>5. UNCHANGED vars => UNCHANGED <<clock, requests>> BY DEF vars, counters
  <1>. QED BY <1>0, <1>1, <1>2, <1>3, <1>4, <1>5 DEF Next, Quiescent

\* Once a range has settled, no stamp a step may use is in it, ever after.
LEMMA SettledStays ==
    ASSUME Typed, Locked, [Next]_vars, NEW from \in Nat, NEW to \in Nat, Settled(from, to)
    PROVE  /\ Settled(from, to)'
           /\ \A at : Fresh(at) => ~InRange(at, from, to)
  <1>1. /\ Midnight(to + 1) \in Int /\ Midnight(to + 1) <= clock
        /\ clock \in Nat /\ clock' \in Nat /\ clock' >= clock
    BY MidnightInt, TimeStep DEF Settled
  <1>2. \A at : Fresh(at) => ~InRange(at, from, to)
    BY <1>1 DEF Fresh, Settled, NoneInRange, InRange
  <1>3. NoneInRange(from, to)' BY <1>2, TimeStep DEF NoneInRange
  <1>4. Midnight(to + 1) <= clock' BY <1>1
  <1>. QED BY <1>2, <1>3, <1>4 DEF Settled

-----------------------------------------------------------------------------
(* Rows.                                                                   *)

\* Rows only join, with fresh stamps, and no row's stamp is ever written.
Joins ==
    /\ Persist
    /\ caseActions \subseteq caseActions' /\ disclosures \subseteq disclosures'
    /\ \A a \in caseActions' : a \in caseActions \/ Fresh(a.at)
    /\ \A d \in disclosures' : d \in disclosures \/ Fresh(d.at)
    /\ \A p \in Report : IF reports[p] # Null THEN submittedAt'[p] = submittedAt[p]
                         ELSE reports'[p] # Null => Fresh(submittedAt'[p])
    /\ \A c \in Case : IF cases[c] # Null THEN openedAt'[c] = openedAt[c]
                       ELSE cases'[c] # Null => Fresh(openedAt'[c])

\* The row a COMMIT adds to the history.
LEMMA RowStamped ==
    ASSUME NEW r \in Req, NEW a \in caseActions', a \notin caseActions,
           \/ OpenCaseCommit(r) \/ StatusCommit(r) \/ ReassignCommit(r)
           \/ NoteCommit(r) \/ DiscloseCommit(r)
    PROVE  Fresh(a.at)
  <1>1. pc[r] = "commit" => pc[r] \in InTx BY DEF InTx
  <1>2. CASE NoteCommit(r) BY <1>1, <1>2 DEF NoteCommit, At, NewAction, Fresh
  <1>3. CASE OpenCaseCommit(r) BY <1>1, <1>3 DEF OpenCaseCommit, At, NewAction, Fresh
  <1>4. CASE StatusCommit(r) BY <1>1, <1>4 DEF StatusCommit, At, NewAction, Fresh
  <1>5. CASE ReassignCommit(r) BY <1>1, <1>5 DEF ReassignCommit, At, NewAction, Fresh
  <1>6. CASE DiscloseCommit(r) BY <1>1, <1>6 DEF DiscloseCommit, At, NewAction, Fresh
  <1>. QED BY <1>2, <1>3, <1>4, <1>5, <1>6

LEMMA HistoryJoins ==
    ASSUME Typed, [Next]_vars
    PROVE  /\ caseActions \subseteq caseActions' /\ disclosures \subseteq disclosures'
           /\ \A a \in caseActions' : a \in caseActions \/ Fresh(a.at)
           /\ \A d \in disclosures' : d \in disclosures \/ Fresh(d.at)
  <1>1. ASSUME NEW a \in caseActions', a \notin caseActions PROVE Fresh(a.at)
    BY <1>1, NextWrites, RowStamped DEF Submit, tables
  <1>2. ASSUME NEW r \in Req, DiscloseCommit(r), NEW d \in disclosures', d \notin disclosures
        PROVE  Fresh(d.at)
    BY <1>2 DEF DiscloseCommit, At, InTx, Fresh
  <1>3. ASSUME NEW r \in Req, DiscloseCommit(r) PROVE disclosures \subseteq disclosures'
    BY <1>3 DEF DiscloseCommit
  <1>4. \/ UNCHANGED disclosures
        \/ \E r \in Req : DiscloseCommit(r)
    BY NextWrites, CommitRow DEF Submit, tables
  <1>. QED BY <1>1, <1>2, <1>3, <1>4, HistoryGrows

\* A new case is the one its transaction inserted and had locked.
LEMMA NewCase ==
    ASSUME Typed, Locked, [Next]_vars, NEW c \in Case, cases[c] = Null, cases'[c] # Null
    PROVE  \E r \in Req : caseLock[c] = r /\ pc[r] \in InTx
              /\ \E a \in caseActions' : /\ a.case = c /\ a.type = "case_opened"
                                         /\ a.at = loc[r].at
  <1>1. PICK r \in Req : OpenCaseCommit(r) /\ c = loc[r].case
    <2>1. ASSUME NEW r \in Req, OpenCaseCommit(r) PROVE c = loc[r].case
      BY <2>1, OpenCommitFacts
    <2>2. ASSUME NEW r \in Req, StatusCommit(r) \/ ReassignCommit(r) PROVE FALSE
      BY <2>2, StatusCommitFacts, ReassignCommitFacts
    <2>3. ASSUME UNCHANGED cases PROVE FALSE BY <2>3
    <2>. QED
      BY <2>1, <2>2, <2>3, NextWrites DEF Submit, NoteCommit, DiscloseCommit, tables
  <1>2. caseLock[c] = r /\ pc[r] \in InTx
    BY <1>1 DEF OpenCaseCommit, Locked, Holds, At, InTx
  <1>3. \E a \in caseActions' : a.case = c /\ a.type = "case_opened" /\ a.at = loc[r].at
    <2>. DEFINE a == NewAction(r, loc[r].id, loc[r].at, loc[r].case, "case_opened",
                               Null, loc[r].report)
    <2>1. a \in caseActions' BY <1>1 DEF OpenCaseCommit
    <2>2. a.case = c /\ a.type = "case_opened" /\ a.at = loc[r].at
      BY <1>1 DEF NewAction
    <2>. HIDE DEF a
    <2>. QED BY <2>1, <2>2
  <1>. QED BY <1>2, <1>3

LEMMA RowsKept ==
    ASSUME Typed, Locked, [Next]_vars
    PROVE  Persist
  <1>1. ASSUME NEW r \in Req, Start(r) \/ Step(r) \/ Cancel(r) PROVE Persist
    BY <1>1, StartFramed, StepFramed, CancelFramed DEF Framed
  <1>2. ASSUME NEW p \in Report, Submit(p) PROVE Persist
    <2>1. /\ UNCHANGED cases
          /\ \A q \in Report : reports[q] # Null => reports'[q] = reports[q]
      BY <1>2 DEF Submit, Typed, TypeOK
    <2>. QED BY <2>1 DEF Persist
  <1>3. ASSUME NEW u \in User, Framework(u) PROVE UNCHANGED <<reports, cases>>
    BY <1>3, FrameworkQuiet DEF tables
  <1>4. UNCHANGED vars => UNCHANGED <<reports, cases>> BY DEF vars, tables
  <1>. QED BY <1>1, <1>2, <1>3, <1>4 DEF Next, Quiescent, Persist

\* A step of the workflow, with the stamps Postgres puts on new rows.
LEMMA WorkflowJoins ==
    ASSUME Typed, Locked, Exports, Next, Stamp
    PROVE  /\ Joins /\ OpenedOn'
           /\ submittedAt' \in [Report -> Nat] /\ openedAt' \in [Case -> Nat]
  <1>0. clock \in Nat /\ \A r \in Req : loc[r].at \in Nat
    BY DEF Typed, TypeOK, Locals
  <1>1. \A p \in Report : submittedAt'[p] =
           IF reports[p] = Null /\ reports'[p] # Null THEN clock ELSE submittedAt[p]
    BY DEF Stamp
  <1>2. \A c \in Case : openedAt'[c] =
           IF cases[c] = Null /\ cases'[c] # Null THEN loc[caseLock[c]].at ELSE openedAt[c]
    BY DEF Stamp
  <1>3. \A c \in Case : cases[c] = Null /\ cases'[c] # Null =>
           openedAt'[c] \in Nat /\ Fresh(openedAt'[c])
    BY <1>0, <1>2, NewCase DEF Fresh
  <1>4. submittedAt' \in [Report -> Nat] BY <1>0 DEF Stamp, Exports, ExportTypeOK
  <1>5. openedAt' \in [Case -> Nat]
    <2>1. \A c \in Case : openedAt'[c] \in Nat BY <1>2, <1>3 DEF Exports, ExportTypeOK
    <2>. QED BY <2>1 DEF Stamp
  <1>6. Joins
    BY <1>1, <1>2, <1>3, HistoryJoins, RowsKept DEF Joins, Fresh
  <1>7. OpenedOn'
    <2>1. ASSUME NEW c \in Case, cases'[c] # Null
          PROVE  \E a \in caseActions' :
                    a.case = c /\ a.type = "case_opened" /\ a.at = openedAt'[c]
      <3>1. CASE cases[c] = Null BY <1>2, <2>1, <3>1, NewCase
      <3>2. CASE cases[c] # Null BY <1>2, <3>2, HistoryJoins DEF Exports, OpenedOn
      <3>. QED BY <3>1, <3>2
    <2>. QED BY <2>1 DEF OpenedOn
  <1>. QED BY <1>4, <1>5, <1>6, <1>7

-----------------------------------------------------------------------------
(* Files stay good while the workflow goes on.                             *)

LEMMA FileStays ==
    ASSUME Joins, NEW x \in Payload, FileOK(x)
    PROVE  FileOK(x)'
  <1>1. /\ \A p \in x.reports : p \in Report
        /\ \A row \in x.cases : row.id \in Case
    BY DEF Payload
  <1>2. x.stage \in HasReports =>
           \A p \in x.reports : reports'[p] # Null /\ InRange(submittedAt'[p], x.from, x.to)
    BY <1>1 DEF Joins, Persist, FileOK
  <1>3. x.stage \in HasCases =>
           \A row \in x.cases :
              /\ cases'[row.id] # Null /\ InRange(openedAt'[row.id], x.from, x.to)
              /\ \E a \in caseActions' : Says(a, row)
    BY <1>1 DEF Joins, Persist, FileOK
  <1>4. x.stage \in HasActions =>
           /\ \A a \in x.actions : a \in caseActions' /\ InRange(a.at, x.from, x.to)
           /\ \A row \in x.cases : Explained(x, row)'
    BY DEF Joins, FileOK, Explained
  <1>5. x.stage \in HasAll =>
           \A d \in x.disclosures : d \in disclosures' /\ InRange(d.at, x.from, x.to)
    BY DEF Joins, FileOK
  <1>. QED BY <1>2, <1>3, <1>4, <1>5 DEF FileOK

LEMMA CompleteStays ==
    ASSUME Typed, Locked, [Next]_vars, Joins, NEW x \in Payload, FileOK(x), CompleteOK(x)
    PROVE  CompleteOK(x)'
  <1>. SUFFICES ASSUME x.settled, x.stage \in HasReports PROVE CompleteOK(x)'
    BY DEF CompleteOK
  <1>1. /\ x.from \in Nat /\ x.to \in Nat
        /\ \A p \in x.reports : p \in Report
        /\ \A row \in x.cases : row.id \in Case
    BY CalendarAssumption DEF Payload
  <1>2. Settled(x.from, x.to) BY DEF CompleteOK
  <1>3. /\ Settled(x.from, x.to)'
        /\ \A at : Fresh(at) => ~InRange(at, x.from, x.to)
    BY <1>1, <1>2, SettledStays
  <1>4. \A p \in Report :
           p \in x.reports <=> reports'[p] # Null /\ InRange(submittedAt'[p], x.from, x.to)
    BY <1>3 DEF Joins, Persist, CompleteOK
  <1>5. x.stage \in HasCases =>
           \A c \in Case : (\E row \in x.cases : row.id = c)
                              <=> cases'[c] # Null /\ InRange(openedAt'[c], x.from, x.to)
    BY <1>3 DEF Joins, Persist, CompleteOK
  <1>6. x.stage \in HasActions =>
           \A a \in caseActions' : InRange(a.at, x.from, x.to) => a \in x.actions
    BY <1>3 DEF Joins, CompleteOK
  <1>7. x.stage \in HasAll =>
           \A d \in disclosures' : InRange(d.at, x.from, x.to) => d \in x.disclosures
    BY <1>3 DEF Joins, CompleteOK
  <1>. QED BY <1>3, <1>4, <1>5, <1>6, <1>7 DEF CompleteOK

-----------------------------------------------------------------------------
(* The exports' own steps.                                                 *)

\* The payload of an export that has not read anything, or never will.
LEMMA NothingRead ==
    ASSUME NEW x, x.stage \in {"idle", "failed"} \/ (x.stage = "reports" /\ x.from <= x.to)
    PROVE  FileOK(x) /\ CompleteOK(x)
  BY DEF FileOK, CompleteOK, HasReports, HasCases, HasActions, HasAll

LEMMA StartFile ==
    ASSUME Exports, NEW e \in Exp, StartExport(e)
    PROVE  \E y \in Payload : /\ ex' = [ex EXCEPT ![e] = y]
                              /\ FileOK(y) /\ CompleteOK(y)
  <1>0. PICK x \in Payload : x = ex[e] BY DEF Exports, ExportTypeOK
  <1>1. CASE ex' = [ex EXCEPT ![e].stage = "failed"]
    <2>. DEFINE y == [x EXCEPT !.stage = "failed"]
    <2>1. y \in Payload /\ y.stage = "failed" BY DEF Payload, ExportStage
    <2>2. ex' = [ex EXCEPT ![e] = y] BY <1>0, <1>1 DEF Exports, ExportTypeOK
    <2>. HIDE DEF y
    <2>. QED BY <2>1, <2>2, NothingRead
  <1>2. ASSUME NEW from \in Days, NEW to \in Days, RangeAccepted(from, to),
               ex' = [ex EXCEPT ![e].stage = "reports", ![e].from = from, ![e].to = to]
        PROVE  \E y \in Payload : /\ ex' = [ex EXCEPT ![e] = y]
                                  /\ FileOK(y) /\ CompleteOK(y)
    <2>. DEFINE y == [x EXCEPT !.stage = "reports", !.from = from, !.to = to]
    <2>1. from \in 0..LastDay /\ to \in 0..LastDay BY ExportAssumption
    <2>2. y \in Payload /\ y.stage = "reports" /\ y.from = from /\ y.to = to
      BY <2>1 DEF Payload, ExportStage
    <2>3. ex' = [ex EXCEPT ![e] = y] BY <1>0, <1>2 DEF Exports, ExportTypeOK
    <2>4. from <= to BY <1>2 DEF RangeAccepted
    <2>. HIDE DEF y
    <2>. QED BY <2>2, <2>3, <2>4, NothingRead
  <1>. QED BY <1>1, <1>2 DEF StartExport

LEMMA ReportsRead ==
    ASSUME Typed, Exports, NEW e \in Exp, SelectReports(e)
    PROVE  \E y \in Payload : /\ ex' = [ex EXCEPT ![e] = y]
                              /\ FileOK(y) /\ CompleteOK(y)
  <1>0. PICK x \in Payload : x = ex[e] /\ FileOK(x) BY DEF Exports, ExportTypeOK
  <1>. DEFINE found == {p \in Known : InRange(submittedAt[p], x.from, x.to)}
              over == Settled(x.from, x.to)
              y == [x EXCEPT !.stage = "cases", !.reports = found, !.began = clock,
                             !.settled = over]
  <1>1. found \in SUBSET Report /\ over \in BOOLEAN /\ clock \in Nat
    BY DEF Known, Settled, Typed, TypeOK
  <1>2. \A p \in Report :
           p \in found <=> reports[p] # Null /\ InRange(submittedAt[p], x.from, x.to)
    BY DEF Known
  <1>3. over => Settled(x.from, x.to) OBVIOUS
  <1>4. x.stage = "reports" /\ x.from <= x.to
    BY <1>0 DEF SelectReports, FileOK
  <1>5. ex' = [ex EXCEPT ![e].stage = "cases", ![e].reports = found, ![e].began = clock,
                         ![e].settled = over]
    BY <1>0 DEF SelectReports, Following
  <1>. HIDE DEF found, over
  <1>6. /\ y \in Payload /\ y.stage = "cases" /\ y.reports = found /\ y.settled = over
        /\ y.from = x.from /\ y.to = x.to
    BY <1>1 DEF Payload, ExportStage
  <1>7. ex' = [ex EXCEPT ![e] = y] BY <1>0, <1>5 DEF Exports, ExportTypeOK
  <1>. HIDE DEF y
  <1>8. FileOK(y)
    BY <1>1, <1>2, <1>4, <1>6 DEF FileOK, HasReports, HasCases, HasActions, HasAll
  <1>9. CompleteOK(y)
    BY <1>2, <1>3, <1>6 DEF CompleteOK, HasReports, HasCases, HasActions, HasAll
  <1>. QED BY <1>6, <1>7, <1>8, <1>9

LEMMA CasesRead ==
    ASSUME Typed, LedgerReplay, Exports, NEW e \in Exp, SelectCases(e)
    PROVE  \E y \in Payload : /\ ex' = [ex EXCEPT ![e] = y]
                              /\ FileOK(y) /\ CompleteOK(y)
  <1>0. PICK x \in Payload : x = ex[e] /\ FileOK(x) /\ CompleteOK(x)
    BY DEF Exports, ExportTypeOK
  <1>. DEFINE found == {[id |-> c, status |-> cases[c].status] :
                           c \in {d \in Opened : InRange(openedAt[d], x.from, x.to)}}
              y == [x EXCEPT !.stage = "actions", !.cases = found]
  <1>1. found \in SUBSET [id : Case, status : CaseStatus]
    BY DEF Opened, Typed, TypeOK, CaseRow
  <1>2. \A row \in found :
           /\ cases[row.id] # Null /\ InRange(openedAt[row.id], x.from, x.to)
           /\ \E a \in caseActions : Says(a, row)
    <2>1. ASSUME NEW c \in Opened
          PROVE  \E a \in caseActions : Says(a, [id |-> c, status |-> cases[c].status])
      BY DEF LedgerReplay, StatusRows, Says
    <2>. QED BY <2>1 DEF Opened
  <1>3. \A c \in Case : (\E row \in found : row.id = c)
                           <=> cases[c] # Null /\ InRange(openedAt[c], x.from, x.to)
    <2>1. ASSUME NEW c \in Case, cases[c] # Null, InRange(openedAt[c], x.from, x.to)
          PROVE  \E row \in found : row.id = c
      <3>1. [id |-> c, status |-> cases[c].status] \in found BY <2>1 DEF Opened
      <3>. QED BY <3>1
    <2>2. ASSUME NEW row \in found
          PROVE  cases[row.id] # Null /\ InRange(openedAt[row.id], x.from, x.to)
      BY <1>2
    <2>. HIDE DEF found
    <2>. QED BY <2>1, <2>2
  <1>4. x.stage = "cases" BY <1>0 DEF SelectCases
  <1>5. ex' = [ex EXCEPT ![e].stage = "actions", ![e].cases = found]
    BY <1>0 DEF SelectCases, Following
  <1>. HIDE DEF found
  <1>6. /\ y \in Payload /\ y.stage = "actions" /\ y.cases = found /\ y.reports = x.reports
        /\ y.from = x.from /\ y.to = x.to /\ y.settled = x.settled
    BY <1>1 DEF Payload, ExportStage
  <1>7. ex' = [ex EXCEPT ![e] = y] BY <1>0, <1>5 DEF Exports, ExportTypeOK
  <1>. HIDE DEF y
  <1>8. FileOK(y)
    BY <1>0, <1>2, <1>4, <1>6 DEF FileOK, HasReports, HasCases, HasActions, HasAll
  <1>9. CompleteOK(y)
    BY <1>0, <1>3, <1>4, <1>6 DEF CompleteOK, HasReports, HasCases, HasActions, HasAll
  <1>. QED BY <1>6, <1>7, <1>8, <1>9

LEMMA ActionsRead ==
    ASSUME Typed, Exports, NEW e \in Exp, SelectActions(e)
    PROVE  \E y \in Payload : /\ ex' = [ex EXCEPT ![e] = y]
                              /\ FileOK(y) /\ CompleteOK(y)
  <1>0. PICK x \in Payload : x = ex[e] /\ FileOK(x) /\ CompleteOK(x)
    BY DEF Exports, ExportTypeOK
  <1>. DEFINE found == {a \in caseActions : InRange(a.at, x.from, x.to)}
              y == [x EXCEPT !.stage = "disclosures", !.actions = found]
  <1>1. found \in SUBSET ActionRow BY DEF Typed, TypeOK
  <1>2. \A a : a \in found <=> a \in caseActions /\ InRange(a.at, x.from, x.to)
    OBVIOUS
  <1>3. x.stage = "actions" /\ \A row \in x.cases : row.id \in Case
    BY <1>0 DEF SelectActions, Payload
  <1>4. ex' = [ex EXCEPT ![e].stage = "disclosures", ![e].actions = found]
    BY <1>0 DEF SelectActions, Following
  <1>. HIDE DEF found
  <1>5. /\ y \in Payload /\ y.stage = "disclosures" /\ y.actions = found
        /\ y.reports = x.reports /\ y.cases = x.cases
        /\ y.from = x.from /\ y.to = x.to /\ y.settled = x.settled
    BY <1>1 DEF Payload, ExportStage
  <1>6. ex' = [ex EXCEPT ![e] = y] BY <1>0, <1>4 DEF Exports, ExportTypeOK
  <1>. HIDE DEF y
  <1>7. ASSUME NEW row \in x.cases PROVE Explained(y, row)
    <2>1. /\ cases[row.id] # Null /\ InRange(openedAt[row.id], x.from, x.to)
          /\ \E a \in caseActions : Says(a, row)
      BY <1>0, <1>3 DEF FileOK, HasCases
    <2>2. \E a \in caseActions :
             a.case = row.id /\ a.type = "case_opened" /\ a.at = openedAt[row.id]
      BY <1>3, <2>1 DEF Exports, OpenedOn
    <2>. QED BY <1>2, <1>5, <2>1, <2>2 DEF Explained
  <1>8. FileOK(y)
    BY <1>0, <1>2, <1>3, <1>5, <1>7 DEF FileOK, HasReports, HasCases, HasActions, HasAll
  <1>9. CompleteOK(y)
    BY <1>0, <1>2, <1>3, <1>5 DEF CompleteOK, HasReports, HasCases, HasActions, HasAll
  <1>. QED BY <1>5, <1>6, <1>8, <1>9

LEMMA DisclosuresRead ==
    ASSUME Typed, Paired, Exports, NEW e \in Exp, SelectDisclosures(e)
    PROVE  \E y \in Payload : /\ ex' = [ex EXCEPT ![e] = y]
                              /\ FileOK(y) /\ CompleteOK(y)
  <1>0. PICK x \in Payload : x = ex[e] /\ FileOK(x) /\ CompleteOK(x)
    BY DEF Exports, ExportTypeOK
  <1>. DEFINE found == {d \in disclosures : InRange(d.at, x.from, x.to)}
              y == [x EXCEPT !.stage = "sign", !.disclosures = found]
  <1>1. found \in SUBSET DisclosureRow BY DEF Typed, TypeOK
  <1>2. \A d : d \in found <=> d \in disclosures /\ InRange(d.at, x.from, x.to)
    OBVIOUS
  <1>3. x.stage = "disclosures" BY <1>0 DEF SelectDisclosures
  <1>4. ex' = [ex EXCEPT ![e].stage = "sign", ![e].disclosures = found]
    BY <1>0 DEF SelectDisclosures, Following
  <1>. HIDE DEF found
  <1>5. /\ y \in Payload /\ y.stage = "sign" /\ y.disclosures = found
        /\ y.reports = x.reports /\ y.cases = x.cases /\ y.actions = x.actions
        /\ y.from = x.from /\ y.to = x.to /\ y.settled = x.settled
    BY <1>1 DEF Payload, ExportStage
  <1>6. ex' = [ex EXCEPT ![e] = y] BY <1>0, <1>4 DEF Exports, ExportTypeOK
  <1>. HIDE DEF y
  <1>7. ASSUME NEW a \in x.actions, a.type = "disclosure_consumed"
        PROVE  \E d \in found : d.corr = a.corr
    <2>1. a \in Consumed /\ InRange(a.at, x.from, x.to)
      BY <1>0, <1>3, <1>7 DEF FileOK, HasActions, Consumed
    <2>2. PICK d \in disclosures : d.corr = a.corr /\ d.at = a.at
      BY <2>1 DEF Paired, Match
    <2>. QED BY <1>2, <2>1, <2>2
  <1>8. FileOK(y)
    BY <1>0, <1>2, <1>3, <1>5, <1>7
       DEF FileOK, HasReports, HasCases, HasActions, HasAll, Explained
  <1>9. CompleteOK(y)
    BY <1>0, <1>2, <1>3, <1>5 DEF CompleteOK, HasReports, HasCases, HasActions, HasAll
  <1>. QED BY <1>5, <1>6, <1>8, <1>9

LEMMA FileEnds ==
    ASSUME Exports, NEW e \in Exp, Sign(e) \/ DropExport(e)
    PROVE  \E y \in Payload : /\ ex' = [ex EXCEPT ![e] = y]
                              /\ FileOK(y) /\ CompleteOK(y)
  <1>0. PICK x \in Payload : x = ex[e] /\ FileOK(x) /\ CompleteOK(x)
    BY DEF Exports, ExportTypeOK
  <1>1. PICK s \in {"done", "failed"} :
           /\ ex' = [ex EXCEPT ![e].stage = s]
           /\ s = "done" => x.stage = "sign"
    BY <1>0 DEF Sign, DropExport
  <1>. DEFINE y == [x EXCEPT !.stage = s]
  <1>2. /\ y \in Payload /\ y.stage = s /\ y.disclosures = x.disclosures
        /\ y.reports = x.reports /\ y.cases = x.cases /\ y.actions = x.actions
        /\ y.from = x.from /\ y.to = x.to /\ y.settled = x.settled
    BY DEF Payload, ExportStage
  <1>3. ex' = [ex EXCEPT ![e] = y] BY <1>0, <1>1 DEF Exports, ExportTypeOK
  <1>. HIDE DEF y
  <1>4. CASE s = "failed" BY <1>2, <1>3, <1>4, NothingRead
  <1>5. CASE s = "done"
    <2>1. FileOK(y)
      BY <1>0, <1>1, <1>2, <1>5
         DEF FileOK, HasReports, HasCases, HasActions, HasAll, Explained
    <2>2. CompleteOK(y)
      BY <1>0, <1>1, <1>2, <1>5 DEF CompleteOK, HasReports, HasCases, HasActions, HasAll
    <2>. QED BY <1>2, <1>3, <2>1, <2>2
  <1>. QED BY <1>4, <1>5

LEMMA ExportsStep ==
    ASSUME Typed, Locked, LedgerReplay, Paired, Exports, [ExportNext]_exportVars
    PROVE  Exports'
  <1>1. ASSUME NEW x, UNCHANGED <<vars, stamps>>
        PROVE  (FileOK(x) => FileOK(x)') /\ (CompleteOK(x) => CompleteOK(x)')
    <2>1. UNCHANGED <<reports, cases, caseActions, disclosures, clock, pc, loc,
                      submittedAt, openedAt>>
      BY <1>1 DEF vars, tables, counters, requests, stamps
    <2>2. FileOK(x) => FileOK(x)' BY <2>1 DEF FileOK, Explained
    <2>3. CompleteOK(x) => CompleteOK(x)' BY <2>1 DEF CompleteOK, Settled, NoneInRange
    <2>. QED BY <2>2, <2>3
  <1>2. UNCHANGED <<vars, stamps>> => OpenedOn'
    BY DEF vars, tables, stamps, Exports, OpenedOn
  <1>3. CASE Next /\ Stamp /\ UNCHANGED ex
    <2>1. /\ Joins /\ OpenedOn' /\ ExportTypeOK'
      BY <1>3, WorkflowJoins DEF Exports, ExportTypeOK
    <2>2. ASSUME NEW e \in Exp PROVE FileOK(ex[e])' /\ CompleteOK(ex[e])'
      <3>1. PICK x \in Payload : x = ex[e] /\ x = ex'[e] /\ FileOK(x) /\ CompleteOK(x)
        BY <1>3 DEF Exports, ExportTypeOK
      <3>2. FileOK(x)' /\ CompleteOK(x)' BY <1>3, <2>1, <3>1, FileStays, CompleteStays
      <3>. QED BY <3>1, <3>2
    <2>. QED BY <2>1, <2>2 DEF Exports
  <1>4. ASSUME NEW e \in Exp, ExportStep(e), UNCHANGED <<vars, stamps>> PROVE Exports'
    <2>1. PICK y \in Payload : ex' = [ex EXCEPT ![e] = y] /\ FileOK(y) /\ CompleteOK(y)
      BY <1>4, StartFile, ReportsRead, CasesRead, ActionsRead, DisclosuresRead, FileEnds
         DEF ExportStep
    <2>2. /\ ex' \in [Exp -> Payload] /\ ex'[e] = y
          /\ \A f \in Exp \ {e} : ex'[f] = ex[f]
      BY <2>1 DEF Exports, ExportTypeOK
    <2>3. ASSUME NEW f \in Exp PROVE FileOK(ex[f])' /\ CompleteOK(ex[f])'
      <3>1. PICK x : x = ex'[f] /\ FileOK(x) /\ CompleteOK(x)
        BY <2>1, <2>2 DEF Exports
      <3>2. FileOK(x)' /\ CompleteOK(x)' BY <1>1, <1>4, <3>1
      <3>. QED BY <3>1, <3>2
    <2>4. ExportTypeOK' BY <1>4, <2>2 DEF Exports, ExportTypeOK, stamps
    <2>. QED BY <1>2, <1>4, <2>3, <2>4 DEF Exports
  <1>5. CASE UNCHANGED exportVars
    <2>1. UNCHANGED <<vars, stamps>> /\ ex' = ex BY <1>5 DEF exportVars
    <2>2. ASSUME NEW f \in Exp PROVE FileOK(ex[f])' /\ CompleteOK(ex[f])'
      <3>1. PICK x : x = ex'[f] /\ FileOK(x) /\ CompleteOK(x) BY <2>1 DEF Exports
      <3>2. FileOK(x)' /\ CompleteOK(x)' BY <1>1, <2>1, <3>1
      <3>. QED BY <3>1, <3>2
    <2>3. ExportTypeOK' BY <2>1 DEF Exports, ExportTypeOK, stamps
    <2>. QED BY <1>2, <2>1, <2>2, <2>3 DEF Exports
  <1>. QED BY <1>3, <1>4, <1>5 DEF ExportNext

-----------------------------------------------------------------------------
(* The properties.                                                         *)

\* A run of the exports is a run of the workflow with exports beside it.
LEMMA ExportsRunWorkflow == ExportSpec => Spec
  <1>1. ExportInit => Init BY DEF ExportInit
  <1>2. [ExportNext]_exportVars => [Next]_vars BY DEF ExportNext, exportVars
  <1>. QED BY <1>1, <1>2, PTL DEF ExportSpec, Spec

THEOREM FilesStayOK == ExportSpec => []Exports
  <1>1. ASSUME ExportInit PROVE Exports
    <2>1. NoPayload \in Payload /\ NoPayload.stage = "idle"
      BY CalendarAssumption DEF NoPayload, Payload, ExportStage
    <2>2. FileOK(NoPayload) /\ CompleteOK(NoPayload) BY <2>1, NothingRead
    <2>3. ExportTypeOK /\ \A e \in Exp : ex[e] = NoPayload
      BY <1>1, <2>1 DEF ExportInit, ExportTypeOK
    <2>4. OpenedOn BY <1>1 DEF ExportInit, Init, OpenedOn
    <2>. QED BY <2>2, <2>3, <2>4 DEF Exports
  <1>2. Init => Paired BY DEF Init, Paired, Consumed
  <1>3. ExportSpec => []Paired
    BY <1>2, ExportsRunWorkflow, Layered, RowsAfterCommit, PairedStep, PTL DEF Spec
  <1>. QED
    BY <1>1, <1>3, ExportsRunWorkflow, Layered, HistoryReplays, ExportsStep, PTL DEF ExportSpec

\* What the exports collect has the type of the columns it was read from.
THEOREM ExportTyped == ExportSpec => []ExportTypeOK
  <1>1. Exports => ExportTypeOK BY DEF Exports
  <1>. QED BY <1>1, FilesStayOK, PTL

\* The days of a file, and the stamps of its rows, are natural numbers.
LEMMA FileTypes ==
    ASSUME Typed, Exports, NEW e \in Files
    PROVE  /\ ex[e] \in Payload /\ FileOK(ex[e]) /\ CompleteOK(ex[e]) /\ ex[e].stage = "done"
           /\ ex[e].from \in Nat /\ ex[e].to \in Nat
           /\ \A p \in Report : submittedAt[p] \in Nat
           /\ \A c \in Case : openedAt[c] \in Nat
           /\ \A a \in caseActions : a.at \in Nat
           /\ \A d \in disclosures : d.at \in Nat
  <1>1. e \in Exp /\ ex[e] \in Payload /\ ex[e].stage = "done"
    BY DEF Files, Exports, ExportTypeOK
  <1>2. ex[e].from \in Nat /\ ex[e].to \in Nat BY <1>1, CalendarAssumption DEF Payload
  <1>3. /\ \A a \in caseActions : a.at \in Nat
        /\ \A d \in disclosures : d.at \in Nat
    BY DEF Typed, TypeOK, ActionRow, DisclosureRow
  <1>. QED BY <1>1, <1>2, <1>3 DEF Exports, ExportTypeOK

\* In terms of days, a settled file is the content of its range.
LEMMA SettledFile ==
    ASSUME Typed, Exports, NEW e \in Files, ex[e].settled
    PROVE  /\ ex[e].reports = ReportsOf(ex[e].from, ex[e].to)
           /\ CaseIds(e) = CasesOf(ex[e].from, ex[e].to)
           /\ ex[e].actions = ActionsOf(ex[e].from, ex[e].to)
           /\ ex[e].disclosures = DisclosuresOf(ex[e].from, ex[e].to)
  <1>0. PICK x : x = ex[e] OBVIOUS
  <1>1. /\ x \in Payload /\ FileOK(x) /\ CompleteOK(x) /\ x.stage = "done" /\ x.settled
        /\ x.from \in Nat /\ x.to \in Nat
        /\ \A p \in Report : submittedAt[p] \in Nat
        /\ \A c \in Case : openedAt[c] \in Nat
        /\ \A a \in caseActions : a.at \in Nat
        /\ \A d \in disclosures : d.at \in Nat
    BY <1>0, FileTypes
  <1>2. \A at \in Nat : InRange(at, x.from, x.to) <=> Within(at, x.from, x.to)
    BY <1>1, RangeOfDays
  <1>3. /\ x.reports \subseteq Report
        /\ \A row \in x.cases : row.id \in Case
    BY <1>1 DEF Payload
  <1>4. x.stage \in HasReports /\ x.stage \in HasCases /\ x.stage \in HasActions
        /\ x.stage \in HasAll
    BY <1>1 DEF HasReports, HasCases, HasActions, HasAll
  <1>5. x.reports = ReportsOf(x.from, x.to)
    BY <1>1, <1>2, <1>3, <1>4 DEF CompleteOK, ReportsOf, Known
  <1>6. {row.id : row \in x.cases} = CasesOf(x.from, x.to)
    <2>1. \A c \in Case : (\E row \in x.cases : row.id = c)
                             <=> cases[c] # Null /\ Within(openedAt[c], x.from, x.to)
      BY <1>1, <1>2, <1>4 DEF CompleteOK
    <2>. QED BY <1>3, <2>1 DEF CasesOf, Opened
  <1>7. x.actions = ActionsOf(x.from, x.to)
    BY <1>1, <1>2, <1>4 DEF CompleteOK, FileOK, ActionsOf
  <1>8. x.disclosures = DisclosuresOf(x.from, x.to)
    BY <1>1, <1>2, <1>4 DEF CompleteOK, FileOK, DisclosuresOf
  <1>. QED BY <1>0, <1>5, <1>6, <1>7, <1>8 DEF CaseIds

\* A file whose range had settled when do_export (export.rs) read its first
\* table is the whole content of the range, and stays it: no transaction
\* around the four SELECTs is needed.
THEOREM SettledFilesComplete == ExportSpec => []SettledComplete
  <1>1. Typed /\ Exports => SettledComplete
    BY SettledFile DEF SettledComplete
  <1>. QED BY <1>1, ExportsRunWorkflow, Layered, FilesStayOK, PTL

\* Files of adjacent ranges share no row, and two settled ones hold every
\* report, case, history row and disclosure of the joint range (the half-open
\* ranges of export.rs).
THEOREM AdjacentFilesConcatenate == ExportSpec => []AdjacentExportsConcatenate
  <1>1. ASSUME Typed, Exports, NEW e \in Files, NEW f \in Files, ex[f].from = ex[e].to + 1
        PROVE  /\ ex[e].reports \cap ex[f].reports = {}
               /\ CaseIds(e) \cap CaseIds(f) = {}
               /\ ex[e].actions \cap ex[f].actions = {}
               /\ ex[e].disclosures \cap ex[f].disclosures = {}
               /\ ex[e].settled /\ ex[f].settled =>
                     /\ ex[e].reports \cup ex[f].reports = ReportsOf(ex[e].from, ex[f].to)
                     /\ CaseIds(e) \cup CaseIds(f) = CasesOf(ex[e].from, ex[f].to)
                     /\ ex[e].actions \cup ex[f].actions = ActionsOf(ex[e].from, ex[f].to)
                     /\ ex[e].disclosures \cup ex[f].disclosures
                            = DisclosuresOf(ex[e].from, ex[f].to)
    <2>0. PICK x, y : x = ex[e] /\ y = ex[f] OBVIOUS
    <2>1. /\ x \in Payload /\ FileOK(x) /\ x.stage = "done" /\ x.from \in Nat /\ x.to \in Nat
          /\ y \in Payload /\ FileOK(y) /\ y.stage = "done" /\ y.from \in Nat /\ y.to \in Nat
          /\ y.from = x.to + 1
          /\ \A p \in Report : submittedAt[p] \in Nat
          /\ \A c \in Case : openedAt[c] \in Nat
          /\ \A a \in caseActions : a.at \in Nat
          /\ \A d \in disclosures : d.at \in Nat
      BY <1>1, <2>0, FileTypes
    <2>2. x.from <= x.to /\ y.from <= y.to
      BY <2>1 DEF FileOK, HasReports
    <2>3. \A at \in Nat : ~(InRange(at, x.from, x.to) /\ InRange(at, y.from, y.to))
      BY <2>1, MidnightInt DEF InRange
    <2>4. /\ x.reports \subseteq Report
          /\ \A row \in x.cases : row.id \in Case
      BY <2>1 DEF Payload
    <2>5. /\ \A p \in x.reports : InRange(submittedAt[p], x.from, x.to)
          /\ \A row \in x.cases : InRange(openedAt[row.id], x.from, x.to)
          /\ \A a \in x.actions : a \in caseActions /\ InRange(a.at, x.from, x.to)
          /\ \A d \in x.disclosures : d \in disclosures /\ InRange(d.at, x.from, x.to)
          /\ \A p \in y.reports : InRange(submittedAt[p], y.from, y.to)
          /\ \A row \in y.cases : InRange(openedAt[row.id], y.from, y.to)
          /\ \A a \in y.actions : InRange(a.at, y.from, y.to)
          /\ \A d \in y.disclosures : InRange(d.at, y.from, y.to)
      BY <2>1 DEF FileOK, HasReports, HasCases, HasActions, HasAll
    <2>6. /\ x.reports \cap y.reports = {}
          /\ x.actions \cap y.actions = {} /\ x.disclosures \cap y.disclosures = {}
      BY <2>1, <2>3, <2>4, <2>5
    <2>7. {row.id : row \in x.cases} \cap {row.id : row \in y.cases} = {}
      BY <2>1, <2>3, <2>4, <2>5
    <2>8. ASSUME x.settled, y.settled
          PROVE  /\ x.reports \cup y.reports = ReportsOf(x.from, y.to)
                 /\ CaseIds(e) \cup CaseIds(f) = CasesOf(x.from, y.to)
                 /\ x.actions \cup y.actions = ActionsOf(x.from, y.to)
                 /\ x.disclosures \cup y.disclosures = DisclosuresOf(x.from, y.to)
      <3>1. \A at \in Nat : Within(at, x.from, y.to)
                               <=> Within(at, x.from, x.to) \/ Within(at, y.from, y.to)
        <4>1. \A at \in Nat : DayOf(at) \in Int BY CalendarAssumption DEF DayOf
        <4>. QED BY <2>1, <2>2, <4>1 DEF Within
      <3>2. /\ CaseIds(e) = CasesOf(x.from, x.to) /\ CaseIds(f) = CasesOf(y.from, y.to)
            /\ x.reports = ReportsOf(x.from, x.to) /\ y.reports = ReportsOf(y.from, y.to)
            /\ x.actions = ActionsOf(x.from, x.to) /\ y.actions = ActionsOf(y.from, y.to)
            /\ x.disclosures = DisclosuresOf(x.from, x.to)
            /\ y.disclosures = DisclosuresOf(y.from, y.to)
        BY <1>1, <2>0, <2>8, SettledFile
      <3>3. /\ \A c \in Opened : openedAt[c] \in Nat
            /\ \A p \in Known : submittedAt[p] \in Nat
        BY <2>1 DEF Opened, Known
      <3>4. x.reports \cup y.reports = ReportsOf(x.from, y.to)
        BY <3>1, <3>2, <3>3 DEF ReportsOf
      <3>5. CaseIds(e) \cup CaseIds(f) = CasesOf(x.from, y.to)
        BY <3>1, <3>2, <3>3 DEF CasesOf
      <3>6. x.actions \cup y.actions = ActionsOf(x.from, y.to)
        BY <2>1, <3>1, <3>2 DEF ActionsOf
      <3>7. x.disclosures \cup y.disclosures = DisclosuresOf(x.from, y.to)
        BY <2>1, <3>1, <3>2 DEF DisclosuresOf
      <3>. QED BY <3>4, <3>5, <3>6, <3>7
    <2>. QED BY <2>0, <2>6, <2>7, <2>8 DEF CaseIds
  <1>2. Typed /\ Exports => AdjacentExportsConcatenate
    BY <1>1 DEF AdjacentExportsConcatenate
  <1>. QED BY <1>2, ExportsRunWorkflow, Layered, FilesStayOK, PTL

\* Whatever commits between the four statements of do_export (export.rs), the
\* later lists of a file explain its earlier ones.
THEOREM ListsSupported == ExportSpec => []EarlierListsSupported
  <1>1. ASSUME Typed, Exports, NEW e \in Files
        PROVE  /\ \A row \in ex[e].cases :
                     /\ \E a \in ex[e].actions : a.case = row.id /\ a.type = "case_opened"
                     /\ \E a \in StatusRows(row.id) :
                           /\ StatusSaid(a) = row.status
                           /\ Within(a.at, ex[e].from, ex[e].to) => a \in ex[e].actions
               /\ \A a \in ex[e].actions : a.type = "disclosure_consumed" =>
                     \E d \in ex[e].disclosures : d.corr = a.corr
    <2>0. PICK x : x = ex[e] OBVIOUS
    <2>1. /\ FileOK(x) /\ x.stage = "done" /\ x.from \in Nat /\ x.to \in Nat
          /\ \A a \in caseActions : a.at \in Nat
      BY <1>1, <2>0, FileTypes
    <2>2. \A at \in Nat : InRange(at, x.from, x.to) <=> Within(at, x.from, x.to)
      BY <2>1, RangeOfDays
    <2>3. /\ \A row \in x.cases : Explained(x, row)
          /\ \A a \in x.actions : a.type = "disclosure_consumed" =>
                \E d \in x.disclosures : d.corr = a.corr
      BY <2>1 DEF FileOK, HasActions, HasAll
    <2>. QED BY <2>0, <2>1, <2>2, <2>3 DEF Explained, Says, StatusRows
  <1>2. Typed /\ Exports => EarlierListsSupported
    BY <1>1 DEF EarlierListsSupported
  <1>. QED BY <1>2, ExportsRunWorkflow, Layered, FilesStayOK, PTL
=============================================================================
