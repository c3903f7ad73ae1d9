---------------------------- MODULE Pages_proofs ----------------------------
(***************************************************************************)
(* Proofs about the tabs of Pages.  The pages read what the workflow has   *)
(* committed, so the proofs rest on what History_proofs shows of the       *)
(* tables: LedgerReplay when a row is read, and rows that only join and    *)
(* columns that never change until the next read.                          *)
(*   TabOK   what a tab has read was true of the tables then, and what of  *)
(*           it the later reads and the properties need is true still      *)
(***************************************************************************)
EXTENDS Pages, History_proofs

\* The rows name the status and the assignee in the header of page x.
Named(x, rows) ==
    /\ \E a \in rows :
          /\ a.case = x.case /\ a.type \in {"case_opened", "status_changed"}
          /\ StatusSaid(a) = x.row.status
    /\ x.row.assignee # Null =>
          \E a \in rows :
             a.case = x.case /\ a.type \in {"assigned", "reassigned"} /\ a.to = x.row.assignee

\* The case page past its first read, past its third.
HasRow == {"report", "history", "options", "caseShown"}
HasHistory == {"options", "caseShown"}

TabOK(x) ==
    /\ x.stage \in {"case", "identity", "elevate", "formShown"} \cup HasRow =>
          x.user \in User /\ x.case \in Case
    /\ x.stage \in HasRow =>
          /\ x.row \in CaseRow
          /\ cases[x.case] # Null /\ cases[x.case].report = x.row.report
          /\ IsLead(x.user) \/ x.row.assignee = x.user
          /\ Named(x, caseActions)
    /\ x.stage \in HasHistory => Named(x, x.history)

Tabs ==
    /\ PagesTypeOK
    /\ \A v \in View : TabOK(pg[v])

-----------------------------------------------------------------------------
(* The workflow beside the pages.                                          *)

\* A run of the pages is a run of the workflow with tabs beside it.
LEMMA PagesRunWorkflow == PagesSpec => Spec
  <1>1. PagesInit => Init BY DEF PagesInit
  <1>2. [PagesNext]_pagesVars => [Next]_vars BY DEF PagesNext, pagesVars
  <1>. QED BY <1>1, <1>2, PTL DEF PagesSpec, Spec

\* No handler deletes a row or moves a case to another report.
LEMMA ColumnsKept ==
    ASSUME Typed, Locked, [Next]_vars
    PROVE  Persist
  <1>1. ASSUME NEW r \in Req, Start(r) \/ Step(r) \/ Cancel(r) PROVE Framed(r)
    BY <1>1, StartFramed, StepFramed, CancelFramed
  <1>2. ASSUME NEW p \in Report, Submit(p)
        PROVE  /\ UNCHANGED cases
               /\ \A q \in Report : reports[q] # Null => reports'[q] = reports[q]
    BY <1>2 DEF Submit, Typed, TypeOK
  <1>3. ASSUME NEW u \in User, Framework(u) PROVE UNCHANGED <<reports, cases>>
    BY <1>3, FrameworkQuiet DEF tables
  <1>4. UNCHANGED vars => UNCHANGED <<reports, cases>> BY DEF vars, tables
  <1>. QED BY <1>1, <1>2, <1>3, <1>4 DEF Next, Quiescent, Framed, Persist

-----------------------------------------------------------------------------
(* Tabs stay good.                                                         *)

\* A tab that does not move stays good while the workflow does.
LEMMA IdleTabStaysOK ==
    ASSUME Typed, Locked, [Next]_vars, NEW v \in View, TabOK(pg[v]), pg'[v] = pg[v]
    PROVE  TabOK(pg[v])'
  <1>0. PICK x : x = pg[v] OBVIOUS
  <1>1. Persist /\ caseActions \subseteq caseActions'
    BY ColumnsKept, HistoryGrows
  <1>3. TabOK(x) BY <1>0
  <1>4. Named(x, caseActions) => Named(x, caseActions') BY <1>1 DEF Named
  <1>5. x.stage \in HasRow => x.case \in Case /\ cases[x.case] # Null BY <1>3 DEF TabOK
  <1>6. x.stage \in HasRow =>
           cases'[x.case] # Null /\ cases'[x.case].report = x.row.report
    BY <1>1, <1>3, <1>5 DEF TabOK, Persist
  <1>7. TabOK(x)' BY <1>3, <1>4, <1>6 DEF TabOK, HasRow, Named
  <1>. QED BY <1>0, <1>7

\* A tab goes blank, or to the first read of a page.
LEMMA VisitOK ==
    ASSUME Tabs, NEW v \in View, NEW x \in Page,
           x.stage \in {"blank", "case", "queue", "identity"},
           x.stage \in {"case", "identity"} => x.user \in User /\ x.case \in Case,
           pg' = [pg EXCEPT ![v] = x]
    PROVE  PagesTypeOK' /\ TabOK(pg[v])'
  <1>1. pg' \in [View -> Page] /\ pg'[v] = x BY DEF Tabs, PagesTypeOK
  <1>2. TabOK(x)' BY DEF TabOK, HasRow, HasHistory
  <1>. QED BY <1>1, <1>2 DEF PagesTypeOK

LEMMA BlankPage ==
    /\ Blank \in Page /\ Blank.stage = "blank" /\ "blank" \notin Reading \cup Shown
    /\ \A v \in View : Tabs /\ Close(v) => PagesTypeOK' /\ TabOK(pg[v])'
  <1>1. Blank \in Page /\ Blank.stage = "blank" BY DEF Blank, Page
  <1>. QED BY <1>1, VisitOK DEF Close, Reading, Shown

\* What ReadCase finds in the header is in the history already.
LEMMA HeaderNamed ==
    ASSUME LedgerReplay, NEW x, x.case \in Case, cases[x.case] # Null, x.row = cases[x.case]
    PROVE  Named(x, caseActions)
  <1>1. /\ \E a \in StatusRows(x.case) : StatusSaid(a) = cases[x.case].status
        /\ cases[x.case].assignee # Null =>
              \E a \in AssigneeRows(x.case) : a.to = cases[x.case].assignee
    BY DEF LedgerReplay, Opened
  <1>. QED BY <1>1 DEF Named, StatusRows, AssigneeRows

LEMMA StepTabOK ==
    ASSUME Typed, LedgerReplay, Tabs, NEW v \in View, PageStep(v), UNCHANGED vars
    PROVE  PagesTypeOK' /\ TabOK(pg[v])'
  <1>0. PICK x \in Page : x = pg[v] /\ TabOK(x) BY DEF Tabs, PagesTypeOK
  <1>1. UNCHANGED <<reports, cases, caseActions>> BY DEF vars, tables
  <1>2. ASSUME NEW y \in Page, pg' = [pg EXCEPT ![v] = y], TabOK(y)
        PROVE  PagesTypeOK' /\ TabOK(pg[v])'
    <2>1. pg' \in [View -> Page] /\ pg'[v] = y BY <1>2 DEF Tabs, PagesTypeOK
    <2>2. TabOK(y)' BY <1>1, <1>2 DEF TabOK, Named
    <2>. QED BY <2>1, <2>2 DEF PagesTypeOK
  <1>3. Close(v) => PagesTypeOK' /\ TabOK(pg[v])' BY BlankPage
  <1>4. CASE GoToCase(v) \/ GoToQueue(v) \/ GoToDisclosure(v)
    <2>1. ASSUME NEW y \in Page, NEW min, Visit(v, min, y),
                 y.stage \in {"case", "queue", "identity"},
                 y.stage \in {"case", "identity"} => y.user \in User /\ y.case \in Case
          PROVE  PagesTypeOK' /\ TabOK(pg[v])'
      BY <1>3, <2>1, VisitOK DEF Visit
    <2>2. CASE GoToCase(v)
      <3>1. PICK u \in User, c \in Case :
               Visit(v, "staff", [Blank EXCEPT !.stage = Following(IsLead(u))["guard"],
                                               !.user = u, !.case = c])
        BY <2>2 DEF GoToCase
      <3>. DEFINE y == [Blank EXCEPT !.stage = Following(IsLead(u))["guard"],
                                     !.user = u, !.case = c]
      <3>2. y \in Page /\ y.stage = "case" /\ y.user \in User /\ y.case \in Case
        BY DEF Blank, Page, Reading, Following
      <3>. HIDE DEF y
      <3>. QED BY <2>1, <3>1, <3>2 DEF y
    <2>3. CASE GoToQueue(v)
      <3>1. PICK u \in User :
               Visit(v, "administrator", [Blank EXCEPT !.stage = "queue", !.user = u])
        BY <2>3 DEF GoToQueue
      <3>. DEFINE y == [Blank EXCEPT !.stage = "queue", !.user = u]
      <3>2. y \in Page /\ y.stage = "queue" BY DEF Blank, Page, Reading
      <3>. HIDE DEF y
      <3>. QED BY <2>1, <3>1, <3>2 DEF y
    <2>4. CASE GoToDisclosure(v)
      <3>1. PICK u \in User, c \in Case :
               Visit(v, "administrator",
                     [Blank EXCEPT !.stage = "identity", !.user = u, !.case = c])
        BY <2>4 DEF GoToDisclosure
      <3>. DEFINE y == [Blank EXCEPT !.stage = "identity", !.user = u, !.case = c]
      <3>2. y \in Page /\ y.stage = "identity" /\ y.user \in User /\ y.case \in Case
        BY DEF Blank, Page, Reading
      <3>. HIDE DEF y
      <3>. QED BY <2>1, <3>1, <3>2 DEF y
    <2>. QED BY <1>4, <2>2, <2>3, <2>4
  <1>5. CASE ReadCase(v)
    <2>1. CASE /\ cases[x.case] # Null /\ MayActOn(x.user, x.case)
               /\ pg' = [pg EXCEPT ![v].row = cases[x.case],
                                   ![v].stage = Following(IsLead(x.user))["case"]]
      <3>. DEFINE y == [x EXCEPT !.row = cases[x.case],
                                 !.stage = Following(IsLead(x.user))["case"]]
      <3>1. x.user \in User /\ x.case \in Case
        BY <1>0, <1>5 DEF ReadCase, TabOK
      <3>2. cases[x.case] \in CaseRow BY <2>1, <3>1 DEF Typed, TypeOK
      <3>3. /\ y \in Page /\ y.stage = "report" /\ y.row = cases[x.case]
            /\ y.case = x.case /\ y.user = x.user
        BY <1>0, <3>2 DEF Page, Reading, Following
      <3>4. pg' = [pg EXCEPT ![v] = y] BY <1>0, <2>1 DEF Tabs, PagesTypeOK
      <3>. HIDE DEF y
      <3>5. Named(y, caseActions) BY <2>1, <3>1, <3>3, HeaderNamed
      <3>6. TabOK(y)
        BY <2>1, <3>1, <3>2, <3>3, <3>5 DEF TabOK, HasRow, HasHistory, MayActOn
      <3>. QED BY <1>2, <3>3, <3>4, <3>6
    <2>. QED BY <1>0, <1>3, <1>5, <2>1 DEF ReadCase
  <1>6. CASE ReadReport(v)
    <2>1. CASE pg' = [pg EXCEPT ![v].stage = Following(IsLead(x.user))["report"]]
      <3>. DEFINE y == [x EXCEPT !.stage = Following(IsLead(x.user))["report"]]
      <3>1. x.stage = "report" BY <1>0, <1>6 DEF ReadReport
      <3>2. /\ y \in Page /\ y.stage = "history" /\ y.row = x.row
            /\ y.case = x.case /\ y.user = x.user
        BY <1>0 DEF Page, Reading, Following
      <3>3. pg' = [pg EXCEPT ![v] = y] BY <1>0, <2>1 DEF Tabs, PagesTypeOK
      <3>. HIDE DEF y
      <3>4. TabOK(y)
        BY <1>0, <3>1, <3>2 DEF TabOK, HasRow, HasHistory, Named
      <3>. QED BY <1>2, <3>2, <3>3, <3>4
    <2>. QED BY <1>0, <1>3, <1>6, <2>1 DEF ReadReport
  <1>7. CASE ReadHistory(v)
    <2>. DEFINE h == {a \in caseActions : a.case = x.case}
                s == Following(IsLead(x.user))["history"]
                y == [x EXCEPT !.history = h, !.stage = s]
    <2>1. x.stage = "history" /\ s \in HasHistory
      BY <1>0, <1>7 DEF ReadHistory, Following, HasHistory
    <2>2. h \in SUBSET ActionRow BY DEF Typed, TypeOK
    <2>3. /\ y \in Page /\ y.stage = s /\ y.row = x.row /\ y.case = x.case
          /\ y.user = x.user /\ y.history = h
      BY <1>0, <2>1, <2>2 DEF Page, Reading, Shown, HasHistory
    <2>4. pg' = [pg EXCEPT ![v] = y] BY <1>0, <1>7 DEF ReadHistory, Tabs, PagesTypeOK
    <2>. HIDE DEF y, s
    <2>5. Named(x, caseActions) BY <1>0, <2>1 DEF TabOK, HasRow
    <2>6. Named(y, caseActions) /\ Named(y, y.history) BY <2>3, <2>5 DEF Named
    <2>7. TabOK(y)
      BY <1>0, <2>1, <2>3, <2>6 DEF TabOK, HasRow, HasHistory
    <2>. QED BY <1>2, <2>3, <2>4, <2>7
  <1>8. CASE ReadOptions(v)
    <2>. DEFINE o == {u \in User : Assignable(u)}
                y == [x EXCEPT !.options = o, !.stage = "caseShown"]
    <2>1. x.stage = "options" BY <1>0, <1>8 DEF ReadOptions
    <2>2. o \in SUBSET User OBVIOUS
    <2>3. /\ y \in Page /\ y.stage = "caseShown" /\ y.row = x.row /\ y.case = x.case
          /\ y.user = x.user /\ y.history = x.history
      BY <1>0, <2>2 DEF Page, Shown
    <2>4. pg' = [pg EXCEPT ![v] = y]
      BY <1>0, <1>8 DEF ReadOptions, Following, Tabs, PagesTypeOK
    <2>. HIDE DEF y
    <2>5. TabOK(y)
      BY <1>0, <2>1, <2>3 DEF TabOK, HasRow, HasHistory, Named
    <2>. QED BY <1>2, <2>3, <2>4, <2>5
  <1>9. CASE ReadQueue(v)
    <2>. DEFINE q == {p \in Known : reports[p].status = "intake"}
                y == [x EXCEPT !.queue = q, !.stage = "queueShown"]
    <2>1. y \in Page /\ y.stage = "queueShown" BY <1>0 DEF Page, Shown, Known
    <2>2. pg' = [pg EXCEPT ![v] = y] BY <1>0, <1>9 DEF ReadQueue, Tabs, PagesTypeOK
    <2>. HIDE DEF y
    <2>3. TabOK(y) BY <2>1 DEF TabOK, HasRow, HasHistory
    <2>. QED BY <1>2, <2>1, <2>2, <2>3
  <1>10. CASE ReadIdentity(v)
    <2>1. CASE /\ cases[x.case] # Null
               /\ pg' = [pg EXCEPT ![v].stage = IF HasEmail(x.case) THEN "elevate" ELSE "stubShown"]
      <3>. DEFINE y == [x EXCEPT !.stage = IF HasEmail(x.case) THEN "elevate" ELSE "stubShown"]
      <3>1. x.user \in User /\ x.case \in Case BY <1>0, <1>10 DEF ReadIdentity, TabOK
      <3>2. /\ y \in Page /\ y.case = x.case /\ y.user = x.user
            /\ y.stage \in {"elevate", "stubShown"}
        BY <1>0 DEF Page, Reading, Shown
      <3>3. pg' = [pg EXCEPT ![v] = y] BY <1>0, <2>1 DEF Tabs, PagesTypeOK
      <3>. HIDE DEF y
      <3>4. TabOK(y) BY <3>1, <3>2 DEF TabOK, HasRow, HasHistory
      <3>. QED BY <1>2, <3>2, <3>3, <3>4
    <2>. QED BY <1>0, <1>3, <1>10, <2>1 DEF ReadIdentity
  <1>11. CASE ReadElevation(v)
    <2>1. CASE pg' = [pg EXCEPT ![v].stage = "formShown"]
      <3>. DEFINE y == [x EXCEPT !.stage = "formShown"]
      <3>1. x.stage = "elevate" BY <1>0, <1>11 DEF ReadElevation
      <3>2. y \in Page /\ y.stage = "formShown" /\ y.case = x.case /\ y.user = x.user
        BY <1>0 DEF Page, Shown
      <3>3. pg' = [pg EXCEPT ![v] = y] BY <1>0, <2>1 DEF Tabs, PagesTypeOK
      <3>. HIDE DEF y
      <3>4. TabOK(y) BY <1>0, <3>1, <3>2 DEF TabOK, HasRow, HasHistory
      <3>. QED BY <1>2, <3>2, <3>3, <3>4
    <2>. QED BY <1>3, <1>11, <2>1 DEF ReadElevation
  <1>12. CASE DropPage(v) BY <1>3, <1>12 DEF DropPage
  <1>. QED
    BY <1>4, <1>5, <1>6, <1>7, <1>8, <1>9, <1>10, <1>11, <1>12 DEF PageStep

\* A page step moves one tab and no table.
LEMMA OtherTabsStay ==
    ASSUME PagesTypeOK, NEW v \in View, PageStep(v), NEW w \in View, w # v
    PROVE  pg'[w] = pg[w]
  BY DEF PagesTypeOK, PageStep, GoToCase, GoToQueue, GoToDisclosure, Visit, Close, ReadCase,
         ReadReport, ReadHistory, ReadOptions, ReadQueue, ReadIdentity, ReadElevation, DropPage

LEMMA TabsStep ==
    ASSUME Typed, Locked, LedgerReplay, Tabs, [PagesNext]_pagesVars
    PROVE  Tabs'
  <1>1. ASSUME [Next]_vars, UNCHANGED pg PROVE Tabs'
    BY <1>1, IdleTabStaysOK DEF Tabs, PagesTypeOK
  <1>2. ASSUME NEW v \in View, PageStep(v), UNCHANGED vars PROVE Tabs'
    BY <1>2, StepTabOK, OtherTabsStay, IdleTabStaysOK DEF Tabs
  <1>. QED BY <1>1, <1>2 DEF PagesNext, pagesVars

THEOREM TabsStayOK == PagesSpec => []Tabs
  <1>1. PagesInit => Tabs
    BY BlankPage DEF PagesInit, Tabs, PagesTypeOK, TabOK, HasRow, HasHistory
  <1>. QED BY <1>1, PagesRunWorkflow, Layered, HistoryReplays, TabsStep, PTL DEF PagesSpec

-----------------------------------------------------------------------------
(* The properties.                                                         *)

\* What the pages hold has the type of the columns they were read from.
THEOREM PagesTyped == PagesSpec => []PagesTypeOK
  <1>1. Tabs => PagesTypeOK BY DEF Tabs
  <1>. QED BY <1>1, TabsStayOK, PTL

\* A case page explains its header by its history, whatever commits between
\* the statements of show_case_detail (cases.rs): the history is read last.
THEOREM HistoryExplains == PagesSpec => []PageHistoryExplains
  <1>1. Tabs => PageHistoryExplains
    BY DEF Tabs, TabOK, HasHistory, Named, PageHistoryExplains
  <1>. QED BY <1>1, TabsStayOK, PTL

\* A case page shown to a handler lists the assignment that let them in
\* (the authority filter of show_case_detail, cases.rs).
THEOREM ShownToAssigned == PagesSpec => []PageShownToAssigned
  <1>1. ASSUME Tabs, NEW v \in View, pg[v].stage = "caseShown", ~IsLead(pg[v].user)
        PROVE  \E a \in pg[v].history :
                  a.type \in {"assigned", "reassigned"} /\ a.to = pg[v].user
    <2>1. TabOK(pg[v]) BY <1>1 DEF Tabs
    <2>2. pg[v].row.assignee = pg[v].user /\ pg[v].user # Null /\ Named(pg[v], pg[v].history)
      BY <1>1, <2>1, Facts DEF TabOK, HasRow, HasHistory
    <2>. QED BY <2>2 DEF Named
  <1>2. Tabs => PageShownToAssigned BY <1>1 DEF PageShownToAssigned
  <1>. QED BY <1>2, TabsStayOK, PTL

\* A report whose case somebody has been shown is in no queue read later
\* (show_triage_queue, triage.rs): its status never reads intake again.
THEOREM OpenedStaysOut == PagesSpec => OpenedStaysOutOfQueue
  <1>. DEFINE Kept == \A v, w \in View :
          /\ pg[v].stage = "queue" /\ pg'[v].stage = "queueShown"
          /\ pg[w].stage = "caseShown"
          => pg[w].row.report \notin pg'[v].queue
  <1>1. ASSUME Tabs, Sync, [PagesNext]_pagesVars PROVE [Kept]_pg
    <2>. SUFFICES ASSUME NEW v \in View, NEW w \in View,
                         pg[v].stage = "queue", pg'[v].stage = "queueShown",
                         pg[w].stage = "caseShown"
                  PROVE  pg[w].row.report \notin pg'[v].queue
      OBVIOUS
    <2>1. PICK u \in View : PageStep(u)
      BY <1>1 DEF PagesNext, pagesVars
    <2>2. u = v BY <1>1, <2>1, OtherTabsStay DEF Tabs
    <2>3. ReadQueue(v)
      <3>1. ReadQueue(v) \/ DropPage(v)
        BY <2>1, <2>2
           DEF PageStep, GoToCase, GoToQueue, GoToDisclosure, Visit, Shown, ReadCase,
               ReadReport, ReadHistory, ReadOptions, ReadIdentity, ReadElevation
      <3>2. DropPage(v) => pg'[v] = Blank
        BY <1>1 DEF DropPage, Close, Tabs, PagesTypeOK
      <3>. QED BY <3>1, <3>2, BlankPage
    <2>4. pg'[v].queue = {p \in Known : reports[p].status = "intake"}
      BY <1>1, <2>3 DEF ReadQueue, Tabs, PagesTypeOK, Page
    <2>5. /\ pg[w].case \in Case /\ cases[pg[w].case] # Null
          /\ cases[pg[w].case].report = pg[w].row.report
      BY <1>1 DEF Tabs, TabOK, HasRow
    <2>6. pg[w].row.report \notin {p \in Known : reports[p].status = "intake"}
      BY <1>1, <2>5 DEF Sync, ReporterViewInSync, HasCase, Opened
    <2>. QED BY <2>4, <2>6
  <1>. QED
    BY <1>1, TabsStayOK, PagesRunWorkflow, Synchronised, PTL
       DEF PagesSpec, OpenedStaysOutOfQueue
=============================================================================
