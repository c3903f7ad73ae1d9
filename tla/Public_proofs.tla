--------------------------- MODULE Public_proofs ---------------------------
(***************************************************************************)
(* Proofs about the public side: what a receipt opens, and that the status *)
(* page keeps the promises of ReporterView.                                *)
(*   Forms   a receipt and the row it was given for carry the same token,  *)
(*           no two rows carry one token, no two receipts one row          *)
(* That the reporter's status is the truth rests on Sync (Workflow_proofs).*)
(***************************************************************************)
EXTENDS PublicForm, Workflow_proofs

Given == {"receipt", "held"}

FormOK(x) ==
    /\ x.stage \in {"insert"} \cup Given => x.token \in Token
    /\ x.stage \in Given =>
          x.report \in Report /\ reports[x.report] # Null /\ token[x.report] = x.token
    /\ x.told # Null =>
          /\ x.stage = "held" /\ x.told.report = x.report
          /\ x.told.status \in Status

Forms ==
    /\ PublicTypeOK
    /\ \A f \in Form : FormOK(fm[f])
    /\ \A p, q \in Report : token[p] # Null /\ token[p] = token[q] => p = q
    /\ \A f, g \in Form :
          fm[f].stage \in Given /\ fm[g].stage \in Given /\ fm[f].report = fm[g].report => f = g

-----------------------------------------------------------------------------
(* The workflow beside the forms.                                          *)

\* A run of the public side is a run of the workflow with forms beside it.
LEMMA PublicRunsWorkflow == PublicSpec => Spec
  <1>1. PublicInit => Init BY DEF PublicInit
  <1>2. [PublicNext]_publicVars => [Next]_vars
    BY DEF PublicNext, publicVars, FormStep, Post, Insert, InsertFails, Receipt, LoseReceipt,
           LookUp, Next
  <1>. QED BY <1>1, <1>2, PTL DEF PublicSpec, Spec

\* What the workflow does to a report and to whether it has a case.
LEMMA WorkflowOnReports ==
    ASSUME Typed, Locked, NEW r \in Req, Start(r) \/ Step(r) \/ Cancel(r)
    PROVE  /\ \A p \in Report : reports'[p] # Null <=> reports[p] # Null
           /\ \/ \E p \in Report :
                    /\ reports[p] # Null /\ reports[p].status = "intake"
                    /\ \A q \in Report : HasCase(q)' <=> HasCase(q) \/ q = p
              \/ \A q \in Report : HasCase(q)' <=> HasCase(q)
  <1>1. CASE OpenCaseCommit(r)
    <2>. DEFINE c == loc[r].case
                p == loc[r].report
    <2>1. /\ c \in Case /\ p \in Report /\ cases[c] = Null
          /\ reports[p] # Null /\ reports[p].status = "intake"
          /\ cases'[c] # Null /\ cases'[c].report = p /\ reports'[p] # Null
          /\ \A d \in Case \ {c} : cases'[d] = cases[d]
          /\ \A o \in Report \ {p} : reports'[o] = reports[o]
      BY <1>1, OpenCommitFacts
    <2>. HIDE DEF c, p
    <2>2. \A q \in Report : HasCase(q)' <=> HasCase(q) \/ q = p
      BY <2>1 DEF HasCase, Opened
    <2>. QED BY <2>1, <2>2
  <1>2. CASE StatusCommit(r)
    <2>. DEFINE c == loc[r].case
                p == loc[r].report
    <2>1. /\ c \in Case /\ cases[c] # Null /\ p = cases[c].report /\ p \in Report
          /\ reports[p] # Null /\ cases'[c] # Null /\ cases'[c].report = p
          /\ reports'[p] # Null
          /\ \A d \in Case \ {c} : cases'[d] = cases[d]
          /\ \A o \in Report \ {p} : reports'[o] = reports[o]
      BY <1>2, StatusCommitFacts
    <2>. HIDE DEF c, p
    <2>. QED BY <2>1 DEF HasCase, Opened
  <1>3. CASE ReassignCommit(r)
    <2>. DEFINE c == loc[r].case
    <2>1. /\ c \in Case /\ cases[c] # Null /\ reports' = reports
          /\ cases'[c] # Null /\ cases'[c].report = cases[c].report
          /\ \A d \in Case \ {c} : cases'[d] = cases[d]
      BY <1>3, ReassignCommitFacts
    <2>. HIDE DEF c
    <2>. QED BY <2>1 DEF HasCase, Opened
  <1>4. CASE UNCHANGED <<reports, cases>> BY <1>4 DEF HasCase, Opened
  <1>5. Start(r) \/ Cancel(r) => UNCHANGED tables
    BY DEF Start, StartOpenCase, StartStatus, StartNote, StartReassign, StartDisclose,
           Arrive, Cancel
  <1>. QED
    BY <1>1, <1>2, <1>3, <1>4, <1>5, StepWrites DEF NoteCommit, DiscloseCommit, tables

-----------------------------------------------------------------------------
(* Types and tokens.                                                       *)

\* validate returns a banner or nothing: the first check that fails has one.
LEMMA BannerShown ==
    ASSUME NEW summary \in Nat, NEW body \in Nat, NEW severity, NEW channel, NEW email
    PROVE  Validate(summary, body, severity, channel, email) \in Banner \cup {Null}
  <1>. DEFINE checks == Checks(summary, body, severity, channel, email)
              failing == {i \in 1..7 : checks[i].fails}
              First(i) == \A j \in failing : i <= j
  <1>1. \A i \in 1..7 : checks[i].says \in Banner BY DEF Checks, Banner
  <1>. HIDE DEF checks
  <1>2. failing # {} => \E i \in failing : First(i)
    BY DEF checks
  <1>3. failing # {} => (CHOOSE i \in failing : First(i)) \in failing BY <1>2, Zenon
  <1>4. failing # {} => checks[CHOOSE i \in failing : First(i)].says \in Banner
    BY <1>1, <1>3
  <1>. QED BY <1>4 DEF Validate, checks

\* A form's step that draws no row keeps tokens and receipts as they are.
LEMMA FormMoves ==
    ASSUME Forms, NEW f \in Form, NEW x \in Submission,
           fm' = [fm EXCEPT ![f] = x], UNCHANGED <<vars, token>>, FormOK(x),
           x.stage \in Given => fm[f].stage \in Given /\ x.report = fm[f].report
    PROVE  Forms'
  <1>1. /\ fm' \in [Form -> Submission] /\ fm'[f] = x
        /\ \A g \in Form \ {f} : fm'[g] = fm[g]
    BY DEF Forms, PublicTypeOK
  <1>2. UNCHANGED <<reports, token>> BY DEF vars, tables
  <1>3. PublicTypeOK' BY <1>1, <1>2 DEF Forms, PublicTypeOK
  <1>4. \A g \in Form : FormOK(fm[g])'
    BY <1>1, <1>2 DEF Forms, FormOK
  <1>5. \A g, h \in Form :
           fm'[g].stage \in Given /\ fm'[h].stage \in Given /\ fm'[g].report = fm'[h].report
              => g = h
    BY <1>1 DEF Forms
  <1>. QED BY <1>2, <1>3, <1>4, <1>5 DEF Forms

\* A posted form is refused, or has drawn a token.
LEMMA PostMoves ==
    ASSUME NEW f \in Form, Post(f)
    PROVE  \E z \in Submission :
              /\ fm' = [fm EXCEPT ![f] = z]
              /\ z.stage \in {"refused", "insert"} /\ z.told = Null
              /\ z.stage = "insert" => z.token \in Token
  <1>. DEFINE Filled(s, b, e, n) ==
                [Unsent EXCEPT !.summary = s, !.body = b, !.email = e, !.banner = n]
              Refused(s, b, e, n) == [Filled(s, b, e, n) EXCEPT !.stage = "refused"]
              Drawn(s, b, e, n, t) ==
                [Filled(s, b, e, n) EXCEPT !.stage = "insert", !.token = t]
  <1>1. PICK summary \in Summaries, body \in Bodies, email \in Emails,
             severity \in Severities, channel \in Channels :
           LET n == Validate(summary, body, severity, channel, email)
           IN  IF n # Null
               THEN fm' = [fm EXCEPT ![f] = Refused(summary, body, email # "", n)]
               ELSE \E t \in Token :
                       fm' = [fm EXCEPT ![f] = Drawn(summary, body, email # "", n, t)]
    BY DEF Post
  <1>. DEFINE n == Validate(summary, body, severity, channel, email)
              e == email # ""
  <1>2. n \in Banner \cup {Null} BY BannerShown, PublicAssumption DEF Text
  <1>3. e \in BOOLEAN OBVIOUS
  <1>4. \/ fm' = [fm EXCEPT ![f] = Refused(summary, body, e, n)]
        \/ \E t \in Token : fm' = [fm EXCEPT ![f] = Drawn(summary, body, e, n, t)]
    BY <1>1
  <1>. HIDE DEF n, e
  <1>5. /\ Refused(summary, body, e, n) \in Submission
        /\ Refused(summary, body, e, n).stage = "refused"
        /\ Refused(summary, body, e, n).told = Null
    BY <1>2, <1>3 DEF Unsent, Submission
  <1>6. ASSUME NEW t \in Token
        PROVE  /\ Drawn(summary, body, e, n, t) \in Submission
               /\ Drawn(summary, body, e, n, t).stage = "insert"
               /\ Drawn(summary, body, e, n, t).token = t
               /\ Drawn(summary, body, e, n, t).told = Null
    BY <1>2, <1>3 DEF Unsent, Submission
  <1>. HIDE DEF Refused, Drawn
  <1>7. CASE fm' = [fm EXCEPT ![f] = Refused(summary, body, e, n)]
    BY <1>5, <1>7
  <1>8. CASE \E t \in Token : fm' = [fm EXCEPT ![f] = Drawn(summary, body, e, n, t)]
    BY <1>6, <1>8
  <1>. QED BY <1>4, <1>7, <1>8

LEMMA FormStepOK ==
    ASSUME Typed, Forms, NEW f \in Form, FormStep(f)
    PROVE  Forms'
  <1>0. PICK x \in Submission : x = fm[f] /\ FormOK(x) BY DEF Forms, PublicTypeOK
  <1>1. Unsent \in Submission /\ Unsent.told = Null BY DEF Unsent, Submission
  <1>2. CASE Post(f)
    <2>1. UNCHANGED <<vars, token>> BY <1>2 DEF Post
    <2>. QED BY <1>2, <2>1, PostMoves, FormMoves DEF FormOK, Given
  <1>3. CASE Insert(f)
    <2>1. PICK p \in Report : /\ Submit(p) /\ reports'[p].email = x.email
                              /\ token' = [token EXCEPT ![p] = x.token]
                              /\ fm' = [fm EXCEPT ![f].stage = "receipt", ![f].report = p]
      BY <1>0, <1>3 DEF Insert
    <2>. DEFINE y == [x EXCEPT !.stage = "receipt", !.report = p]
    <2>2. x.stage = "insert" /\ x.token \in Token /\ x.token # Null /\ x.told = Null
          /\ \A q \in Report : token[q] # x.token
      BY <1>0, <1>3, PublicAssumption DEF Insert, Unused, FormOK
    <2>3. /\ y \in Submission /\ y.stage = "receipt" /\ y.report = p /\ y.told = Null
          /\ y.token = x.token
      <3>. DEFINE w == [x EXCEPT !.stage = "receipt"]
      <3>1. w \in Submission /\ w.stage = "receipt" /\ w.told = Null /\ w.token = x.token
        BY <2>2 DEF Submission
      <3>2. y = [w EXCEPT !.report = p] OBVIOUS
      <3>. HIDE DEF w, y
      <3>. QED BY <3>1, <3>2 DEF Submission
    <2>4. /\ fm' \in [Form -> Submission] /\ fm'[f] = y
          /\ \A g \in Form \ {f} : fm'[g] = fm[g]
      BY <1>0, <2>1, <2>3 DEF Forms, PublicTypeOK
    <2>. HIDE DEF y
    <2>5. /\ reports[p] = Null /\ reports'[p] # Null
          /\ \A q \in Report \ {p} : reports'[q] = reports[q]
      <3>1. PICK e \in BOOLEAN :
               reports' = [reports EXCEPT ![p] = [status |-> "intake", email |-> e]]
        BY <2>1 DEF Submit
      <3>2. [status |-> "intake", email |-> e] \in ReportRow BY DEF ReportRow, Status
      <3>. QED BY <2>1, <3>1, <3>2, Facts DEF Submit, Typed, TypeOK
    <2>6. /\ token' \in [Report -> Token \cup {Null}] /\ token'[p] = x.token
          /\ \A q \in Report \ {p} : token'[q] = token[q]
      BY <2>1, <2>2 DEF Forms, PublicTypeOK
    <2>7. \A g \in Form \ {f} : fm[g].stage \in Given => fm[g].report \in Report \ {p}
      BY <2>5 DEF Forms, FormOK
    <2>8. PublicTypeOK' BY <2>4, <2>6 DEF PublicTypeOK
    <2>9. \A g \in Form : FormOK(fm[g])'
      <3>1. FormOK(fm[f])' BY <2>2, <2>3, <2>4, <2>5, <2>6 DEF FormOK, Given
      <3>2. ASSUME NEW g \in Form, g # f PROVE FormOK(fm[g])'
        BY <2>4, <2>5, <2>6, <2>7, <3>2 DEF Forms, FormOK
      <3>. QED BY <3>1, <3>2
    <2>10. \A q, o \in Report : token'[q] # Null /\ token'[q] = token'[o] => q = o
      BY <2>2, <2>6 DEF Forms
    <2>11. \A g, h \in Form :
              fm'[g].stage \in Given /\ fm'[h].stage \in Given /\ fm'[g].report = fm'[h].report
                 => g = h
      BY <2>3, <2>4, <2>7 DEF Forms
    <2>. QED BY <2>8, <2>9, <2>10, <2>11 DEF Forms
  <1>4. CASE InsertFails(f) \/ LoseReceipt(f)
    <2>. DEFINE y == [Unsent EXCEPT !.stage = "lost"]
    <2>1. y \in Submission /\ y.stage = "lost" /\ y.told = Null
      BY DEF Unsent, Submission
    <2>2. fm' = [fm EXCEPT ![f] = y] /\ UNCHANGED <<vars, token>>
      BY <1>4 DEF InsertFails, LoseReceipt
    <2>. HIDE DEF y
    <2>. QED BY <2>1, <2>2, FormMoves DEF FormOK, Given
  <1>5. CASE Receipt(f)
    <2>. DEFINE y == [x EXCEPT !.stage = "held"]
    <2>1. /\ y \in Submission /\ y.stage = "held" /\ y.told = x.told
          /\ y.report = x.report /\ y.token = x.token
      BY <1>0 DEF Submission
    <2>2. fm' = [fm EXCEPT ![f] = y] /\ UNCHANGED <<vars, token>> /\ x.stage = "receipt"
      BY <1>0, <1>5 DEF Receipt, Forms, PublicTypeOK
    <2>. HIDE DEF y
    <2>. QED BY <1>0, <2>1, <2>2, FormMoves DEF FormOK, Given
  <1>6. CASE LookUp(f)
    <2>1. x.stage = "held" /\ x.token \in Token /\ x.report \in Report
          /\ reports[x.report] # Null /\ token[x.report] = x.token /\ x.token # Null
      BY <1>0, <1>6, PublicAssumption DEF LookUp, FormOK, Given
    <2>2. Found(x.token) = {x.report} BY <2>1 DEF Found, Known, Forms
    <2>. DEFINE told == [report |-> x.report, status |-> reports[x.report].status]
                y == [x EXCEPT !.told = told]
    <2>3. fm' = [fm EXCEPT ![f].told = told] /\ UNCHANGED <<vars, token>>
      BY <1>0, <1>6, <2>2 DEF LookUp
    <2>4. told.status \in Status /\ told.report = x.report
      BY <2>1 DEF Typed, TypeOK, ReportRow
    <2>5. told \in Answer BY <2>1, <2>4 DEF Answer
    <2>. HIDE DEF told
    <2>6. /\ y \in Submission /\ y.told = told /\ y.stage = x.stage /\ y.report = x.report
          /\ y.token = x.token
      BY <1>0, <2>5 DEF Submission
    <2>7. fm' = [fm EXCEPT ![f] = y] BY <1>0, <2>3 DEF Forms, PublicTypeOK
    <2>. HIDE DEF y
    <2>8. FormOK(y) BY <2>1, <2>4, <2>6 DEF FormOK
    <2>9. x.stage \in Given => fm[f].stage \in Given /\ y.report = fm[f].report
      BY <1>0, <2>6
    <2>. QED BY <2>3, <2>6, <2>7, <2>8, <2>9, FormMoves
  <1>. QED BY <1>2, <1>3, <1>4, <1>5, <1>6 DEF FormStep

LEMMA FormsStep ==
    ASSUME Typed, Locked, Forms, [PublicNext]_publicVars
    PROVE  Forms'
  <1>1. ASSUME UNCHANGED <<token, fm>>,
               \A p \in Report : reports[p] # Null => reports'[p] # Null
        PROVE  Forms'
    BY <1>1 DEF Forms, PublicTypeOK, FormOK
  <1>2. ASSUME NEW r \in Req, Start(r) \/ Step(r) \/ Cancel(r), UNCHANGED <<token, fm>>
        PROVE  Forms'
    BY <1>1, <1>2, WorkflowOnReports
  <1>3. ASSUME NEW u \in User, Framework(u), UNCHANGED <<token, fm>> PROVE Forms'
    BY <1>1, <1>3, FrameworkQuiet DEF tables
  <1>4. UNCHANGED publicVars => Forms' BY <1>1 DEF publicVars, vars, tables
  <1>. QED BY <1>2, <1>3, <1>4, FormStepOK DEF PublicNext

THEOREM FormsStayOK == PublicSpec => []Forms
  <1>1. ASSUME PublicInit PROVE Forms
    <2>1. Unsent \in Submission /\ Unsent.stage = "blank" /\ Unsent.told = Null
      BY DEF Unsent, Submission
    <2>. QED BY <1>1, <2>1 DEF PublicInit, Forms, PublicTypeOK, FormOK, Given
  <1>. QED BY <1>1, PublicRunsWorkflow, Layered, FormsStep, PTL DEF PublicSpec

\* A refused form has one of the banners of validate (public.rs), and every
\* field has the type of its column.
THEOREM PublicTyped == PublicSpec => []PublicTypeOK
  <1>1. Forms => PublicTypeOK BY DEF Forms
  <1>. QED BY <1>1, FormsStayOK, PTL

\* A receipt opens the report it was given for and no other, whatever tokens
\* are drawn: the UNIQUE constraint is all do_status_lookup (public.rs) needs.
THEOREM OwnReportOpened == PublicSpec => []ReceiptOpensOwnReport
  <1>1. ASSUME Forms, NEW f \in Form, fm[f].stage = "held"
        PROVE  /\ Found(fm[f].token) = {fm[f].report}
               /\ fm[f].told # Null => fm[f].told.report = fm[f].report
    <2>1. FormOK(fm[f]) BY <1>1 DEF Forms
    <2>2. /\ fm[f].report \in Report /\ reports[fm[f].report] # Null
          /\ token[fm[f].report] = fm[f].token /\ fm[f].token # Null
      BY <1>1, <2>1, PublicAssumption DEF FormOK, Given
    <2>3. Found(fm[f].token) = {fm[f].report} BY <1>1, <2>2 DEF Found, Known, Forms
    <2>. QED BY <2>1, <2>3 DEF FormOK
  <1>2. Forms => ReceiptOpensOwnReport BY <1>1 DEF ReceiptOpensOwnReport
  <1>. QED BY <1>2, FormsStayOK, PTL

-----------------------------------------------------------------------------
(* The refinement of ReporterView.                                         *)

\* The abstract variables, named.
StandsNow == [p \in Report |-> Stands(p)]
ReceiptNow == [f \in Form |-> IF fm[f].stage = "held" THEN fm[f].report ELSE Null]
NewsNow == [f \in Form |-> News(fm[f])]

LEMMA Stutters ==
    ASSUME UNCHANGED <<StandsNow, ReceiptNow, NewsNow>>
    PROVE  UNCHANGED View!viewVars
  BY DEF View!viewVars, StandsNow, ReceiptNow, NewsNow

\* A report stands the same when its row and its cases do.
LEMMA SameStanding ==
    ASSUME \A p \in Report : (reports'[p] = Null <=> reports[p] = Null)
                             /\ (HasCase(p)' <=> HasCase(p))
    PROVE  StandsNow' = StandsNow
  BY DEF StandsNow, Stands

\* What a form's step leaves alone: every entry but its own.
LEMMA OneFormMoves ==
    ASSUME Forms, NEW f \in Form, NEW y, fm' = [fm EXCEPT ![f] = y]
    PROVE  /\ fm'[f] = y
           /\ (y.stage = "held" <=> fm[f].stage = "held")
                 /\ (y.stage = "held" => y.report = fm[f].report) => ReceiptNow' = ReceiptNow
           /\ News(y) = News(fm[f]) => NewsNow' = NewsNow
  BY DEF Forms, PublicTypeOK, ReceiptNow, NewsNow

LEMMA FormStepRefines ==
    ASSUME Typed, Locked, Sync, Forms, NEW f \in Form, FormStep(f)
    PROVE  View!Next \/ UNCHANGED View!viewVars
  <1>0. FormOK(fm[f]) /\ fm[f] \in Submission BY DEF Forms, PublicTypeOK
  <1>1. ASSUME UNCHANGED vars PROVE StandsNow' = StandsNow
    BY <1>1, SameStanding DEF vars, tables, HasCase, Opened
  <1>2. Unsent.stage = "blank" /\ Unsent.told = Null BY DEF Unsent
  <1>3. CASE Post(f) \/ InsertFails(f) \/ LoseReceipt(f)
    <2>1. fm[f].stage # "held" /\ fm[f].told = Null /\ UNCHANGED vars
      BY <1>0, <1>3 DEF Post, InsertFails, LoseReceipt, FormOK
    <2>2. PICK y : fm' = [fm EXCEPT ![f] = y] /\ y.stage # "held" /\ y.told = Null
      <3>1. CASE Post(f) BY <3>1, PostMoves
      <3>2. CASE InsertFails(f) \/ LoseReceipt(f)
        <4>1. [Unsent EXCEPT !.stage = "lost"].stage = "lost"
              /\ [Unsent EXCEPT !.stage = "lost"].told = Null
          BY DEF Unsent
        <4>. QED BY <3>2, <4>1 DEF InsertFails, LoseReceipt
      <3>. QED BY <1>3, <3>1, <3>2
    <2>3. ReceiptNow' = ReceiptNow /\ NewsNow' = NewsNow
      BY <2>1, <2>2, OneFormMoves DEF News
    <2>. QED BY <1>1, <2>1, <2>3, Stutters
  <1>4. CASE Insert(f)
    <2>1. PICK p \in Report : /\ Submit(p)
                              /\ fm' = [fm EXCEPT ![f].stage = "receipt", ![f].report = p]
      BY <1>4 DEF Insert
    <2>2. /\ reports[p] = Null /\ reports'[p] # Null /\ UNCHANGED cases
          /\ \A q \in Report \ {p} : reports'[q] = reports[q]
      <3>1. PICK e \in BOOLEAN :
               reports' = [reports EXCEPT ![p] = [status |-> "intake", email |-> e]]
        BY <2>1 DEF Submit
      <3>2. [status |-> "intake", email |-> e] \in ReportRow BY DEF ReportRow, Status
      <3>. QED BY <2>1, <3>1, <3>2, Facts DEF Submit, Typed, TypeOK
    <2>3. /\ ~HasCase(p) /\ \A q \in Report : HasCase(q)' <=> HasCase(q)
      BY <2>2 DEF HasCase, Opened, Typed
    <2>4. StandsNow[p] = "unsent" /\ StandsNow' = [StandsNow EXCEPT ![p] = "waiting"]
      BY <2>2, <2>3 DEF StandsNow, Stands
    <2>. DEFINE y == [fm[f] EXCEPT !.stage = "receipt", !.report = p]
    <2>5. fm' = [fm EXCEPT ![f] = y] BY <2>1 DEF Forms, PublicTypeOK
    <2>6. y.stage = "receipt" /\ y.told = fm[f].told /\ fm[f].stage = "insert"
      BY <1>0, <1>4 DEF Insert, Submission
    <2>. HIDE DEF y
    <2>9. News(y) = News(fm[f]) BY <2>6 DEF News
    <2>7. ReceiptNow' = ReceiptNow /\ NewsNow' = NewsNow
      BY <2>5, <2>6, <2>9, OneFormMoves
    <2>8. View!Send(p)
      BY <2>4, <2>7 DEF View!Send, StandsNow, ReceiptNow, NewsNow
    <2>. QED BY <2>8 DEF View!Next
  <1>5. CASE Receipt(f)
    <2>. DEFINE y == [fm[f] EXCEPT !.stage = "held"]
    <2>1. fm[f].stage = "receipt" /\ fm' = [fm EXCEPT ![f] = y] /\ UNCHANGED vars
      BY <1>5 DEF Receipt, Forms, PublicTypeOK
    <2>2. PICK p \in Report : p = fm[f].report /\ reports[p] # Null
      BY <1>0, <2>1 DEF FormOK, Given
    <2>3. y.stage = "held" /\ y.report = p /\ y.told = fm[f].told
      BY <1>0, <2>2 DEF Submission
    <2>. HIDE DEF y
    <2>4. News(y) = News(fm[f]) BY <2>3 DEF News
    <2>5. StandsNow' = StandsNow /\ NewsNow' = NewsNow
      BY <1>1, <2>1, <2>4, OneFormMoves
    <2>6. StandsNow[p] # "unsent" BY <2>2 DEF StandsNow, Stands
    <2>7. ReceiptNow[f] = Null /\ ReceiptNow' = [ReceiptNow EXCEPT ![f] = p]
      BY <2>1, <2>3 DEF ReceiptNow, Forms, PublicTypeOK
    <2>8. \A g \in Form : ReceiptNow[g] # p
      BY <2>1, <2>2, Facts DEF ReceiptNow, Forms, Given
    <2>9. View!Hand(f, p)
      BY <2>5, <2>6, <2>7, <2>8 DEF View!Hand, StandsNow, ReceiptNow, NewsNow
    <2>. QED BY <2>9 DEF View!Next
  <1>6. CASE LookUp(f)
    <2>. DEFINE p == fm[f].report
                told == [report |-> p, status |-> reports[p].status]
                y == [fm[f] EXCEPT !.told = told]
    <2>1. /\ fm[f].stage = "held" /\ UNCHANGED vars
          /\ p \in Report /\ reports[p] # Null /\ token[p] = fm[f].token /\ fm[f].token # Null
      BY <1>0, <1>6, PublicAssumption DEF LookUp, FormOK, Given
    <2>2. Found(fm[f].token) = {p} BY <2>1 DEF Found, Known, Forms
    <2>3. fm' = [fm EXCEPT ![f].told = told] BY <1>6, <2>2 DEF LookUp
    <2>4. fm' = [fm EXCEPT ![f] = y] BY <2>3 DEF Forms, PublicTypeOK
    <2>5. y.stage = "held" /\ y.report = p /\ y.told = told BY <1>0, <2>1 DEF Submission
    <2>6. told # Null /\ told.status = reports[p].status
      <3>1. reports[p].status \in Status BY <2>1 DEF Typed, TypeOK, ReportRow
      <3>2. told \in Answer BY <2>1, <3>1 DEF Answer
      <3>. QED BY <3>2, PublicAssumption
    <2>. HIDE DEF y, told, p
    <2>7. StandsNow' = StandsNow /\ ReceiptNow' = ReceiptNow
      BY <1>1, <2>1, <2>4, <2>5, OneFormMoves DEF p
    <2>8. News(y) = StandsNow[p]
      BY <2>1, <2>5, <2>6 DEF News, StandsNow, Stands, Sync, ReporterViewInSync, Known
    <2>9. ReceiptNow[f] = p /\ p # Null BY <2>1, Facts DEF ReceiptNow, p
    <2>10. NewsNow' = [NewsNow EXCEPT ![f] = StandsNow[ReceiptNow[f]]]
      BY <2>4, <2>8, <2>9 DEF NewsNow, Forms, PublicTypeOK
    <2>11. View!Tell(f)
      BY <2>7, <2>9, <2>10 DEF View!Tell, StandsNow, ReceiptNow, NewsNow
    <2>. QED BY <2>11 DEF View!Next
  <1>. QED BY <1>3, <1>4, <1>5, <1>6 DEF FormStep

LEMMA PublicStepRefines ==
    ASSUME Typed, Locked, Sync, Forms, [PublicNext]_publicVars
    PROVE  [View!Next]_(View!viewVars)
  <1>1. ASSUME UNCHANGED fm PROVE UNCHANGED <<ReceiptNow, NewsNow>>
    BY <1>1 DEF ReceiptNow, NewsNow
  <1>2. ASSUME UNCHANGED <<reports, cases, fm>> PROVE UNCHANGED View!viewVars
    BY <1>1, <1>2, SameStanding, Stutters DEF HasCase, Opened
  <1>3. ASSUME NEW r \in Req, Start(r) \/ Step(r) \/ Cancel(r), UNCHANGED fm
        PROVE  View!Next \/ UNCHANGED View!viewVars
    <2>1. \A p \in Report : reports'[p] # Null <=> reports[p] # Null
      BY <1>3, WorkflowOnReports
    <2>2. CASE \A q \in Report : HasCase(q)' <=> HasCase(q)
      BY <1>1, <1>3, <2>1, <2>2, SameStanding, Stutters
    <2>3. ASSUME NEW p \in Report, reports[p] # Null, reports[p].status = "intake",
                 \A q \in Report : HasCase(q)' <=> HasCase(q) \/ q = p
          PROVE  View!TakeUp(p)
      <3>1. ~HasCase(p) BY <2>3 DEF Sync, ReporterViewInSync, Known
      <3>2. StandsNow[p] = "waiting" /\ StandsNow' = [StandsNow EXCEPT ![p] = "taken"]
        BY <2>1, <2>3, <3>1 DEF StandsNow, Stands
      <3>. QED BY <1>1, <1>3, <3>2 DEF View!TakeUp, StandsNow, ReceiptNow, NewsNow
    <2>. QED BY <1>3, <2>2, <2>3, WorkflowOnReports DEF View!Next
  <1>4. ASSUME NEW u \in User, Framework(u), UNCHANGED fm PROVE UNCHANGED View!viewVars
    BY <1>2, <1>4, FrameworkQuiet DEF tables
  <1>5. UNCHANGED publicVars => UNCHANGED View!viewVars
    BY <1>2 DEF publicVars, vars, tables
  <1>. QED BY <1>3, <1>4, <1>5, FormStepRefines DEF PublicNext

\* The status page implements ReporterView: however submissions, lookups and
\* the workflow's transactions interleave, a reporter is told how the report
\* stands (do_status_lookup, public.rs, against triage.rs and cases.rs).
THEOREM RefinesReporterView == PublicSpec => ImplementsReporterView
  <1>1. ASSUME PublicInit PROVE View!Init
    <2>1. Unsent.stage = "blank" /\ Unsent.told = Null BY DEF Unsent
    <2>. QED
      BY <1>1, <2>1 DEF PublicInit, Init, View!Init, Stands, News
  <1>. QED
    BY <1>1, PublicStepRefines, FormsStayOK, PublicRunsWorkflow, Layered, Synchronised, PTL
       DEF PublicSpec, ImplementsReporterView, View!Spec

-----------------------------------------------------------------------------
(* What follows from the abstract specification alone.                     *)

\* Who was told that a report is taken up holds its receipt, and it is.
NewsTrue ==
    \A f \in Form : NewsNow[f] = "taken" =>
       ReceiptNow[f] \in Report /\ StandsNow[ReceiptNow[f]] = "taken"

NewsKept == \A f \in Form : NewsNow[f] = "taken" => NewsNow'[f] = "taken"

LEMMA ViewStepKeepsNews ==
    ASSUME Forms, NewsTrue, [View!Next]_(View!viewVars)
    PROVE  NewsTrue' /\ NewsKept
  <1>0. /\ NewsNow = [f \in Form |-> NewsNow[f]]
        /\ ReceiptNow = [f \in Form |-> ReceiptNow[f]]
        /\ StandsNow = [p \in Report |-> StandsNow[p]]
    BY DEF NewsNow, ReceiptNow, StandsNow
  <1>1. ASSUME NEW p \in Report, View!Send(p) \/ View!TakeUp(p) PROVE NewsTrue' /\ NewsKept
    <2>1. /\ ReceiptNow' = ReceiptNow /\ NewsNow' = NewsNow /\ StandsNow[p] # "taken"
          /\ \E s : StandsNow' = [StandsNow EXCEPT ![p] = s]
      BY <1>1 DEF View!Send, View!TakeUp, NewsNow, ReceiptNow, StandsNow
    <2>. QED BY <1>0, <2>1 DEF NewsTrue, NewsKept
  <1>2. ASSUME NEW f \in Form, View!Tell(f) PROVE NewsTrue' /\ NewsKept
    <2>1. /\ ReceiptNow' = ReceiptNow /\ StandsNow' = StandsNow /\ ReceiptNow[f] # Null
          /\ NewsNow' = [NewsNow EXCEPT ![f] = StandsNow[ReceiptNow[f]]]
      BY <1>2 DEF View!Tell, NewsNow, ReceiptNow, StandsNow
    <2>2. ReceiptNow[f] \in Report BY <2>1 DEF ReceiptNow, Forms, FormOK, Given
    <2>. QED BY <1>0, <2>1, <2>2 DEF NewsTrue, NewsKept
  <1>3. ASSUME NEW f \in Form, NEW p \in Report, View!Hand(f, p) PROVE NewsTrue' /\ NewsKept
    <2>1. /\ NewsNow' = NewsNow /\ StandsNow' = StandsNow /\ ReceiptNow[f] = Null
          /\ ReceiptNow' = [ReceiptNow EXCEPT ![f] = p]
      BY <1>3 DEF View!Hand, NewsNow, ReceiptNow, StandsNow
    <2>. QED BY <1>0, <2>1, Facts DEF NewsTrue, NewsKept
  <1>4. UNCHANGED View!viewVars => NewsTrue' /\ NewsKept
    BY DEF View!viewVars, NewsNow, ReceiptNow, StandsNow, NewsTrue, NewsKept
  <1>. QED BY <1>1, <1>2, <1>3, <1>4 DEF View!Next

\* A reporter who was told that somebody has taken the report up is never
\* told again that it waits, whatever case handlers do meanwhile.
THEOREM NewsNeverGoesBack == PublicSpec => View!NewsGoesForward
  <1>1. PublicInit => NewsTrue
    BY DEF PublicInit, NewsTrue, NewsNow, News, Unsent
  <1>2. NewsKept => View!NewsForward
    BY DEF NewsKept, View!NewsForward, NewsNow
  <1>. QED
    BY <1>1, <1>2, ViewStepKeepsNews, PublicStepRefines, FormsStayOK, PublicRunsWorkflow,
       Layered, Synchronised, PTL DEF PublicSpec, View!NewsGoesForward
=============================================================================
