--------------------------- MODULE Workflow_proofs ---------------------------
(***************************************************************************)
(* Proofs about Workflow, for every number of requests, reports, cases and *)
(* accounts, every choice of roles, endpoints and bounds.                  *)
(*                                                                         *)
(* The invariant is built in layers, each inductive relative to those      *)
(* before it.                                                              *)
(*   Typed    TypeOK, and what the locals of a handler hold at each stage  *)
(*   Locked   which rows the transaction of a request has locked           *)
(*   Sync     cases and the reports they were opened from agree            *)
(*   Owned    no row stays locked beyond the transaction that locked it    *)
(* The history of the cases is the subject of History_proofs.              *)
(***************************************************************************)
EXTENDS Workflow, TLAPS

Working == Stage \ ({"idle"} \cup Final)

\* The request's locals, at stage s of handler l.op, name rows that exist.
OpenLocals(s, l) ==
    /\ s \in {"begin", "lock", "insert", "commit", "rollback"}
    /\ l.report \in Report
    /\ s \in {"insert", "commit"} => reports[l.report] # Null
    /\ s = "commit" => l.case \in Case

StatusLocals(s, l) ==
    /\ s \in {"load", "elevate", "begin", "lock", "sync", "commit"}
    /\ l.case \in Case
    /\ l.target \in Status
    /\ s # "load" =>
          /\ cases[l.case] # Null
          /\ l.report = cases[l.case].report
          /\ l.status \in CaseStatus
          /\ l.target \in AllowedNext(l.status)

NoteLocals(s, l) ==
    /\ s \in {"load", "append", "check", "commit"}
    /\ l.case \in Case
    /\ s # "load" => cases[l.case] # Null

ReassignLocals(s, l) ==
    /\ s \in {"target", "load", "begin", "lock", "commit"}
    /\ l.case \in Case
    /\ l.target \in User
    /\ s \notin {"target", "load"} => cases[l.case] # Null

DiscloseLocals(s, l) ==
    /\ s \in {"elevate", "begin", "lock", "commit", "rollback", "render"}
    /\ l.case \in Case
    /\ s \in {"commit", "render"} => cases[l.case] # Null

LocalsOK(s, l) ==
    s \in Working =>
       /\ l.user \in User
       /\ \/ l.op = "open" /\ OpenLocals(s, l)
          \/ l.op = "status" /\ StatusLocals(s, l)
          \/ l.op = "note" /\ NoteLocals(s, l)
          \/ l.op = "reassign" /\ ReassignLocals(s, l)
          \/ l.op = "disclose" /\ DiscloseLocals(s, l)

Typed ==
    /\ TypeOK
    /\ \A c \in Case : cases[c] # Null => reports[cases[c].report] # Null
    /\ \A r \in Req : LocalsOK(pc[r], loc[r])

\* What the transaction of r has locked, and what that lock preserves.
Holds(r) ==
    LET l == loc[r] IN
    /\ l.op = "open" /\ pc[r] \in {"insert", "commit"} =>
          reportLock[l.report] = r /\ reports[l.report].status = "intake"
    /\ At(r, "open", "commit") => caseLock[l.case] = r /\ cases[l.case] = Null
    /\ l.op = "status" /\ pc[r] \in {"sync", "commit"} => caseLock[l.case] = r
    /\ At(r, "status", "commit") => reportLock[l.report] = r
    /\ At(r, "reassign", "commit") => caseLock[l.case] = r
    /\ At(r, "disclose", "commit") =>
          caseLock[l.case] = r /\ reports[cases[l.case].report].email

Locked == \A r \in Req : Holds(r)

\* Rows are never deleted and a case never changes its report.
Persist ==
    /\ \A p \in Report : reports[p] # Null => reports'[p] # Null
    /\ \A c \in Case : cases[c] # Null => cases'[c] # Null /\ cases'[c].report = cases[c].report

LEMMA Facts ==
    /\ Null \notin Req /\ Null \notin User /\ Null \notin Report
    /\ Null \notin Case /\ Null \notin Status /\ Null \notin ReportRow /\ Null \notin CaseRow
    /\ Targets \subseteq Status
  BY NullAssumption, RowAssumption, InputAssumption

-----------------------------------------------------------------------------
(* The other requests' locals stay good whatever this one does.            *)

LEMMA OthersKeepLocals ==
    ASSUME Typed, Persist, NEW r \in Req,
           \A q \in Req \ {r} : pc'[q] = pc[q] /\ loc'[q] = loc[q],
           LocalsOK(pc[r], loc[r])',
           TypeOK',
           \A c \in Case : cases'[c] # Null => reports'[cases'[c].report] # Null
    PROVE  Typed'
  <1>1. ASSUME NEW q \in Req, q # r PROVE LocalsOK(pc[q], loc[q])'
    <2>1. LocalsOK(pc[q], loc[q]) BY DEF Typed
    <2>2. pc'[q] = pc[q] /\ loc'[q] = loc[q] BY <1>1
    <2>. QED
      BY <2>1, <2>2 DEF LocalsOK, OpenLocals, StatusLocals, NoteLocals,
                        ReassignLocals, DiscloseLocals, Persist
  <1>. QED BY <1>1 DEF Typed

\* The steps that leave the tables alone: their effect on the type invariant
\* is that of the request's own stage and locals.
LEMMA QuietKeepsTyped ==
    ASSUME Typed, NEW r \in Req,
           \A q \in Req \ {r} : pc'[q] = pc[q] /\ loc'[q] = loc[q],
           UNCHANGED tables,
           reportLock' \in [Report -> Req \cup {Null}],
           caseLock' \in [Case -> Req \cup {Null}],
           nextId' \in Nat \ {0}, clock' \in Nat \ {0},
           UNCHANGED framework,
           pc' \in [Req -> Stage], loc' \in [Req -> Locals],
           LocalsOK(pc[r], loc[r])'
    PROVE  Typed'
  <1>1. TypeOK' BY DEF Typed, TypeOK, tables, framework
  <1>2. Persist BY DEF Persist, tables
  <1>3. \A c \in Case : cases'[c] # Null => reports'[cases'[c].report] # Null
    BY DEF Typed, tables
  <1>. QED BY <1>1, <1>2, <1>3, OthersKeepLocals

LEMMA ReturnFacts ==
    ASSUME Typed, NEW r \in Req, NEW f \in Final, Return(r, f)
    PROVE  /\ \A q \in Req \ {r} : pc'[q] = pc[q] /\ loc'[q] = loc[q]
           /\ pc' \in [Req -> Stage] /\ loc' \in [Req -> Locals]
           /\ pc'[r] = f /\ loc'[r] = NoLocals
           /\ LocalsOK(pc[r], loc[r])'
  <1>1. NoLocals \in Locals BY DEF NoLocals, Locals
  <1>. QED BY <1>1 DEF Return, Typed, TypeOK, LocalsOK, Working, Stage, Final

LEMMA ReleaseFacts ==
    ASSUME Typed, NEW r \in Req, ReleaseLocks(r)
    PROVE  /\ caseLock' \in [Case -> Req \cup {Null}]
           /\ reportLock' \in [Report -> Req \cup {Null}]
           /\ \A c \in Case : caseLock[c] # r => caseLock'[c] = caseLock[c]
           /\ \A p \in Report : reportLock[p] # r => reportLock'[p] = reportLock[p]
  BY DEF ReleaseLocks, Typed, TypeOK

LEMMA EndTxQuiet ==
    ASSUME Typed, NEW r \in Req, EndTx(r), UNCHANGED <<tables, framework>>,
           nextId' = nextId, clock' = clock
    PROVE  Typed'
  <1>1. Return(r, "done") /\ ReleaseLocks(r) BY DEF EndTx
  <1>2. "done" \in Final BY DEF Final
  <1>3. nextId' \in Nat \ {0} /\ clock' \in Nat \ {0} BY DEF Typed, TypeOK
  <1>. QED BY <1>1, <1>2, <1>3, ReturnFacts, ReleaseFacts, QuietKeepsTyped, Zenon

LEMMA ReturnQuiet ==
    ASSUME Typed, NEW r \in Req, NEW f \in Final, Return(r, f),
           UNCHANGED <<tables, locks, counters, framework>>
    PROVE  Typed'
  <1>1. nextId' \in Nat \ {0} /\ clock' \in Nat \ {0}
    BY DEF Typed, TypeOK, counters
  <1>2. /\ reportLock' \in [Report -> Req \cup {Null}]
        /\ caseLock' \in [Case -> Req \cup {Null}]
    BY DEF Typed, TypeOK, locks
  <1>. QED BY <1>1, <1>2, ReturnFacts, QuietKeepsTyped

LEMMA ArriveTyped ==
    ASSUME Typed, NEW r \in Req, NEW l \in Locals, NEW min, NEW s \in Stage,
           Arrive(r, l, min, s), LocalsOK(s, l)
    PROVE  Typed'
  <1>1. CASE RequireRole(l.user, min) /\ Goto(r, s) /\ loc' = [loc EXCEPT ![r] = l]
    <2>1. UNCHANGED <<tables, locks, counters, framework>> BY DEF Arrive
    <2>2. /\ \A q \in Req \ {r} : pc'[q] = pc[q] /\ loc'[q] = loc[q]
          /\ pc' \in [Req -> Stage] /\ loc' \in [Req -> Locals]
          /\ pc'[r] = s /\ loc'[r] = l
      BY <1>1 DEF Goto, Typed, TypeOK
    <2>3. LocalsOK(pc[r], loc[r])'
      BY <2>1, <2>2 DEF tables, LocalsOK, OpenLocals, StatusLocals, NoteLocals,
                        ReassignLocals, DiscloseLocals
    <2>. QED BY <2>1, <2>2, <2>3, QuietKeepsTyped DEF Typed, TypeOK, locks, counters
  <1>2. CASE Return(r, "done")
    BY <1>2, ReturnQuiet DEF Arrive, Final
  <1>. QED BY <1>1, <1>2 DEF Arrive

LEMMA StartTyped ==
    ASSUME Typed, NEW r \in Req, Start(r)
    PROVE  Typed'
  <1>. USE Facts DEF NoLocals, Locals, OpName, Stage, InTx, Working, Final, LocalsOK
  <1>1. CASE StartOpenCase(r)
    BY <1>1, ArriveTyped DEF StartOpenCase, OpenLocals
  <1>2. CASE StartStatus(r)
    BY <1>2, ArriveTyped DEF StartStatus, StatusLocals
  <1>3. CASE StartNote(r)
    BY <1>3, ArriveTyped DEF StartNote, NoteLocals
  <1>4. CASE StartReassign(r)
    BY <1>4, ArriveTyped DEF StartReassign, ReassignLocals
  <1>5. CASE StartDisclose(r)
    BY <1>5, ArriveTyped DEF StartDisclose, DiscloseLocals
  <1>. QED BY <1>1, <1>2, <1>3, <1>4, <1>5 DEF Start

\* A step that moves r to stage s, changes its locals to l and no table.
LEMMA GotoQuiet ==
    ASSUME Typed, NEW r \in Req, NEW s \in Stage, NEW l \in Locals,
           Goto(r, s), loc' = [loc EXCEPT ![r] = l], LocalsOK(s, l),
           UNCHANGED <<tables, framework>>,
           reportLock' \in [Report -> Req \cup {Null}],
           caseLock' \in [Case -> Req \cup {Null}],
           nextId' \in Nat \ {0}, clock' \in Nat \ {0}
    PROVE  Typed'
  <1>1. /\ \A q \in Req \ {r} : pc'[q] = pc[q] /\ loc'[q] = loc[q]
        /\ pc' \in [Req -> Stage] /\ loc' \in [Req -> Locals]
        /\ pc'[r] = s /\ loc'[r] = l
    BY DEF Goto, Typed, TypeOK
  <1>2. LocalsOK(pc[r], loc[r])'
    BY <1>1 DEF tables, LocalsOK, OpenLocals, StatusLocals, NoteLocals,
                ReassignLocals, DiscloseLocals
  <1>. QED BY <1>1, <1>2, QuietKeepsTyped

LEMMA TickFacts ==
    ASSUME clock \in Nat \ {0}, Tick
    PROVE  clock' \in Nat \ {0} /\ clock' >= clock
  BY TickAssumption DEF Tick

LEMMA BeginTyped ==
    ASSUME Typed, NEW r \in Req, BeginTx(r)
    PROVE  Typed'
  <1>. DEFINE l == [loc[r] EXCEPT !.at = clock]
  <1>1. loc[r] \in Locals /\ LocalsOK("begin", loc[r]) /\ clock \in Nat \ {0}
    BY DEF BeginTx, Typed, TypeOK
  <1>2. l \in Locals /\ LocalsOK("lock", l) /\ "lock" \in Stage
    BY <1>1 DEF Locals, LocalsOK, OpenLocals, StatusLocals, NoteLocals,
                ReassignLocals, DiscloseLocals, Working, Stage, InTx, Final
  <1>3. loc' = [loc EXCEPT ![r] = l] BY DEF BeginTx, Typed, TypeOK
  <1>4. /\ UNCHANGED <<tables, framework>> /\ Goto(r, "lock")
        /\ reportLock' \in [Report -> Req \cup {Null}]
        /\ caseLock' \in [Case -> Req \cup {Null}]
        /\ nextId' \in Nat \ {0} /\ clock' \in Nat \ {0}
    BY <1>1, TickFacts DEF BeginTx, Typed, TypeOK, locks
  <1>. HIDE DEF l
  <1>. QED BY <1>2, <1>3, <1>4, GotoQuiet

LEMMA CancelTyped ==
    ASSUME Typed, NEW r \in Req, Cancel(r)
    PROVE  Typed'
  BY EndTxQuiet DEF Cancel, counters

LEMMA RollbackTyped ==
    ASSUME Typed, NEW r \in Req, Rollback(r)
    PROVE  Typed'
  BY EndTxQuiet DEF Rollback, counters

LEMMA SubmitTyped ==
    ASSUME Typed, NEW p \in Report, Submit(p)
    PROVE  Typed'
  <1>1. PICK e \in BOOLEAN : reports' = [reports EXCEPT ![p] = [status |-> "intake", email |-> e]]
    BY DEF Submit
  <1>2. [status |-> "intake", email |-> e] \in ReportRow BY DEF ReportRow, Status
  <1>3. TypeOK' BY <1>1, <1>2 DEF Submit, Typed, TypeOK, locks, counters, framework, requests
  <1>4. Persist BY <1>1, <1>2, Facts DEF Submit, Persist, Typed, TypeOK
  <1>5. \A c \in Case : cases'[c] # Null => reports'[cases'[c].report] # Null
    BY <1>4 DEF Submit, Typed, TypeOK, Persist, CaseRow
  <1>6. ASSUME NEW r \in Req PROVE LocalsOK(pc[r], loc[r])'
    BY <1>4 DEF Submit, Typed, Persist, requests, LocalsOK, OpenLocals, StatusLocals,
                NoteLocals, ReassignLocals, DiscloseLocals
  <1>. QED BY <1>3, <1>5, <1>6 DEF Typed

LEMMA FrameworkTyped ==
    ASSUME Typed, NEW u \in User, Framework(u)
    PROVE  Typed'
  <1>1. UNCHANGED <<tables, locks, counters, requests>>
    BY DEF Framework, SignIn, Reauth, Lapse, SignOut, Deactivate, SetSession
  <1>2. session' \in [User -> SessionState] /\ active' \subseteq User
    BY DEF Framework, SignIn, Reauth, Lapse, SignOut, Deactivate, SetSession,
           Typed, TypeOK, SessionState
  <1>3. TypeOK' BY <1>1, <1>2 DEF Typed, TypeOK, tables, locks, counters, requests
  <1>. QED
    BY <1>1, <1>3 DEF Typed, tables, requests, LocalsOK, OpenLocals, StatusLocals,
                      NoteLocals, ReassignLocals, DiscloseLocals

LEMMA UnchangedTyped == Typed /\ UNCHANGED vars => Typed'
  BY DEF vars, tables, locks, counters, framework, requests, Typed, TypeOK, LocalsOK,
         OpenLocals, StatusLocals, NoteLocals, ReassignLocals, DiscloseLocals

-----------------------------------------------------------------------------
(* Triage.                                                                 *)

LEMMA OpenCaseTyped ==
    ASSUME Typed, Locked, NEW r \in Req, OpenCaseStep(r)
    PROVE  Typed'
  <1>. DEFINE l == loc[r]
              p == loc[r].report
              c == loc[r].case
  <1>0. /\ l \in Locals /\ nextId \in Nat \ {0} /\ clock \in Nat \ {0}
        /\ LocalsOK(pc[r], l)
        /\ reportLock \in [Report -> Req \cup {Null}]
        /\ caseLock \in [Case -> Req \cup {Null}]
    BY DEF Typed, TypeOK
  <1>1. CASE OpenCaseLock(r)
    <2>. DEFINE s == IF InIntake(p) THEN "insert" ELSE "rollback"
    <2>1. s \in Stage /\ LocalsOK(s, l)
      BY <1>0, <1>1 DEF OpenCaseLock, At, InIntake, LocalsOK, OpenLocals,
                        Working, Stage, InTx, Final
    <2>2. loc' = [loc EXCEPT ![r] = l] BY <1>1 DEF OpenCaseLock, Typed, TypeOK
    <2>3. /\ reportLock' \in [Report -> Req \cup {Null}]
          /\ caseLock' = caseLock /\ nextId' = nextId /\ clock' = clock
          /\ UNCHANGED <<tables, framework>> /\ Goto(r, s)
      BY <1>0, <1>1 DEF OpenCaseLock, counters
    <2>. HIDE DEF l, s
    <2>. QED BY <1>0, <2>1, <2>2, <2>3, GotoQuiet
  <1>2. CASE OpenCaseInsert(r)
    <2>1. PICK d \in Case :
             /\ caseLock' = [caseLock EXCEPT ![d] = r]
             /\ loc' = [loc EXCEPT ![r].case = d, ![r].id = nextId]
      BY <1>2 DEF OpenCaseInsert
    <2>. DEFINE m == [loc[r] EXCEPT !.case = d, !.id = nextId]
    <2>2. m \in Locals /\ LocalsOK("commit", m) /\ "commit" \in Stage
      BY <1>0, <1>2 DEF OpenCaseInsert, At, LocalsOK, OpenLocals, Locals, Working, Stage, InTx, Final
    <2>3. loc' = [loc EXCEPT ![r] = m] BY <2>1 DEF Typed, TypeOK
    <2>4. /\ caseLock' \in [Case -> Req \cup {Null}] /\ reportLock' = reportLock
          /\ nextId' \in Nat \ {0} /\ clock' = clock
          /\ UNCHANGED <<tables, framework>> /\ Goto(r, "commit")
      BY <1>0, <1>2, <2>1 DEF OpenCaseInsert
    <2>. HIDE DEF m
    <2>. QED BY <1>0, <2>2, <2>3, <2>4, GotoQuiet
  <1>3. CASE OpenCaseCommit(r)
    <2>. DEFINE row == [report |-> p, assignee |-> Null, status |-> "triage", closed |-> FALSE]
                act == NewAction(r, l.id, l.at, c, "case_opened", Null, p)
    <2>1. p \in Report /\ c \in Case /\ reports[p] # Null /\ l.user \in User
      BY <1>0, <1>3 DEF OpenCaseCommit, At, LocalsOK, OpenLocals, Working, Stage, InTx, Final
    <2>2. row \in CaseRow BY <2>1 DEF CaseRow, CaseStatus, Status
    <2>3. act \in ActionRow
      BY <1>0, <2>1 DEF NewAction, ActionRow, ActionType, Locals
    <2>4. Return(r, "done") /\ ReleaseLocks(r) BY <1>3 DEF OpenCaseCommit, EndTx
    <2>5. reports[p] \in ReportRow BY <2>1 DEF Typed, TypeOK
    <2>6. [reports[p] EXCEPT !.status = "triage"] \in ReportRow BY <2>5 DEF ReportRow, Status
    <2>7. /\ cases' = [cases EXCEPT ![c] = row]
          /\ reports' = [reports EXCEPT ![p] = [reports[p] EXCEPT !.status = "triage"]]
          /\ caseActions' = caseActions \cup {act}
          /\ UNCHANGED <<disclosures, counters, framework>>
      BY <1>3 DEF OpenCaseCommit
    <2>. HIDE DEF row, act
    <2>8. "done" \in Final BY DEF Final
    <2>9. /\ cases' \in [Case -> CaseRow \cup {Null}]
          /\ reports' \in [Report -> ReportRow \cup {Null}]
      BY <2>2, <2>6, <2>7 DEF Typed, TypeOK
    <2>10. TypeOK'
      BY <2>3, <2>4, <2>7, <2>8, <2>9, ReturnFacts, ReleaseFacts
         DEF Typed, TypeOK, counters, framework
    <2>11. row # Null /\ row.report = p BY <2>2, Facts DEF row
    <2>12. cases[c] = Null BY <1>3, <2>1 DEF Locked, Holds, OpenCaseCommit
    <2>13. \A q \in Report : reports[q] # Null => reports'[q] # Null
      BY <2>6, <2>7, Facts DEF Typed, TypeOK
    <2>14. Persist
      BY <2>2, <2>7, <2>12, <2>13, Facts DEF Persist, Typed, TypeOK
    <2>15. \A d \in Case : cases'[d] # Null => reports'[cases'[d].report] # Null
      BY <2>1, <2>7, <2>11, <2>13 DEF Typed, TypeOK, CaseRow
    <2>. QED BY <2>4, <2>8, <2>10, <2>14, <2>15, ReturnFacts, OthersKeepLocals
  <1>. QED BY <1>1, <1>2, <1>3 DEF OpenCaseStep

-----------------------------------------------------------------------------
(* Cases.                                                                  *)

\* Each UPDATE of a transition, by the row it locks.
LEMMA UpdateCaseLocks ==
    ASSUME NEW r \in Req, StatusUpdateCase(r)
    PROVE  /\ caseLock[loc[r].case] = Null
           /\ caseLock' = [caseLock EXCEPT ![loc[r].case] = r] /\ reportLock' = reportLock
  BY DEF StatusUpdateCase, LockRow, UpdateOf

LEMMA UpdateReportLocks ==
    ASSUME NEW r \in Req, StatusUpdateReport(r)
    PROVE  /\ reportLock[loc[r].report] = Null
           /\ reportLock' = [reportLock EXCEPT ![loc[r].report] = r] /\ caseLock' = caseLock
  BY DEF StatusUpdateReport, LockRow, UpdateOf

LEMMA StatusTyped ==
    ASSUME Typed, NEW r \in Req, StatusStep(r)
    PROVE  Typed'
  <1>. DEFINE l == loc[r]
              c == loc[r].case
              s == loc[r].target
  <1>0. /\ l \in Locals /\ nextId \in Nat \ {0} /\ clock \in Nat \ {0}
        /\ LocalsOK(pc[r], l)
        /\ reportLock \in [Report -> Req \cup {Null}]
        /\ caseLock \in [Case -> Req \cup {Null}]
    BY DEF Typed, TypeOK
  <1>1. CASE StatusLoad(r)
    <2>. DEFINE m == [loc[r] EXCEPT !.report = cases[c].report, !.status = cases[c].status]
                t == IF RequiresReauth(s) THEN "elevate" ELSE "begin"
    <2>1. CASE /\ StatusAccepted(l.user, c, s) /\ Goto(r, t)
               /\ loc' = [loc EXCEPT ![r].report = cases[c].report, ![r].status = cases[c].status]
               /\ UNCHANGED <<tables, locks, counters, framework>>
      <3>1. c \in Case /\ s \in Status /\ l.user \in User
        BY <1>0, <1>1 DEF StatusLoad, At, LocalsOK, StatusLocals, Working, Stage, InTx, Final
      <3>2. cases[c] \in CaseRow BY <2>1, <3>1 DEF StatusAccepted, Typed, TypeOK
      <3>3. m \in Locals BY <1>0, <3>1, <3>2 DEF Locals, CaseRow
      <3>4. l.op = "status" BY <1>1 DEF StatusLoad, At
      <3>5. LocalsOK(t, m) /\ t \in Stage
        BY <1>0, <2>1, <3>1, <3>2, <3>4
           DEF LocalsOK, StatusLocals, StatusAccepted, Locals, CaseRow, Stage, InTx, Final
      <3>6. loc' = [loc EXCEPT ![r] = m] BY <2>1 DEF Typed, TypeOK
      <3>7. /\ reportLock' = reportLock /\ caseLock' = caseLock
            /\ nextId' = nextId /\ clock' = clock
        BY <2>1 DEF locks, counters
      <3>. HIDE DEF m, t
      <3>. QED BY <1>0, <2>1, <3>3, <3>5, <3>6, <3>7, GotoQuiet
    <2>2. CASE Dismiss(r) BY <2>2, ReturnQuiet DEF Dismiss, Final
    <2>. QED BY <1>1, <2>1, <2>2 DEF StatusLoad
  <1>2. CASE StatusElevate(r)
    <2>1. CASE Goto(r, "begin") /\ UNCHANGED <<loc, tables, locks, counters, framework>>
      <3>1. LocalsOK("begin", l) /\ "begin" \in Stage
        BY <1>0, <1>2 DEF StatusElevate, At, LocalsOK, StatusLocals, Working, Stage, InTx, Final
      <3>2. loc' = [loc EXCEPT ![r] = l] BY <2>1 DEF Typed, TypeOK
      <3>3. /\ reportLock' = reportLock /\ caseLock' = caseLock
            /\ nextId' = nextId /\ clock' = clock
        BY <2>1 DEF locks, counters
      <3>. HIDE DEF l
      <3>. QED BY <1>0, <2>1, <3>1, <3>2, <3>3, GotoQuiet
    <2>2. CASE Dismiss(r) BY <2>2, ReturnQuiet DEF Dismiss, Final
    <2>. QED BY <1>2, <2>1, <2>2 DEF StatusElevate
  <1>3. CASE StatusUpdateCase(r)
    <2>1. LocalsOK("sync", l) /\ "sync" \in Stage
      BY <1>0, <1>3 DEF StatusUpdateCase, At, LocalsOK, StatusLocals, Working, Stage, InTx, Final
    <2>2. loc' = [loc EXCEPT ![r] = l] BY <1>3 DEF StatusUpdateCase, Typed, TypeOK
    <2>3. /\ caseLock' \in [Case -> Req \cup {Null}] /\ reportLock' = reportLock
          /\ nextId' = nextId /\ clock' = clock
          /\ UNCHANGED <<tables, framework>> /\ Goto(r, "sync")
      BY <1>0, <1>3, UpdateCaseLocks DEF StatusUpdateCase, counters
    <2>. HIDE DEF l
    <2>. QED BY <1>0, <2>1, <2>2, <2>3, GotoQuiet
  <1>4. CASE StatusUpdateReport(r)
    <2>. DEFINE m == [loc[r] EXCEPT !.id = nextId]
    <2>1. m \in Locals /\ LocalsOK("commit", m) /\ "commit" \in Stage
      BY <1>0, <1>4 DEF StatusUpdateReport, At, LocalsOK, StatusLocals, Locals,
                        Working, Stage, InTx, Final
    <2>2. loc' = [loc EXCEPT ![r] = m] BY <1>4 DEF StatusUpdateReport, Typed, TypeOK
    <2>3. /\ reportLock' = [reportLock EXCEPT ![loc[r].report] = r]
          /\ nextId' = nextId + 1 /\ caseLock' = caseLock /\ clock' = clock
          /\ UNCHANGED <<tables, framework>> /\ Goto(r, "commit")
      BY <1>4, UpdateReportLocks DEF StatusUpdateReport
    <2>4. reportLock' \in [Report -> Req \cup {Null}]
      BY <1>0, <2>3
    <2>4a. nextId' \in Nat \ {0}
      BY <1>0, <2>3
    <2>. HIDE DEF m
    <2>. QED BY <1>0, <2>1, <2>2, <2>3, <2>4, <2>4a, GotoQuiet
  <1>5. CASE StatusCommit(r)
    <2>. DEFINE p == loc[r].report
                act == NewAction(r, l.id, l.at, c, "status_changed", l.status, s)
    <2>1. /\ c \in Case /\ cases[c] # Null /\ p = cases[c].report /\ l.user \in User
          /\ l.status \in CaseStatus /\ s \in AllowedNext(l.status)
      BY <1>0, <1>5 DEF StatusCommit, At, LocalsOK, StatusLocals, Working, Stage, InTx, Final
    <2>2. s \in CaseStatus BY <2>1 DEF AllowedNext, CaseStatus, Status
    <2>3. cases[c] \in CaseRow BY <2>1 DEF Typed, TypeOK
    <2>4. StatusWritten(cases[c], s) \in CaseRow /\ StatusWritten(cases[c], s).report = p
      BY <2>1, <2>2, <2>3 DEF StatusWritten, CaseRow, IsTerminal
    <2>5. p \in Report /\ reports[p] \in ReportRow
      BY <2>1, <2>3 DEF CaseRow, Typed, TypeOK
    <2>6. ReporterSees(reports[p], s) \in ReportRow
      BY <2>2, <2>5 DEF ReporterSees, ReportRow, CaseStatus
    <2>7. act \in ActionRow
      BY <1>0, <2>1, <2>2 DEF NewAction, ActionRow, ActionType, Locals, CaseStatus
    <2>8. Return(r, "done") /\ ReleaseLocks(r) /\ "done" \in Final
      BY <1>5 DEF StatusCommit, EndTx, Final
    <2>9. /\ cases' = [cases EXCEPT ![c] = StatusWritten(cases[c], s)]
          /\ reports' = [reports EXCEPT ![p] = ReporterSees(reports[p], s)]
          /\ caseActions' = caseActions \cup {act}
          /\ UNCHANGED <<disclosures, counters, framework>>
      BY <1>5 DEF StatusCommit
    <2>. HIDE DEF act, l, s, c, p
    <2>10. /\ cases' \in [Case -> CaseRow \cup {Null}]
           /\ reports' \in [Report -> ReportRow \cup {Null}]
      BY <2>4, <2>6, <2>9 DEF Typed, TypeOK
    <2>11. TypeOK'
      BY <2>7, <2>8, <2>9, <2>10, ReturnFacts, ReleaseFacts DEF Typed, TypeOK, counters, framework
    <2>12. Persist
      BY <2>1, <2>3, <2>4, <2>6, <2>9, Facts DEF Persist, Typed, TypeOK
    <2>13. \A d \in Case : cases'[d] # Null => reports'[cases'[d].report] # Null
      BY <2>1, <2>4, <2>9, <2>12 DEF Persist, Typed, TypeOK, CaseRow
    <2>. QED BY <2>8, <2>11, <2>12, <2>13, ReturnFacts, OthersKeepLocals
  <1>. QED BY <1>1, <1>2, <1>3, <1>4, <1>5 DEF StatusStep

LEMMA NoteTyped ==
    ASSUME Typed, NEW r \in Req, NoteStep(r)
    PROVE  Typed'
  <1>. DEFINE l == loc[r]
              c == loc[r].case
  <1>0. /\ l \in Locals /\ nextId \in Nat \ {0} /\ clock \in Nat \ {0}
        /\ LocalsOK(pc[r], l)
        /\ reportLock \in [Report -> Req \cup {Null}]
        /\ caseLock \in [Case -> Req \cup {Null}]
    BY DEF Typed, TypeOK
  <1>1. CASE NoteLoad(r)
    <2>1. CASE /\ cases[c] # Null /\ MayActOn(l.user, c) /\ Goto(r, "append")
               /\ UNCHANGED <<loc, tables, locks, counters, framework>>
      <3>1. LocalsOK("append", l) /\ "append" \in Stage
        BY <1>0, <1>1, <2>1 DEF NoteLoad, At, LocalsOK, NoteLocals, Working, Stage, InTx, Final
      <3>2. loc' = [loc EXCEPT ![r] = l] BY <2>1 DEF Typed, TypeOK
      <3>3. /\ reportLock' = reportLock /\ caseLock' = caseLock
            /\ nextId' = nextId /\ clock' = clock
        BY <2>1 DEF locks, counters
      <3>. HIDE DEF l
      <3>. QED BY <1>0, <2>1, <3>1, <3>2, <3>3, GotoQuiet
    <2>2. CASE Dismiss(r) BY <2>2, ReturnQuiet DEF Dismiss, Final
    <2>. QED BY <1>1, <2>1, <2>2 DEF NoteLoad
  <1>2. CASE NoteInsert(r)
    <2>. DEFINE m == [loc[r] EXCEPT !.at = clock, !.id = nextId]
    <2>1. m \in Locals /\ LocalsOK("check", m) /\ "check" \in Stage
      BY <1>0, <1>2 DEF NoteInsert, At, LocalsOK, NoteLocals, Locals, Working, Stage, InTx, Final
    <2>2. loc' = [loc EXCEPT ![r] = m] BY <1>2 DEF NoteInsert, Typed, TypeOK
    <2>3. /\ reportLock' = reportLock /\ caseLock' = caseLock
          /\ nextId' = nextId + 1 /\ Tick
          /\ UNCHANGED <<tables, framework>> /\ Goto(r, "check")
      BY <1>2 DEF NoteInsert, locks
    <2>. HIDE DEF m
    <2>4. nextId' \in Nat \ {0} /\ clock' \in Nat \ {0} BY <1>0, <2>3, TickFacts
    <2>. QED BY <1>0, <2>1, <2>2, <2>3, <2>4, GotoQuiet
  <1>3. CASE NoteCheck(r)
    <2>1. LocalsOK("commit", l) /\ "commit" \in Stage
      BY <1>0, <1>3 DEF NoteCheck, At, LocalsOK, NoteLocals, Working, Stage, InTx, Final
    <2>2. loc' = [loc EXCEPT ![r] = l] BY <1>3 DEF NoteCheck, Typed, TypeOK
    <2>3. /\ reportLock' = reportLock /\ caseLock' = caseLock
          /\ nextId' = nextId /\ clock' = clock
          /\ UNCHANGED <<tables, framework>> /\ Goto(r, "commit")
      BY <1>3 DEF NoteCheck, locks, counters
    <2>. HIDE DEF l
    <2>. QED BY <1>0, <2>1, <2>2, <2>3, GotoQuiet
  <1>4. CASE NoteCommit(r)
    <2>. DEFINE act == NewAction(r, l.id, l.at, c, "note_added", Null, Null)
    <2>1. c \in Case /\ l.user \in User
      BY <1>0, <1>4 DEF NoteCommit, At, LocalsOK, NoteLocals, Working, Stage, InTx, Final
    <2>2. act \in ActionRow BY <1>0, <2>1 DEF NewAction, ActionRow, ActionType, Locals
    <2>3. /\ caseActions' = caseActions \cup {act}
          /\ Return(r, "done") /\ ReleaseLocks(r) /\ "done" \in Final
          /\ UNCHANGED <<reports, cases, disclosures, counters, framework>>
      BY <1>4 DEF NoteCommit, EndTx, Final
    <2>. HIDE DEF act
    <2>4. TypeOK'
      BY <2>2, <2>3, ReturnFacts, ReleaseFacts DEF Typed, TypeOK, counters, framework
    <2>5. Persist BY <2>3 DEF Persist
    <2>6. \A d \in Case : cases'[d] # Null => reports'[cases'[d].report] # Null
      BY <2>3 DEF Typed
    <2>. QED BY <2>3, <2>4, <2>5, <2>6, ReturnFacts, OthersKeepLocals
  <1>. QED BY <1>1, <1>2, <1>3, <1>4 DEF NoteStep

LEMMA ReassignTyped ==
    ASSUME Typed, NEW r \in Req, ReassignStep(r)
    PROVE  Typed'
  <1>. DEFINE l == loc[r]
              c == loc[r].case
              v == loc[r].target
  <1>0. /\ l \in Locals /\ nextId \in Nat \ {0} /\ clock \in Nat \ {0}
        /\ LocalsOK(pc[r], l)
        /\ reportLock \in [Report -> Req \cup {Null}]
        /\ caseLock \in [Case -> Req \cup {Null}]
    BY DEF Typed, TypeOK
  <1>1. CASE ReassignTarget(r)
    <2>1. CASE Goto(r, "load") /\ UNCHANGED <<loc, tables, locks, counters, framework>>
      <3>1. LocalsOK("load", l) /\ "load" \in Stage
        BY <1>0, <1>1 DEF ReassignTarget, At, LocalsOK, ReassignLocals, Working, Stage, InTx, Final
      <3>2. loc' = [loc EXCEPT ![r] = l] BY <2>1 DEF Typed, TypeOK
      <3>3. /\ reportLock' = reportLock /\ caseLock' = caseLock
            /\ nextId' = nextId /\ clock' = clock
        BY <2>1 DEF locks, counters
      <3>. HIDE DEF l
      <3>. QED BY <1>0, <2>1, <3>1, <3>2, <3>3, GotoQuiet
    <2>2. CASE Dismiss(r) BY <2>2, ReturnQuiet DEF Dismiss, Final
    <2>. QED BY <1>1, <2>1, <2>2 DEF ReassignTarget
  <1>2. CASE ReassignLoad(r)
    <2>. DEFINE m == [loc[r] EXCEPT !.assignee = cases[c].assignee]
    <2>1. CASE /\ cases[c] # Null /\ Goto(r, "begin")
               /\ loc' = [loc EXCEPT ![r].assignee = cases[c].assignee]
               /\ UNCHANGED <<tables, locks, counters, framework>>
      <3>1. c \in Case
        BY <1>0, <1>2 DEF ReassignLoad, At, LocalsOK, ReassignLocals, Working, Stage, InTx, Final
      <3>2. cases[c] \in CaseRow BY <2>1, <3>1 DEF Typed, TypeOK
      <3>3. m \in Locals /\ LocalsOK("begin", m) /\ "begin" \in Stage
        BY <1>0, <1>2, <2>1, <3>1, <3>2 DEF ReassignLoad, At, LocalsOK, ReassignLocals, Locals,
                                            CaseRow, Working, Stage, InTx, Final
      <3>4. loc' = [loc EXCEPT ![r] = m] BY <2>1 DEF Typed, TypeOK
      <3>5. /\ reportLock' = reportLock /\ caseLock' = caseLock
            /\ nextId' = nextId /\ clock' = clock
        BY <2>1 DEF locks, counters
      <3>. HIDE DEF m
      <3>. QED BY <1>0, <2>1, <3>3, <3>4, <3>5, GotoQuiet
    <2>2. CASE Dismiss(r) BY <2>2, ReturnQuiet DEF Dismiss, Final
    <2>. QED BY <1>2, <2>1, <2>2 DEF ReassignLoad
  <1>3. CASE ReassignUpdate(r)
    <2>. DEFINE m == [loc[r] EXCEPT !.id = nextId]
    <2>1. m \in Locals /\ LocalsOK("commit", m) /\ "commit" \in Stage
      BY <1>0, <1>3 DEF ReassignUpdate, At, LocalsOK, ReassignLocals, Locals,
                        Working, Stage, InTx, Final
    <2>2. loc' = [loc EXCEPT ![r] = m] BY <1>3 DEF ReassignUpdate, Typed, TypeOK
    <2>3. /\ caseLock' = [caseLock EXCEPT ![c] = r]
          /\ nextId' = nextId + 1 /\ reportLock' = reportLock /\ clock' = clock
          /\ UNCHANGED <<tables, framework>> /\ Goto(r, "commit")
      BY <1>3 DEF ReassignUpdate
    <2>4. caseLock' \in [Case -> Req \cup {Null}]
      BY <1>0, <2>3
    <2>4a. nextId' \in Nat \ {0}
      BY <1>0, <2>3
    <2>. HIDE DEF m
    <2>. QED BY <1>0, <2>1, <2>2, <2>3, <2>4, <2>4a, GotoQuiet
  <1>4. CASE ReassignCommit(r)
    <2>. DEFINE type == IF l.assignee = Null THEN "assigned" ELSE "reassigned"
                act == NewAction(r, l.id, l.at, c, type, l.assignee, v)
                row == [cases[c] EXCEPT !.assignee = v]
    <2>1. c \in Case /\ cases[c] # Null /\ v \in User /\ l.user \in User
      BY <1>0, <1>4 DEF ReassignCommit, At, LocalsOK, ReassignLocals, Working, Stage, InTx, Final
    <2>2. cases[c] \in CaseRow BY <2>1 DEF Typed, TypeOK
    <2>3. row \in CaseRow /\ row.report = cases[c].report BY <2>1, <2>2 DEF CaseRow
    <2>4. act \in ActionRow BY <1>0, <2>1 DEF NewAction, ActionRow, ActionType, Locals
    <2>5. Return(r, "done") /\ ReleaseLocks(r) /\ "done" \in Final
      BY <1>4 DEF ReassignCommit, EndTx, Final
    <2>6. /\ cases' = [cases EXCEPT ![c] = row] /\ caseActions' = caseActions \cup {act}
          /\ UNCHANGED <<reports, disclosures, counters, framework>>
      BY <1>4 DEF ReassignCommit
    <2>. HIDE DEF act, row, l, c, v
    <2>7. TypeOK'
      BY <2>3, <2>4, <2>5, <2>6, ReturnFacts, ReleaseFacts DEF Typed, TypeOK, counters, framework
    <2>8. Persist BY <2>1, <2>3, <2>6, Facts DEF Persist, Typed, TypeOK
    <2>9. \A d \in Case : cases'[d] # Null => reports'[cases'[d].report] # Null
      BY <2>1, <2>3, <2>6 DEF Typed, TypeOK
    <2>. QED BY <2>5, <2>7, <2>8, <2>9, ReturnFacts, OthersKeepLocals
  <1>. QED BY <1>1, <1>2, <1>3, <1>4 DEF ReassignStep

-----------------------------------------------------------------------------
(* Disclosure.                                                             *)

LEMMA DiscloseTyped ==
    ASSUME Typed, NEW r \in Req, DiscloseStep(r)
    PROVE  Typed'
  <1>. DEFINE l == loc[r]
              c == loc[r].case
  <1>0. /\ l \in Locals /\ nextId \in Nat \ {0} /\ clock \in Nat \ {0}
        /\ LocalsOK(pc[r], l)
        /\ reportLock \in [Report -> Req \cup {Null}]
        /\ caseLock \in [Case -> Req \cup {Null}]
    BY DEF Typed, TypeOK
  <1>1. CASE DiscloseElevate(r)
    <2>1. CASE Goto(r, "begin") /\ UNCHANGED loc
      <3>1. LocalsOK("begin", l) /\ "begin" \in Stage
        BY <1>0, <1>1 DEF DiscloseElevate, At, LocalsOK, DiscloseLocals, Working, Stage, InTx, Final
      <3>2. loc' = [loc EXCEPT ![r] = l] BY <2>1 DEF Typed, TypeOK
      <3>3. /\ reportLock' = reportLock /\ caseLock' = caseLock
            /\ nextId' = nextId /\ clock' = clock /\ UNCHANGED <<tables, framework>>
        BY <1>1 DEF DiscloseElevate, locks, counters
      <3>. HIDE DEF l
      <3>. QED BY <1>0, <2>1, <3>1, <3>2, <3>3, GotoQuiet
    <2>2. CASE Return(r, "done")
      BY <1>1, <2>2, ReturnQuiet DEF DiscloseElevate, Final
    <2>. QED BY <1>1, <2>1, <2>2 DEF DiscloseElevate
  <1>2. CASE DiscloseLock(r)
    <2>. DEFINE m == [loc[r] EXCEPT !.id = nextId]
    <2>0. /\ caseLock' \in [Case -> Req \cup {Null}] /\ reportLock' = reportLock
          /\ clock' = clock /\ UNCHANGED <<tables, framework>>
      BY <1>0, <1>2 DEF DiscloseLock
    <2>1. CASE HasEmail(c) /\ loc' = [loc EXCEPT ![r].id = nextId] /\ nextId' = nextId + 1
               /\ Goto(r, "commit")
      <3>1. m \in Locals /\ LocalsOK("commit", m) /\ "commit" \in Stage
        BY <1>0, <1>2, <2>1 DEF DiscloseLock, At, HasEmail, LocalsOK, DiscloseLocals, Locals,
                                Working, Stage, InTx, Final
      <3>2. loc' = [loc EXCEPT ![r] = m] BY <2>1 DEF Typed, TypeOK
      <3>3. nextId' \in Nat \ {0} BY <1>0, <2>1
      <3>. HIDE DEF m
      <3>. QED BY <1>0, <2>0, <2>1, <3>1, <3>2, <3>3, GotoQuiet
    <2>2. CASE Goto(r, "rollback") /\ UNCHANGED <<loc, nextId>>
      <3>1. LocalsOK("rollback", l) /\ "rollback" \in Stage
        BY <1>0, <1>2 DEF DiscloseLock, At, LocalsOK, DiscloseLocals, Working, Stage, InTx, Final
      <3>2. loc' = [loc EXCEPT ![r] = l] BY <2>2 DEF Typed, TypeOK
      <3>. HIDE DEF l
      <3>. QED BY <1>0, <2>0, <2>2, <3>1, <3>2, GotoQuiet
    <2>. QED BY <1>2, <2>1, <2>2 DEF DiscloseLock
  <1>3. CASE DiscloseCommit(r)
    <2>. DEFINE act == NewAction(r, l.id, l.at, c, "disclosure_consumed", Null, Null)
                dis == [case |-> c, requestedBy |-> l.user, at |-> l.at, corr |-> r]
    <2>1. c \in Case /\ l.user \in User /\ cases[c] # Null /\ l.op = "disclose"
      BY <1>0, <1>3 DEF DiscloseCommit, At, LocalsOK, DiscloseLocals, Working, Stage, InTx, Final
    <2>2. act \in ActionRow /\ dis \in DisclosureRow
      BY <1>0, <2>1 DEF NewAction, ActionRow, DisclosureRow, ActionType, Locals
    <2>3. /\ disclosures' = disclosures \cup {dis} /\ caseActions' = caseActions \cup {act}
          /\ Goto(r, "render") /\ ReleaseLocks(r)
          /\ UNCHANGED <<loc, reports, cases, counters, framework>>
      BY <1>3 DEF DiscloseCommit
    <2>. HIDE DEF act, dis
    <2>4. TypeOK'
      BY <2>2, <2>3, ReleaseFacts DEF Goto, Stage, Typed, TypeOK, counters, framework
    <2>5. Persist BY <2>3 DEF Persist
    <2>6. \A d \in Case : cases'[d] # Null => reports'[cases'[d].report] # Null
      BY <2>3 DEF Typed
    <2>7. LocalsOK(pc[r], loc[r])'
      BY <2>1, <2>3 DEF Goto, Typed, TypeOK, LocalsOK, DiscloseLocals
    <2>8. \A q \in Req \ {r} : pc'[q] = pc[q] /\ loc'[q] = loc[q]
      BY <2>3 DEF Goto, Typed, TypeOK
    <2>. QED BY <2>4, <2>5, <2>6, <2>7, <2>8, OthersKeepLocals
  <1>4. CASE DiscloseRender(r)
    BY <1>4, ReturnQuiet DEF DiscloseRender, Final
  <1>. QED BY <1>1, <1>2, <1>3, <1>4 DEF DiscloseStep

-----------------------------------------------------------------------------
(* Locks.  A step of r touches no other request, and no row that another   *)
(* request has locked.                                                     *)

Framed(r) ==
    /\ \A q \in Req \ {r} : pc'[q] = pc[q] /\ loc'[q] = loc[q]
    /\ \A p \in Report : reportLock[p] \notin {Null, r} =>
          reportLock'[p] = reportLock[p] /\ reports'[p] = reports[p]
    /\ \A c \in Case : caseLock[c] \notin {Null, r} =>
          caseLock'[c] = caseLock[c] /\ cases'[c] = cases[c]
    /\ Persist
    /\ \A p \in Report : reports[p] # Null => reports'[p].email = reports[p].email

LEMMA QuietFramed ==
    ASSUME Typed, NEW r \in Req, UNCHANGED <<reports, cases>>,
           \A q \in Req \ {r} : pc'[q] = pc[q] /\ loc'[q] = loc[q],
           \A p \in Report : reportLock[p] \notin {Null, r} => reportLock'[p] = reportLock[p],
           \A c \in Case : caseLock[c] \notin {Null, r} => caseLock'[c] = caseLock[c]
    PROVE  Framed(r)
  BY DEF Framed, Persist

LEMMA ReturnFramed ==
    ASSUME Typed, NEW r \in Req, NEW f, Return(r, f), UNCHANGED <<reports, cases, locks>>
    PROVE  Framed(r)
  <1>1. \A q \in Req \ {r} : pc'[q] = pc[q] /\ loc'[q] = loc[q]
    BY DEF Return, Typed, TypeOK
  <1>. QED BY <1>1, QuietFramed DEF locks

LEMMA EndTxFramed ==
    ASSUME Typed, NEW r \in Req, EndTx(r), UNCHANGED <<reports, cases>>
    PROVE  Framed(r)
  <1>1. \A q \in Req \ {r} : pc'[q] = pc[q] /\ loc'[q] = loc[q]
    BY DEF EndTx, Return, Typed, TypeOK
  <1>2. ReleaseLocks(r) BY DEF EndTx
  <1>. QED BY <1>1, <1>2, ReleaseFacts, QuietFramed

LEMMA GotoFramed ==
    ASSUME Typed, NEW r \in Req, NEW s, Goto(r, s), UNCHANGED <<loc, reports, cases, locks>>
    PROVE  Framed(r)
  <1>1. \A q \in Req \ {r} : pc'[q] = pc[q] /\ loc'[q] = loc[q]
    BY DEF Goto, Typed, TypeOK
  <1>. QED BY <1>1, QuietFramed DEF locks

LEMMA ArriveFramed ==
    ASSUME Typed, NEW r \in Req, NEW l, NEW min, NEW s, Arrive(r, l, min, s)
    PROVE  Framed(r)
  <1>1. \A q \in Req \ {r} : pc'[q] = pc[q] /\ loc'[q] = loc[q]
    BY DEF Arrive, Goto, Return, Typed, TypeOK
  <1>. QED BY <1>1, QuietFramed DEF Arrive, tables, locks

LEMMA StartFramed ==
    ASSUME Typed, NEW r \in Req, Start(r)
    PROVE  Framed(r)
  BY ArriveFramed, Zenon
     DEF Start, StartOpenCase, StartStatus, StartNote, StartReassign, StartDisclose

LEMMA BeginFramed ==
    ASSUME Typed, NEW r \in Req, BeginTx(r)
    PROVE  Framed(r)
  <1>1. \A q \in Req \ {r} : pc'[q] = pc[q] /\ loc'[q] = loc[q]
    BY DEF BeginTx, Goto, Typed, TypeOK
  <1>. QED BY <1>1, QuietFramed DEF BeginTx, tables, locks

LEMMA CancelFramed ==
    ASSUME Typed, NEW r \in Req, Cancel(r)
    PROVE  Framed(r)
  BY EndTxFramed DEF Cancel, tables

LEMMA RollbackFramed ==
    ASSUME Typed, NEW r \in Req, Rollback(r)
    PROVE  Framed(r)
  BY EndTxFramed DEF Rollback, tables

LEMMA OpenCaseFramed ==
    ASSUME Typed, Locked, NEW r \in Req, OpenCaseStep(r)
    PROVE  Framed(r)
  <1>. DEFINE p == loc[r].report
              c == loc[r].case
  <1>0. LocalsOK(pc[r], loc[r]) /\ Holds(r) BY DEF Typed, Locked
  <1>1. CASE OpenCaseLock(r)
    <2>1. \A q \in Req \ {r} : pc'[q] = pc[q] /\ loc'[q] = loc[q]
      BY <1>1 DEF OpenCaseLock, Goto, Typed, TypeOK
    <2>2. reportLock[p] = Null /\ UNCHANGED <<reports, cases, caseLock>>
      BY <1>1 DEF OpenCaseLock, tables
    <2>3. \A o \in Report : reportLock[o] \notin {Null, r} => reportLock'[o] = reportLock[o]
      BY <1>1, <2>2 DEF OpenCaseLock, Typed, TypeOK
    <2>. QED BY <2>1, <2>2, <2>3, QuietFramed
  <1>2. CASE OpenCaseInsert(r)
    <2>1. \A q \in Req \ {r} : pc'[q] = pc[q] /\ loc'[q] = loc[q]
      BY <1>2 DEF OpenCaseInsert, Goto, Typed, TypeOK
    <2>2. \A d \in Case : caseLock[d] \notin {Null, r} => caseLock'[d] = caseLock[d]
      BY <1>2 DEF OpenCaseInsert, Typed, TypeOK
    <2>. QED BY <1>2, <2>1, <2>2, QuietFramed DEF OpenCaseInsert, tables
  <1>3. CASE OpenCaseCommit(r)
    <2>1. /\ p \in Report /\ c \in Case /\ reports[p] # Null /\ reports[p] \in ReportRow
          /\ reportLock[p] = r /\ caseLock[c] = r /\ cases[c] = Null
      BY <1>0, <1>3 DEF OpenCaseCommit, At, Holds, LocalsOK, OpenLocals, Working, Stage, InTx,
                        Final, Typed, TypeOK
    <2>2. /\ cases' = [cases EXCEPT ![c] = [report |-> p, assignee |-> Null,
                                            status |-> "triage", closed |-> FALSE]]
          /\ reports' = [reports EXCEPT ![p] = [reports[p] EXCEPT !.status = "triage"]]
          /\ Return(r, "done") /\ ReleaseLocks(r)
      BY <1>3 DEF OpenCaseCommit, EndTx
    <2>3. [reports[p] EXCEPT !.status = "triage"] \in ReportRow BY <2>1 DEF ReportRow, Status
    <2>4. \A q \in Req \ {r} : pc'[q] = pc[q] /\ loc'[q] = loc[q]
      BY <2>2, ReturnFacts DEF Final
    <2>5. Persist BY <2>1, <2>2, <2>3, Facts DEF Persist, Typed, TypeOK
    <2>6. \A o \in Report : reports[o] # Null => reports'[o].email = reports[o].email
      BY <2>1, <2>2 DEF ReportRow, Typed, TypeOK
    <2>7. \A o \in Report : reportLock[o] \notin {Null, r} =>
             reportLock'[o] = reportLock[o] /\ reports'[o] = reports[o]
      BY <2>1, <2>2, ReleaseFacts DEF Typed, TypeOK
    <2>8. \A d \in Case : caseLock[d] \notin {Null, r} =>
             caseLock'[d] = caseLock[d] /\ cases'[d] = cases[d]
      BY <2>1, <2>2, ReleaseFacts DEF Typed, TypeOK
    <2>. QED BY <2>4, <2>5, <2>6, <2>7, <2>8 DEF Framed
  <1>. QED BY <1>1, <1>2, <1>3 DEF OpenCaseStep

LEMMA DismissFramed ==
    ASSUME Typed, NEW r \in Req, Dismiss(r)
    PROVE  Framed(r)
  BY ReturnFramed DEF Dismiss, tables

LEMMA StatusFramed ==
    ASSUME Typed, Locked, NEW r \in Req, StatusStep(r)
    PROVE  Framed(r)
  <1>. DEFINE p == loc[r].report
              c == loc[r].case
              s == loc[r].target
  <1>0. LocalsOK(pc[r], loc[r]) /\ Holds(r) BY DEF Typed, Locked
  <1>1. CASE StatusLoad(r)
    <2>1. CASE /\ loc' = [loc EXCEPT ![r].report = cases[c].report, ![r].status = cases[c].status]
               /\ Goto(r, IF RequiresReauth(s) THEN "elevate" ELSE "begin")
               /\ UNCHANGED <<tables, locks, counters, framework>>
      <3>1. \A q \in Req \ {r} : pc'[q] = pc[q] /\ loc'[q] = loc[q]
        BY <2>1 DEF Goto, Typed, TypeOK
      <3>. QED BY <2>1, <3>1, QuietFramed DEF tables, locks
    <2>2. CASE Dismiss(r) BY <2>2, DismissFramed
    <2>. QED BY <1>1, <2>1, <2>2 DEF StatusLoad
  <1>2. CASE StatusElevate(r)
    BY <1>2, DismissFramed, GotoFramed DEF StatusElevate, tables
  <1>3. CASE StatusUpdateCase(r)
    <2>1. \A q \in Req \ {r} : pc'[q] = pc[q] /\ loc'[q] = loc[q]
      BY <1>3 DEF StatusUpdateCase, Goto, Typed, TypeOK
    <2>2. \A d \in Case : caseLock[d] \notin {Null, r} => caseLock'[d] = caseLock[d]
      BY <1>3, UpdateCaseLocks DEF Typed, TypeOK
    <2>. QED BY <1>3, <2>1, <2>2, UpdateCaseLocks, QuietFramed DEF StatusUpdateCase, tables
  <1>4. CASE StatusUpdateReport(r)
    <2>1. \A q \in Req \ {r} : pc'[q] = pc[q] /\ loc'[q] = loc[q]
      BY <1>4 DEF StatusUpdateReport, Goto, Typed, TypeOK
    <2>2. \A o \in Report : reportLock[o] \notin {Null, r} => reportLock'[o] = reportLock[o]
      BY <1>4, UpdateReportLocks DEF Typed, TypeOK
    <2>. QED BY <1>4, <2>1, <2>2, UpdateReportLocks, QuietFramed DEF StatusUpdateReport, tables
  <1>5. CASE StatusCommit(r)
    <2>1. /\ c \in Case /\ cases[c] # Null /\ cases[c] \in CaseRow /\ p = cases[c].report
          /\ p \in Report /\ reports[p] # Null /\ reports[p] \in ReportRow
          /\ s \in AllowedNext(loc[r].status)
          /\ reportLock[p] = r /\ caseLock[c] = r
      BY <1>0, <1>5 DEF StatusCommit, At, Holds, LocalsOK, StatusLocals, Working, Stage, InTx,
                        Final, Typed, TypeOK, CaseRow
    <2>2. /\ cases' = [cases EXCEPT ![c] = StatusWritten(cases[c], s)]
          /\ reports' = [reports EXCEPT ![p] = ReporterSees(reports[p], s)]
          /\ Return(r, "done") /\ ReleaseLocks(r)
      BY <1>5 DEF StatusCommit, EndTx
    <2>3. s \in CaseStatus BY <2>1 DEF AllowedNext, CaseStatus, Status
    <2>4. /\ ReporterSees(reports[p], s) \in ReportRow
          /\ ReporterSees(reports[p], s).email = reports[p].email
      BY <2>1, <2>3 DEF ReporterSees, ReportRow, CaseStatus
    <2>5. /\ StatusWritten(cases[c], s) \in CaseRow
          /\ StatusWritten(cases[c], s).report = p
      BY <2>1, <2>3 DEF StatusWritten, CaseRow, IsTerminal
    <2>6. \A q \in Req \ {r} : pc'[q] = pc[q] /\ loc'[q] = loc[q]
      BY <2>2, ReturnFacts DEF Final
    <2>. HIDE DEF p, c, s
    <2>7. Persist BY <2>1, <2>2, <2>4, <2>5, Facts DEF Persist, Typed, TypeOK
    <2>8. \A o \in Report : reports[o] # Null => reports'[o].email = reports[o].email
      BY <2>1, <2>2, <2>4 DEF Typed, TypeOK
    <2>9. \A o \in Report : reportLock[o] \notin {Null, r} =>
             reportLock'[o] = reportLock[o] /\ reports'[o] = reports[o]
      BY <2>1, <2>2, ReleaseFacts DEF Typed, TypeOK
    <2>10. \A d \in Case : caseLock[d] \notin {Null, r} =>
             caseLock'[d] = caseLock[d] /\ cases'[d] = cases[d]
      BY <2>1, <2>2, ReleaseFacts DEF Typed, TypeOK
    <2>. QED BY <2>6, <2>7, <2>8, <2>9, <2>10 DEF Framed
  <1>. QED BY <1>1, <1>2, <1>3, <1>4, <1>5 DEF StatusStep

LEMMA NoteFramed ==
    ASSUME Typed, NEW r \in Req, NoteStep(r)
    PROVE  Framed(r)
  <1>1. CASE NoteLoad(r)
    BY <1>1, DismissFramed, GotoFramed DEF NoteLoad, tables
  <1>2. CASE NoteInsert(r)
    <2>1. \A q \in Req \ {r} : pc'[q] = pc[q] /\ loc'[q] = loc[q]
      BY <1>2 DEF NoteInsert, Goto, Typed, TypeOK
    <2>. QED BY <1>2, <2>1, QuietFramed DEF NoteInsert, tables, locks
  <1>3. CASE NoteCheck(r)
    BY <1>3, GotoFramed DEF NoteCheck, tables
  <1>4. CASE NoteCommit(r)
    BY <1>4, EndTxFramed DEF NoteCommit
  <1>. QED BY <1>1, <1>2, <1>3, <1>4 DEF NoteStep

LEMMA ReassignFramed ==
    ASSUME Typed, Locked, NEW r \in Req, ReassignStep(r)
    PROVE  Framed(r)
  <1>. DEFINE c == loc[r].case
              v == loc[r].target
  <1>0. LocalsOK(pc[r], loc[r]) /\ Holds(r) BY DEF Typed, Locked
  <1>1. CASE ReassignTarget(r)
    BY <1>1, DismissFramed, GotoFramed DEF ReassignTarget, tables
  <1>2. CASE ReassignLoad(r)
    <2>1. CASE /\ loc' = [loc EXCEPT ![r].assignee = cases[c].assignee]
               /\ Goto(r, "begin") /\ UNCHANGED <<tables, locks, counters, framework>>
      <3>1. \A q \in Req \ {r} : pc'[q] = pc[q] /\ loc'[q] = loc[q]
        BY <2>1 DEF Goto, Typed, TypeOK
      <3>. QED BY <2>1, <3>1, QuietFramed DEF tables, locks
    <2>2. CASE Dismiss(r) BY <2>2, DismissFramed
    <2>. QED BY <1>2, <2>1, <2>2 DEF ReassignLoad
  <1>3. CASE ReassignUpdate(r)
    <2>1. \A q \in Req \ {r} : pc'[q] = pc[q] /\ loc'[q] = loc[q]
      BY <1>3 DEF ReassignUpdate, Goto, Typed, TypeOK
    <2>2. \A d \in Case : caseLock[d] \notin {Null, r} => caseLock'[d] = caseLock[d]
      BY <1>3 DEF ReassignUpdate, Typed, TypeOK
    <2>. QED BY <1>3, <2>1, <2>2, QuietFramed DEF ReassignUpdate, tables
  <1>4. CASE ReassignCommit(r)
    <2>1. /\ c \in Case /\ cases[c] # Null /\ cases[c] \in CaseRow /\ v \in User
          /\ caseLock[c] = r
      BY <1>0, <1>4 DEF ReassignCommit, At, Holds, LocalsOK, ReassignLocals, Working, Stage, InTx,
                        Final, Typed, TypeOK
    <2>2. /\ cases' = [cases EXCEPT ![c] = [cases[c] EXCEPT !.assignee = v]]
          /\ reports' = reports /\ Return(r, "done") /\ ReleaseLocks(r)
      BY <1>4 DEF ReassignCommit, EndTx
    <2>3. /\ [cases[c] EXCEPT !.assignee = v] \in CaseRow
          /\ [cases[c] EXCEPT !.assignee = v].report = cases[c].report
      BY <2>1 DEF CaseRow
    <2>4. \A q \in Req \ {r} : pc'[q] = pc[q] /\ loc'[q] = loc[q]
      BY <2>2, ReturnFacts DEF Final
    <2>5. Persist BY <2>1, <2>2, <2>3, Facts DEF Persist, Typed, TypeOK
    <2>6. \A d \in Case : caseLock[d] \notin {Null, r} =>
             caseLock'[d] = caseLock[d] /\ cases'[d] = cases[d]
      BY <2>1, <2>2, ReleaseFacts DEF Typed, TypeOK
    <2>. QED BY <2>2, <2>4, <2>5, <2>6, ReleaseFacts DEF Framed
  <1>. QED BY <1>1, <1>2, <1>3, <1>4 DEF ReassignStep

LEMMA DiscloseFramed ==
    ASSUME Typed, NEW r \in Req, DiscloseStep(r)
    PROVE  Framed(r)
  <1>1. CASE DiscloseElevate(r)
    BY <1>1, GotoFramed, ReturnFramed DEF DiscloseElevate, tables
  <1>2. CASE DiscloseLock(r)
    <2>1. \A q \in Req \ {r} : pc'[q] = pc[q] /\ loc'[q] = loc[q]
      BY <1>2 DEF DiscloseLock, Goto, Typed, TypeOK
    <2>2. \A d \in Case : caseLock[d] \notin {Null, r} => caseLock'[d] = caseLock[d]
      BY <1>2 DEF DiscloseLock, Typed, TypeOK
    <2>. QED BY <1>2, <2>1, <2>2, QuietFramed DEF DiscloseLock, tables
  <1>3. CASE DiscloseCommit(r)
    <2>1. \A q \in Req \ {r} : pc'[q] = pc[q] /\ loc'[q] = loc[q]
      BY <1>3 DEF DiscloseCommit, Goto, Typed, TypeOK
    <2>. QED BY <1>3, <2>1, ReleaseFacts, QuietFramed DEF DiscloseCommit
  <1>4. CASE DiscloseRender(r)
    BY <1>4, ReturnFramed DEF DiscloseRender, tables
  <1>. QED BY <1>1, <1>2, <1>3, <1>4 DEF DiscloseStep

LEMMA OthersHold ==
    ASSUME Typed, Locked, NEW r \in Req, Framed(r), NEW q \in Req, q # r
    PROVE  Holds(q)'
  <1>1. Holds(q) /\ LocalsOK(pc[q], loc[q]) BY DEF Locked, Typed
  <1>2. pc'[q] = pc[q] /\ loc'[q] = loc[q] BY DEF Framed
  <1>3. q # Null /\ q \notin {Null, r} BY Facts
  <1>4. ASSUME loc[q].op = "open", pc[q] \in {"insert", "commit"}
        PROVE  reportLock'[loc[q].report] = q /\ reports'[loc[q].report].status = "intake"
    <2>1. loc[q].report \in Report /\ reportLock[loc[q].report] = q
      BY <1>1, <1>4 DEF Holds, LocalsOK, OpenLocals, Working, Stage, InTx, Final
    <2>. QED BY <1>1, <1>3, <1>4, <2>1 DEF Framed, Holds
  <1>5. ASSUME At(q, "open", "commit")
        PROVE  caseLock'[loc[q].case] = q /\ cases'[loc[q].case] = Null
    <2>1. loc[q].case \in Case /\ caseLock[loc[q].case] = q
      BY <1>1, <1>5 DEF At, Holds, LocalsOK, OpenLocals, Working, Stage, InTx, Final
    <2>. QED BY <1>1, <1>3, <1>5, <2>1 DEF Framed, Holds
  <1>6. ASSUME loc[q].op = "status", pc[q] \in {"sync", "commit"}
        PROVE  caseLock'[loc[q].case] = q
    <2>1. loc[q].case \in Case /\ caseLock[loc[q].case] = q
      BY <1>1, <1>6 DEF Holds, LocalsOK, StatusLocals, Working, Stage, InTx, Final
    <2>. QED BY <1>3, <2>1 DEF Framed
  <1>7. ASSUME At(q, "status", "commit") PROVE reportLock'[loc[q].report] = q
    <2>1. loc[q].report = cases[loc[q].case].report /\ cases[loc[q].case] # Null
          /\ loc[q].case \in Case /\ reportLock[loc[q].report] = q
      BY <1>1, <1>7 DEF At, Holds, LocalsOK, StatusLocals, Working, Stage, InTx, Final
    <2>2. loc[q].report \in Report BY <2>1 DEF Typed, TypeOK, CaseRow
    <2>. QED BY <1>3, <2>1, <2>2 DEF Framed
  <1>8. ASSUME At(q, "reassign", "commit") PROVE caseLock'[loc[q].case] = q
    <2>1. loc[q].case \in Case /\ caseLock[loc[q].case] = q
      BY <1>1, <1>8 DEF At, Holds, LocalsOK, ReassignLocals, Working, Stage, InTx, Final
    <2>. QED BY <1>3, <2>1 DEF Framed
  <1>9. ASSUME At(q, "disclose", "commit")
        PROVE  caseLock'[loc[q].case] = q /\ reports'[cases'[loc[q].case].report].email
    <2>. DEFINE c == loc[q].case
    <2>1. /\ c \in Case /\ caseLock[c] = q /\ cases[c] # Null
          /\ reports[cases[c].report].email
      BY <1>1, <1>9 DEF At, Holds, LocalsOK, DiscloseLocals, Working, Stage, InTx, Final
    <2>2. cases'[c] = cases[c] /\ caseLock'[c] = q BY <1>3, <2>1 DEF Framed
    <2>3. cases[c].report \in Report /\ reports[cases[c].report] # Null
      BY <2>1 DEF Typed, TypeOK, CaseRow
    <2>4. reports'[cases[c].report].email = reports[cases[c].report].email
      BY <2>3 DEF Framed
    <2>. QED BY <2>1, <2>2, <2>4
  <1>. QED BY <1>2, <1>4, <1>5, <1>6, <1>7, <1>8, <1>9 DEF Holds, At

\* A request that holds nothing at its next stage.
LEMMA FreeHolds ==
    ASSUME NEW r \in Req, pc'[r] \notin {"insert", "sync", "commit"}
    PROVE  Holds(r)'
  BY DEF Holds, At

LEMMA ReturnHolds ==
    ASSUME Typed, NEW r \in Req, NEW f \in Final, Return(r, f)
    PROVE  Holds(r)'
  BY ReturnFacts, FreeHolds DEF Final

LEMMA GotoHolds ==
    ASSUME Typed, NEW r \in Req, NEW s, Goto(r, s), s \notin {"insert", "sync", "commit"}
    PROVE  Holds(r)'
  <1>1. pc'[r] = s BY DEF Goto, Typed, TypeOK
  <1>. QED BY <1>1, FreeHolds

LEMMA StartHolds ==
    ASSUME Typed, NEW r \in Req, Start(r)
    PROVE  Holds(r)'
  <1>1. ASSUME NEW l, NEW min, NEW s, s \in {"begin", "load", "target", "elevate"},
               Arrive(r, l, min, s)
        PROVE  Holds(r)'
    BY <1>1, GotoHolds, ReturnHolds DEF Arrive, Final
  <1>. QED
    BY <1>1, Zenon DEF Start, StartOpenCase, StartStatus, StartNote, StartReassign, StartDisclose

LEMMA StepHolds ==
    ASSUME Typed, Locked, NEW r \in Req, Step(r)
    PROVE  Holds(r)'
  <1>. DEFINE l == loc[r]
              p == loc[r].report
              c == loc[r].case
  <1>0. LocalsOK(pc[r], l) /\ Holds(r) /\ "done" \in Final /\ "viewed" \in Final
    BY DEF Typed, Locked, Final
  <1>1. ASSUME EndTx(r) \/ Dismiss(r) PROVE Holds(r)'
    BY <1>0, <1>1, ReturnHolds DEF EndTx, Dismiss
  <1>2. CASE BeginTx(r) \/ Rollback(r) BY <1>1, <1>2, GotoHolds DEF BeginTx, Rollback
  <1>3. CASE OpenCaseStep(r)
    <2>1. CASE OpenCaseLock(r)
      <3>1. CASE InIntake(p)
        <4>1. p \in Report /\ l.op = "open" /\ loc' = loc
          BY <1>0, <2>1 DEF OpenCaseLock, At, LocalsOK, OpenLocals, Working, Stage, InTx, Final
        <4>2. reportLock'[p] = r /\ reports'[p].status = "intake" /\ pc'[r] = "insert"
          BY <2>1, <3>1, <4>1 DEF OpenCaseLock, InIntake, Goto, tables, Typed, TypeOK
        <4>. QED BY <3>1, <4>1, <4>2 DEF Holds, At
      <3>2. CASE ~InIntake(p)
        BY <2>1, <3>2, GotoHolds DEF OpenCaseLock
      <3>. QED BY <3>1, <3>2
    <2>2. CASE OpenCaseInsert(r)
      <3>1. PICK d \in Case : /\ cases[d] = Null /\ caseLock[d] = Null
                              /\ caseLock' = [caseLock EXCEPT ![d] = r]
                              /\ loc' = [loc EXCEPT ![r].case = d, ![r].id = nextId]
        BY <2>2 DEF OpenCaseInsert
      <3>2. /\ l \in Locals /\ l.op = "open" /\ reportLock[p] = r /\ reports[p].status = "intake"
        BY <1>0, <2>2 DEF OpenCaseInsert, At, Holds, Typed, TypeOK
      <3>3. /\ loc'[r].case = d /\ loc'[r].op = "open" /\ loc'[r].report = p
        BY <3>1, <3>2 DEF Locals, Typed, TypeOK
      <3>4. pc'[r] = "commit" /\ caseLock'[d] = r
            /\ UNCHANGED <<reports, cases, reportLock>>
        BY <2>2, <3>1 DEF OpenCaseInsert, Goto, tables, Typed, TypeOK
      <3>. QED BY <3>1, <3>2, <3>3, <3>4 DEF Holds, At
    <2>3. CASE OpenCaseCommit(r) BY <1>1, <2>3 DEF OpenCaseCommit
    <2>. QED BY <1>3, <2>1, <2>2, <2>3 DEF OpenCaseStep
  <1>4. CASE StatusStep(r)
    <2>1. CASE StatusLoad(r)
      BY <1>1, <2>1, GotoHolds DEF StatusLoad
    <2>2. CASE StatusElevate(r)
      BY <1>1, <2>2, GotoHolds DEF StatusElevate
    <2>3. CASE StatusUpdateCase(r)
      <3>1. c \in Case /\ l.op = "status"
        BY <1>0, <2>3 DEF StatusUpdateCase, At, LocalsOK, StatusLocals, Working, Stage, InTx, Final
      <3>2. caseLock'[c] = r /\ pc'[r] = "sync" /\ loc' = loc
        BY <2>3, <3>1, UpdateCaseLocks DEF StatusUpdateCase, Goto, Typed, TypeOK
      <3>. QED BY <3>1, <3>2 DEF Holds, At
    <2>4. CASE StatusUpdateReport(r)
      <3>1. /\ c \in Case /\ l \in Locals /\ l.op = "status" /\ p = cases[c].report
            /\ cases[c] # Null /\ caseLock[c] = r
        BY <1>0, <2>4 DEF StatusUpdateReport, At, Holds, LocalsOK, StatusLocals, Working, Stage,
                          InTx, Final, Typed, TypeOK
      <3>2. p \in Report BY <3>1 DEF Typed, TypeOK, CaseRow
      <3>3. loc'[r].op = "status" /\ loc'[r].case = c /\ loc'[r].report = p
        BY <2>4, <3>1 DEF StatusUpdateReport, Locals, Typed, TypeOK
      <3>4. reportLock'[p] = r /\ caseLock' = caseLock /\ pc'[r] = "commit"
        BY <2>4, <3>2, UpdateReportLocks DEF StatusUpdateReport, Goto, Typed, TypeOK
      <3>. QED BY <3>1, <3>3, <3>4 DEF Holds, At
    <2>5. CASE StatusCommit(r) BY <1>1, <2>5 DEF StatusCommit
    <2>. QED BY <1>4, <2>1, <2>2, <2>3, <2>4, <2>5 DEF StatusStep
  <1>5. CASE NoteStep(r)
    <2>1. CASE NoteLoad(r) BY <1>1, <2>1, GotoHolds DEF NoteLoad
    <2>2. CASE NoteInsert(r) BY <2>2, GotoHolds DEF NoteInsert
    <2>3. CASE NoteCheck(r)
      <3>1. loc'[r].op = "note" BY <2>3 DEF NoteCheck, At
      <3>. QED BY <3>1 DEF Holds, At
    <2>4. CASE NoteCommit(r) BY <1>1, <2>4 DEF NoteCommit
    <2>. QED BY <1>5, <2>1, <2>2, <2>3, <2>4 DEF NoteStep
  <1>6. CASE ReassignStep(r)
    <2>1. CASE ReassignTarget(r) BY <1>1, <2>1, GotoHolds DEF ReassignTarget
    <2>2. CASE ReassignLoad(r) BY <1>1, <2>2, GotoHolds DEF ReassignLoad
    <2>3. CASE ReassignUpdate(r)
      <3>1. c \in Case /\ l \in Locals /\ l.op = "reassign"
        BY <1>0, <2>3 DEF ReassignUpdate, At, LocalsOK, ReassignLocals, Working, Stage, InTx,
                          Final, Typed, TypeOK
      <3>2. loc'[r].op = "reassign" /\ loc'[r].case = c
        BY <2>3, <3>1 DEF ReassignUpdate, Locals, Typed, TypeOK
      <3>3. caseLock'[c] = r /\ pc'[r] = "commit"
        BY <2>3, <3>1 DEF ReassignUpdate, Goto, Typed, TypeOK
      <3>. QED BY <3>2, <3>3 DEF Holds, At
    <2>4. CASE ReassignCommit(r) BY <1>1, <2>4 DEF ReassignCommit
    <2>. QED BY <1>6, <2>1, <2>2, <2>3, <2>4 DEF ReassignStep
  <1>7. CASE DiscloseStep(r)
    <2>1. CASE DiscloseElevate(r)
      BY <1>0, <2>1, GotoHolds, ReturnHolds DEF DiscloseElevate
    <2>2. CASE DiscloseLock(r)
      <3>1. CASE /\ HasEmail(c) /\ loc' = [loc EXCEPT ![r].id = nextId] /\ Goto(r, "commit")
        <4>1. c \in Case /\ l \in Locals /\ l.op = "disclose"
          BY <1>0, <2>2 DEF DiscloseLock, At, LocalsOK, DiscloseLocals, Working, Stage, InTx,
                            Final, Typed, TypeOK
        <4>2. loc'[r].op = "disclose" /\ loc'[r].case = c
          BY <3>1, <4>1 DEF Locals, Typed, TypeOK
        <4>3. caseLock'[c] = r /\ pc'[r] = "commit"
          BY <2>2, <3>1, <4>1 DEF DiscloseLock, HasEmail, Goto, Typed, TypeOK
        <4>4. reports'[cases'[c].report].email
          BY <2>2, <3>1 DEF DiscloseLock, HasEmail, tables
        <4>. QED BY <4>2, <4>3, <4>4 DEF Holds, At
      <3>2. CASE Goto(r, "rollback") BY <3>2, GotoHolds
      <3>. QED BY <2>2, <3>1, <3>2 DEF DiscloseLock
    <2>3. CASE DiscloseCommit(r) BY <2>3, GotoHolds DEF DiscloseCommit
    <2>4. CASE DiscloseRender(r) BY <1>0, <2>4, ReturnHolds DEF DiscloseRender
    <2>. QED BY <1>7, <2>1, <2>2, <2>3, <2>4 DEF DiscloseStep
  <1>. QED BY <1>2, <1>3, <1>4, <1>5, <1>6, <1>7 DEF Step

LEMMA SubmitLocked ==
    ASSUME Typed, Locked, NEW p \in Report, Submit(p)
    PROVE  Locked'
  <1>1. /\ \A q \in Report : reports[q] # Null => reports'[q] = reports[q]
        /\ UNCHANGED <<cases, locks, requests>>
    BY DEF Submit, Typed, TypeOK
  <1>2. ASSUME NEW q \in Req PROVE Holds(q)'
    <2>1. Holds(q) /\ LocalsOK(pc[q], loc[q]) BY DEF Typed, Locked
    <2>2. loc[q].op = "open" /\ pc[q] \in {"insert", "commit"} =>
             reports'[loc[q].report] = reports[loc[q].report]
      BY <1>1, <2>1 DEF LocalsOK, OpenLocals, Working, Stage, InTx, Final
    <2>3. At(q, "disclose", "commit") => loc[q].case \in Case /\ cases[loc[q].case] # Null
      BY <2>1 DEF At, LocalsOK, DiscloseLocals, Working, Stage, InTx, Final
    <2>4. At(q, "disclose", "commit") =>
             reports'[cases[loc[q].case].report] = reports[cases[loc[q].case].report]
      BY <1>1, <2>3 DEF Typed, TypeOK, CaseRow
    <2>. QED BY <1>1, <2>1, <2>2, <2>4 DEF Holds, At, locks, requests
  <1>. QED BY <1>2 DEF Locked

LEMMA QuietLocked ==
    ASSUME Locked, UNCHANGED <<tables, locks, requests>>
    PROVE  Locked'
  BY DEF Locked, Holds, At, tables, locks, requests

-----------------------------------------------------------------------------
(* The first two layers together, and the type invariant.                  *)

LEMMA StepTyped ==
    ASSUME Typed, Locked, NEW r \in Req, Step(r)
    PROVE  Typed'
  BY BeginTyped, RollbackTyped, OpenCaseTyped, StatusTyped, NoteTyped, ReassignTyped,
     DiscloseTyped DEF Step

LEMMA StepFramed ==
    ASSUME Typed, Locked, NEW r \in Req, Step(r)
    PROVE  Framed(r)
  BY BeginFramed, RollbackFramed, OpenCaseFramed, StatusFramed, NoteFramed, ReassignFramed,
     DiscloseFramed DEF Step

LEMMA CancelHolds ==
    ASSUME Typed, NEW r \in Req, Cancel(r)
    PROVE  Holds(r)'
  BY ReturnHolds DEF Cancel, EndTx, Final

LEMMA FrameworkQuiet ==
    ASSUME NEW u \in User, Framework(u)
    PROVE  UNCHANGED <<tables, locks, counters, requests>>
  BY DEF Framework, SignIn, Reauth, Lapse, SignOut, Deactivate, SetSession

LEMMA InitTyped == Init => Typed /\ Locked
  <1>. SUFFICES ASSUME Init PROVE Typed /\ Locked OBVIOUS
  <1>1. NoLocals \in Locals BY DEF NoLocals, Locals
  <1>2. session \in [User -> SessionState] BY InputAssumption DEF Init
  <1>3. TypeOK BY <1>1, <1>2 DEF Init, TypeOK, Stage
  <1>4. \A r \in Req : LocalsOK(pc[r], loc[r]) BY DEF Init, LocalsOK, Working
  <1>5. Locked BY DEF Init, Locked, Holds, At
  <1>. QED BY <1>3, <1>4, <1>5 DEF Init, Typed

LEMMA NextTyped ==
    ASSUME Typed, Locked, [Next]_vars
    PROVE  Typed' /\ Locked'
  <1>1. ASSUME NEW r \in Req, Start(r) \/ Step(r) \/ Cancel(r)
        PROVE  Typed' /\ Locked'
    <2>1. Typed' BY <1>1, StartTyped, StepTyped, CancelTyped
    <2>2. Framed(r) BY <1>1, StartFramed, StepFramed, CancelFramed
    <2>3. Holds(r)' BY <1>1, StartHolds, StepHolds, CancelHolds
    <2>. QED BY <2>1, <2>2, <2>3, OthersHold DEF Locked
  <1>2. ASSUME NEW p \in Report, Submit(p) PROVE Typed' /\ Locked'
    BY <1>2, SubmitTyped, SubmitLocked
  <1>3. ASSUME NEW u \in User, Framework(u) PROVE Typed' /\ Locked'
    BY <1>3, FrameworkTyped, FrameworkQuiet, QuietLocked
  <1>4. CASE UNCHANGED vars
    BY <1>4, UnchangedTyped, QuietLocked DEF vars
  <1>. QED BY <1>1, <1>2, <1>3, <1>4 DEF Next, Quiescent

\* The handlers keep the tables, the locks and their own locals well typed,
\* and their transactions hold the row locks their writes rely on.
THEOREM Layered == Spec => [](Typed /\ Locked)
  BY InitTyped, NextTyped, PTL DEF Spec

\* No interleaving of handlers, failures and framework events writes a row
\* outside its columns' types (the tables of 0001_lursystem_schema.sql).
THEOREM TypeCorrect == Spec => []TypeOK
  <1>1. Typed /\ Locked => TypeOK BY DEF Typed
  <1>. QED BY <1>1, Layered, PTL

-----------------------------------------------------------------------------
(* What the commits write, and that nothing else writes reports and cases. *)

LEMMA OpenCommitFacts ==
    ASSUME Typed, Locked, NEW r \in Req, OpenCaseCommit(r)
    PROVE  LET c == loc[r].case
               p == loc[r].report
           IN
           /\ c \in Case /\ p \in Report /\ cases[c] = Null
           /\ reports[p] # Null /\ reports[p].status = "intake"
           /\ cases'[c] # Null /\ cases'[c].report = p
           /\ cases'[c].status = "triage" /\ cases'[c].assignee = Null
           /\ reports'[p] # Null /\ reports'[p].status = "triage"
           /\ \A d \in Case \ {c} : cases'[d] = cases[d]
           /\ \A o \in Report \ {p} : reports'[o] = reports[o]
  <1>. DEFINE c == loc[r].case
              p == loc[r].report
              row == [report |-> p, assignee |-> Null, status |-> "triage", closed |-> FALSE]
  <1>1. LocalsOK(pc[r], loc[r]) /\ Holds(r) BY DEF Typed, Locked
  <1>2. /\ p \in Report /\ c \in Case /\ reports[p] # Null /\ cases[c] = Null
        /\ reports[p].status = "intake"
    BY <1>1 DEF OpenCaseCommit, At, Holds, LocalsOK, OpenLocals, Working, Stage, InTx, Final
  <1>3. /\ cases' = [cases EXCEPT ![c] = row]
        /\ reports' = [reports EXCEPT ![p] = [reports[p] EXCEPT !.status = "triage"]]
    BY DEF OpenCaseCommit
  <1>4. row \in CaseRow BY <1>2 DEF CaseRow, CaseStatus, Status
  <1>5. reports[p] \in ReportRow BY <1>2 DEF Typed, TypeOK
  <1>6. /\ [reports[p] EXCEPT !.status = "triage"] \in ReportRow
        /\ [reports[p] EXCEPT !.status = "triage"].status = "triage"
    BY <1>5 DEF ReportRow, Status
  <1>7. row.report = p /\ row.status = "triage" /\ row.assignee = Null /\ row # Null
    BY <1>4, Facts
  <1>. HIDE DEF row
  <1>8. /\ cases'[c] = row /\ reports'[p] = [reports[p] EXCEPT !.status = "triage"]
        /\ \A d \in Case \ {c} : cases'[d] = cases[d]
        /\ \A o \in Report \ {p} : reports'[o] = reports[o]
    BY <1>2, <1>3 DEF Typed, TypeOK
  <1>. QED BY <1>2, <1>6, <1>7, <1>8, Facts

LEMMA StatusCommitFacts ==
    ASSUME Typed, Locked, NEW r \in Req, StatusCommit(r)
    PROVE  LET c == loc[r].case
               p == loc[r].report
               s == loc[r].target
           IN
           /\ c \in Case /\ cases[c] # Null /\ p = cases[c].report /\ p \in Report
           /\ reports[p] # Null /\ s \in CaseStatus
           /\ cases'[c] # Null /\ cases'[c].report = p /\ cases'[c].status = s
           /\ cases'[c].assignee = cases[c].assignee
           /\ s \in Closing => cases'[c].closed
           /\ reports'[p] # Null /\ reports'[p].status = s
           /\ \A d \in Case \ {c} : cases'[d] = cases[d]
           /\ \A o \in Report \ {p} : reports'[o] = reports[o]
  <1>. DEFINE c == loc[r].case
              p == loc[r].report
              s == loc[r].target
  <1>1. LocalsOK(pc[r], loc[r]) BY DEF Typed
  <1>2. /\ c \in Case /\ cases[c] # Null /\ p = cases[c].report
        /\ s \in AllowedNext(loc[r].status)
    BY <1>1 DEF StatusCommit, At, LocalsOK, StatusLocals, Working, Stage, InTx, Final
  <1>3. cases[c] \in CaseRow /\ p \in Report /\ reports[p] # Null /\ reports[p] \in ReportRow
    BY <1>2 DEF Typed, TypeOK, CaseRow
  <1>4. s \in CaseStatus BY <1>2 DEF AllowedNext, CaseStatus, Status
  <1>5. /\ cases' = [cases EXCEPT ![c] = StatusWritten(cases[c], s)]
        /\ reports' = [reports EXCEPT ![p] = ReporterSees(reports[p], s)]
    BY DEF StatusCommit
  <1>6. /\ ReporterSees(reports[p], s) \in ReportRow
        /\ ReporterSees(reports[p], s).status = s
    BY <1>3, <1>4 DEF ReporterSees, ReportRow, CaseStatus
  <1>7. /\ StatusWritten(cases[c], s) \in CaseRow
        /\ StatusWritten(cases[c], s).report = p
        /\ StatusWritten(cases[c], s).status = s
        /\ StatusWritten(cases[c], s).assignee = cases[c].assignee
        /\ s \in Closing => StatusWritten(cases[c], s).closed
    BY <1>2, <1>3, <1>4 DEF StatusWritten, CaseRow, IsTerminal, Closing
  <1>. HIDE DEF p, c, s
  <1>8. /\ cases'[c] = StatusWritten(cases[c], s) /\ reports'[p] = ReporterSees(reports[p], s)
        /\ \A d \in Case \ {c} : cases'[d] = cases[d]
        /\ \A o \in Report \ {p} : reports'[o] = reports[o]
    BY <1>2, <1>3, <1>5 DEF Typed, TypeOK
  <1>9. cases'[c] # Null /\ reports'[p] # Null BY <1>6, <1>7, <1>8, Facts
  <1>. QED BY <1>2, <1>3, <1>4, <1>6, <1>7, <1>8, <1>9 DEF p, c, s

LEMMA ReassignCommitFacts ==
    ASSUME Typed, Locked, NEW r \in Req, ReassignCommit(r)
    PROVE  LET c == loc[r].case IN
           /\ c \in Case /\ cases[c] # Null /\ loc[r].target \in User /\ reports' = reports
           /\ cases'[c] # Null /\ cases'[c].report = cases[c].report
           /\ cases'[c].status = cases[c].status /\ cases'[c].closed = cases[c].closed
           /\ cases'[c].assignee = loc[r].target
           /\ \A d \in Case \ {c} : cases'[d] = cases[d]
  <1>. DEFINE c == loc[r].case
              v == loc[r].target
              row == [cases[c] EXCEPT !.assignee = v]
  <1>1. LocalsOK(pc[r], loc[r]) BY DEF Typed
  <1>2. c \in Case /\ cases[c] # Null /\ v \in User
    BY <1>1 DEF ReassignCommit, At, LocalsOK, ReassignLocals, Working, Stage, InTx, Final
  <1>3. cases[c] \in CaseRow BY <1>2 DEF Typed, TypeOK
  <1>4. /\ row \in CaseRow /\ row.report = cases[c].report /\ row.status = cases[c].status
        /\ row.closed = cases[c].closed /\ row.assignee = v
    BY <1>2, <1>3 DEF CaseRow
  <1>5. cases' = [cases EXCEPT ![c] = row] /\ reports' = reports BY DEF ReassignCommit
  <1>. HIDE DEF row
  <1>6. cases'[c] = row /\ \A d \in Case \ {c} : cases'[d] = cases[d]
    BY <1>2, <1>5 DEF Typed, TypeOK
  <1>. QED BY <1>2, <1>4, <1>5, <1>6, Facts

LEMMA StepWrites ==
    ASSUME NEW r \in Req, Step(r)
    PROVE  \/ OpenCaseCommit(r) \/ StatusCommit(r) \/ ReassignCommit(r)
           \/ NoteCommit(r) \/ DiscloseCommit(r)
           \/ UNCHANGED tables
  <1>1. ASSUME OpenCaseStep(r), ~OpenCaseCommit(r) PROVE UNCHANGED tables
    BY <1>1 DEF OpenCaseStep, OpenCaseLock, OpenCaseInsert
  <1>2. ASSUME StatusStep(r), ~StatusCommit(r) PROVE UNCHANGED tables
    BY <1>2 DEF StatusStep, StatusLoad, StatusElevate, StatusUpdateCase, StatusUpdateReport,
                Dismiss
  <1>3. ASSUME NoteStep(r), ~NoteCommit(r) PROVE UNCHANGED tables
    BY <1>3 DEF NoteStep, NoteLoad, NoteInsert, NoteCheck, Dismiss
  <1>4. ASSUME ReassignStep(r), ~ReassignCommit(r) PROVE UNCHANGED tables
    BY <1>4 DEF ReassignStep, ReassignTarget, ReassignLoad, ReassignUpdate, Dismiss
  <1>5. ASSUME DiscloseStep(r), ~DiscloseCommit(r) PROVE UNCHANGED tables
    BY <1>5 DEF DiscloseStep, DiscloseElevate, DiscloseLock, DiscloseRender
  <1>6. BeginTx(r) \/ Rollback(r) => UNCHANGED tables BY DEF BeginTx, Rollback
  <1>. QED BY <1>1, <1>2, <1>3, <1>4, <1>5, <1>6 DEF Step

\* Every step of the system, by what it does to the tables.
LEMMA NextWrites ==
    ASSUME [Next]_vars
    PROVE  \/ \E p \in Report : Submit(p)
           \/ \E r \in Req : \/ OpenCaseCommit(r) \/ StatusCommit(r) \/ ReassignCommit(r)
                             \/ NoteCommit(r) \/ DiscloseCommit(r)
           \/ UNCHANGED tables
  <1>1. ASSUME NEW r \in Req, Start(r) PROVE UNCHANGED tables
    BY <1>1 DEF Start, StartOpenCase, StartStatus, StartNote, StartReassign, StartDisclose, Arrive
  <1>2. ASSUME NEW r \in Req, Cancel(r) PROVE UNCHANGED tables BY <1>2 DEF Cancel
  <1>3. ASSUME NEW u \in User, Framework(u) PROVE UNCHANGED tables BY <1>3, FrameworkQuiet
  <1>4. UNCHANGED vars => UNCHANGED tables BY DEF vars
  <1>. QED BY <1>1, <1>2, <1>3, <1>4, StepWrites DEF Next, Quiescent

-----------------------------------------------------------------------------
(* The reporter's view: two tables in step under racing transactions.      *)

Sync == OneCasePerReport /\ ReporterViewInSync

LEMMA SyncStep ==
    ASSUME Typed, Locked, Sync, [Next]_vars
    PROVE  Sync'
  <1>0. \A d \in Case : cases[d] # Null => cases[d].report \in Report
                                           /\ reports[cases[d].report] # Null
    BY DEF Typed, TypeOK, CaseRow
  <1>1. ASSUME NEW p \in Report, Submit(p) PROVE Sync'
    <2>1. PICK e \in BOOLEAN : reports' = [reports EXCEPT ![p] = [status |-> "intake", email |-> e]]
      BY <1>1 DEF Submit
    <2>2. [status |-> "intake", email |-> e] \in ReportRow BY DEF ReportRow, Status
    <2>3. /\ reports[p] = Null /\ cases' = cases
          /\ reports'[p] # Null /\ reports'[p].status = "intake"
          /\ \A o \in Report \ {p} : reports'[o] = reports[o]
      BY <1>1, <2>1, <2>2, Facts DEF Submit, Typed, TypeOK
    <2>. QED BY <1>0, <2>3 DEF Sync, OneCasePerReport, ReporterViewInSync, Opened, Known, HasCase
  <1>2. ASSUME NEW r \in Req, OpenCaseCommit(r) PROVE Sync'
    <2>. DEFINE c == loc[r].case
                p == loc[r].report
    <2>1. /\ c \in Case /\ p \in Report /\ cases[c] = Null
          /\ reports[p] # Null /\ reports[p].status = "intake"
          /\ cases'[c] # Null /\ cases'[c].report = p /\ cases'[c].status = "triage"
          /\ reports'[p] # Null /\ reports'[p].status = "triage"
          /\ \A d \in Case \ {c} : cases'[d] = cases[d]
          /\ \A o \in Report \ {p} : reports'[o] = reports[o]
      BY <1>2, OpenCommitFacts
    <2>. HIDE DEF c, p
    <2>2. \A d \in Case : cases[d] # Null => cases[d].report # p
      BY <2>1 DEF Sync, ReporterViewInSync, Opened, Known, HasCase
    <2>3. OneCasePerReport' BY <2>1, <2>2 DEF Sync, OneCasePerReport, Opened
    <2>4. ReporterViewInSync'
      BY <2>1, <2>2 DEF Sync, ReporterViewInSync, Opened, Known, HasCase
    <2>. QED BY <2>3, <2>4 DEF Sync
  <1>3. ASSUME NEW r \in Req, StatusCommit(r) PROVE Sync'
    <2>. DEFINE c == loc[r].case
                p == loc[r].report
                s == loc[r].target
    <2>1. /\ c \in Case /\ cases[c] # Null /\ p = cases[c].report /\ p \in Report
          /\ reports[p] # Null /\ s \in CaseStatus
          /\ cases'[c] # Null /\ cases'[c].report = p /\ cases'[c].status = s
          /\ reports'[p] # Null /\ reports'[p].status = s
          /\ \A d \in Case \ {c} : cases'[d] = cases[d]
          /\ \A o \in Report \ {p} : reports'[o] = reports[o]
      BY <1>3, StatusCommitFacts
    <2>. HIDE DEF c, p, s
    <2>2. s # "intake" BY <2>1 DEF CaseStatus
    <2>3. \A d \in Case \ {c} : cases[d] # Null => cases[d].report # p
      BY <2>1 DEF Sync, OneCasePerReport, Opened
    <2>4. OneCasePerReport' BY <2>1, <2>3 DEF Sync, OneCasePerReport, Opened
    <2>5. ReporterViewInSync'
      BY <2>1, <2>2, <2>3 DEF Sync, ReporterViewInSync, Opened, Known, HasCase
    <2>. QED BY <2>4, <2>5 DEF Sync
  <1>4. ASSUME NEW r \in Req, ReassignCommit(r) PROVE Sync'
    <2>. DEFINE c == loc[r].case
    <2>1. /\ c \in Case /\ cases[c] # Null /\ reports' = reports
          /\ cases'[c] # Null /\ cases'[c].report = cases[c].report
          /\ cases'[c].status = cases[c].status
          /\ \A d \in Case \ {c} : cases'[d] = cases[d]
      BY <1>4, ReassignCommitFacts
    <2>. HIDE DEF c
    <2>2. \A d \in Case : /\ cases'[d] # Null <=> cases[d] # Null
                          /\ cases'[d].report = cases[d].report
                          /\ cases'[d].status = cases[d].status
      BY <2>1
    <2>. QED BY <2>1, <2>2 DEF Sync, OneCasePerReport, ReporterViewInSync, Opened, Known, HasCase
  <1>5. CASE UNCHANGED <<reports, cases>>
    BY <1>5 DEF Sync, OneCasePerReport, ReporterViewInSync, Opened, Known, HasCase
  <1>. QED BY <1>1, <1>2, <1>3, <1>4, <1>5, NextWrites DEF NoteCommit, DiscloseCommit, tables

LEMMA InitSync == Init => Sync
  BY DEF Init, Sync, OneCasePerReport, ReporterViewInSync, Opened, Known, HasCase

THEOREM Synchronised == Spec => []Sync
  BY Layered, InitSync, SyncStep, PTL DEF Spec

\* Two leads racing on one report never open two cases of it: SELECT ... FOR
\* UPDATE and the status test of do_open_case (triage.rs) close the race.
THEOREM ReportsOpenedOnce == Spec => []OneCasePerReport
  <1>1. Sync => OneCasePerReport BY DEF Sync
  <1>. QED BY <1>1, Synchronised, PTL

\* What the reporter reads is the status of the case, and "intake" exactly
\* while there is none, although cases.rs writes the two tables from values
\* read before its transaction began.
THEOREM ReporterSeesCase == Spec => []ReporterViewInSync
  <1>1. Sync => ReporterViewInSync BY DEF Sync
  <1>. QED BY <1>1, Synchronised, PTL

-----------------------------------------------------------------------------
(* The closing stamp.                                                      *)

LEMMA StampStep ==
    ASSUME Typed, Locked, TerminalStamped, [Next]_vars
    PROVE  TerminalStamped'
  <1>1. ASSUME NEW p \in Report, Submit(p) PROVE TerminalStamped'
    BY <1>1 DEF Submit, TerminalStamped, Opened
  <1>2. ASSUME NEW r \in Req, OpenCaseCommit(r) PROVE TerminalStamped'
    <2>1. /\ loc[r].case \in Case /\ cases'[loc[r].case].status = "triage"
          /\ \A d \in Case \ {loc[r].case} : cases'[d] = cases[d]
      BY <1>2, OpenCommitFacts
    <2>. QED BY <2>1 DEF TerminalStamped, Opened, Closing
  <1>3. ASSUME NEW r \in Req, StatusCommit(r) PROVE TerminalStamped'
    <2>. DEFINE c == loc[r].case
    <2>1. /\ c \in Case /\ cases'[c].status \in Closing => cases'[c].closed
          /\ \A d \in Case \ {c} : cases'[d] = cases[d]
      BY <1>3, StatusCommitFacts
    <2>. HIDE DEF c
    <2>. QED BY <2>1 DEF TerminalStamped, Opened
  <1>4. ASSUME NEW r \in Req, ReassignCommit(r) PROVE TerminalStamped'
    <2>. DEFINE c == loc[r].case
    <2>1. /\ c \in Case /\ cases[c] # Null
          /\ cases'[c].status = cases[c].status /\ cases'[c].closed = cases[c].closed
          /\ \A d \in Case \ {c} : cases'[d] = cases[d]
      BY <1>4, ReassignCommitFacts
    <2>. HIDE DEF c
    <2>. QED BY <2>1 DEF TerminalStamped, Opened
  <1>5. UNCHANGED cases => TerminalStamped' BY DEF TerminalStamped, Opened
  <1>. QED BY <1>1, <1>2, <1>3, <1>4, <1>5, NextWrites DEF NoteCommit, DiscloseCommit, tables

\* A closed case carries its stamp, whichever of two racing transitions
\* committed last (do_status_transition, cases.rs).
THEOREM ClosedCasesStamped == Spec => []TerminalStamped
  <1>1. Init => TerminalStamped BY DEF Init, TerminalStamped, Opened
  <1>. QED BY <1>1, Layered, StampStep, PTL DEF Spec

-----------------------------------------------------------------------------
(* Who waits for whom.                                                     *)

\* Request q holds the row of report p, of case c: it is between the statement
\* that locks the row and the end of its transaction.
OwnsReport(q, p) ==
    /\ loc[q].report = p
    /\ \/ loc[q].op = "open" /\ pc[q] \in {"insert", "commit", "rollback"}
       \/ At(q, "status", "commit")

OwnsCase(q, c) ==
    /\ loc[q].case = c
    /\ \/ loc[q].op = "status" /\ pc[q] = "sync"
       \/ loc[q].op \in {"open", "status", "reassign", "disclose"} /\ pc[q] = "commit"
       \/ At(q, "disclose", "rollback")

\* No lock outlives the transaction that took it: the converse of Locked.
Owned ==
    /\ \A p \in Report : reportLock[p] # Null => OwnsReport(reportLock[p], p)
    /\ \A c \in Case : caseLock[c] # Null => OwnsCase(caseLock[c], c)

\* A step of r takes locks for r only, and where Owned allows it.
Takes(r) ==
    /\ \A p \in Report : /\ reportLock'[p] \in {reportLock[p], r, Null}
                         /\ reportLock'[p] = r => OwnsReport(r, p)'
    /\ \A c \in Case : /\ caseLock'[c] \in {caseLock[c], r, Null}
                       /\ caseLock'[c] = r => OwnsCase(r, c)'

LEMMA FreeTakes ==
    ASSUME Owned, NEW r \in Req,
           pc[r] \notin {"insert", "sync", "commit", "rollback"}
    PROVE  /\ \A p \in Report : reportLock[p] # r
           /\ \A c \in Case : caseLock[c] # r
           /\ UNCHANGED locks => Takes(r)
  <1>1. r # Null BY Facts
  <1>2. /\ \A p \in Report : reportLock[p] # r
        /\ \A c \in Case : caseLock[c] # r
    BY <1>1 DEF Owned, OwnsReport, OwnsCase, At
  <1>. QED BY <1>2 DEF Takes, locks

LEMMA ReleaseTakes ==
    ASSUME Typed, NEW r \in Req, ReleaseLocks(r)
    PROVE  Takes(r)
  <1>1. r # Null BY Facts
  <1>. QED BY <1>1 DEF ReleaseLocks, Takes

LEMMA StepTakes ==
    ASSUME Typed, Locked, Owned, NEW r \in Req, Start(r) \/ Step(r) \/ Cancel(r)
    PROVE  Takes(r)
  <1>. DEFINE l == loc[r]
              p == loc[r].report
              c == loc[r].case
  <1>0. LocalsOK(pc[r], l) /\ l \in Locals /\ r # Null
    BY Facts DEF Typed, TypeOK
  <1>1. EndTx(r) => Takes(r) BY ReleaseTakes DEF EndTx
  <1>2. ASSUME UNCHANGED locks, pc[r] \notin {"insert", "sync", "commit", "rollback"}
        PROVE  Takes(r)
    BY <1>2, FreeTakes
  <1>3. CASE Start(r)
    <2>1. ASSUME NEW k, NEW min, NEW s, Arrive(r, k, min, s) PROVE Takes(r)
      BY <1>2, <2>1 DEF Arrive
    <2>. QED
      BY <1>3, <2>1, Zenon
         DEF Start, StartOpenCase, StartStatus, StartNote, StartReassign, StartDisclose
  <1>4. CASE Cancel(r) BY <1>1, <1>4 DEF Cancel
  <1>5. CASE BeginTx(r) \/ Rollback(r) BY <1>1, <1>2, <1>5 DEF BeginTx, Rollback
  <1>6. CASE OpenCaseStep(r)
    <2>1. CASE OpenCaseLock(r)
      <3>1. /\ l.op = "open" /\ pc'[r] \in {"insert", "rollback"} /\ pc[r] = "lock"
            /\ loc' = loc /\ caseLock' = caseLock
        BY <2>1 DEF OpenCaseLock, At, Goto, Typed, TypeOK
      <3>2. \A o \in Report : /\ reportLock'[o] \in {reportLock[o], r, Null}
                              /\ o # p => reportLock'[o] = reportLock[o]
        BY <2>1 DEF OpenCaseLock, Typed, TypeOK
      <3>. QED BY <3>1, <3>2, FreeTakes DEF Takes, OwnsReport
    <2>2. CASE OpenCaseInsert(r)
      <3>1. PICK d \in Case : /\ caseLock' = [caseLock EXCEPT ![d] = r]
                              /\ loc' = [loc EXCEPT ![r].case = d, ![r].id = nextId]
        BY <2>2 DEF OpenCaseInsert
      <3>2. /\ pc[r] = "insert" /\ pc'[r] = "commit" /\ UNCHANGED reportLock /\ l.op = "open"
            /\ loc'[r].case = d /\ loc'[r].op = "open" /\ loc'[r].report = p
        BY <1>0, <2>2, <3>1 DEF OpenCaseInsert, At, Goto, Locals, Typed, TypeOK
      <3>3. \A e \in Case : caseLock[e] # r
        BY <1>0, <3>2 DEF Owned, OwnsCase, At
      <3>4. \A o \in Report : reportLock[o] = r => o = p
        BY <1>0 DEF Owned, OwnsReport
      <3>. QED BY <3>1, <3>2, <3>3, <3>4 DEF Takes, OwnsCase, OwnsReport, Typed, TypeOK
    <2>3. CASE OpenCaseCommit(r) BY <1>1, <2>3 DEF OpenCaseCommit
    <2>. QED BY <1>6, <2>1, <2>2, <2>3 DEF OpenCaseStep
  <1>7. CASE StatusStep(r)
    <2>1. CASE StatusLoad(r) BY <1>2, <2>1 DEF StatusLoad, At, Dismiss
    <2>2. CASE StatusElevate(r) BY <1>2, <2>2 DEF StatusElevate, At, Dismiss
    <2>3. CASE StatusUpdateCase(r)
      <3>1. /\ l.op = "status" /\ pc[r] = "lock" /\ pc'[r] = "sync" /\ loc' = loc
            /\ caseLock' = [caseLock EXCEPT ![c] = r] /\ reportLock' = reportLock
        BY <2>3, UpdateCaseLocks DEF StatusUpdateCase, At, Goto, Typed, TypeOK
      <3>. QED BY <3>1, FreeTakes DEF Takes, OwnsCase, Typed, TypeOK
    <2>4. CASE StatusUpdateReport(r)
      <3>1. /\ l.op = "status" /\ pc[r] = "sync" /\ pc'[r] = "commit"
            /\ reportLock' = [reportLock EXCEPT ![p] = r] /\ caseLock' = caseLock
            /\ loc'[r].op = "status" /\ loc'[r].case = c /\ loc'[r].report = p
        BY <1>0, <2>4, UpdateReportLocks
           DEF StatusUpdateReport, At, Goto, Locals, Typed, TypeOK
      <3>2. \A d \in Case : caseLock[d] = r => d = c
        BY <1>0, <3>1 DEF Owned, OwnsCase
      <3>3. \A o \in Report : reportLock[o] # r
        BY <1>0, <3>1 DEF Owned, OwnsReport, At
      <3>. QED BY <3>1, <3>2, <3>3 DEF Takes, OwnsCase, OwnsReport, At, Typed, TypeOK
    <2>5. CASE StatusCommit(r) BY <1>1, <2>5 DEF StatusCommit
    <2>. QED BY <1>7, <2>1, <2>2, <2>3, <2>4, <2>5 DEF StatusStep
  <1>8. CASE NoteStep(r)
    <2>1. CASE NoteLoad(r) \/ NoteInsert(r) \/ NoteCheck(r)
      BY <1>2, <2>1 DEF NoteLoad, NoteInsert, NoteCheck, At, Dismiss
    <2>2. CASE NoteCommit(r) BY <1>1, <2>2 DEF NoteCommit
    <2>. QED BY <1>8, <2>1, <2>2 DEF NoteStep
  <1>9. CASE ReassignStep(r)
    <2>1. CASE ReassignTarget(r) \/ ReassignLoad(r)
      BY <1>2, <2>1 DEF ReassignTarget, ReassignLoad, At, Dismiss
    <2>2. CASE ReassignUpdate(r)
      <3>1. /\ l.op = "reassign" /\ pc[r] = "lock" /\ pc'[r] = "commit"
            /\ caseLock' = [caseLock EXCEPT ![c] = r] /\ reportLock' = reportLock
            /\ loc'[r].op = "reassign" /\ loc'[r].case = c
        BY <1>0, <2>2 DEF ReassignUpdate, At, Goto, Locals, Typed, TypeOK
      <3>. QED BY <3>1, FreeTakes DEF Takes, OwnsCase, Typed, TypeOK
    <2>3. CASE ReassignCommit(r) BY <1>1, <2>3 DEF ReassignCommit
    <2>. QED BY <1>9, <2>1, <2>2, <2>3 DEF ReassignStep
  <1>10. CASE DiscloseStep(r)
    <2>1. CASE DiscloseElevate(r) \/ DiscloseRender(r)
      BY <1>2, <2>1 DEF DiscloseElevate, DiscloseRender, At
    <2>2. CASE DiscloseLock(r)
      <3>1. /\ l.op = "disclose" /\ pc[r] = "lock" /\ pc'[r] \in {"commit", "rollback"}
            /\ loc'[r].op = "disclose" /\ loc'[r].case = c /\ reportLock' = reportLock
        BY <1>0, <2>2 DEF DiscloseLock, At, Goto, Locals, Typed, TypeOK
      <3>2. \A d \in Case : /\ caseLock'[d] \in {caseLock[d], r}
                            /\ d # c => caseLock'[d] = caseLock[d]
        BY <2>2 DEF DiscloseLock, Typed, TypeOK
      <3>. QED BY <3>1, <3>2, FreeTakes DEF Takes, OwnsCase, At
    <2>3. CASE DiscloseCommit(r) BY <2>3, ReleaseTakes DEF DiscloseCommit
    <2>. QED BY <1>10, <2>1, <2>2, <2>3 DEF DiscloseStep
  <1>. QED BY <1>3, <1>4, <1>5, <1>6, <1>7, <1>8, <1>9, <1>10 DEF Step

LEMMA OwnedStep ==
    ASSUME Typed, Locked, Owned, [Next]_vars
    PROVE  Owned'
  <1>1. ASSUME NEW r \in Req, Start(r) \/ Step(r) \/ Cancel(r) PROVE Owned'
    <2>1. Takes(r) BY <1>1, StepTakes
    <2>2. \A q \in Req \ {r} : pc'[q] = pc[q] /\ loc'[q] = loc[q]
      BY <1>1, StartFramed, StepFramed, CancelFramed DEF Framed
    <2>3. /\ \A p \in Report : reportLock[p] \in Req \cup {Null}
          /\ \A c \in Case : caseLock[c] \in Req \cup {Null}
      BY DEF Typed, TypeOK
    <2>4. ASSUME NEW q \in Req \ {r}
          PROVE  /\ \A p \in Report : OwnsReport(q, p) => OwnsReport(q, p)'
                 /\ \A c \in Case : OwnsCase(q, c) => OwnsCase(q, c)'
      BY <2>2 DEF OwnsReport, OwnsCase, At
    <2>. QED BY <2>1, <2>3, <2>4 DEF Owned, Takes
  <1>2. UNCHANGED <<locks, requests>> => Owned'
    BY DEF Owned, OwnsReport, OwnsCase, At, locks, requests
  <1>3. ASSUME NEW p \in Report, Submit(p) PROVE Owned' BY <1>2, <1>3 DEF Submit
  <1>4. ASSUME NEW u \in User, Framework(u) PROVE Owned' BY <1>2, <1>4, FrameworkQuiet
  <1>5. UNCHANGED vars => Owned' BY <1>2 DEF vars
  <1>. QED BY <1>1, <1>3, <1>4, <1>5 DEF Next, Quiescent

\* do_status_transition and do_open_case lock rows of the same two tables, in
\* opposite orders, and do_disclose, do_reassign and do_add_note the case row
\* they also need: yet no deadlock over row locks can form, however many
\* requests race.  Whoever is waited for holds a row, so it waits for nobody
\* unless it is a transition about to write the report it was opened from; and
\* whoever holds a report is past its last wait.
THEOREM NoDeadlockOfRows == Spec => []NoWaitCycle
  <1>1. Init => Owned BY DEF Init, Owned
  <1>2. Typed /\ Owned => NoWaitCycle
    <2>. SUFFICES ASSUME Typed, Owned, NEW p \in Req, NEW q \in Req, NEW r \in Req, NEW s \in Req,
                         WaitsFor(p, q), WaitsFor(q, r), WaitsFor(r, s)
                  PROVE  FALSE
      BY DEF NoWaitCycle
    <2>0. \A a \in Req : pc[a] \in Working => LocalsOK(pc[a], loc[a]) BY DEF Typed
    <2>1. \/ \E o \in Report : reportLock[o] = q
          \/ \E c \in Case : caseLock[c] = q
          \/ At(q, "note", "commit")
      BY <2>0 DEF WaitsFor, At, LocalsOK, OpenLocals, StatusLocals, NoteLocals, ReassignLocals,
             DiscloseLocals, Working, Stage, InTx, Final, Typed, TypeOK, CaseRow
    <2>2. pc[q] \in {"insert", "sync", "commit", "rollback"}
      BY <2>1, FreeTakes DEF At
    <2>3. At(q, "status", "sync") /\ reportLock[loc[q].report] = r
      BY <2>2 DEF WaitsFor, At, UpdateOf
    <2>4. loc[q].report \in Report
      BY <2>0, <2>3 DEF At, LocalsOK, StatusLocals, Working, Stage, InTx, Final, Typed, TypeOK,
                        CaseRow
    <2>5. OwnsReport(r, loc[q].report) BY <2>3, <2>4, Facts DEF Owned
    <2>. QED BY <2>5 DEF OwnsReport, WaitsFor, At
  <1>3. Typed /\ Locked /\ Owned /\ [Next]_vars => Owned' BY OwnedStep
  <1>. QED BY <1>1, <1>2, <1>3, Layered, PTL DEF Spec
=============================================================================
