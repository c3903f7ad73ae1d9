---------------------------- MODULE Ledger_proofs ----------------------------
(***************************************************************************)
(* Workflow implements CaseLedger: on the four tables, every step of the   *)
(* handlers is one of the abstract operations or a stutter.  Workflow also *)
(* implements CaseLifecycle while requests do not overlap on one case.     *)
(*   AllCurrent   what a handler read is still so when it writes           *)
(*   AllInForce   no assignment bears a later time than the one in force   *)
(***************************************************************************)
EXTENDS History_proofs, FiniteSetTheorems

\* The row a commit adds is new, and its correlation id is.
LEMMA RowLogged ==
    ASSUME Typed, Written, NEW r \in Req, pc[r] \notin Final \cup {"render"},
           NEW row \in ActionRow, caseActions' = caseActions \cup {row}, row.corr = r
    PROVE  row \in Ledger!NewRows /\ Ledger!Logged(row)
  <1>1. \A a \in caseActions : a.corr # r BY DEF Written
  <1>2. row \notin caseActions BY <1>1
  <1>. QED BY <1>1, <1>2 DEF Ledger!NewRows, Ledger!Logged

LEMMA ReceiveStep ==
    ASSUME NEW p \in Report, Submit(p)
    PROVE  Ledger!Receive(p)
  BY DEF Submit, Ledger!Receive

LEMMA OpenStep ==
    ASSUME Typed, Locked, Written, Numbered, NEW r \in Req, OpenCaseCommit(r)
    PROVE  Ledger!Open(loc[r].case, loc[r].report)
  <1>0. PICK c, p : c = loc[r].case /\ p = loc[r].report OBVIOUS
  <1>1. /\ c \in Case /\ p \in Report /\ cases[c] = Null
        /\ reports[p] # Null /\ reports[p].status = "intake"
    BY <1>0, OpenCommitFacts
  <1>2. /\ cases' = [cases EXCEPT ![c] = [report |-> p, assignee |-> Null,
                                          status |-> "triage", closed |-> FALSE]]
        /\ reports' = [reports EXCEPT ![p].status = "triage"]
        /\ UNCHANGED disclosures /\ pc[r] = "commit"
    BY <1>0 DEF OpenCaseCommit, At
  <1>3. PICK row \in ActionRow :
           /\ caseActions' = caseActions \cup {row} /\ row.corr = r
           /\ row.type = "case_opened" /\ row.case = c /\ row.to = p
    BY <1>0, CommitRow DEF Wrote
  <1>4. \A a \in caseActions : a.case # c BY <1>1 DEF Numbered
  <1>5. row \in Ledger!NewRows /\ Ledger!Logged(row)
    BY <1>2, <1>3, RowLogged DEF Final
  <1>6. Ledger!Newest(row, {"case_opened"}) BY <1>3, <1>4 DEF Ledger!Newest
  <1>. QED BY <1>0, <1>1, <1>2, <1>3, <1>5, <1>6 DEF Ledger!Open

LEMMA MoveStep ==
    ASSUME Typed, Locked, Written, Numbered, NEW r \in Req, StatusCommit(r)
    PROVE  Ledger!Move(loc[r].case)
  <1>0. PICK c, p, s : c = loc[r].case /\ p = loc[r].report /\ s = loc[r].target OBVIOUS
  <1>1. /\ c \in Case /\ cases[c] # Null /\ p = cases[c].report /\ s \in CaseStatus
        /\ p \in Report /\ reports[p] # Null
    BY <1>0, StatusCommitFacts
  <1>2. cases[c] \in CaseRow BY <1>1 DEF Typed, TypeOK
  <1>3. /\ cases' = [cases EXCEPT ![c] = StatusWritten(cases[c], s)]
        /\ reports' = [reports EXCEPT ![p] = ReporterSees(reports[p], s)]
        /\ UNCHANGED disclosures /\ pc[r] = "commit" /\ loc[r].op = "status"
    BY <1>0 DEF StatusCommit, At
  <1>4. cases' = [cases EXCEPT ![c].status = s,
                               ![c].closed = @ \/ s \in {"resolved", "archived"}]
    <2>1. StatusWritten(cases[c], s) =
             [cases[c] EXCEPT !.status = s, !.closed = cases[c].closed \/ s \in {"resolved", "archived"}]
      BY <1>2 DEF StatusWritten, IsTerminal, CaseRow
    <2>. QED BY <1>1, <1>3, <2>1 DEF Typed, TypeOK
  <1>5. reports' = [reports EXCEPT ![cases[c].report].status = s]
    BY <1>1, <1>3 DEF ReporterSees
  <1>6. PICK row \in ActionRow :
           /\ caseActions' = caseActions \cup {row} /\ row.corr = r
           /\ row.type = "status_changed" /\ row.case = c /\ row.to = s /\ row.id = loc[r].id
    BY <1>0, CommitRow DEF Wrote
  <1>7. \A a \in caseActions : a.case = c /\ a.type \in Ledger!Moves => a.id < row.id
    BY <1>0, <1>3, <1>6 DEF Numbered, Drawn, Kin, StatusRows, Ledger!Moves
  <1>8. /\ row \in Ledger!NewRows /\ Ledger!Logged(row)
        /\ Ledger!Newest(row, Ledger!Moves)
    BY <1>3, <1>6, <1>7, RowLogged DEF Final, Ledger!Newest, Ledger!Moves
  <1>9. Ledger!Moved(c, s, row)
    BY <1>1, <1>3, <1>4, <1>5, <1>6, <1>8 DEF Ledger!Moved
  <1>. QED BY <1>0, <1>1, <1>6, <1>8, <1>9 DEF Ledger!Move, CaseStatus, Status

LEMMA AssignStep ==
    ASSUME Typed, Locked, Written, Numbered, NEW r \in Req, ReassignCommit(r)
    PROVE  Ledger!Assign(loc[r].case)
  <1>0. PICK c, v : c = loc[r].case /\ v = loc[r].target OBVIOUS
  <1>1. c \in Case /\ cases[c] # Null /\ v \in User
    BY <1>0, ReassignCommitFacts
  <1>2. /\ cases' = [cases EXCEPT ![c].assignee = v]
        /\ UNCHANGED <<reports, disclosures>> /\ pc[r] = "commit" /\ loc[r].op = "reassign"
    BY <1>0 DEF ReassignCommit, At
  <1>3. PICK row \in ActionRow :
           /\ caseActions' = caseActions \cup {row} /\ row.corr = r
           /\ row.type \in {"assigned", "reassigned"} /\ row.case = c /\ row.to = v
           /\ row.id = loc[r].id
    BY <1>0, CommitRow DEF Wrote
  <1>4. \A a \in caseActions : a.case = c /\ a.type \in Ledger!Assignments => a.id < row.id
    BY <1>0, <1>2, <1>3 DEF Numbered, Drawn, Kin, AssigneeRows, Ledger!Assignments
  <1>5. /\ row \in Ledger!NewRows /\ Ledger!Logged(row)
        /\ Ledger!Newest(row, Ledger!Assignments)
    BY <1>2, <1>3, <1>4, RowLogged DEF Final, Ledger!Newest, Ledger!Assignments
  <1>6. Ledger!Assigned(c, v, row) BY <1>1, <1>2, <1>3, <1>5 DEF Ledger!Assigned
  <1>. QED BY <1>0, <1>1, <1>3, <1>5, <1>6 DEF Ledger!Assign

LEMMA NoteStepLogged ==
    ASSUME Typed, Written, NEW r \in Req, NoteCommit(r)
    PROVE  loc[r].case \in Case /\ Ledger!Note(loc[r].case)
  <1>0. PICK c : c = loc[r].case OBVIOUS
  <1>1. c \in Case /\ cases[c] # Null /\ pc[r] = "commit"
    BY <1>0 DEF NoteCommit, At, Typed, LocalsOK, NoteLocals, Working, Stage, InTx, Final
  <1>2. UNCHANGED <<reports, cases, disclosures>> BY DEF NoteCommit
  <1>3. PICK row \in ActionRow :
           /\ caseActions' = caseActions \cup {row} /\ row.corr = r
           /\ row.type = "note_added" /\ row.case = c
    BY <1>0, CommitRow DEF Wrote
  <1>4. row \in Ledger!NewRows /\ Ledger!Logged(row) BY <1>1, <1>3, RowLogged DEF Final
  <1>. QED BY <1>0, <1>1, <1>2, <1>3, <1>4 DEF Ledger!Note

LEMMA DiscloseStepLogged ==
    ASSUME Typed, Locked, Written, Numbered, NEW r \in Req, DiscloseCommit(r)
    PROVE  loc[r].case \in Case /\ Ledger!Disclose(loc[r].case)
  <1>0. PICK c : c = loc[r].case OBVIOUS
  <1>. DEFINE d == [case |-> c, requestedBy |-> loc[r].user, at |-> loc[r].at, corr |-> r]
  <1>1. c \in Case /\ cases[c] # Null /\ pc[r] = "commit" /\ loc[r].op = "disclose"
    BY <1>0 DEF DiscloseCommit, At, Typed, LocalsOK, DiscloseLocals, Working, Stage, InTx, Final
  <1>2. reports[cases[c].report].email BY <1>0, <1>1 DEF Locked, Holds, At
  <1>3. /\ disclosures' = disclosures \cup {d} /\ UNCHANGED <<reports, cases>>
        /\ d.case = c /\ d.corr = r /\ d.requestedBy = loc[r].user
    BY <1>0 DEF DiscloseCommit
  <1>4. d \notin disclosures BY <1>1, <1>3 DEF Written, Final
  <1>5. PICK row \in ActionRow :
           /\ caseActions' = caseActions \cup {row} /\ row.corr = r
           /\ row.type = "disclosure_consumed" /\ row.case = c /\ row.id = loc[r].id
           /\ row.actor = loc[r].user
    BY <1>0, CommitRow DEF Wrote
  <1>. HIDE DEF d
  <1>6. \A a \in caseActions : a.case = c /\ a.type \in {"disclosure_consumed"} => a.id < row.id
    BY <1>0, <1>1, <1>5 DEF Numbered, Drawn, Kin, ConsumedRows, Consumed
  <1>7. /\ row \in Ledger!NewRows /\ Ledger!Logged(row)
        /\ Ledger!Newest(row, {"disclosure_consumed"})
    BY <1>1, <1>5, <1>6, RowLogged DEF Final, Ledger!Newest
  <1>8. d \in disclosures' \ disclosures BY <1>3, <1>4
  <1>. QED BY <1>0, <1>1, <1>2, <1>3, <1>5, <1>7, <1>8 DEF Ledger!Disclose

LEMMA LedgerStep ==
    ASSUME Typed, Locked, Written, Numbered, [Next]_vars
    PROVE  [Ledger!Next]_(Ledger!book)
  <1>1. ASSUME NEW p \in Report, Submit(p) PROVE Ledger!Next
    BY <1>1, ReceiveStep DEF Ledger!Next
  <1>2. ASSUME NEW r \in Req, OpenCaseCommit(r) PROVE Ledger!Next
    BY <1>2, OpenStep, OpenCommitFacts DEF Ledger!Next
  <1>3. ASSUME NEW r \in Req, StatusCommit(r) PROVE Ledger!Next
    BY <1>3, MoveStep, StatusCommitFacts DEF Ledger!Next
  <1>4. ASSUME NEW r \in Req, ReassignCommit(r) PROVE Ledger!Next
    BY <1>4, AssignStep, ReassignCommitFacts DEF Ledger!Next
  <1>5. ASSUME NEW r \in Req, NoteCommit(r) \/ DiscloseCommit(r) PROVE Ledger!Next
    BY <1>5, NoteStepLogged, DiscloseStepLogged DEF Ledger!Next
  <1>6. UNCHANGED tables => UNCHANGED Ledger!book BY DEF tables, Ledger!book
  <1>. QED BY <1>1, <1>2, <1>3, <1>4, <1>5, <1>6, NextWrites

\* Whatever requests race, fail or are repeated, the tables change only by the
\* operations of CaseLedger: a report is opened once, a case and its report
\* move together, every change has one history row, newer than those it
\* supersedes (a note supersedes nothing and may be in any place), and a
\* disclosure is a row in each of two tables.
THEOREM RefinesLedger == Spec => ImplementsLedger
  <1>1. Init => Ledger!Init BY DEF Init, Ledger!Init
  <1>2. Typed /\ Locked /\ Written /\ Numbered /\ [Next]_vars => [Ledger!Next]_(Ledger!book)
    BY LedgerStep
  <1>3. Typed /\ Locked /\ Numbered /\ [Next]_vars => Numbered'
    BY NumberedStep
  <1>. QED
    BY <1>1, <1>2, <1>3, Layered, RowsAfterCommit, InitNumbered, PTL
       DEF Spec, ImplementsLedger, Ledger!Spec

-----------------------------------------------------------------------------
(* The lifecycle the documentation describes, kept by requests that do not *)
(* overlap on one case.                                                    *)

\* Request r has read what it will overwrite and has not overwritten it yet.
Deciding(r) ==
    \/ loc[r].op = "status" /\ pc[r] \in {"elevate", "begin", "lock", "sync", "commit"}
    \/ loc[r].op = "reassign" /\ pc[r] \in {"begin", "lock", "commit"}

\* Two transitions, or two reassignments, of one case at the same time.
Overlap(q, r) ==
    /\ q # r
    /\ Deciding(q) /\ Deciding(r)
    /\ loc[q].op = loc[r].op /\ loc[q].case = loc[r].case

NoOverlap == \A q, r \in Req : ~Overlap(q, r)

\* What r read is still so, and no assignment will be later than r's.
Current(r) ==
    LET l == loc[r] IN
    Deciding(r) =>
       /\ l.op = "status" => l.status = cases[l.case].status
       /\ l.op = "reassign" =>
             /\ l.assignee = cases[l.case].assignee /\ l.assignee # l.target
             /\ pc[r] \in InTx => \A a \in AssigneeRows(l.case) : a.at <= l.at

AllCurrent == \A r \in Req : Current(r)

\* The assignment in force has a row, and no row of the case is later.
InForce(c) ==
    IF cases[c].assignee = Null
    THEN AssigneeRows(c) = {}
    ELSE \E a \in AssigneeRows(c) :
            /\ a.to = cases[c].assignee
            /\ \A b \in AssigneeRows(c) \ {a} : b.at <= a.at

AllInForce == \A c \in Opened : InForce(c)

\* The row a transition writes is the one it meant to.
LEMMA MoveRow ==
    ASSUME Typed, NEW r \in Req, StatusCommit(r)
    PROVE  \E row \in ActionRow :
              /\ caseActions' = caseActions \cup {row}
              /\ row.corr = r /\ row.id = loc[r].id /\ row.at = loc[r].at
              /\ row.case = loc[r].case /\ row.type = "status_changed"
              /\ row.from = loc[r].status /\ row.to = loc[r].target
  <1>. DEFINE l == loc[r]
              row == NewAction(r, l.id, l.at, l.case, "status_changed", l.status, l.target)
  <1>1. l \in Locals /\ LocalsOK(pc[r], l) BY DEF Typed, TypeOK
  <1>2. /\ l.case \in Case /\ l.user \in User /\ l.id \in Nat /\ l.at \in Nat
        /\ l.target \in Status /\ l.status \in Status
    BY <1>1 DEF StatusCommit, At, LocalsOK, StatusLocals, Working, Stage, InTx, Final,
                CaseStatus, Locals
  <1>3. caseActions' = caseActions \cup {row} BY DEF StatusCommit
  <1>4. row \in ActionRow BY <1>2 DEF NewAction, ActionRow, ActionType
  <1>5. /\ row.corr = r /\ row.id = l.id /\ row.at = l.at /\ row.case = l.case
        /\ row.type = "status_changed" /\ row.from = l.status /\ row.to = l.target
    BY DEF NewAction
  <1>. HIDE DEF row
  <1>. QED BY <1>3, <1>4, <1>5

\* So is the row of a reassignment.
LEMMA AssignRow ==
    ASSUME Typed, NEW r \in Req, ReassignCommit(r)
    PROVE  \E row \in ActionRow :
              /\ caseActions' = caseActions \cup {row}
              /\ row.corr = r /\ row.id = loc[r].id /\ row.at = loc[r].at
              /\ row.case = loc[r].case
              /\ row.type = IF loc[r].assignee = Null THEN "assigned" ELSE "reassigned"
              /\ row.from = loc[r].assignee /\ row.to = loc[r].target
  <1>. DEFINE l == loc[r]
              type == IF l.assignee = Null THEN "assigned" ELSE "reassigned"
              row == NewAction(r, l.id, l.at, l.case, type, l.assignee, l.target)
  <1>1. l \in Locals /\ LocalsOK(pc[r], l) BY DEF Typed, TypeOK
  <1>2. /\ l.case \in Case /\ l.user \in User /\ l.id \in Nat /\ l.at \in Nat
        /\ l.target \in User /\ l.assignee \in User \cup {Null}
    BY <1>1 DEF ReassignCommit, At, LocalsOK, ReassignLocals, Working, Stage, InTx, Final,
                Locals
  <1>3. caseActions' = caseActions \cup {row} BY DEF ReassignCommit
  <1>4. row \in ActionRow BY <1>2 DEF NewAction, ActionRow, ActionType
  <1>5. /\ row.corr = r /\ row.id = l.id /\ row.at = l.at /\ row.case = l.case
        /\ row.type = type /\ row.from = l.assignee /\ row.to = l.target
    BY DEF NewAction
  <1>. HIDE DEF row
  <1>. QED BY <1>3, <1>4, <1>5

\* Only a transition moves a case, only a reassignment gives it away or adds
\* to the rows that say so.
LEMMA CaseMoves ==
    ASSUME Typed, Locked, Numbered, NEW r \in Req, Start(r) \/ Step(r) \/ Cancel(r), NEW c \in Case
    PROVE  /\ ~(StatusCommit(r) /\ loc[r].case = c) /\ cases[c] # Null =>
                 cases'[c].status = cases[c].status /\ cases'[c].closed = cases[c].closed
           /\ ~(ReassignCommit(r) /\ loc[r].case = c) /\ cases[c] # Null =>
                 cases'[c].assignee = cases[c].assignee
           /\ ~(ReassignCommit(r) /\ loc[r].case = c) => AssigneeRows(c)' = AssigneeRows(c)
           /\ cases[c] = Null /\ cases'[c] # Null =>
                 /\ cases'[c].assignee = Null /\ AssigneeRows(c)' = {}
                 /\ cases'[c].status = "triage" /\ cases'[c].closed = FALSE
  <1>. DEFINE Goal ==
           /\ ~(StatusCommit(r) /\ loc[r].case = c) /\ cases[c] # Null =>
                 cases'[c].status = cases[c].status /\ cases'[c].closed = cases[c].closed
           /\ ~(ReassignCommit(r) /\ loc[r].case = c) /\ cases[c] # Null =>
                 cases'[c].assignee = cases[c].assignee
           /\ ~(ReassignCommit(r) /\ loc[r].case = c) => AssigneeRows(c)' = AssigneeRows(c)
           /\ cases[c] = Null /\ cases'[c] # Null =>
                 /\ cases'[c].assignee = Null /\ AssigneeRows(c)' = {}
                 /\ cases'[c].status = "triage" /\ cases'[c].closed = FALSE
  <1>0. SUFFICES Goal OBVIOUS
  <1>1. cases[c] = Null => AssigneeRows(c) = {} BY DEF Numbered, AssigneeRows
  <1>2. ASSUME NEW id, NEW type, NEW to, Wrote(r, id, type, to), type \notin {"assigned", "reassigned"}
        PROVE  AssigneeRows(c)' = AssigneeRows(c)
    BY <1>2 DEF Wrote, AssigneeRows
  <1>3. CASE UNCHANGED tables
    BY <1>1, <1>3 DEF tables, AssigneeRows
  <1>4. CASE OpenCaseCommit(r)
    <2>0. PICK d : d = loc[r].case OBVIOUS
    <2>1. /\ d \in Case /\ cases[d] = Null /\ cases'[d].status = "triage"
          /\ cases'[d].assignee = Null /\ \A e \in Case \ {d} : cases'[e] = cases[e]
      BY <1>4, <2>0, OpenCommitFacts
    <2>2. cases'[d].closed = FALSE BY <1>4, <2>0, <2>1 DEF OpenCaseCommit, Typed, TypeOK
    <2>3. AssigneeRows(c)' = AssigneeRows(c) BY <1>2, <1>4, CommitRow
    <2>4. ~StatusCommit(r) /\ ~ReassignCommit(r)
      BY <1>4 DEF OpenCaseCommit, StatusCommit, ReassignCommit, At
    <2>. QED BY <1>1, <2>1, <2>2, <2>3, <2>4
  <1>5. CASE StatusCommit(r)
    <2>0. PICK d : d = loc[r].case OBVIOUS
    <2>1. /\ d \in Case /\ cases[d] # Null
          /\ cases'[d] # Null /\ cases'[d].assignee = cases[d].assignee
          /\ \A e \in Case \ {d} : cases'[e] = cases[e]
      BY <1>5, <2>0, StatusCommitFacts
    <2>2. AssigneeRows(c)' = AssigneeRows(c) BY <1>2, <1>5, CommitRow
    <2>3. ~ReassignCommit(r) BY <1>5 DEF StatusCommit, ReassignCommit, At
    <2>. QED BY <1>1, <1>5, <2>0, <2>1, <2>2, <2>3
  <1>6. CASE ReassignCommit(r)
    <2>0. PICK d : d = loc[r].case OBVIOUS
    <2>1. /\ d \in Case /\ cases[d] # Null /\ cases'[d] # Null
          /\ cases'[d].status = cases[d].status /\ cases'[d].closed = cases[d].closed
          /\ \A e \in Case \ {d} : cases'[e] = cases[e]
      BY <1>6, <2>0, ReassignCommitFacts
    <2>2. d # c => AssigneeRows(c)' = AssigneeRows(c)
      BY <1>6, <2>0, CommitRow DEF Wrote, AssigneeRows
    <2>. QED BY <1>1, <1>6, <2>0, <2>1, <2>2
  <1>7. CASE NoteCommit(r) \/ DiscloseCommit(r)
    <2>1. UNCHANGED cases BY <1>7 DEF NoteCommit, DiscloseCommit
    <2>2. AssigneeRows(c)' = AssigneeRows(c) BY <1>2, <1>7, CommitRow
    <2>. QED BY <1>1, <2>1, <2>2
  <1>8. Start(r) \/ Cancel(r) => UNCHANGED tables
    BY DEF Start, StartOpenCase, StartStatus, StartNote, StartReassign, StartDisclose,
           Arrive, Cancel
  <1>. QED BY <1>3, <1>4, <1>5, <1>6, <1>7, <1>8, StepWrites

LEMMA DecidingFacts ==
    ASSUME Typed, NEW r \in Req, Deciding(r)
    PROVE  /\ loc[r].case \in Case /\ cases[loc[r].case] # Null
           /\ loc[r].op = "status" =>
                 loc[r].status \in CaseStatus /\ loc[r].target \in AllowedNext(loc[r].status)
           /\ loc[r].op = "reassign" => loc[r].target \in User
  BY DEF Typed, LocalsOK, StatusLocals, ReassignLocals, OpenLocals, NoteLocals, DiscloseLocals,
         Deciding, Working, Stage, InTx, Final

\* What q read stays true while r, which does not overlap with it, steps.
LEMMA OthersCurrent ==
    ASSUME Typed, Locked, Numbered, NoOverlap,
           NEW r \in Req, Start(r) \/ Step(r) \/ Cancel(r),
           NEW q \in Req, q # r, Current(q)
    PROVE  Current(q)'
  <1>1. pc'[q] = pc[q] /\ loc'[q] = loc[q]
    BY StartFramed, StepFramed, CancelFramed DEF Framed
  <1>2. SUFFICES ASSUME Deciding(q) PROVE Current(q)'
    BY <1>1 DEF Current, Deciding
  <1>3. PICK c \in Case : c = loc[q].case /\ cases[c] # Null BY <1>2, DecidingFacts
  <1>4. ~Overlap(q, r) BY DEF NoOverlap
  <1>5. CASE loc[q].op = "status"
    <2>1. ~(StatusCommit(r) /\ loc[r].case = c)
      BY <1>2, <1>3, <1>4, <1>5 DEF Overlap, Deciding, StatusCommit, At
    <2>2. cases'[c].status = cases[c].status BY <1>3, <2>1, CaseMoves
    <2>. QED BY <1>1, <1>2, <1>3, <1>5, <2>2 DEF Current
  <1>6. CASE loc[q].op = "reassign"
    <2>1. ~(ReassignCommit(r) /\ loc[r].case = c)
      BY <1>2, <1>3, <1>4, <1>6 DEF Overlap, Deciding, ReassignCommit, At
    <2>2. cases'[c].assignee = cases[c].assignee /\ AssigneeRows(c)' = AssigneeRows(c)
      BY <1>3, <2>1, CaseMoves
    <2>. QED BY <1>1, <1>2, <1>3, <1>6, <2>2 DEF Current, AssigneeRows
  <1>. QED BY <1>2, <1>5, <1>6 DEF Deciding

\* What r read is true when it reads it, and its assignment comes after all
\* that were there when its transaction began.
LEMMA OwnCurrent ==
    ASSUME Typed, Locked, Timed, NEW r \in Req, Current(r), Start(r) \/ Step(r) \/ Cancel(r)
    PROVE  Current(r)'
  <1>. DEFINE l == loc[r]
              c == loc[r].case
  <1>0. /\ pc \in [Req -> Stage] /\ loc \in [Req -> Locals] /\ l \in Locals
        /\ LocalsOK(pc[r], l)
    BY DEF Typed, TypeOK
  <1>1. \A f \in Final : Return(r, f) => ~Deciding(r)'
    BY <1>0 DEF Return, Final, Deciding
  <1>2. \A s : Goto(r, s) => pc'[r] = s BY <1>0 DEF Goto
  <1>3. ~Deciding(r)' => Current(r)' BY DEF Current
  <1>4. "done" \in Final /\ "viewed" \in Final BY DEF Final
  <1>5. EndTx(r) \/ Return(r, "done") => ~Deciding(r)' BY <1>1, <1>4 DEF EndTx
  <1>6. CASE Start(r)
    <2>1. ASSUME NEW k, NEW min, NEW s, Arrive(r, k, min, s),
                 k.op = "open" \/ s \notin {"elevate", "begin", "lock", "sync", "commit"}
                 \/ k.op = "disclose"
          PROVE  ~Deciding(r)'
      BY <1>0, <1>2, <1>5, <2>1 DEF Arrive, Deciding
    <2>2. ASSUME NEW u, NEW p PROVE [NoLocals EXCEPT !.op = "open", !.user = u, !.report = p].op = "open"
      BY DEF NoLocals
    <2>3. ASSUME NEW u, NEW d
          PROVE  [NoLocals EXCEPT !.op = "disclose", !.user = u, !.case = d].op = "disclose"
      BY DEF NoLocals
    <2>4. StartOpenCase(r) \/ StartDisclose(r) => ~Deciding(r)'
      BY <2>1, <2>2, <2>3 DEF StartOpenCase, StartDisclose
    <2>5. "load" \notin {"elevate", "begin", "lock", "sync", "commit"}
          /\ "target" \notin {"elevate", "begin", "lock", "sync", "commit"} OBVIOUS
    <2>6. StartStatus(r) \/ StartNote(r) \/ StartReassign(r) => ~Deciding(r)'
      BY <2>1, <2>5, Zenon DEF StartStatus, StartNote, StartReassign
    <2>. QED BY <1>3, <1>6, <2>4, <2>6 DEF Start
  <1>7. CASE Cancel(r) BY <1>3, <1>5, <1>7 DEF Cancel
  <1>8. CASE BeginTx(r)
    <2>1. pc[r] = "begin" /\ pc'[r] = "lock" /\ UNCHANGED tables /\ l.op = loc'[r].op
          /\ loc'[r].case = c /\ loc'[r].status = l.status /\ loc'[r].assignee = l.assignee
          /\ loc'[r].target = l.target /\ loc'[r].at = clock
      BY <1>0, <1>2, <1>8 DEF BeginTx, Locals
    <2>2. \A a \in AssigneeRows(c) : a.at <= clock BY DEF Timed, AssigneeRows
    <2>3. AssigneeRows(loc[r].case)' = AssigneeRows(c) BY <2>1 DEF tables, AssigneeRows
    <2>. QED BY <2>1, <2>2, <2>3 DEF Current, Deciding, tables
  <1>8a. CASE Rollback(r) BY <1>3, <1>5, <1>8a DEF Rollback
  <1>9. CASE OpenCaseStep(r) \/ NoteStep(r) \/ DiscloseStep(r)
    <2>1. l.op \notin {"status", "reassign"} /\ pc[r] \in Working
      BY <1>0, <1>9 DEF OpenCaseStep, OpenCaseLock, OpenCaseInsert, OpenCaseCommit, NoteStep,
             NoteLoad, NoteInsert, NoteCheck, NoteCommit, DiscloseStep, DiscloseElevate,
             DiscloseLock, DiscloseCommit, DiscloseRender, At, Working, Stage, InTx, Final
    <2>2. Step(r) BY <1>9 DEF Step
    <2>3. pc'[r] \in Working => loc'[r].op = l.op BY <2>2, Carries
    <2>. QED BY <1>3, <2>1, <2>3 DEF Deciding, Working, Stage, InTx, Final
  <1>10. CASE StatusLoad(r)
    <2>1. CASE Dismiss(r) BY <1>3, <1>5, <2>1 DEF Dismiss
    <2>2. CASE loc' = [loc EXCEPT ![r].report = cases[c].report, ![r].status = cases[c].status]
               /\ UNCHANGED tables
      <3>1. l.op = "status" BY <1>10 DEF StatusLoad, At
      <3>2. loc'[r].op = "status" /\ loc'[r].case = c /\ loc'[r].status = cases[c].status
        BY <1>0, <2>2, <3>1 DEF Locals
      <3>. QED BY <2>2, <3>2 DEF Current, tables
    <2>. QED BY <1>10, <2>1, <2>2 DEF StatusLoad
  <1>11. CASE StatusElevate(r) \/ StatusUpdateCase(r)
    <2>1. pc[r] \in {"elevate", "lock"} /\ l.op = "status" /\ UNCHANGED tables
      BY <1>11 DEF StatusElevate, StatusUpdateCase, Dismiss, At
    <2>2. CASE UNCHANGED loc BY <2>1, <2>2 DEF Current, Deciding, tables
    <2>3. CASE Dismiss(r) BY <1>3, <1>5, <2>3 DEF Dismiss
    <2>. QED BY <1>11, <2>2, <2>3 DEF StatusElevate, StatusUpdateCase
  <1>12. CASE StatusUpdateReport(r)
    <2>1. pc[r] = "sync" /\ l.op = "status" /\ UNCHANGED tables
      BY <1>12 DEF StatusUpdateReport, At
    <2>2. loc'[r].op = l.op /\ loc'[r].case = c /\ loc'[r].status = l.status
      BY <1>0, <1>12 DEF StatusUpdateReport, Locals
    <2>. QED BY <2>1, <2>2 DEF Current, Deciding, tables
  <1>13. CASE StatusCommit(r) \/ ReassignCommit(r)
    BY <1>3, <1>5, <1>13 DEF StatusCommit, ReassignCommit
  <1>14. CASE ReassignTarget(r)
    <2>1. CASE Goto(r, "load") BY <1>2, <1>3, <2>1 DEF Deciding
    <2>2. CASE Dismiss(r) BY <1>3, <1>5, <2>2 DEF Dismiss
    <2>. QED BY <1>14, <2>1, <2>2 DEF ReassignTarget
  <1>15. CASE ReassignLoad(r)
    <2>1. CASE Dismiss(r) BY <1>3, <1>5, <2>1 DEF Dismiss
    <2>2. CASE /\ cases[c].assignee # l.target
               /\ loc' = [loc EXCEPT ![r].assignee = cases[c].assignee]
               /\ Goto(r, "begin") /\ UNCHANGED tables
      <3>1. l.op = "reassign" BY <1>15 DEF ReassignLoad, At
      <3>2. /\ loc'[r].op = "reassign" /\ loc'[r].case = c /\ loc'[r].target = l.target
            /\ loc'[r].assignee = cases[c].assignee /\ pc'[r] = "begin"
        BY <1>0, <1>2, <2>2, <3>1 DEF Locals
      <3>. QED BY <2>2, <3>2 DEF Current, tables, InTx
    <2>. QED BY <1>15, <2>1, <2>2 DEF ReassignLoad
  <1>16. CASE ReassignUpdate(r)
    <2>1. pc[r] = "lock" /\ l.op = "reassign" /\ UNCHANGED tables
      BY <1>16 DEF ReassignUpdate, At
    <2>2. /\ loc'[r].op = l.op /\ loc'[r].case = c /\ loc'[r].target = l.target
          /\ loc'[r].assignee = l.assignee /\ loc'[r].at = l.at
      BY <1>0, <1>16 DEF ReassignUpdate, Locals
    <2>3. AssigneeRows(loc[r].case)' = AssigneeRows(c) BY <2>1, <2>2 DEF tables, AssigneeRows
    <2>. QED BY <2>1, <2>2, <2>3 DEF Current, Deciding, tables, InTx
  <1>. QED
    BY <1>6, <1>7, <1>8, <1>8a, <1>9, <1>10, <1>11, <1>12, <1>13, <1>14, <1>15, <1>16
       DEF Step, StatusStep, ReassignStep

LEMMA CurrentStep ==
    ASSUME Typed, Locked, Numbered, Timed, AllCurrent, NoOverlap, [Next]_vars
    PROVE  AllCurrent'
  <1>1. ASSUME NEW r \in Req, Start(r) \/ Step(r) \/ Cancel(r) PROVE AllCurrent'
    BY <1>1, OthersCurrent, OwnCurrent DEF AllCurrent
  <1>2. UNCHANGED <<cases, caseActions, requests>> => AllCurrent'
    BY DEF AllCurrent, Current, Deciding, AssigneeRows, requests
  <1>3. ASSUME NEW p \in Report, Submit(p) PROVE AllCurrent' BY <1>2, <1>3 DEF Submit
  <1>4. ASSUME NEW u \in User, Framework(u) PROVE AllCurrent'
    BY <1>2, <1>4, FrameworkQuiet DEF tables
  <1>5. UNCHANGED vars => AllCurrent' BY <1>2 DEF vars, tables
  <1>. QED BY <1>1, <1>3, <1>4, <1>5 DEF Next, Quiescent

LEMMA InForceStep ==
    ASSUME Typed, Locked, Numbered, AllCurrent, AllInForce, [Next]_vars
    PROVE  AllInForce'
  <1>1. ASSUME NEW r \in Req, Start(r) \/ Step(r) \/ Cancel(r), NEW c \in Case, cases'[c] # Null
        PROVE  InForce(c)'
    <2>1. CASE cases[c] = Null BY <1>1, <2>1, CaseMoves DEF InForce
    <2>2. CASE cases[c] # Null /\ ~(ReassignCommit(r) /\ loc[r].case = c)
      <3>1. InForce(c) BY <2>2 DEF AllInForce, Opened
      <3>2. cases'[c].assignee = cases[c].assignee /\ AssigneeRows(c)' = AssigneeRows(c)
        BY <1>1, <2>2, CaseMoves
      <3>. QED BY <3>1, <3>2 DEF InForce
    <2>3. CASE ReassignCommit(r) /\ loc[r].case = c
      <3>1. cases'[c].assignee = loc[r].target /\ loc[r].target # Null
        BY <2>3, ReassignCommitFacts, Facts
      <3>2. PICK row \in ActionRow :
               /\ caseActions' = caseActions \cup {row} /\ row.at = loc[r].at
               /\ row.case = c /\ row.type \in {"assigned", "reassigned"} /\ row.to = loc[r].target
        BY <2>3, AssignRow
      <3>3. AssigneeRows(c)' = AssigneeRows(c) \cup {row} BY <3>2 DEF AssigneeRows
      <3>4. \A a \in AssigneeRows(c) : a.at <= loc[r].at
        BY <2>3 DEF AllCurrent, Current, Deciding, ReassignCommit, At, InTx
      <3>. QED BY <3>1, <3>2, <3>3, <3>4 DEF InForce
    <2>. QED BY <2>1, <2>2, <2>3
  <1>2. ASSUME UNCHANGED <<cases, caseActions>> PROVE AllInForce'
    BY <1>2 DEF AllInForce, InForce, Opened, AssigneeRows
  <1>3. ASSUME NEW p \in Report, Submit(p) PROVE AllInForce' BY <1>2, <1>3 DEF Submit
  <1>4. ASSUME NEW u \in User, Framework(u) PROVE AllInForce'
    BY <1>2, <1>4, FrameworkQuiet DEF tables
  <1>5. UNCHANGED vars => AllInForce' BY <1>2 DEF vars, tables
  <1>6. (\E r \in Req : Start(r) \/ Step(r) \/ Cancel(r)) => AllInForce'
    BY <1>1 DEF AllInForce, Opened
  <1>. QED BY <1>3, <1>4, <1>5, <1>6 DEF Next, Quiescent

\* The transition a request that is not overlapped commits is a locked one.
LEMMA LockedMove ==
    ASSUME Typed, Locked, AllCurrent, NEW r \in Req, StatusCommit(r)
    PROVE  /\ loc[r].status = cases[loc[r].case].status
           /\ <<cases[loc[r].case].status, loc[r].target>> \in Lifecycle!Locked
           /\ loc[r].target \notin Closing => cases[loc[r].case].status \notin Closing
  <1>. DEFINE c == loc[r].case
  <1>1. Deciding(r) /\ loc[r].op = "status" BY DEF Deciding, StatusCommit, At
  <1>2. loc[r].status = cases[c].status BY <1>1 DEF AllCurrent, Current
  <1>3. loc[r].status \in CaseStatus /\ loc[r].target \in AllowedNext(loc[r].status)
    BY <1>1, DecidingFacts
  <1>. QED BY <1>2, <1>3 DEF Lifecycle!Locked, AllowedNext, CaseStatus, Status, Closing

LEMMA UnstampedStep ==
    ASSUME Typed, Locked, Numbered, AllCurrent, OpenCasesUnstamped, [Next]_vars
    PROVE  OpenCasesUnstamped'
  <1>1. ASSUME NEW r \in Req, Start(r) \/ Step(r) \/ Cancel(r), NEW c \in Case, cases'[c] # Null,
               cases'[c].status \notin Closing
        PROVE  ~cases'[c].closed
    <2>1. CASE cases[c] = Null BY <1>1, <2>1, CaseMoves
    <2>2. CASE cases[c] # Null /\ ~(StatusCommit(r) /\ loc[r].case = c)
      BY <1>1, <2>2, CaseMoves DEF OpenCasesUnstamped, Opened
    <2>3. CASE cases[c] # Null /\ StatusCommit(r) /\ loc[r].case = c
      <3>1. cases[c] \in CaseRow BY <2>3 DEF Typed, TypeOK
      <3>2. cases'[c] = StatusWritten(cases[c], loc[r].target)
        BY <2>3 DEF StatusCommit, Typed, TypeOK
      <3>3. /\ cases'[c].status = loc[r].target
            /\ cases'[c].closed = (IsTerminal(loc[r].target) \/ cases[c].closed)
        BY <3>1, <3>2 DEF StatusWritten, CaseRow
      <3>4. cases[c].status \notin Closing BY <1>1, <2>3, <3>3, LockedMove
      <3>5. ~cases[c].closed BY <2>3, <3>4 DEF OpenCasesUnstamped, Opened
      <3>. QED BY <1>1, <3>3, <3>5 DEF IsTerminal, Closing
    <2>. QED BY <2>1, <2>2, <2>3
  <1>2. UNCHANGED cases => OpenCasesUnstamped' BY DEF OpenCasesUnstamped, Opened
  <1>3. ASSUME NEW p \in Report, Submit(p) PROVE OpenCasesUnstamped' BY <1>2, <1>3 DEF Submit
  <1>4. ASSUME NEW u \in User, Framework(u) PROVE OpenCasesUnstamped'
    BY <1>2, <1>4, FrameworkQuiet DEF tables
  <1>5. UNCHANGED vars => OpenCasesUnstamped' BY <1>2 DEF vars, tables
  <1>6. (\E r \in Req : Start(r) \/ Step(r) \/ Cancel(r)) => OpenCasesUnstamped'
    BY <1>1 DEF OpenCasesUnstamped, Opened
  <1>. QED BY <1>3, <1>4, <1>5, <1>6 DEF Next, Quiescent

\* Lifecycle and Ledger speak of the same rows.
LEMMA SameBook ==
    /\ Lifecycle!book = Ledger!book /\ Lifecycle!NewRows = Ledger!NewRows
    /\ Lifecycle!Init <=> Ledger!Init
    /\ \A p : Ledger!Receive(p) => Lifecycle!Receive(p)
    /\ \A c, p : Ledger!Open(c, p) => Lifecycle!Open(c, p)
    /\ \A c, s, row : Ledger!Moved(c, s, row) => Lifecycle!Moved(c, s, row)
    /\ \A c, u, row : Ledger!Assigned(c, u, row) => Lifecycle!Assigned(c, u, row)
    /\ \A c : Ledger!Note(c) => Lifecycle!Note(c)
    /\ \A c : Ledger!Disclose(c) => Lifecycle!Disclose(c)
  <1>1. Lifecycle!book = Ledger!book /\ Lifecycle!NewRows = Ledger!NewRows
    BY DEF Lifecycle!book, Ledger!book, Lifecycle!NewRows, Ledger!NewRows
  <1>2. \A row : /\ Ledger!Logged(row) => Lifecycle!Logged(row)
                 /\ \A kind : Ledger!Newest(row, kind) => Lifecycle!Newest(row, kind)
    BY DEF Ledger!Logged, Lifecycle!Logged, Ledger!Newest, Lifecycle!Newest
  <1>3. Lifecycle!Init <=> Ledger!Init BY DEF Lifecycle!Init, Ledger!Init
  <1>4. \A p : Ledger!Receive(p) => Lifecycle!Receive(p)
    BY DEF Ledger!Receive, Lifecycle!Receive
  <1>5. \A c, p : Ledger!Open(c, p) => Lifecycle!Open(c, p)
    BY <1>1, <1>2 DEF Ledger!Open, Lifecycle!Open
  <1>6. \A c, s, row : Ledger!Moved(c, s, row) => Lifecycle!Moved(c, s, row)
    BY <1>2 DEF Ledger!Moved, Lifecycle!Moved, Ledger!Moves, Lifecycle!Moves
  <1>7. \A c, u, row : Ledger!Assigned(c, u, row) => Lifecycle!Assigned(c, u, row)
    BY <1>2 DEF Ledger!Assigned, Lifecycle!Assigned, Ledger!Assignments, Lifecycle!Assignments
  <1>8. \A c : Ledger!Note(c) => Lifecycle!Note(c)
    BY <1>1, <1>2 DEF Ledger!Note, Lifecycle!Note
  <1>9. \A c : Ledger!Disclose(c) => Lifecycle!Disclose(c)
    BY <1>1, <1>2 DEF Ledger!Disclose, Lifecycle!Disclose
  <1>. QED BY <1>1, <1>3, <1>4, <1>5, <1>6, <1>7, <1>8, <1>9

LEMMA FaithfulMoveStep ==
    ASSUME Typed, Locked, Written, Numbered, AllCurrent, NEW r \in Req, StatusCommit(r)
    PROVE  loc[r].case \in Case /\ Lifecycle!FaithfulMove(loc[r].case)
  <1>0. PICK c : c = loc[r].case OBVIOUS
  <1>1. c \in Case BY <1>0, StatusCommitFacts
  <1>2. PICK row \in ActionRow :
           /\ caseActions' = caseActions \cup {row}
           /\ row.from = loc[r].status /\ row.to = loc[r].target
    BY MoveRow
  <1>3. PICK new \in Ledger!NewRows : Ledger!Moved(c, new.to, new)
    BY <1>0, MoveStep DEF Ledger!Move
  <1>4. new = row BY <1>2, <1>3 DEF Ledger!NewRows
  <1>5. /\ loc[r].status = cases[c].status
        /\ <<cases[c].status, loc[r].target>> \in Lifecycle!Locked
    BY <1>0, LockedMove
  <1>6. row \in Lifecycle!NewRows /\ Lifecycle!Moved(c, row.to, row) BY <1>3, <1>4, SameBook
  <1>. QED BY <1>0, <1>1, <1>2, <1>5, <1>6 DEF Lifecycle!FaithfulMove

LEMMA FaithfulAssignStep ==
    ASSUME Typed, Locked, Written, Numbered, AllCurrent, NEW r \in Req, ReassignCommit(r)
    PROVE  loc[r].case \in Case /\ Lifecycle!FaithfulAssign(loc[r].case)
  <1>0. PICK c : c = loc[r].case OBVIOUS
  <1>1. c \in Case /\ loc[r].target \in User BY <1>0, ReassignCommitFacts
  <1>2. PICK row \in ActionRow :
           /\ caseActions' = caseActions \cup {row}
           /\ row.type = IF loc[r].assignee = Null THEN "assigned" ELSE "reassigned"
           /\ row.from = loc[r].assignee /\ row.to = loc[r].target
    BY AssignRow
  <1>3. PICK new \in Ledger!NewRows : Ledger!Assigned(c, new.to, new)
    BY <1>0, AssignStep DEF Ledger!Assign
  <1>4. new = row BY <1>2, <1>3 DEF Ledger!NewRows
  <1>5. loc[r].assignee = cases[c].assignee /\ loc[r].assignee # loc[r].target
    BY <1>0 DEF AllCurrent, Current, Deciding, ReassignCommit, At
  <1>6. row \in Lifecycle!NewRows /\ Lifecycle!Assigned(c, row.to, row) BY <1>3, <1>4, SameBook
  <1>. QED BY <1>0, <1>1, <1>2, <1>5, <1>6 DEF Lifecycle!FaithfulAssign

LEMMA LifecycleStep ==
    ASSUME Typed, Locked, Written, Numbered, AllCurrent, [Next]_vars
    PROVE  [Lifecycle!LifecycleNext]_(Lifecycle!book)
  <1>1. ASSUME NEW p \in Report, Submit(p) PROVE Lifecycle!LifecycleNext
    BY <1>1, ReceiveStep, SameBook DEF Lifecycle!LifecycleNext
  <1>2. ASSUME NEW r \in Req, OpenCaseCommit(r) PROVE Lifecycle!LifecycleNext
    BY <1>2, OpenStep, OpenCommitFacts, SameBook DEF Lifecycle!LifecycleNext
  <1>3. ASSUME NEW r \in Req, StatusCommit(r) PROVE Lifecycle!LifecycleNext
    BY <1>3, FaithfulMoveStep DEF Lifecycle!LifecycleNext
  <1>4. ASSUME NEW r \in Req, ReassignCommit(r) PROVE Lifecycle!LifecycleNext
    BY <1>4, FaithfulAssignStep DEF Lifecycle!LifecycleNext
  <1>5. ASSUME NEW r \in Req, NoteCommit(r) \/ DiscloseCommit(r) PROVE Lifecycle!LifecycleNext
    BY <1>5, NoteStepLogged, DiscloseStepLogged, SameBook DEF Lifecycle!LifecycleNext
  <1>6. UNCHANGED tables => UNCHANGED Lifecycle!book BY DEF tables, Lifecycle!book
  <1>. QED BY <1>1, <1>2, <1>3, <1>4, <1>5, <1>6, NextWrites

LEMMA LockedStep ==
    ASSUME Typed, Locked, Numbered, AllCurrent, [Next]_vars
    PROVE  \A c \in Opened : cases'[c].status # cases[c].status =>
              <<cases[c].status, cases'[c].status>> \in Lifecycle!Locked
  <1>1. ASSUME NEW r \in Req, Start(r) \/ Step(r) \/ Cancel(r), NEW c \in Opened,
               cases'[c].status # cases[c].status
        PROVE  <<cases[c].status, cases'[c].status>> \in Lifecycle!Locked
    <2>1. StatusCommit(r) /\ loc[r].case = c BY <1>1, CaseMoves DEF Opened
    <2>. QED BY <2>1, LockedMove, StatusCommitFacts
  <1>2. ASSUME NEW p \in Report, Submit(p) PROVE UNCHANGED cases BY <1>2 DEF Submit
  <1>3. ASSUME NEW u \in User, Framework(u) PROVE UNCHANGED cases
    BY <1>3, FrameworkQuiet DEF tables
  <1>4. UNCHANGED vars => UNCHANGED cases BY DEF vars, tables
  <1>. QED BY <1>1, <1>2, <1>3, <1>4 DEF Next, Quiescent

\* As long as no two transitions and no two reassignments of one case
\* overlap, what a handler read is still so when it writes.
THEOREM ReadsStayCurrent == Spec /\ []NoOverlap => [](AllCurrent /\ AllInForce)
  <1>1. Init => AllCurrent /\ AllInForce
    BY DEF Init, AllCurrent, Current, Deciding, AllInForce, Opened
  <1>2. Typed /\ Locked /\ Numbered /\ Timed /\ AllCurrent /\ NoOverlap /\ [Next]_vars
           => AllCurrent'
    BY CurrentStep
  <1>3. Typed /\ Locked /\ Numbered /\ AllCurrent /\ AllInForce /\ [Next]_vars => AllInForce'
    BY InForceStep
  <1>4. Typed /\ Locked /\ Numbered /\ [Next]_vars => Numbered' BY NumberedStep
  <1>. QED BY <1>1, <1>2, <1>3, <1>4, Layered, InitNumbered, TimesPast, PTL DEF Spec

\* Then the workflow implements the documented lifecycle: every change of a
\* status is a locked transition and every history row tells what it changed.
THEOREM LifecycleKept == Spec /\ []NoOverlap => ImplementsLifecycle
  <1>1. Init => Lifecycle!Init BY DEF Init, Lifecycle!Init
  <1>2. Typed /\ Locked /\ Written /\ Numbered /\ AllCurrent /\ [Next]_vars
           => [Lifecycle!LifecycleNext]_(Lifecycle!book)
    BY LifecycleStep
  <1>3. Typed /\ Locked /\ Numbered /\ [Next]_vars => Numbered' BY NumberedStep
  <1>. QED
    BY <1>1, <1>2, <1>3, Layered, RowsAfterCommit, InitNumbered, ReadsStayCurrent, PTL
       DEF Spec, ImplementsLifecycle, Lifecycle!LifecycleSpec

\* cases.rs:71-75: a case moves only along the locked transitions.
THEOREM TransitionsLocked == Spec /\ []NoOverlap => LockedTransitions
  <1>1. Typed /\ Locked /\ Numbered /\ AllCurrent /\ [Next]_vars
           => [\A c \in Opened : cases'[c].status # cases[c].status =>
                  <<cases[c].status, cases'[c].status>> \in Lifecycle!Locked]_cases
    BY LockedStep
  <1>2. Typed /\ Locked /\ Numbered /\ [Next]_vars => Numbered' BY NumberedStep
  <1>. QED
    BY <1>1, <1>2, Layered, InitNumbered, ReadsStayCurrent, PTL DEF Spec, LockedTransitions

\* cases.rs:270: a case that is not closed bears no closing stamp.
THEOREM OpenUnstamped == Spec /\ []NoOverlap => []OpenCasesUnstamped
  <1>1. Init => OpenCasesUnstamped BY DEF Init, OpenCasesUnstamped, Opened
  <1>2. Typed /\ Locked /\ Numbered /\ AllCurrent /\ OpenCasesUnstamped /\ [Next]_vars
           => OpenCasesUnstamped'
    BY UnstampedStep
  <1>3. Typed /\ Locked /\ Numbered /\ [Next]_vars => Numbered' BY NumberedStep
  <1>. QED BY <1>1, <1>2, <1>3, Layered, InitNumbered, ReadsStayCurrent, PTL DEF Spec

\* cases.rs:36-37: the assignment with the latest time is the one in force.
THEOREM NewestIsInForce == Spec /\ []NoOverlap => []NewestFirstShowsAssignee
  <1>1. Typed /\ AllInForce => NewestFirstShowsAssignee
    <2>. SUFFICES ASSUME Typed, AllInForce, NEW c \in Opened, NEW a \in AssigneeRows(c),
                         \A b \in AssigneeRows(c) \ {a} : b.at < a.at
                  PROVE  a.to = cases[c].assignee
      BY DEF NewestFirstShowsAssignee
    <2>1. PICK f \in AssigneeRows(c) :
             f.to = cases[c].assignee /\ \A b \in AssigneeRows(c) \ {f} : b.at <= f.at
      BY DEF AllInForce, InForce
    <2>2. a.at \in Nat /\ f.at \in Nat
      BY DEF Typed, TypeOK, ActionRow, AssigneeRows
    <2>3. a = f BY <2>1, <2>2
    <2>. QED BY <2>1, <2>3
  <1>. QED BY <1>1, Layered, ReadsStayCurrent, PTL

-----------------------------------------------------------------------------
(* One request at a time.                                                  *)

Alone == \A q, r \in InFlight : q = r

LEMMA AloneStep ==
    ASSUME MaxActive <= 1, Typed, Locked, Alone, [Next]_vars
    PROVE  Alone'
  <1>1. ASSUME NEW r \in Req, Start(r) PROVE Alone'
    <2>1. Cardinality(InFlight) < MaxActive
      BY <1>1, Zenon
         DEF Start, StartOpenCase, StartStatus, StartNote, StartReassign, StartDisclose, Arrive
    <2>2. InFlight = {}
      <3>1. ASSUME NEW q \in InFlight PROVE FALSE
        <4>1. InFlight = {q} BY DEF Alone
        <4>2. Cardinality(InFlight) = 1 BY <4>1, FS_Singleton
        <4>. QED BY <2>1, <4>2, BoundAssumption
      <3>. QED BY <3>1
    <2>3. \A q \in Req \ {r} : pc'[q] = pc[q] BY <1>1, StartFramed DEF Framed
    <2>. QED BY <2>2, <2>3 DEF Alone, InFlight
  <1>2. ASSUME NEW r \in Req, Step(r) \/ Cancel(r) PROVE Alone'
    <2>1. r \in InFlight
      <3>1. pc[r] \notin Final BY <1>2, Moves
      <3>2. Step(r) => pc[r] # "idle" BY StepArrived
      <3>. QED BY <1>2, <3>1, <3>2 DEF Cancel, InFlight
    <2>2. \A q \in Req \ {r} : pc'[q] = pc[q] BY <1>2, StepFramed, CancelFramed DEF Framed
    <2>. QED BY <2>1, <2>2 DEF Alone, InFlight
  <1>3. UNCHANGED requests => Alone' BY DEF Alone, InFlight, requests
  <1>4. ASSUME NEW p \in Report, Submit(p) PROVE Alone' BY <1>3, <1>4 DEF Submit
  <1>5. ASSUME NEW u \in User, Framework(u) PROVE Alone' BY <1>3, <1>5, FrameworkQuiet
  <1>6. UNCHANGED vars => Alone' BY <1>3 DEF vars
  <1>. QED BY <1>1, <1>2, <1>4, <1>5, <1>6 DEF Next, Quiescent

\* Requests served one by one never overlap, so that what the serial run
\* finds on a small instance holds on every one.
THEOREM ServedOneByOne ==
    ASSUME MaxActive <= 1
    PROVE  /\ Spec => []NoOverlap
           /\ Spec => ImplementsLifecycle
           /\ Spec => LockedTransitions
           /\ Spec => []OpenCasesUnstamped
           /\ Spec => []NewestFirstShowsAssignee
  <1>1. Init => Alone BY DEF Init, Alone, InFlight
  <1>2. Typed /\ Locked /\ Alone /\ [Next]_vars => Alone' BY AloneStep
  <1>3. Alone => NoOverlap
    BY DEF Alone, NoOverlap, Overlap, Deciding, InFlight, Final
  <1>4. Spec => []NoOverlap BY <1>1, <1>2, <1>3, Layered, PTL DEF Spec
  <1>. QED
    BY <1>4, LifecycleKept, TransitionsLocked, OpenUnstamped, NewestIsInForce, PTL
=============================================================================
