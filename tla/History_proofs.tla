--------------------------- MODULE History_proofs ---------------------------
(***************************************************************************)
(* Proofs about the audit rows of Workflow, on top of the layers of        *)
(* Workflow_proofs.                                                        *)
(*   Written      a request's rows are there once it is past its COMMIT    *)
(*   Numbered     an id drawn under the row lock is the newest of its kind *)
(*   LedgerReplay (from Workflow) the newest rows say what the case holds  *)
(*   Authorised   who passed the authority filter had been assigned        *)
(*   AllElevated  who passed the re-auth wall has an elevated session      *)
(*   Timed        no row and no transaction bears a time to come           *)
(***************************************************************************)
EXTENDS Workflow_proofs

\* A request has written its rows exactly when it is past its COMMIT.
Written ==
    /\ \A a \in caseActions : pc[a.corr] \in Final \cup {"render"}
    /\ \A d \in disclosures : pc[d.corr] \in Final \cup {"render"}
    /\ \A r \in Req : pc[r] \in {"render", "viewed"} => \E d \in disclosures : d.corr = r

\* The disclosure rows of a case, in the history and in all.
Consumed == {a \in caseActions : a.type = "disclosure_consumed"}
ConsumedRows(c) == {a \in Consumed : a.case = c}

\* The rows whose id tells which of them came last.
Kin(c, op) ==
    CASE op \in {"open", "status"} -> StatusRows(c)
      [] op = "reassign" -> AssigneeRows(c)
      [] op = "disclose" -> ConsumedRows(c)
      [] OTHER -> {}

\* The stages of a request that has drawn the id of its row.
Drawn == {"check", "commit"}

\* An id drawn under the row lock is above every id of its kind in the case.
Numbered ==
    /\ \A a \in caseActions : a.id < nextId /\ cases[a.case] # Null
    /\ \A r \in Req : pc[r] \in Drawn =>
          /\ loc[r].id < nextId
          /\ \A a \in Kin(loc[r].case, loc[r].op) : a.id < loc[r].id

\* A handler that passed the authority filter is a lead or has been assigned.
Authorised(r) ==
    LET l == loc[r] IN
    /\ pc[r] \in Working /\ l.op \in {"open", "reassign", "disclose"} => IsLead(l.user)
    /\ pc[r] \in Working \ {"load"} /\ l.op \in {"status", "note"} =>
          \/ IsLead(l.user)
          \/ \E b \in AssigneeRows(l.case) :
                b.to = l.user /\ (pc[r] \in Drawn => b.id < l.id)

\* A request takes steps of its own only once it has arrived.
LEMMA StepArrived ==
    ASSUME NEW r \in Req, Step(r)
    PROVE  pc[r] # "idle"
  BY DEF Step, BeginTx, Rollback, OpenCaseStep, OpenCaseLock, OpenCaseInsert, OpenCaseCommit,
         StatusStep, StatusLoad, StatusElevate, StatusUpdateCase, StatusUpdateReport,
         StatusCommit, NoteStep, NoteLoad, NoteInsert, NoteCheck, NoteCommit, ReassignStep,
         ReassignTarget, ReassignLoad, ReassignUpdate, ReassignCommit, DiscloseStep,
         DiscloseElevate, DiscloseLock, DiscloseCommit, DiscloseRender, At

-----------------------------------------------------------------------------
(* What one step of request r does to r itself.                            *)

\* r writes one row, about its own case, with its own id and actor.
Wrote(r, id, type, to) ==
    \E a \in ActionRow :
       /\ caseActions' = caseActions \cup {a}
       /\ a.id = id /\ a.type = type /\ a.to = to
       /\ a.case = loc[r].case /\ a.actor = loc[r].user /\ a.corr = r

LEMMA CommitRow ==
    ASSUME Typed, NEW r \in Req
    PROVE  /\ OpenCaseCommit(r) =>
                 /\ At(r, "open", "commit") /\ UNCHANGED disclosures
                 /\ Wrote(r, loc[r].id, "case_opened", loc[r].report)
           /\ StatusCommit(r) =>
                 /\ At(r, "status", "commit") /\ UNCHANGED disclosures
                 /\ Wrote(r, loc[r].id, "status_changed", loc[r].target)
           /\ ReassignCommit(r) =>
                 /\ At(r, "reassign", "commit") /\ UNCHANGED disclosures
                 /\ \E type \in {"assigned", "reassigned"} :
                       Wrote(r, loc[r].id, type, loc[r].target)
           /\ NoteCommit(r) =>
                 /\ At(r, "note", "commit") /\ UNCHANGED disclosures
                 /\ Wrote(r, loc[r].id, "note_added", Null)
           /\ DiscloseCommit(r) =>
                 /\ At(r, "disclose", "commit")
                 /\ Wrote(r, loc[r].id, "disclosure_consumed", Null)
  <1>. DEFINE l == loc[r]
  <1>0. l \in Locals /\ LocalsOK(pc[r], l) /\ nextId \in Nat /\ clock \in Nat
    BY DEF Typed, TypeOK
  <1>1. ASSUME NEW id \in Nat, NEW at \in Nat, NEW type \in ActionType,
               NEW from \in Status \cup User \cup {Null},
               NEW to \in Status \cup User \cup Report \cup {Null},
               l.case \in Case, l.user \in User,
               caseActions' = caseActions \cup {NewAction(r, id, at, l.case, type, from, to)}
        PROVE  Wrote(r, id, type, to)
    <2>. DEFINE a == NewAction(r, id, at, l.case, type, from, to)
    <2>1. a \in ActionRow BY <1>1 DEF NewAction, ActionRow
    <2>2. /\ a.id = id /\ a.type = type /\ a.to = to
          /\ a.case = loc[r].case /\ a.actor = loc[r].user /\ a.corr = r
      BY DEF NewAction
    <2>3. caseActions' = caseActions \cup {a} BY <1>1
    <2>. HIDE DEF a
    <2>. QED BY <2>1, <2>2, <2>3 DEF Wrote
  <1>2. l.id \in Nat /\ l.at \in Nat BY <1>0 DEF Locals
  <1>3. OpenCaseCommit(r) => Wrote(r, l.id, "case_opened", l.report)
    <2>. SUFFICES ASSUME OpenCaseCommit(r) PROVE Wrote(r, l.id, "case_opened", l.report)
      OBVIOUS
    <2>1. l.case \in Case /\ l.user \in User /\ l.report \in Report
      BY <1>0 DEF OpenCaseCommit, At, LocalsOK, OpenLocals, Working, Stage, InTx, Final
    <2>2. caseActions' = caseActions \cup
             {NewAction(r, l.id, l.at, l.case, "case_opened", Null, l.report)}
      BY DEF OpenCaseCommit
    <2>. HIDE DEF l
    <2>. QED BY <1>1, <1>2, <2>1, <2>2 DEF ActionType
  <1>4. StatusCommit(r) => Wrote(r, l.id, "status_changed", l.target)
    <2>. SUFFICES ASSUME StatusCommit(r) PROVE Wrote(r, l.id, "status_changed", l.target)
      OBVIOUS
    <2>1. /\ l.case \in Case /\ l.user \in User
          /\ l.target \in Status /\ l.status \in CaseStatus
      BY <1>0 DEF StatusCommit, At, LocalsOK, StatusLocals, Working, Stage, InTx, Final
    <2>2. caseActions' = caseActions \cup
             {NewAction(r, l.id, l.at, l.case, "status_changed", l.status, l.target)}
      BY DEF StatusCommit
    <2>3. l.status \in Status BY <2>1 DEF CaseStatus
    <2>. HIDE DEF l
    <2>. QED BY <1>1, <1>2, <2>1, <2>2, <2>3 DEF ActionType
  <1>5. ReassignCommit(r) => \E type \in {"assigned", "reassigned"} :
                                Wrote(r, l.id, type, l.target)
    <2>. SUFFICES ASSUME ReassignCommit(r)
                  PROVE  \E type \in {"assigned", "reassigned"} : Wrote(r, l.id, type, l.target)
      OBVIOUS
    <2>. DEFINE type == IF l.assignee = Null THEN "assigned" ELSE "reassigned"
    <2>1. l.case \in Case /\ l.user \in User /\ l.target \in User
      BY <1>0 DEF ReassignCommit, At, LocalsOK, ReassignLocals, Working, Stage, InTx, Final
    <2>2. l.assignee \in User \cup {Null} BY <1>0 DEF Locals
    <2>3. caseActions' = caseActions \cup
             {NewAction(r, l.id, l.at, l.case, type, l.assignee, l.target)}
      BY DEF ReassignCommit
    <2>4. type \in {"assigned", "reassigned"} /\ type \in ActionType BY DEF ActionType
    <2>. HIDE DEF l, type
    <2>. QED BY <1>1, <1>2, <2>1, <2>2, <2>3, <2>4
  <1>6. NoteCommit(r) => Wrote(r, l.id, "note_added", Null)
    <2>. SUFFICES ASSUME NoteCommit(r) PROVE Wrote(r, l.id, "note_added", Null)
      OBVIOUS
    <2>1. l.case \in Case /\ l.user \in User
      BY <1>0 DEF NoteCommit, At, LocalsOK, NoteLocals, Working, Stage, InTx, Final
    <2>2. caseActions' = caseActions \cup
             {NewAction(r, l.id, l.at, l.case, "note_added", Null, Null)}
      BY DEF NoteCommit
    <2>. HIDE DEF l
    <2>. QED BY <1>1, <1>2, <2>1, <2>2 DEF ActionType
  <1>7. DiscloseCommit(r) => Wrote(r, l.id, "disclosure_consumed", Null)
    <2>. SUFFICES ASSUME DiscloseCommit(r) PROVE Wrote(r, l.id, "disclosure_consumed", Null)
      OBVIOUS
    <2>1. l.case \in Case /\ l.user \in User
      BY <1>0 DEF DiscloseCommit, At, LocalsOK, DiscloseLocals, Working, Stage, InTx, Final
    <2>2. caseActions' = caseActions \cup
             {NewAction(r, l.id, l.at, l.case, "disclosure_consumed", Null, Null)}
      BY DEF DiscloseCommit
    <2>. HIDE DEF l
    <2>. QED BY <1>1, <1>2, <2>1, <2>2 DEF ActionType
  <1>. QED
    BY <1>3, <1>4, <1>5, <1>6, <1>7
       DEF OpenCaseCommit, StatusCommit, ReassignCommit, NoteCommit, DiscloseCommit

\* Which stages a request moves between.
LEMMA Moves ==
    ASSUME Typed, Locked, NEW r \in Req, Start(r) \/ Step(r) \/ Cancel(r)
    PROVE  /\ pc[r] \notin Final
           /\ pc[r] = "render" => pc'[r] \in Final
           /\ pc'[r] = "render" => DiscloseCommit(r)
           /\ pc'[r] = "viewed" => pc[r] = "render"
           /\ \A q \in Req \ {r} : pc'[q] = pc[q] /\ loc'[q] = loc[q]
  <1>0. \A q \in Req \ {r} : pc'[q] = pc[q] /\ loc'[q] = loc[q]
    BY StartFramed, StepFramed, CancelFramed DEF Framed
  <1>1. ASSUME NEW s, Goto(r, s) PROVE pc'[r] = s
    BY <1>1 DEF Goto, Typed, TypeOK
  <1>2. ASSUME NEW f \in Final, Return(r, f) PROVE pc'[r] = f
    BY <1>2, ReturnFacts
  <1>3. ASSUME EndTx(r) \/ Dismiss(r) PROVE pc'[r] = "done"
    BY <1>2, <1>3 DEF EndTx, Dismiss, Final
  <1>4. CASE Start(r)
    <2>1. ASSUME NEW l, NEW min, NEW s, s \in {"begin", "load", "target", "elevate"},
                 Arrive(r, l, min, s)
          PROVE  pc[r] = "idle" /\ pc'[r] \in {s, "done"}
      BY <1>1, <1>2, <2>1 DEF Arrive, Final
    <2>2. pc[r] = "idle" /\ pc'[r] \in {"begin", "load", "target", "elevate", "done"}
      BY <1>4, <2>1, Zenon
         DEF Start, StartOpenCase, StartStatus, StartNote, StartReassign, StartDisclose
    <2>. QED BY <1>0, <2>2 DEF Final
  <1>5. CASE Cancel(r)
    BY <1>0, <1>3, <1>5 DEF Cancel, InFlight, Final
  <1>6. CASE BeginTx(r) \/ Rollback(r)
    BY <1>0, <1>1, <1>3, <1>6 DEF BeginTx, Rollback, Final
  <1>7. CASE OpenCaseStep(r)
    BY <1>0, <1>1, <1>3, <1>7
       DEF OpenCaseStep, OpenCaseLock, OpenCaseInsert, OpenCaseCommit, At, Final
  <1>8. CASE StatusStep(r)
    BY <1>0, <1>1, <1>3, <1>8
       DEF StatusStep, StatusLoad, StatusElevate, StatusUpdateCase, StatusUpdateReport,
           StatusCommit, At, Final
  <1>9. CASE NoteStep(r)
    BY <1>0, <1>1, <1>3, <1>9
       DEF NoteStep, NoteLoad, NoteInsert, NoteCheck, NoteCommit, At, Final
  <1>10. CASE ReassignStep(r)
    BY <1>0, <1>1, <1>3, <1>10
       DEF ReassignStep, ReassignTarget, ReassignLoad, ReassignUpdate, ReassignCommit, At, Final
  <1>11. CASE DiscloseStep(r)
    BY <1>0, <1>1, <1>2, <1>3, <1>11
       DEF DiscloseStep, DiscloseElevate, DiscloseLock, DiscloseCommit, DiscloseRender, At, Final
  <1>. QED BY <1>4, <1>5, <1>6, <1>7, <1>8, <1>9, <1>10, <1>11 DEF Step

\* The row a step of r adds to the history, if it adds one.
LEMMA StepAppends ==
    ASSUME Typed, NEW r \in Req, Start(r) \/ Step(r) \/ Cancel(r)
    PROVE  \/ UNCHANGED caseActions
           \/ \E id, type, to : Wrote(r, id, type, to)
  <1>1. Start(r) \/ Cancel(r) => UNCHANGED tables
    BY DEF Start, StartOpenCase, StartStatus, StartNote, StartReassign, StartDisclose,
           Arrive, Cancel
  <1>. QED BY <1>1, StepWrites, CommitRow DEF tables

-----------------------------------------------------------------------------
(* Rows and responses.                                                     *)

\* The requests past their COMMIT, which is where r's rows come from.
LEMMA WrittenByRequest ==
    ASSUME Typed, Locked, Written, NEW r \in Req, Start(r) \/ Step(r) \/ Cancel(r)
    PROVE  Written'
  <1>. USE Moves
  <1>0. /\ \A a \in caseActions : a.corr \in Req
        /\ \A d \in disclosures : d.corr \in Req
    BY DEF Typed, TypeOK, ActionRow, DisclosureRow
  <1>1. \A q \in Req : pc[q] \in Final \cup {"render"} => pc'[q] \in Final \cup {"render"}
    BY DEF Final
  <1>2. ASSUME NEW id, NEW type, NEW to, Wrote(r, id, type, to),
               pc'[r] \in Final \cup {"render"}
        PROVE  \A a \in caseActions' : pc'[a.corr] \in Final \cup {"render"}
    BY <1>0, <1>1, <1>2 DEF Wrote, Written
  <1>3. ASSUME EndTx(r) \/ Return(r, "done") PROVE pc'[r] \in Final
    BY <1>3, ReturnFacts DEF EndTx, Final
  <1>4. CASE UNCHANGED tables
    <2>1. pc'[r] # "render" BY <1>4, CommitRow DEF tables, Wrote, Written, At, Final
    <2>. QED BY <1>0, <1>1, <1>4, <2>1 DEF tables, Written, Final
  <1>5. CASE OpenCaseCommit(r) \/ StatusCommit(r) \/ ReassignCommit(r) \/ NoteCommit(r)
    <2>1. pc'[r] \in Final
      BY <1>3, <1>5 DEF OpenCaseCommit, StatusCommit, ReassignCommit, NoteCommit
    <2>2. UNCHANGED disclosures /\ \E id, type, to : Wrote(r, id, type, to)
      BY <1>5, CommitRow
    <2>3. \A a \in caseActions' : pc'[a.corr] \in Final \cup {"render"}
      BY <1>2, <2>1, <2>2
    <2>. QED BY <1>0, <1>1, <2>1, <2>2, <2>3 DEF Written, Final
  <1>6. CASE DiscloseCommit(r)
    <2>. DEFINE dis == [case |-> loc[r].case, requestedBy |-> loc[r].user,
                        at |-> loc[r].at, corr |-> r]
    <2>1. disclosures' = disclosures \cup {dis} /\ dis.corr = r
      BY <1>6 DEF DiscloseCommit
    <2>2. pc'[r] = "render" BY <1>6 DEF DiscloseCommit, Goto, Typed, TypeOK
    <2>3. \A a \in caseActions' : pc'[a.corr] \in Final \cup {"render"}
      BY <1>2, <1>6, <2>2, CommitRow
    <2>. HIDE DEF dis
    <2>. QED BY <1>0, <1>1, <2>1, <2>2, <2>3 DEF Written
  <1>7. Start(r) \/ Cancel(r) => UNCHANGED tables
    BY DEF Start, StartOpenCase, StartStatus, StartNote, StartReassign, StartDisclose,
           Arrive, Cancel
  <1>. QED BY <1>4, <1>5, <1>6, <1>7, StepWrites

LEMMA WrittenStep ==
    ASSUME Typed, Locked, Written, [Next]_vars
    PROVE  Written'
  <1>1. UNCHANGED <<caseActions, disclosures, requests>> => Written'
    BY DEF Written, requests
  <1>2. ASSUME NEW p \in Report, Submit(p) PROVE Written'
    BY <1>1, <1>2 DEF Submit
  <1>3. ASSUME NEW u \in User, Framework(u) PROVE Written'
    BY <1>1, <1>3, FrameworkQuiet DEF tables
  <1>4. UNCHANGED vars => Written' BY <1>1 DEF vars, tables
  <1>. QED BY <1>2, <1>3, <1>4, WrittenByRequest DEF Next, Quiescent

LEMMA InitWritten == Init => Written
  BY DEF Init, Written

THEOREM RowsAfterCommit == Spec => []Written
  BY Layered, InitWritten, WrittenStep, PTL DEF Spec

\* A response that shows an e-mail leaves only after the COMMIT that logged
\* the disclosure (do_disclose, disclosure.rs), whatever fails in between.
THEOREM EveryViewingLogged == Spec => []ViewingIsLogged
  <1>1. Written => ViewingIsLogged BY DEF Written, ViewingIsLogged
  <1>. QED BY <1>1, RowsAfterCommit, PTL

-----------------------------------------------------------------------------
(* The two records of a disclosure.                                        *)

Match(d, a) ==
    d.corr = a.corr /\ d.case = a.case /\ d.requestedBy = a.actor /\ d.at = a.at

\* DisclosuresPaired without its sets of tuples.
Paired ==
    /\ \A d \in disclosures : \E a \in Consumed : Match(d, a)
    /\ \A a \in Consumed : \E d \in disclosures : Match(d, a)
    /\ \A a, b \in Consumed : a.corr = b.corr => a = b

LEMMA PairedSets == Paired => DisclosuresPaired
  <1>. DEFINE D(d) == <<d.corr, d.case, d.requestedBy, d.at>>
              A(a) == <<a.corr, a.case, a.actor, a.at>>
  <1>1. \A d, a : Match(d, a) => D(d) = A(a) BY DEF Match
  <1>. HIDE DEF D, A
  <1>2. Paired => {D(d) : d \in disclosures} = {A(a) : a \in Consumed}
    <2>. SUFFICES ASSUME Paired
                  PROVE  {D(d) : d \in disclosures} = {A(a) : a \in Consumed}
      OBVIOUS
    <2>1. \A d \in disclosures : \E a \in Consumed : D(d) = A(a) BY <1>1 DEF Paired
    <2>2. \A a \in Consumed : \E d \in disclosures : D(d) = A(a) BY <1>1 DEF Paired
    <2>. QED BY <2>1, <2>2
  <1>. QED BY <1>2 DEF Paired, DisclosuresPaired, Consumed, D, A

LEMMA PairedStep ==
    ASSUME Typed, Locked, Written, Paired, [Next]_vars
    PROVE  Paired'
  <1>1. ASSUME Consumed' = Consumed, disclosures' = disclosures PROVE Paired'
    BY <1>1 DEF Paired
  <1>2. ASSUME NEW r \in Req,
               OpenCaseCommit(r) \/ StatusCommit(r) \/ ReassignCommit(r) \/ NoteCommit(r)
        PROVE  Paired'
    <2>1. UNCHANGED disclosures
      BY <1>2, CommitRow
    <2>2. ASSUME NEW id, NEW type, NEW to, type # "disclosure_consumed", Wrote(r, id, type, to)
          PROVE  Consumed' = Consumed
      BY <2>2 DEF Wrote, Consumed
    <2>3. Consumed' = Consumed
      BY <1>2, <2>2, CommitRow
    <2>. QED BY <1>1, <2>1, <2>3
  <1>3. ASSUME NEW r \in Req, DiscloseCommit(r) PROVE Paired'
    <2>. DEFINE l == loc[r]
                d == [case |-> l.case, requestedBy |-> l.user, at |-> l.at, corr |-> r]
                a == NewAction(r, l.id, l.at, l.case, "disclosure_consumed", Null, Null)
    <2>1. /\ disclosures' = disclosures \cup {d} /\ caseActions' = caseActions \cup {a}
          /\ pc[r] = "commit"
      BY <1>3 DEF DiscloseCommit, At
    <2>2. Match(d, a) /\ a.corr = r /\ a.type = "disclosure_consumed" BY DEF Match, NewAction
    <2>. HIDE DEF a, d
    <2>3. Consumed' = Consumed \cup {a} BY <2>1, <2>2 DEF Consumed
    <2>4. \A b \in Consumed : b.corr # r BY <2>1 DEF Written, Consumed, Final
    <2>. QED BY <2>1, <2>2, <2>3, <2>4 DEF Paired, Match
  <1>4. ASSUME NEW p \in Report, Submit(p) PROVE Paired'
    BY <1>1, <1>4 DEF Submit, Consumed
  <1>5. UNCHANGED tables => Paired' BY <1>1 DEF tables, Consumed
  <1>. QED BY <1>2, <1>3, <1>4, <1>5, NextWrites

\* A disclosure is in both audit tables or in neither, once in each: the two
\* INSERTs of do_disclose (disclosure.rs) share a transaction.
THEOREM DisclosuresInBothTables == Spec => []DisclosuresPaired
  <1>1. Init => Paired BY DEF Init, Paired, Consumed
  <1>. QED BY <1>1, Layered, RowsAfterCommit, PairedStep, PairedSets, PTL DEF Spec

-----------------------------------------------------------------------------
(* Ids.                                                                    *)

\* A request draws its id in the last step before its COMMIT, a note in the
\* step before its foreign key is checked; it keeps its handler, its account,
\* its target and, unless it creates it, its case.
LEMMA Carries ==
    ASSUME Typed, Locked, NEW r \in Req, Start(r) \/ Step(r) \/ Cancel(r)
    PROVE  /\ pc'[r] \in Drawn =>
                 /\ Step(r) /\ UNCHANGED tables
                 /\ \/ loc'[r].id = nextId /\ nextId' = nextId + 1
                    \/ pc[r] = "check" /\ loc'[r] = loc[r]
           /\ Step(r) /\ pc'[r] \in Working =>
                 /\ loc'[r].op = loc[r].op /\ loc'[r].user = loc[r].user
                 /\ loc'[r].target = loc[r].target
                 /\ loc[r].op # "open" => loc'[r].case = loc[r].case
           /\ nextId' \in {nextId, nextId + 1}
  <1>. DEFINE Goal == /\ pc'[r] \in Drawn =>
                            /\ UNCHANGED tables
                            /\ \/ loc'[r].id = nextId /\ nextId' = nextId + 1
                               \/ pc[r] = "check" /\ loc'[r] = loc[r]
                      /\ pc'[r] \in Working =>
                            /\ loc'[r].op = loc[r].op /\ loc'[r].user = loc[r].user
                            /\ loc'[r].target = loc[r].target
                            /\ loc[r].op # "open" => loc'[r].case = loc[r].case
                      /\ nextId' \in {nextId, nextId + 1}
  <1>1. ASSUME NEW s, Goto(r, s) PROVE pc'[r] = s
    BY <1>1 DEF Goto, Typed, TypeOK
  <1>2. ASSUME NEW f \in Final, Return(r, f) PROVE pc'[r] = f
    BY <1>2, ReturnFacts
  <1>3. ASSUME EndTx(r) \/ Dismiss(r), nextId' \in {nextId, nextId + 1} PROVE Goal
    <2>1. pc'[r] = "done" BY <1>2, <1>3 DEF EndTx, Dismiss, Final
    <2>. QED BY <1>3, <2>1 DEF Working, Final, Drawn
  <1>4. ASSUME NEW s, s \notin Drawn, Goto(r, s), UNCHANGED <<loc, nextId>> PROVE Goal
    BY <1>1, <1>4
  <1>5. loc[r] \in Locals BY DEF Typed, TypeOK
  <1>6. CASE Start(r)
    <2>1. ASSUME NEW l, NEW min, NEW s, s \in {"begin", "load", "target", "elevate"},
                 Arrive(r, l, min, s)
          PROVE  pc[r] = "idle" /\ pc'[r] \notin Drawn /\ nextId' = nextId
      BY <1>1, <1>2, <2>1 DEF Arrive, Final, counters, Drawn
    <2>2. pc[r] = "idle" /\ pc'[r] \notin Drawn /\ nextId' = nextId
      BY <1>6, <2>1, Zenon
         DEF Start, StartOpenCase, StartStatus, StartNote, StartReassign, StartDisclose
    <2>3. ~Step(r) BY <2>2, StepArrived
    <2>. QED BY <2>2, <2>3
  <1>7. CASE Cancel(r)
    <2>1. nextId' = nextId /\ EndTx(r) BY <1>7 DEF Cancel, counters
    <2>2. pc'[r] = "done" BY <1>2, <2>1 DEF EndTx, Final
    <2>. QED BY <2>1, <2>2 DEF Working, Final, Drawn
  <1>8. CASE BeginTx(r)
    <2>1. pc'[r] = "lock" /\ nextId' = nextId BY <1>1, <1>8 DEF BeginTx
    <2>2. loc'[r] = [loc[r] EXCEPT !.at = clock] BY <1>8 DEF BeginTx, Typed, TypeOK
    <2>3. Goal BY <1>5, <2>1, <2>2 DEF Locals, Drawn
    <2>. QED BY <1>8, <2>1, <2>3 DEF Step
  <1>8a. CASE Rollback(r)
    <2>1. Goal BY <1>3, <1>8a DEF Rollback, counters
    <2>. QED BY <1>8a, <2>1 DEF Step
  <1>9. ASSUME NEW c, pc'[r] = "commit", nextId' = nextId + 1, UNCHANGED tables,
               \/ loc' = [loc EXCEPT ![r].id = nextId]
               \/ loc[r].op = "open" /\ loc' = [loc EXCEPT ![r].case = c, ![r].id = nextId]
        PROVE  Goal
    <2>1. \/ loc'[r] = [loc[r] EXCEPT !.id = nextId]
          \/ loc[r].op = "open" /\ loc'[r] = [loc[r] EXCEPT !.case = c, !.id = nextId]
      BY <1>9 DEF Typed, TypeOK
    <2>. QED BY <1>5, <1>9, <2>1 DEF Locals
  <1>. HIDE DEF Goal
  <1>10. CASE OpenCaseStep(r)
    <2>1. OpenCaseLock(r) => Goal BY <1>4 DEF OpenCaseLock, counters, Drawn
    <2>2. OpenCaseInsert(r) => Goal
      BY <1>1, <1>9 DEF OpenCaseInsert, At
    <2>3. OpenCaseCommit(r) => Goal BY <1>3 DEF OpenCaseCommit, counters
    <2>. QED BY <1>10, <2>1, <2>2, <2>3 DEF OpenCaseStep, Goal, Step
  <1>11. CASE StatusStep(r)
    <2>1. ASSUME StatusLoad(r) PROVE Goal
      <3>1. nextId' = nextId BY <2>1 DEF StatusLoad, Dismiss, counters
      <3>2. CASE Dismiss(r) BY <1>3, <3>1, <3>2
      <3>3. CASE /\ loc' = [loc EXCEPT ![r].report = cases[loc[r].case].report,
                                       ![r].status = cases[loc[r].case].status]
                 /\ Goto(r, IF RequiresReauth(loc[r].target) THEN "elevate" ELSE "begin")
        <4>1. loc'[r] = [loc[r] EXCEPT !.report = cases[loc[r].case].report,
                                       !.status = cases[loc[r].case].status]
          BY <3>3 DEF Typed, TypeOK
        <4>2. pc'[r] \notin Drawn BY <1>1, <3>3 DEF Drawn
        <4>. QED BY <1>5, <3>1, <4>1, <4>2 DEF Goal, Locals
      <3>. QED BY <2>1, <3>2, <3>3 DEF StatusLoad
    <2>2. StatusElevate(r) => Goal BY <1>3, <1>4 DEF StatusElevate, Dismiss, counters, Drawn
    <2>3. StatusUpdateCase(r) => Goal BY <1>4 DEF StatusUpdateCase, counters, Drawn
    <2>4. StatusUpdateReport(r) => Goal BY <1>1, <1>9 DEF StatusUpdateReport
    <2>5. StatusCommit(r) => Goal BY <1>3 DEF StatusCommit, counters
    <2>. QED BY <1>11, <2>1, <2>2, <2>3, <2>4, <2>5 DEF StatusStep, Goal, Step
  <1>12. CASE NoteStep(r)
    <2>1. NoteLoad(r) => Goal BY <1>3, <1>4 DEF NoteLoad, Dismiss, counters, Drawn
    <2>2. ASSUME NoteInsert(r) PROVE Goal
      <3>1. loc'[r] = [loc[r] EXCEPT !.at = clock, !.id = nextId] /\ nextId' = nextId + 1
        BY <2>2 DEF NoteInsert, Typed, TypeOK
      <3>2. /\ loc'[r].op = loc[r].op /\ loc'[r].user = loc[r].user
            /\ loc'[r].target = loc[r].target /\ loc'[r].case = loc[r].case
            /\ loc'[r].id = nextId
        BY <1>5, <3>1 DEF Locals
      <3>3. UNCHANGED tables BY <2>2 DEF NoteInsert
      <3>. QED BY <3>1, <3>2, <3>3 DEF Goal
    <2>3. ASSUME NoteCheck(r) PROVE Goal
      <3>1. pc[r] = "check" /\ loc' = loc /\ nextId' = nextId /\ UNCHANGED tables
        BY <2>3 DEF NoteCheck, At, counters
      <3>. QED BY <3>1 DEF Goal
    <2>4. NoteCommit(r) => Goal BY <1>3 DEF NoteCommit, counters
    <2>. QED BY <1>12, <2>1, <2>2, <2>3, <2>4 DEF NoteStep, Goal, Step
  <1>13. CASE ReassignStep(r)
    <2>1. ReassignTarget(r) => Goal BY <1>3, <1>4 DEF ReassignTarget, Dismiss, counters, Drawn
    <2>2. ASSUME ReassignLoad(r) PROVE Goal
      <3>1. nextId' = nextId BY <2>2 DEF ReassignLoad, Dismiss, counters
      <3>2. CASE Dismiss(r) BY <1>3, <3>1, <3>2
      <3>3. CASE /\ loc' = [loc EXCEPT ![r].assignee = cases[loc[r].case].assignee]
                 /\ Goto(r, "begin")
        <4>1. loc'[r] = [loc[r] EXCEPT !.assignee = cases[loc[r].case].assignee]
          BY <3>3 DEF Typed, TypeOK
        <4>2. pc'[r] \notin Drawn BY <1>1, <3>3 DEF Drawn
        <4>. QED BY <1>5, <3>1, <4>1, <4>2 DEF Goal, Locals
      <3>. QED BY <2>2, <3>2, <3>3 DEF ReassignLoad
    <2>3. ReassignUpdate(r) => Goal BY <1>1, <1>9 DEF ReassignUpdate
    <2>4. ReassignCommit(r) => Goal BY <1>3 DEF ReassignCommit, counters
    <2>. QED BY <1>13, <2>1, <2>2, <2>3, <2>4 DEF ReassignStep, Goal, Step
  <1>14. CASE DiscloseStep(r)
    <2>1. ASSUME NEW f \in Final, Return(r, f), nextId' = nextId PROVE Goal
      <3>1. pc'[r] \notin Working /\ pc'[r] \notin Drawn
        BY <1>2, <2>1 DEF Working, Final, Drawn
      <3>. QED BY <2>1, <3>1 DEF Goal
    <2>2. DiscloseElevate(r) => Goal
      BY <1>4, <2>1 DEF DiscloseElevate, Final, counters, Drawn
    <2>3. DiscloseLock(r) => Goal BY <1>1, <1>4, <1>9 DEF DiscloseLock, Drawn
    <2>4. DiscloseCommit(r) => Goal BY <1>4 DEF DiscloseCommit, counters, Drawn
    <2>5. DiscloseRender(r) => Goal BY <2>1 DEF DiscloseRender, Final, counters
    <2>. QED BY <1>14, <2>2, <2>3, <2>4, <2>5 DEF DiscloseStep, Goal, Step
  <1>. QED BY <1>6, <1>7, <1>8, <1>8a, <1>10, <1>11, <1>12, <1>13, <1>14 DEF Step

LEMMA NumberedByRequest ==
    ASSUME Typed, Locked, Numbered, NEW r \in Req, Start(r) \/ Step(r) \/ Cancel(r)
    PROVE  Numbered'
  <1>. DEFINE c == loc[r].case
              Writers == {"open", "status", "reassign", "disclose"}
  <1>0. /\ Framed(r) /\ Typed' /\ nextId \in Nat /\ nextId' \in Nat /\ nextId <= nextId'
        /\ \A a \in caseActions : a \in ActionRow
    <2>1. Framed(r) BY StartFramed, StepFramed, CancelFramed
    <2>2. Typed' BY StartTyped, StepTyped, CancelTyped
    <2>3. nextId \in Nat /\ \A a \in caseActions : a \in ActionRow BY DEF Typed, TypeOK
    <2>. QED BY <2>1, <2>2, <2>3, Carries
  <1>1. ASSUME UNCHANGED caseActions
        PROVE  Numbered'
    <2>1. \A a \in caseActions : a.id < nextId' /\ cases'[a.case] # Null
      BY <1>0 DEF Numbered, Framed, Persist, ActionRow
    <2>2. ASSUME NEW q \in Req, pc'[q] \in Drawn
          PROVE  /\ loc'[q].id < nextId'
                 /\ \A a \in Kin(loc'[q].case, loc'[q].op) : a.id < loc'[q].id
      <3>1. CASE q # r
        <4>1. pc[q] \in Drawn /\ loc'[q] = loc[q] BY <1>0, <2>2, <3>1 DEF Framed
        <4>2. loc[q].id < nextId /\ \A a \in Kin(loc[q].case, loc[q].op) : a.id < loc[q].id
          BY <4>1 DEF Numbered
        <4>3. loc[q].id \in Nat BY DEF Typed, TypeOK, Locals
        <4>. QED BY <1>0, <4>1, <4>2, <4>3
      <3>2. CASE q = r
        <4>1. CASE loc'[q].id = nextId /\ nextId' = nextId + 1
          <5>1. \A a \in caseActions : a.id < nextId BY DEF Numbered
          <5>. QED BY <1>0, <4>1, <5>1 DEF Kin, StatusRows, AssigneeRows, ConsumedRows, Consumed
        <4>2. CASE pc[q] = "check" /\ loc'[q] = loc[q]
          <5>1. loc[q].id < nextId /\ \A a \in Kin(loc[q].case, loc[q].op) : a.id < loc[q].id
            BY <4>2 DEF Numbered, Drawn
          <5>2. loc[q].id \in Nat BY DEF Typed, TypeOK, Locals
          <5>. QED BY <1>0, <4>2, <5>1, <5>2
        <4>. QED BY <2>2, <3>2, <4>1, <4>2, Carries
      <3>. QED BY <3>1, <3>2
    <2>. QED BY <1>1, <2>1, <2>2 DEF Numbered, Kin, StatusRows, AssigneeRows, ConsumedRows, Consumed
  <1>2. ASSUME NEW id \in Nat, NEW type, NEW to, Wrote(r, id, type, to), id < nextId',
               cases'[c] # Null, pc'[r] \notin Drawn,
               \A q \in Req \ {r} : pc[q] \in Drawn /\ loc[q].case = c =>
                  \/ loc[q].op \in {"open", "status"} /\ type \notin {"case_opened", "status_changed"}
                  \/ loc[q].op = "reassign" /\ type \notin {"assigned", "reassigned"}
                  \/ loc[q].op = "disclose" /\ type # "disclosure_consumed"
                  \/ loc[q].op \notin {"open", "status", "reassign", "disclose"}
        PROVE  Numbered'
    <2>0. PICK row \in ActionRow :
             /\ caseActions' = caseActions \cup {row}
             /\ row.id = id /\ row.type = type /\ row.case = c
      BY <1>2 DEF Wrote
    <2>1. \A a \in caseActions' : a.id < nextId' /\ cases'[a.case] # Null
      BY <1>0, <1>2, <2>0 DEF Numbered, Framed, Persist, ActionRow
    <2>2. ASSUME NEW q \in Req, pc'[q] \in Drawn
          PROVE  /\ loc'[q].id < nextId'
                 /\ (\A a \in Kin(loc[q].case, loc[q].op) : a.id < loc[q].id)'
      <3>1. q # r /\ pc[q] \in Drawn /\ loc'[q] = loc[q] BY <1>0, <1>2, <2>2 DEF Framed
      <3>2. loc[q].id < nextId /\ \A a \in Kin(loc[q].case, loc[q].op) : a.id < loc[q].id
        BY <3>1 DEF Numbered
      <3>3. loc[q].id \in Nat BY DEF Typed, TypeOK, Locals
      <3>4. ASSUME NEW a \in Kin(loc[q].case, loc[q].op)' PROVE a.id < loc[q].id
        <4>1. loc'[q].case = loc[q].case /\ loc'[q].op = loc[q].op BY <3>1
        <4>2. a \in caseActions \/ a = row
          BY <2>0, <4>1 DEF Kin, StatusRows, AssigneeRows, ConsumedRows, Consumed
        <4>3. a # row BY <1>2, <2>0, <3>1, <4>1 DEF Kin, StatusRows, AssigneeRows, ConsumedRows, Consumed
        <4>4. a \in Kin(loc[q].case, loc[q].op)
          BY <4>1, <4>2, <4>3 DEF Kin, StatusRows, AssigneeRows, ConsumedRows, Consumed
        <4>. QED BY <3>2, <4>4
      <3>. QED BY <1>0, <3>1, <3>2, <3>3, <3>4
    <2>. QED BY <2>1, <2>2 DEF Numbered
  <1>3. \A q \in Req : pc[q] = "commit" => loc[q].id \in Nat /\ loc[q].id < nextId
    BY DEF Numbered, Drawn, Typed, TypeOK, Locals
  <1>4. \A q \in Req \ {r} : pc[q] \in Drawn /\ loc[q].op \in Writers =>
           caseLock[loc[q].case] = q
    <2>1. \A q \in Req : pc[q] = "check" => loc[q].op = "note"
      BY DEF Typed, LocalsOK, OpenLocals, StatusLocals, NoteLocals, ReassignLocals,
             DiscloseLocals, Working, Stage, InTx, Final
    <2>. QED BY <2>1 DEF Locked, Holds, At, Drawn
  <1>5. CASE OpenCaseCommit(r) \/ StatusCommit(r) \/ ReassignCommit(r)
    <2>1. pc[r] = "commit" /\ loc[r].op \in {"open", "status", "reassign"}
      BY <1>5, CommitRow DEF At
    <2>2. caseLock[c] = r BY <2>1 DEF Locked, Holds, At
    <2>3. cases'[c] # Null
      BY <1>5, OpenCommitFacts, StatusCommitFacts, ReassignCommitFacts
    <2>4. pc'[r] \notin Drawn
      BY <1>5, ReturnFacts DEF OpenCaseCommit, StatusCommit, ReassignCommit, EndTx, Final, Drawn
    <2>5. PICK type, to : Wrote(r, loc[r].id, type, to) BY <1>5, CommitRow
    <2>6. \A q \in Req \ {r} : pc[q] \in Drawn /\ loc[q].case = c =>
             loc[q].op \notin Writers
      BY <1>4, <2>2
    <2>. QED BY <1>0, <1>2, <1>3, <2>1, <2>3, <2>4, <2>5, <2>6
  <1>6. CASE NoteCommit(r)
    <2>1. Wrote(r, loc[r].id, "note_added", Null) /\ pc[r] = "commit" BY <1>6, CommitRow DEF At
    <2>2. cases[c] # Null /\ c \in Case
      BY <1>6 DEF NoteCommit, At, Typed, LocalsOK, NoteLocals, Working, Stage, InTx, Final
    <2>3. pc'[r] \notin Drawn
      BY <1>6, ReturnFacts DEF NoteCommit, EndTx, Final, Drawn
    <2>4. cases'[c] # Null BY <1>0, <2>2 DEF Framed, Persist
    <2>. QED BY <1>0, <1>2, <1>3, <2>1, <2>3, <2>4
  <1>7. CASE DiscloseCommit(r)
    <2>1. Wrote(r, loc[r].id, "disclosure_consumed", Null) /\ pc[r] = "commit"
      BY <1>7, CommitRow DEF At
    <2>2. cases[c] # Null /\ c \in Case
      BY <1>7 DEF DiscloseCommit, At, Typed, LocalsOK, DiscloseLocals, Working, Stage, InTx, Final
    <2>3. pc'[r] \notin Drawn BY <1>7 DEF DiscloseCommit, Goto, Typed, TypeOK, Drawn
    <2>4. caseLock[c] = r BY <1>7 DEF DiscloseCommit, Locked, Holds
    <2>5. \A q \in Req \ {r} : pc[q] \in Drawn /\ loc[q].case = c => loc[q].op \notin Writers
      BY <1>4, <2>4
    <2>6. cases'[c] # Null BY <1>0, <2>2 DEF Framed, Persist
    <2>. QED BY <1>0, <1>2, <1>3, <2>1, <2>3, <2>5, <2>6
  <1>8. Start(r) \/ Cancel(r) => UNCHANGED tables
    BY DEF Start, StartOpenCase, StartStatus, StartNote, StartReassign, StartDisclose,
           Arrive, Cancel
  <1>. QED BY <1>1, <1>5, <1>6, <1>7, <1>8, StepWrites DEF tables

LEMMA NumberedStep ==
    ASSUME Typed, Locked, Numbered, [Next]_vars
    PROVE  Numbered'
  <1>1. UNCHANGED <<caseActions, cases, nextId, requests>> => Numbered'
    BY DEF Numbered, Kin, StatusRows, AssigneeRows, ConsumedRows, Consumed, requests
  <1>2. ASSUME NEW p \in Report, Submit(p) PROVE Numbered'
    BY <1>1, <1>2 DEF Submit, counters
  <1>3. ASSUME NEW u \in User, Framework(u) PROVE Numbered'
    BY <1>1, <1>3, FrameworkQuiet DEF tables, counters
  <1>4. UNCHANGED vars => Numbered' BY <1>1 DEF vars, tables, counters
  <1>. QED BY <1>2, <1>3, <1>4, NumberedByRequest DEF Next, Quiescent

LEMMA InitNumbered == Init => Numbered
  BY DEF Init, Numbered, Drawn

-----------------------------------------------------------------------------
(* Replaying the history.                                                  *)

\* LedgerReplay, case by case.
StatusReplayed(c) ==
    \E a \in StatusRows(c) : IsNewest(a, StatusRows(c)) /\ StatusSaid(a) = cases[c].status
AssigneeReplayed(c) ==
    IF cases[c].assignee = Null
    THEN AssigneeRows(c) = {}
    ELSE \E a \in AssigneeRows(c) :
            IsNewest(a, AssigneeRows(c)) /\ a.to = cases[c].assignee

\* A row of a kind joins, newer than the others of its kind; the rest stay.
LEMMA RowsJoin ==
    ASSUME NEW c \in Case, NEW row \in ActionRow, caseActions' = caseActions \cup {row},
           row.case = c
    PROVE  /\ \A d \in Case \ {c} :
                 StatusRows(d)' = StatusRows(d) /\ AssigneeRows(d)' = AssigneeRows(d)
           /\ row.type \notin {"case_opened", "status_changed"} =>
                 StatusRows(c)' = StatusRows(c)
           /\ row.type \in {"case_opened", "status_changed"} =>
                 StatusRows(c)' = StatusRows(c) \cup {row}
           /\ row.type \notin {"assigned", "reassigned"} =>
                 AssigneeRows(c)' = AssigneeRows(c)
           /\ row.type \in {"assigned", "reassigned"} =>
                 AssigneeRows(c)' = AssigneeRows(c) \cup {row}
  BY DEF StatusRows, AssigneeRows

LEMMA ReplayKept ==
    ASSUME NEW d \in Case, StatusRows(d)' = StatusRows(d), AssigneeRows(d)' = AssigneeRows(d),
           cases'[d].status = cases[d].status, cases'[d].assignee = cases[d].assignee,
           StatusReplayed(d), AssigneeReplayed(d)
    PROVE  StatusReplayed(d)' /\ AssigneeReplayed(d)'
  BY DEF StatusReplayed, AssigneeReplayed, IsNewest, StatusSaid

LEMMA ReplayStep ==
    ASSUME Typed, Locked, Numbered, LedgerReplay, [Next]_vars
    PROVE  LedgerReplay'
  <1>0. \A c \in Case : cases[c] # Null => StatusReplayed(c) /\ AssigneeReplayed(c)
    BY DEF LedgerReplay, Opened, StatusReplayed, AssigneeReplayed
  <1>1. SUFFICES ASSUME NEW d \in Case, cases'[d] # Null
                 PROVE  StatusReplayed(d)' /\ AssigneeReplayed(d)'
    BY DEF LedgerReplay, Opened, StatusReplayed, AssigneeReplayed
  <1>2. ASSUME UNCHANGED <<cases, caseActions>>
        PROVE  StatusReplayed(d)' /\ AssigneeReplayed(d)'
    <2>1. StatusRows(d)' = StatusRows(d) /\ AssigneeRows(d)' = AssigneeRows(d)
      BY <1>2 DEF StatusRows, AssigneeRows
    <2>. QED BY <1>0, <1>1, <1>2, <2>1, ReplayKept
  <1>3. \A a \in caseActions : a \in ActionRow /\ a.id \in Nat
    BY DEF Typed, TypeOK, ActionRow
  <1>4. ASSUME NEW r \in Req, OpenCaseCommit(r)
        PROVE  StatusReplayed(d)' /\ AssigneeReplayed(d)'
    <2>0. PICK c : c = loc[r].case OBVIOUS
    <2>1. /\ c \in Case /\ cases[c] = Null
          /\ cases'[c].status = "triage" /\ cases'[c].assignee = Null
          /\ \A e \in Case \ {c} : cases'[e] = cases[e]
      BY <1>4, <2>0, OpenCommitFacts
    <2>2. PICK row \in ActionRow :
             /\ caseActions' = caseActions \cup {row}
             /\ row.type = "case_opened" /\ row.case = c
      BY <1>4, <2>0, CommitRow DEF Wrote
    <2>3. CASE d = c
      <3>1. StatusRows(c) = {} /\ AssigneeRows(c) = {}
        BY <2>1 DEF Numbered, StatusRows, AssigneeRows
      <3>2. StatusRows(c)' = {row} /\ AssigneeRows(c)' = {}
        BY <2>1, <2>2, <3>1, RowsJoin
      <3>3. row.id <= row.id BY DEF ActionRow
      <3>. QED
        BY <2>1, <2>2, <2>3, <3>2, <3>3
           DEF StatusReplayed, AssigneeReplayed, IsNewest, StatusSaid
    <2>4. CASE d # c
      <3>1. StatusRows(d)' = StatusRows(d) /\ AssigneeRows(d)' = AssigneeRows(d)
        BY <2>1, <2>2, <2>4, RowsJoin
      <3>2. cases'[d] = cases[d] BY <2>1, <2>4
      <3>. QED BY <1>0, <1>1, <3>1, <3>2, ReplayKept
    <2>. QED BY <2>3, <2>4
  <1>5. ASSUME NEW r \in Req, StatusCommit(r)
        PROVE  StatusReplayed(d)' /\ AssigneeReplayed(d)'
    <2>0. PICK c : c = loc[r].case OBVIOUS
    <2>. DEFINE s == loc[r].target
    <2>1. /\ c \in Case /\ cases[c] # Null
          /\ cases'[c].status = s /\ cases'[c].assignee = cases[c].assignee
          /\ \A e \in Case \ {c} : cases'[e] = cases[e]
      BY <1>5, <2>0, StatusCommitFacts
    <2>2. PICK row \in ActionRow :
             /\ caseActions' = caseActions \cup {row}
             /\ row.type = "status_changed" /\ row.case = c /\ row.to = s
             /\ row.id = loc[r].id
      BY <1>5, <2>0, CommitRow DEF Wrote
    <2>3. \A a \in StatusRows(c) : a.id < row.id
      BY <1>5, <2>0, <2>2, CommitRow DEF Numbered, Drawn, Kin, At
    <2>. HIDE DEF s
    <2>4. CASE d = c
      <3>1. StatusRows(c)' = StatusRows(c) \cup {row} /\ AssigneeRows(c)' = AssigneeRows(c)
        BY <2>1, <2>2, RowsJoin
      <3>2. \A a \in StatusRows(c)' : a.id <= row.id
        BY <1>3, <2>3, <3>1 DEF StatusRows, ActionRow
      <3>3. StatusReplayed(c)'
        BY <2>1, <2>2, <3>1, <3>2 DEF StatusReplayed, IsNewest, StatusSaid
      <3>4. AssigneeReplayed(c)'
        BY <1>0, <2>1, <3>1 DEF AssigneeReplayed, IsNewest
      <3>. QED BY <2>4, <3>3, <3>4
    <2>5. CASE d # c
      <3>1. StatusRows(d)' = StatusRows(d) /\ AssigneeRows(d)' = AssigneeRows(d)
        BY <2>1, <2>2, <2>5, RowsJoin
      <3>2. cases'[d] = cases[d] BY <2>1, <2>5
      <3>. QED BY <1>0, <1>1, <3>1, <3>2, ReplayKept
    <2>. QED BY <2>4, <2>5
  <1>6. ASSUME NEW r \in Req, ReassignCommit(r)
        PROVE  StatusReplayed(d)' /\ AssigneeReplayed(d)'
    <2>0. PICK c : c = loc[r].case OBVIOUS
    <2>. DEFINE v == loc[r].target
    <2>1. /\ c \in Case /\ cases[c] # Null /\ v # Null
          /\ cases'[c].status = cases[c].status /\ cases'[c].assignee = v
          /\ \A e \in Case \ {c} : cases'[e] = cases[e]
      BY <1>6, <2>0, ReassignCommitFacts, Facts
    <2>2. PICK row \in ActionRow :
             /\ caseActions' = caseActions \cup {row}
             /\ row.type \in {"assigned", "reassigned"} /\ row.case = c /\ row.to = v
             /\ row.id = loc[r].id
      BY <1>6, <2>0, CommitRow DEF Wrote
    <2>3. \A a \in AssigneeRows(c) : a.id < row.id
      BY <1>6, <2>0, <2>2, CommitRow DEF Numbered, Drawn, Kin, At
    <2>. HIDE DEF v
    <2>4. CASE d = c
      <3>1. StatusRows(c)' = StatusRows(c) /\ AssigneeRows(c)' = AssigneeRows(c) \cup {row}
        BY <2>1, <2>2, RowsJoin
      <3>2. \A a \in AssigneeRows(c)' : a.id <= row.id
        BY <1>3, <2>3, <3>1 DEF AssigneeRows, ActionRow
      <3>3. AssigneeReplayed(c)'
        BY <2>1, <2>2, <3>1, <3>2 DEF AssigneeReplayed, IsNewest
      <3>4. StatusReplayed(c)'
        BY <1>0, <2>1, <3>1 DEF StatusReplayed, IsNewest, StatusSaid
      <3>. QED BY <2>4, <3>3, <3>4
    <2>5. CASE d # c
      <3>1. StatusRows(d)' = StatusRows(d) /\ AssigneeRows(d)' = AssigneeRows(d)
        BY <2>1, <2>2, <2>5, RowsJoin
      <3>2. cases'[d] = cases[d] BY <2>1, <2>5
      <3>. QED BY <1>0, <1>1, <3>1, <3>2, ReplayKept
    <2>. QED BY <2>4, <2>5
  <1>7. ASSUME NEW r \in Req, NoteCommit(r) \/ DiscloseCommit(r)
        PROVE  StatusReplayed(d)' /\ AssigneeReplayed(d)'
    <2>1. UNCHANGED cases BY <1>7 DEF NoteCommit, DiscloseCommit
    <2>2. ASSUME NEW id, NEW type \in {"note_added", "disclosure_consumed"}, NEW to,
                 Wrote(r, id, type, to)
          PROVE  StatusRows(d)' = StatusRows(d) /\ AssigneeRows(d)' = AssigneeRows(d)
      BY <2>2 DEF Wrote, StatusRows, AssigneeRows
    <2>3. StatusRows(d)' = StatusRows(d) /\ AssigneeRows(d)' = AssigneeRows(d)
      BY <1>7, <2>2, CommitRow
    <2>. QED BY <1>0, <1>1, <2>1, <2>3, ReplayKept
  <1>8. ASSUME NEW p \in Report, Submit(p)
        PROVE  StatusReplayed(d)' /\ AssigneeReplayed(d)'
    BY <1>2, <1>8 DEF Submit
  <1>. QED BY <1>2, <1>4, <1>5, <1>6, <1>7, <1>8, NextWrites DEF tables

\* The audit rows can be replayed after any race: per case the newest status
\* row names its status and the newest assignment row its assignee, although
\* cases.rs reads what it logs before it takes the row lock.
THEOREM HistoryReplays == Spec => []LedgerReplay
  <1>1. Init => LedgerReplay BY DEF Init, LedgerReplay, Opened
  <1>. QED BY <1>1, Layered, InitNumbered, NumberedStep, ReplayStep, PTL DEF Spec

-----------------------------------------------------------------------------
(* Authority.                                                              *)

AllAuthorised == \A r \in Req : Authorised(r)

\* Other requests keep their authority: their locals stay, rows only join.
LEMMA OthersAuthorised ==
    ASSUME NEW q \in Req, Authorised(q), pc'[q] = pc[q], loc'[q] = loc[q],
           caseActions \subseteq caseActions'
    PROVE  Authorised(q)'
  BY DEF Authorised, AssigneeRows

LEMMA OwnAuthorised ==
    ASSUME Typed, Locked, Numbered, LedgerReplay, NEW r \in Req, Authorised(r),
           caseActions \subseteq caseActions',
           Start(r) \/ Step(r) \/ Cancel(r)
    PROVE  Authorised(r)'
  <1>. DEFINE c == loc[r].case
              u == loc[r].user
  <1>1. CASE pc'[r] \notin Working BY <1>1 DEF Authorised, Working
  <1>2. CASE Start(r) /\ pc'[r] \in Working
    <2>1. ASSUME NEW l \in Locals, NEW min, NEW s, Arrive(r, l, min, s)
          PROVE  loc'[r] = l /\ pc'[r] = s /\ RequireRole(l.user, min)
      <3>1. CASE Return(r, "done") BY <1>2, <3>1, ReturnFacts DEF Working, Final
      <3>2. CASE RequireRole(l.user, min) /\ Goto(r, s) /\ loc' = [loc EXCEPT ![r] = l]
        BY <3>2 DEF Goto, Typed, TypeOK
      <3>. QED BY <2>1, <3>1, <3>2 DEF Arrive
    <2>2. CASE StartOpenCase(r)
      <3>1. PICK v \in User, p \in Report :
               Arrive(r, [NoLocals EXCEPT !.op = "open", !.user = v, !.report = p],
                      "administrator", "begin")
        BY <2>2 DEF StartOpenCase
      <3>. DEFINE l == [NoLocals EXCEPT !.op = "open", !.user = v, !.report = p]
      <3>2. l \in Locals /\ l.op = "open" /\ Arrive(r, l, "administrator", "begin")
        BY <3>1, Facts DEF NoLocals, Locals, OpName
      <3>. HIDE DEF l
      <3>. QED BY <2>1, <3>2 DEF RequireRole, IsLead, Authorised
    <2>3. CASE StartStatus(r)
      <3>1. PICK v \in User, d \in Case, s \in Targets :
               Arrive(r, [NoLocals EXCEPT !.op = "status", !.user = v, !.case = d, !.target = s],
                      "staff", "load")
        BY <2>3 DEF StartStatus
      <3>. DEFINE l == [NoLocals EXCEPT !.op = "status", !.user = v, !.case = d, !.target = s]
      <3>2. l \in Locals /\ l.op = "status" /\ Arrive(r, l, "staff", "load")
        BY <3>1, Facts DEF NoLocals, Locals, OpName
      <3>. HIDE DEF l
      <3>. QED BY <2>1, <3>2 DEF Authorised
    <2>4. CASE StartNote(r)
      <3>1. PICK v \in User, d \in Case :
               Arrive(r, [NoLocals EXCEPT !.op = "note", !.user = v, !.case = d],
                      "staff", "load")
        BY <2>4 DEF StartNote
      <3>. DEFINE l == [NoLocals EXCEPT !.op = "note", !.user = v, !.case = d]
      <3>2. l \in Locals /\ l.op = "note" /\ Arrive(r, l, "staff", "load")
        BY <3>1, Facts DEF NoLocals, Locals, OpName
      <3>. HIDE DEF l
      <3>. QED BY <2>1, <3>2 DEF Authorised
    <2>5. CASE StartReassign(r)
      <3>1. PICK v \in User, d \in Case, w \in User :
               Arrive(r, [NoLocals EXCEPT !.op = "reassign", !.user = v, !.case = d, !.target = w],
                      "administrator", "target")
        BY <2>5 DEF StartReassign
      <3>. DEFINE l == [NoLocals EXCEPT !.op = "reassign", !.user = v, !.case = d, !.target = w]
      <3>2. l \in Locals /\ l.op = "reassign" /\ Arrive(r, l, "administrator", "target")
        BY <3>1, Facts DEF NoLocals, Locals, OpName
      <3>. HIDE DEF l
      <3>. QED BY <2>1, <3>2 DEF RequireRole, IsLead, Authorised
    <2>6. CASE StartDisclose(r)
      <3>1. PICK v \in User, d \in Case :
               Arrive(r, [NoLocals EXCEPT !.op = "disclose", !.user = v, !.case = d],
                      "administrator", "elevate")
        BY <2>6 DEF StartDisclose
      <3>. DEFINE l == [NoLocals EXCEPT !.op = "disclose", !.user = v, !.case = d]
      <3>2. l \in Locals /\ l.op = "disclose" /\ Arrive(r, l, "administrator", "elevate")
        BY <3>1, Facts DEF NoLocals, Locals, OpName
      <3>. HIDE DEF l
      <3>. QED BY <2>1, <3>2 DEF RequireRole, IsLead, Authorised
    <2>. QED BY <1>2, <2>2, <2>3, <2>4, <2>5, <2>6 DEF Start
  <1>3. CASE Step(r) /\ pc'[r] \in Working
    <2>1. /\ loc'[r].op = loc[r].op /\ loc'[r].user = u
          /\ loc[r].op # "open" => loc'[r].case = c
      BY <1>3, Carries
    <2>2. pc[r] \in Working /\ LocalsOK(pc[r], loc[r])
      <3>1. pc[r] \notin Final BY <1>3, Moves
      <3>2. pc[r] # "idle" BY <1>3, StepArrived
      <3>. QED BY <3>1, <3>2 DEF Working, Typed, TypeOK
    <2>3. CASE loc[r].op \notin {"status", "note"}
      BY <2>1, <2>2, <2>3 DEF Authorised, LocalsOK
    <2>4. CASE loc[r].op \in {"status", "note"}
      <3>1. \/ IsLead(u)
            \/ \E b \in AssigneeRows(c) : b.to = u /\ (pc[r] = "check" => b.id < loc[r].id)
        <4>1. CASE pc[r] # "load" BY <2>2, <2>4, <4>1 DEF Authorised, Drawn
        <4>2. CASE pc[r] = "load"
          <5>1. cases[c] # Null /\ MayActOn(u, c)
            <6>1. StatusLoad(r) \/ NoteLoad(r)
              BY <1>3, <2>4, <4>2
                 DEF Step, BeginTx, Rollback, OpenCaseStep, OpenCaseLock, OpenCaseInsert,
                     OpenCaseCommit, StatusStep, StatusElevate, StatusUpdateCase,
                     StatusUpdateReport, StatusCommit, NoteStep, NoteInsert, NoteCheck,
                     NoteCommit, ReassignStep, ReassignTarget, ReassignLoad, ReassignUpdate,
                     ReassignCommit, DiscloseStep, DiscloseElevate, DiscloseLock,
                     DiscloseCommit, DiscloseRender, At
            <6>2. ~Dismiss(r) BY <1>3, ReturnFacts DEF Dismiss, Working, Final
            <6>. QED BY <6>1, <6>2 DEF StatusLoad, NoteLoad, StatusAccepted
          <5>2. c \in Case /\ u \in User
            BY <2>2, <2>4 DEF LocalsOK, StatusLocals, NoteLocals
          <5>3. cases[c].assignee = u => \E b \in AssigneeRows(c) : b.to = u
            BY <5>1, <5>2, Facts DEF LedgerReplay, Opened
          <5>. QED BY <4>2, <5>1, <5>3 DEF MayActOn
        <4>. QED BY <4>1, <4>2
      <3>2. pc'[r] \in Drawn => loc'[r].id = nextId \/ (pc[r] = "check" /\ loc'[r] = loc[r])
        BY <1>3, Carries
      <3>3. \A b \in AssigneeRows(c) : b.id < nextId BY DEF Numbered, AssigneeRows
      <3>4. AssigneeRows(c) \subseteq {a \in caseActions' : a.case = c /\ a.type \in {"assigned", "reassigned"}}
        BY DEF AssigneeRows
      <3>. QED
        BY <2>1, <2>4, <3>1, <3>2, <3>3, <3>4 DEF Authorised, AssigneeRows
    <2>. QED BY <2>3, <2>4
  <1>4. CASE Cancel(r) BY <1>1, <1>4, ReturnFacts DEF Cancel, EndTx, Working, Final
  <1>. QED BY <1>1, <1>2, <1>3, <1>4

\* Rows join the history and never leave it.
LEMMA HistoryGrows ==
    ASSUME Typed, [Next]_vars
    PROVE  caseActions \subseteq caseActions'
  BY NextWrites, CommitRow DEF Submit, Wrote, tables

LEMMA AuthorisedStep ==
    ASSUME Typed, Locked, Numbered, LedgerReplay, AllAuthorised, [Next]_vars
    PROVE  AllAuthorised'
  <1>. USE HistoryGrows
  <1>1. ASSUME NEW r \in Req, Start(r) \/ Step(r) \/ Cancel(r) PROVE AllAuthorised'
    BY <1>1, Moves, OthersAuthorised, OwnAuthorised DEF AllAuthorised
  <1>2. UNCHANGED requests => AllAuthorised'
    BY OthersAuthorised DEF AllAuthorised, requests
  <1>3. ASSUME NEW u \in User, Framework(u) PROVE UNCHANGED requests
    BY <1>3, FrameworkQuiet
  <1>4. ASSUME NEW p \in Report, Submit(p) PROVE UNCHANGED requests
    BY <1>4 DEF Submit
  <1>5. UNCHANGED vars => UNCHANGED requests BY DEF vars
  <1>. QED BY <1>1, <1>2, <1>3, <1>4, <1>5 DEF Next, Quiescent

LEMMA StaffStep ==
    ASSUME Typed, Locked, Numbered, AllAuthorised, StaffWorkWasAssigned, [Next]_vars
    PROVE  StaffWorkWasAssigned'
  <1>1. \A a \in caseActions : a \in ActionRow BY DEF Typed, TypeOK
  <1>2. ASSUME NEW r \in Req, NEW id, NEW type, NEW to, Wrote(r, id, type, to),
               \/ IsLead(loc[r].user)
               \/ \E b \in AssigneeRows(loc[r].case) : b.to = loc[r].user /\ b.id < id
        PROVE  StaffWorkWasAssigned'
    <2>1. PICK row \in ActionRow :
             /\ caseActions' = caseActions \cup {row}
             /\ row.id = id /\ row.case = loc[r].case /\ row.actor = loc[r].user
      BY <1>2 DEF Wrote
    <2>2. ASSUME NEW a \in caseActions', ~IsLead(a.actor)
          PROVE  \E b \in caseActions' :
                    /\ b.case = a.case /\ b.type \in {"assigned", "reassigned"}
                    /\ b.to = a.actor /\ b.id < a.id
      BY <1>2, <2>1, <2>2 DEF StaffWorkWasAssigned, AssigneeRows
    <2>. QED BY <2>2 DEF StaffWorkWasAssigned, AssigneeRows
  <1>3. UNCHANGED caseActions => StaffWorkWasAssigned'
    BY DEF StaffWorkWasAssigned, AssigneeRows
  <1>4. ASSUME NEW r \in Req, OpenCaseCommit(r) \/ ReassignCommit(r) \/ DiscloseCommit(r)
        PROVE  StaffWorkWasAssigned'
    <2>1. IsLead(loc[r].user)
      BY <1>4, CommitRow DEF At, AllAuthorised, Authorised, Working, Stage, InTx, Final
    <2>. QED BY <1>2, <1>4, <2>1, CommitRow
  <1>5. ASSUME NEW r \in Req, StatusCommit(r) \/ NoteCommit(r) PROVE StaffWorkWasAssigned'
    <2>1. \/ IsLead(loc[r].user)
          \/ \E b \in AssigneeRows(loc[r].case) : b.to = loc[r].user /\ b.id < loc[r].id
      BY <1>5, CommitRow
         DEF At, AllAuthorised, Authorised, Drawn, Working, Stage, InTx, Final
    <2>. QED BY <1>2, <1>5, <2>1, CommitRow
  <1>6. \A p \in Report : Submit(p) => UNCHANGED caseActions BY DEF Submit
  <1>. QED BY <1>3, <1>4, <1>5, <1>6, NextWrites DEF tables

\* No row of the history is the work of a handler who is no lead and had not
\* been assigned the case before (the in-handler filter of cases.rs, which
\* reads the assignee on another connection than it writes with).
THEOREM StaffHadBeenAssigned == Spec => []StaffWorkWasAssigned
  <1>1. Init => LedgerReplay BY DEF Init, LedgerReplay, Opened
  <1>2. Init => AllAuthorised BY DEF Init, AllAuthorised, Authorised, Working
  <1>3. Init => StaffWorkWasAssigned BY DEF Init, StaffWorkWasAssigned
  <1>. QED
    BY <1>1, <1>2, <1>3, Layered, InitNumbered, NumberedStep, ReplayStep, AuthorisedStep,
       StaffStep, PTL DEF Spec

-----------------------------------------------------------------------------
(* The re-auth wall, for sessions that only gain rights: no event of the   *)
(* run closes an elevation window or ends a session.                       *)

\* A request past the wall belongs to an account whose session is elevated.
Elevated(r) ==
    LET l == loc[r] IN
    (\/ l.op = "status" /\ pc[r] \in {"begin", "lock", "sync", "commit"} /\ l.target \in Closing
     \/ l.op = "disclose" /\ pc[r] \in {"begin", "lock", "commit"})
    => session[l.user] = "elevated"

AllElevated == \A r \in Req : Elevated(r)

OnlyGains == \A u \in User : session[u] = "elevated" => session'[u] = "elevated"

LEMMA SessionsGain ==
    ASSUME Events \cap {"lapse", "signout"} = {}, Typed, [Next]_vars
    PROVE  OnlyGains
  <1>1. ASSUME NEW u \in User, Framework(u) PROVE OnlyGains
    BY <1>1 DEF Framework, SignIn, Reauth, Lapse, SignOut, Deactivate, SetSession, OnlyGains,
                Typed, TypeOK
  <1>2. ASSUME NEW r \in Req, Start(r) \/ Cancel(r) PROVE UNCHANGED framework
    BY <1>2 DEF Start, StartOpenCase, StartStatus, StartNote, StartReassign, StartDisclose,
                Arrive, Cancel
  <1>3. ASSUME NEW r \in Req, Step(r) PROVE UNCHANGED framework
    BY <1>3 DEF Step, BeginTx, Rollback, OpenCaseStep, OpenCaseLock, OpenCaseInsert,
                OpenCaseCommit, StatusStep, StatusLoad, StatusElevate, StatusUpdateCase,
                StatusUpdateReport, StatusCommit, NoteStep, NoteLoad, NoteInsert, NoteCheck,
                NoteCommit, ReassignStep, ReassignTarget,
                ReassignLoad, ReassignUpdate, ReassignCommit, DiscloseStep, DiscloseElevate,
                DiscloseLock, DiscloseCommit, DiscloseRender, Dismiss
  <1>4. ASSUME NEW p \in Report, Submit(p) PROVE UNCHANGED framework BY <1>4 DEF Submit
  <1>5. UNCHANGED vars => UNCHANGED framework BY DEF vars
  <1>. QED
    BY <1>1, <1>2, <1>3, <1>4, <1>5 DEF Next, Quiescent, framework, OnlyGains

LEMMA OthersElevated ==
    ASSUME Typed, OnlyGains, NEW q \in Req, Elevated(q), pc'[q] = pc[q], loc'[q] = loc[q]
    PROVE  Elevated(q)'
  <1>1. pc[q] \in Working => loc[q].user \in User BY DEF Typed, LocalsOK
  <1>. QED BY <1>1 DEF Elevated, OnlyGains, Working, Stage, InTx, Final

LEMMA OwnElevated ==
    ASSUME Typed, Locked, OnlyGains, NEW r \in Req, Elevated(r), Step(r)
    PROVE  Elevated(r)'
  <1>. DEFINE l == loc[r]
              Past == {"begin", "lock", "sync", "commit"}
  <1>1. CASE pc'[r] \notin Past BY <1>1 DEF Elevated
  <1>2. CASE pc'[r] \in Past
    <2>1. loc'[r].op = l.op /\ loc'[r].user = l.user /\ loc'[r].target = l.target
      BY <1>2, Carries DEF Working, Stage, InTx, Final
    <2>2. pc[r] \in Working /\ l.user \in User /\ l.target \in Status \cup User \cup {Null}
      <3>1. pc[r] \notin Final BY Moves
      <3>2. pc[r] # "idle" BY StepArrived
      <3>. QED BY <3>1, <3>2 DEF Working, Typed, TypeOK, LocalsOK, Locals
    <2>3. ASSUME NEW f, Return(r, f), f \in Final PROVE FALSE
      BY <1>2, <2>3, ReturnFacts DEF Final
    <2>3a. ~Rollback(r)
      <3>1. ~Return(r, "done") BY <2>3 DEF Final
      <3>. QED BY <3>1 DEF Rollback, EndTx
    <2>4. CASE l.op = "status" /\ l.target \in Closing
      <3>1. CASE pc[r] \in Past
        BY <2>1, <2>2, <2>4, <3>1 DEF Elevated, OnlyGains
      <3>2. CASE pc[r] \notin Past
        <4>1. StatusLoad(r) \/ StatusElevate(r)
          BY <2>3a, <2>4, <3>2
             DEF Step, BeginTx, OpenCaseStep, OpenCaseLock, OpenCaseInsert, OpenCaseCommit,
                 StatusStep, StatusUpdateCase, StatusUpdateReport, StatusCommit,
                 NoteStep, NoteLoad, NoteInsert, NoteCheck, NoteCommit, ReassignStep,
                 ReassignTarget, ReassignLoad, ReassignUpdate, ReassignCommit, DiscloseStep,
                 DiscloseElevate, DiscloseLock,
                 DiscloseCommit, DiscloseRender, At
        <4>2. CASE StatusLoad(r)
          <5>1. Goto(r, IF RequiresReauth(l.target) THEN "elevate" ELSE "begin")
            BY <2>3, <4>2 DEF StatusLoad, Dismiss, Final
          <5>2. RequiresReauth(l.target) BY <2>4 DEF RequiresReauth, Closing
          <5>. QED BY <1>2, <5>1, <5>2 DEF Goto, Typed, TypeOK
        <4>3. CASE StatusElevate(r)
          <5>1. session[l.user] = "elevated"
            BY <2>3, <4>3 DEF StatusElevate, Dismiss, Final, IsSessionElevated
          <5>. QED BY <2>1, <2>2, <5>1 DEF Elevated, OnlyGains
        <4>. QED BY <4>1, <4>2, <4>3
      <3>. QED BY <3>1, <3>2
    <2>5. CASE l.op = "disclose"
      <3>1. CASE pc[r] \in Past \ {"sync"}
        BY <2>1, <2>2, <2>5, <3>1 DEF Elevated, OnlyGains
      <3>2. CASE pc[r] \notin Past \ {"sync"}
        <4>1. DiscloseElevate(r) \/ DiscloseRender(r)
          BY <2>3a, <2>5, <3>2
             DEF Step, BeginTx, OpenCaseStep, OpenCaseLock, OpenCaseInsert, OpenCaseCommit,
                 StatusStep, StatusLoad, StatusElevate, StatusUpdateCase,
                 StatusUpdateReport, StatusCommit, NoteStep, NoteLoad, NoteInsert, NoteCheck,
                 NoteCommit, ReassignStep, ReassignTarget,
                 ReassignLoad, ReassignUpdate, ReassignCommit, DiscloseStep, DiscloseLock,
                 DiscloseCommit, At
        <4>2. session[l.user] = "elevated"
          BY <2>3, <4>1 DEF DiscloseElevate, DiscloseRender, Final, IsSessionElevated
        <4>. QED BY <2>1, <2>2, <4>2 DEF Elevated, OnlyGains
      <3>. QED BY <3>1, <3>2
    <2>. QED BY <2>1, <2>4, <2>5 DEF Elevated
  <1>. QED BY <1>1, <1>2

LEMMA ElevatedStep ==
    ASSUME Events \cap {"lapse", "signout"} = {}, Typed, Locked, AllElevated, [Next]_vars
    PROVE  AllElevated'
  <1>. USE SessionsGain
  <1>1. ASSUME NEW r \in Req, Start(r) \/ Step(r) \/ Cancel(r), Elevated(r)'
        PROVE  AllElevated'
    BY <1>1, Moves, OthersElevated DEF AllElevated
  <1>2. ASSUME NEW r \in Req, Start(r) PROVE Elevated(r)'
    <2>1. Typed' BY <1>2, StartTyped
    <2>. DEFINE Early == {"begin", "load", "target", "elevate"}
    <2>2. ASSUME NEW o \in {"open", "status", "note", "reassign", "disclose"},
                 NEW s \in Early, NEW l \in Locals, NEW min, l.op = o, Arrive(r, l, min, s),
                 o \in {"status", "disclose"} => s # "begin"
          PROVE  Elevated(r)'
      <3>1. CASE Return(r, "done") BY <3>1, ReturnFacts DEF Elevated, Final
      <3>2. CASE Goto(r, s) /\ loc' = [loc EXCEPT ![r] = l]
        <4>1. pc'[r] = s /\ loc'[r] = l BY <3>2 DEF Goto, Typed, TypeOK
        <4>. QED BY <2>2, <4>1 DEF Elevated
      <3>. QED BY <2>2, <3>1, <3>2 DEF Arrive
    <2>. USE Facts DEF NoLocals, Locals, OpName
    <2>3. CASE StartOpenCase(r) BY <2>2, <2>3 DEF StartOpenCase
    <2>4. CASE StartStatus(r) BY <2>2, <2>4 DEF StartStatus
    <2>5. CASE StartNote(r) BY <2>2, <2>5 DEF StartNote
    <2>6. CASE StartReassign(r) BY <2>2, <2>6 DEF StartReassign
    <2>7. CASE StartDisclose(r) BY <2>2, <2>7 DEF StartDisclose
    <2>. QED BY <1>2, <2>3, <2>4, <2>5, <2>6, <2>7 DEF Start
  <1>3. ASSUME NEW r \in Req, Step(r) PROVE Elevated(r)'
    BY <1>3, OwnElevated DEF AllElevated
  <1>4. ASSUME NEW r \in Req, Cancel(r) PROVE Elevated(r)'
    BY <1>4, ReturnFacts DEF Cancel, EndTx, Elevated, Final
  <1>5. UNCHANGED requests => AllElevated'
    BY OthersElevated DEF AllElevated, requests
  <1>6. ASSUME NEW u \in User, Framework(u) PROVE UNCHANGED requests
    BY <1>6, FrameworkQuiet
  <1>7. ASSUME NEW p \in Report, Submit(p) PROVE UNCHANGED requests BY <1>7 DEF Submit
  <1>8. UNCHANGED vars => UNCHANGED requests BY DEF vars
  <1>. QED
    BY <1>1, <1>2, <1>3, <1>4, <1>5, <1>6, <1>7, <1>8 DEF Next, Quiescent

LEMMA GatedStep ==
    ASSUME Events \cap {"lapse", "signout"} = {}, Typed, Locked, AllElevated, AllAuthorised,
           GatedByReauth, [Next]_vars
    PROVE  GatedByReauth'
  <1>. USE SessionsGain
  <1>0. /\ \A a \in caseActions : a.actor \in User
        /\ \A d \in disclosures : d.requestedBy \in User
    BY DEF Typed, TypeOK, ActionRow, DisclosureRow
  <1>1. ASSUME UNCHANGED <<caseActions, disclosures>> PROVE GatedByReauth'
    BY <1>0, <1>1 DEF GatedByReauth, OnlyGains
  <1>2. ASSUME NEW r \in Req, NEW id, NEW type, NEW to, Wrote(r, id, type, to),
               UNCHANGED disclosures,
               type = "status_changed" /\ to \in Closing => session'[loc[r].user] = "elevated"
        PROVE  GatedByReauth'
    BY <1>0, <1>2 DEF GatedByReauth, OnlyGains, Wrote
  <1>3. ASSUME NEW r \in Req, OpenCaseCommit(r) \/ ReassignCommit(r) \/ NoteCommit(r)
        PROVE  GatedByReauth'
    BY <1>2, <1>3, CommitRow
  <1>4. ASSUME NEW r \in Req, StatusCommit(r) PROVE GatedByReauth'
    <2>1. loc[r].user \in User
      BY <1>4 DEF StatusCommit, At, Typed, LocalsOK, Working, Stage, InTx, Final
    <2>2. loc[r].target \in Closing => session[loc[r].user] = "elevated"
      BY <1>4 DEF StatusCommit, At, AllElevated, Elevated
    <2>. QED BY <1>2, <1>4, <2>1, <2>2, CommitRow DEF OnlyGains
  <1>5. ASSUME NEW r \in Req, DiscloseCommit(r) PROVE GatedByReauth'
    <2>. DEFINE u == loc[r].user
                dis == [case |-> loc[r].case, requestedBy |-> u, at |-> loc[r].at, corr |-> r]
    <2>1. u \in User
      BY <1>5 DEF DiscloseCommit, At, Typed, LocalsOK, Working, Stage, InTx, Final
    <2>2. session'[u] = "elevated" /\ IsLead(u)
      BY <1>5, <2>1
         DEF DiscloseCommit, At, AllElevated, Elevated, AllAuthorised, Authorised, OnlyGains,
             Working, Stage, InTx, Final
    <2>3. disclosures' = disclosures \cup {dis} /\ dis.requestedBy = u
      BY <1>5 DEF DiscloseCommit
    <2>4. Wrote(r, loc[r].id, "disclosure_consumed", Null) BY <1>5, CommitRow
    <2>. HIDE DEF dis, u
    <2>5. \A a \in caseActions' :
             a \in caseActions \/ a.type = "disclosure_consumed"
      BY <2>4 DEF Wrote
    <2>. QED BY <1>0, <2>2, <2>3, <2>5 DEF GatedByReauth, OnlyGains
  <1>6. \A p \in Report : Submit(p) => UNCHANGED <<caseActions, disclosures>> BY DEF Submit
  <1>. QED BY <1>1, <1>3, <1>4, <1>5, <1>6, NextWrites DEF tables

\* When no session loses rights, every terminal transition and disclosure on
\* record is the act of an elevated session, and every disclosure a lead's:
\* no path of do_status_transition or do_disclose goes round the re-auth wall.
THEOREM WallHolds ==
    ASSUME Events \cap {"lapse", "signout"} = {}
    PROVE  Spec => []GatedByReauth
  <1>1. Init => LedgerReplay /\ AllAuthorised
    BY DEF Init, LedgerReplay, Opened, AllAuthorised, Authorised, Working
  <1>2. Init => AllElevated BY DEF Init, AllElevated, Elevated
  <1>3. Init => GatedByReauth BY DEF Init, GatedByReauth
  <1>4. Typed /\ Locked /\ AllElevated /\ [Next]_vars => AllElevated' BY ElevatedStep
  <1>5. Typed /\ Locked /\ AllElevated /\ AllAuthorised /\ GatedByReauth /\ [Next]_vars
           => GatedByReauth'
    BY GatedStep
  <1>. QED
    BY <1>1, <1>2, <1>3, <1>4, <1>5, Layered, InitNumbered, NumberedStep, ReplayStep,
       AuthorisedStep, PTL DEF Spec

-----------------------------------------------------------------------------
(* When the rows were written.                                             *)

\* Every row bears the time its transaction began: the clock has been there.
\* Rows may share a time.
Timed ==
    /\ \A a \in caseActions : a.at <= clock
    /\ \A r \in Req : pc[r] \in InTx => loc[r].at <= clock

\* A step of r appends the row, if any, under the time of its transaction.
Appends(r) ==
    \/ UNCHANGED caseActions
    \/ \E row \in ActionRow :
          /\ caseActions' = caseActions \cup {row}
          /\ pc'[r] \notin InTx /\ pc[r] \in InTx
          /\ row.at = loc[r].at

LEMMA RequestTime ==
    ASSUME Typed, NEW r \in Req, Start(r) \/ Step(r) \/ Cancel(r)
    PROVE  /\ clock' \in Nat /\ clock' >= clock
           /\ pc'[r] \in InTx =>
                 \/ pc[r] \in InTx /\ loc'[r].at = loc[r].at
                 \/ pc[r] \notin InTx /\ loc'[r].at = clock
           /\ Appends(r)
  <1>. DEFINE l == loc[r]
              Goal == /\ clock' \in Nat /\ clock' >= clock
                      /\ pc'[r] \in InTx =>
                            \/ pc[r] \in InTx /\ loc'[r].at = loc[r].at
                            \/ pc[r] \notin InTx /\ loc'[r].at = clock
                      /\ Appends(r)
  <1>. SUFFICES Goal OBVIOUS
  <1>0. /\ pc \in [Req -> Stage] /\ loc \in [Req -> Locals] /\ clock \in Nat \ {0}
        /\ nextId \in Nat /\ l \in Locals /\ LocalsOK(pc[r], l)
    BY DEF Typed, TypeOK
  <1>1. \A f \in Final : Return(r, f) => pc'[r] \notin InTx
    BY <1>0 DEF Return, Final, InTx
  <1>2. \A s : Goto(r, s) => pc'[r] = s BY <1>0 DEF Goto
  <1>3. UNCHANGED loc => loc'[r].at = loc[r].at OBVIOUS
  <1>4. ASSUME UNCHANGED <<caseActions, clock>>, pc'[r] \notin InTx PROVE Goal
    BY <1>0, <1>4 DEF Appends
  <1>5. ASSUME UNCHANGED <<caseActions, clock>>, pc[r] \in InTx, loc'[r].at = loc[r].at
        PROVE  Goal
    BY <1>0, <1>5 DEF Appends
  <1>6. "done" \in Final /\ "viewed" \in Final BY DEF Final
  <1>7. EndTx(r) \/ Return(r, "done") => pc'[r] \notin InTx BY <1>1, <1>6 DEF EndTx
  <1>8. CASE Start(r)
    <2>1. ASSUME NEW k, NEW min, NEW s, s \notin InTx, Arrive(r, k, min, s) PROVE Goal
      BY <1>2, <1>4, <1>7, <2>1 DEF Arrive, tables, counters
    <2>2. "begin" \notin InTx /\ "load" \notin InTx /\ "target" \notin InTx /\ "elevate" \notin InTx
      BY DEF InTx
    <2>. HIDE DEF Goal
    <2>. QED
      BY <1>8, <2>1, <2>2, Zenon
         DEF Start, StartOpenCase, StartStatus, StartNote, StartReassign, StartDisclose
  <1>9. CASE Cancel(r) BY <1>4, <1>7, <1>9 DEF Cancel, tables, counters
  <1>10. CASE BeginTx(r)
    <2>1. clock' \in Nat /\ clock' >= clock BY <1>0, <1>10, TickFacts DEF BeginTx
    <2>. QED BY <1>0, <1>10, <2>1 DEF BeginTx, Locals, tables, Appends, InTx
  <1>10a. CASE Rollback(r) BY <1>4, <1>7, <1>10a DEF Rollback, tables, counters
  <1>11. CASE OpenCaseLock(r)
    BY <1>5, <1>11 DEF OpenCaseLock, At, InTx, tables, counters
  <1>12. CASE OpenCaseInsert(r)
    <2>1. loc'[r].at = loc[r].at BY <1>0, <1>12 DEF OpenCaseInsert, Locals
    <2>. QED BY <1>5, <1>12, <2>1 DEF OpenCaseInsert, At, InTx, tables
  <1>13. CASE StatusLoad(r) \/ StatusElevate(r) \/ NoteLoad(r) \/ ReassignTarget(r)
            \/ ReassignLoad(r) \/ DiscloseElevate(r)
    BY <1>2, <1>4, <1>7, <1>13
       DEF StatusLoad, StatusElevate, NoteLoad, ReassignTarget, ReassignLoad, DiscloseElevate,
           Dismiss, InTx, tables, counters
  <1>14. CASE StatusUpdateCase(r)
    BY <1>5, <1>14 DEF StatusUpdateCase, At, InTx, tables, counters
  <1>15. CASE StatusUpdateReport(r) \/ ReassignUpdate(r)
    <2>1. loc'[r].at = loc[r].at BY <1>0, <1>15 DEF StatusUpdateReport, ReassignUpdate, Locals
    <2>. QED BY <1>5, <1>15, <2>1 DEF StatusUpdateReport, ReassignUpdate, At, InTx, tables
  <1>16. CASE DiscloseLock(r)
    <2>1. CASE UNCHANGED loc BY <1>5, <1>16, <2>1 DEF DiscloseLock, At, InTx, tables
    <2>2. CASE loc' = [loc EXCEPT ![r].id = nextId]
      <3>1. loc'[r].at = loc[r].at BY <1>0, <2>2 DEF Locals
      <3>. QED BY <1>5, <1>16, <3>1 DEF DiscloseLock, At, InTx, tables
    <2>. QED BY <1>16, <2>1, <2>2 DEF DiscloseLock
  <1>17. CASE DiscloseRender(r)
    BY <1>1, <1>4, <1>6, <1>17 DEF DiscloseRender, tables, counters
  <1>18. ASSUME NEW id \in Nat, NEW at \in Nat, NEW type, NEW from, NEW to,
                caseActions' = caseActions \cup {NewAction(r, id, at, l.case, type, from, to)},
                NewAction(r, id, at, l.case, type, from, to) \in ActionRow,
                pc'[r] \notin InTx, pc[r] \in InTx, at = l.at, clock' = clock
         PROVE  Goal
    <2>. DEFINE row == NewAction(r, id, at, l.case, type, from, to)
    <2>1. row.at = at BY DEF NewAction
    <2>2. row \in ActionRow /\ caseActions' = caseActions \cup {row} BY <1>18
    <2>. HIDE DEF row
    <2>. QED BY <1>0, <1>18, <2>1, <2>2 DEF Appends
  <1>19. l.id \in Nat /\ l.at \in Nat BY <1>0 DEF Locals
  <1>20. CASE OpenCaseCommit(r)
    <2>1. l.case \in Case /\ l.user \in User /\ l.report \in Report
      BY <1>0, <1>20 DEF OpenCaseCommit, At, LocalsOK, OpenLocals, Working, Stage, InTx, Final
    <2>2. NewAction(r, l.id, l.at, l.case, "case_opened", Null, l.report) \in ActionRow
      BY <1>19, <2>1 DEF NewAction, ActionRow, ActionType
    <2>. QED BY <1>7, <1>18, <1>19, <1>20, <2>2 DEF OpenCaseCommit, At, InTx, counters
  <1>21. CASE StatusCommit(r)
    <2>1. /\ l.case \in Case /\ l.user \in User
          /\ l.target \in Status /\ l.status \in Status
      BY <1>0, <1>21 DEF StatusCommit, At, LocalsOK, StatusLocals, Working, Stage, InTx, Final,
                         CaseStatus
    <2>2. NewAction(r, l.id, l.at, l.case, "status_changed", l.status, l.target) \in ActionRow
      BY <1>19, <2>1 DEF NewAction, ActionRow, ActionType
    <2>. QED BY <1>7, <1>18, <1>19, <1>21, <2>2 DEF StatusCommit, At, InTx, counters
  <1>22. CASE ReassignCommit(r)
    <2>. DEFINE type == IF l.assignee = Null THEN "assigned" ELSE "reassigned"
    <2>1. l.case \in Case /\ l.user \in User /\ l.target \in User /\ l.assignee \in User \cup {Null}
      BY <1>0, <1>22 DEF ReassignCommit, At, LocalsOK, ReassignLocals, Working, Stage, InTx,
                         Final, Locals
    <2>2. NewAction(r, l.id, l.at, l.case, type, l.assignee, l.target) \in ActionRow
      BY <1>19, <2>1 DEF NewAction, ActionRow, ActionType
    <2>3. caseActions' = caseActions \cup
             {NewAction(r, l.id, l.at, l.case, type, l.assignee, l.target)}
      BY <1>22 DEF ReassignCommit
    <2>. QED BY <1>7, <1>18, <1>19, <1>22, <2>2, <2>3 DEF ReassignCommit, At, InTx, counters
  <1>23. CASE NoteCommit(r)
    <2>1. l.case \in Case /\ l.user \in User
      BY <1>0, <1>23 DEF NoteCommit, At, LocalsOK, NoteLocals, Working, Stage, InTx, Final
    <2>2. NewAction(r, l.id, l.at, l.case, "note_added", Null, Null) \in ActionRow
      BY <1>19, <2>1 DEF NewAction, ActionRow, ActionType
    <2>. QED BY <1>7, <1>18, <1>19, <1>23, <2>2 DEF NoteCommit, At, InTx, counters
  <1>23a. CASE NoteInsert(r)
    <2>1. clock' \in Nat /\ clock' >= clock BY <1>0, <1>23a, TickFacts DEF NoteInsert
    <2>2. loc'[r].at = clock BY <1>0, <1>23a DEF NoteInsert, Locals
    <2>. QED BY <1>0, <1>23a, <2>1, <2>2 DEF NoteInsert, At, tables, Appends, InTx
  <1>23b. CASE NoteCheck(r)
    BY <1>5, <1>23b DEF NoteCheck, At, InTx, tables, counters
  <1>24. CASE DiscloseCommit(r)
    <2>1. l.case \in Case /\ l.user \in User
      BY <1>0, <1>24 DEF DiscloseCommit, At, LocalsOK, DiscloseLocals, Working, Stage, InTx, Final
    <2>2. NewAction(r, l.id, l.at, l.case, "disclosure_consumed", Null, Null) \in ActionRow
      BY <1>19, <2>1 DEF NewAction, ActionRow, ActionType
    <2>. QED BY <1>2, <1>18, <1>19, <1>24, <2>2 DEF DiscloseCommit, At, InTx, counters
  <1>. QED
    BY <1>8, <1>9, <1>10, <1>10a, <1>11, <1>12, <1>13, <1>14, <1>15, <1>16, <1>17, <1>20, <1>21, <1>22,
       <1>23, <1>23a, <1>23b, <1>24
       DEF Step, OpenCaseStep, StatusStep, NoteStep, ReassignStep, DiscloseStep

LEMMA TimedStep ==
    ASSUME Typed, Locked, Timed, [Next]_vars
    PROVE  Timed'
  <1>0. /\ clock \in Nat /\ \A a \in caseActions : a.at \in Nat
        /\ \A r \in Req : loc[r].at \in Nat
    BY DEF Typed, TypeOK, ActionRow, Locals
  <1>1. ASSUME NEW r \in Req, Start(r) \/ Step(r) \/ Cancel(r) PROVE Timed'
    <2>1. \A q \in Req \ {r} : pc'[q] = pc[q] /\ loc'[q] = loc[q]
      BY <1>1, StartFramed, StepFramed, CancelFramed DEF Framed
    <2>2. /\ clock' \in Nat /\ clock' >= clock
          /\ pc'[r] \in InTx =>
                \/ pc[r] \in InTx /\ loc'[r].at = loc[r].at
                \/ pc[r] \notin InTx /\ loc'[r].at = clock
          /\ Appends(r)
      BY <1>1, RequestTime
    <2>3. CASE UNCHANGED caseActions
      BY <1>0, <2>1, <2>2, <2>3 DEF Timed
    <2>4. ASSUME NEW row \in ActionRow, caseActions' = caseActions \cup {row},
                 pc'[r] \notin InTx, pc[r] \in InTx, row.at = loc[r].at
          PROVE  Timed'
      BY <1>0, <2>1, <2>2, <2>4 DEF Timed
    <2>. QED BY <2>2, <2>3, <2>4 DEF Appends
  <1>2. UNCHANGED <<caseActions, clock, requests>> => Timed' BY DEF Timed, requests
  <1>3. ASSUME NEW p \in Report, Submit(p) PROVE Timed' BY <1>2, <1>3 DEF Submit, counters
  <1>4. ASSUME NEW u \in User, Framework(u) PROVE Timed'
    BY <1>2, <1>4, FrameworkQuiet DEF tables, counters
  <1>5. UNCHANGED vars => Timed' BY <1>2 DEF vars, tables, counters
  <1>. QED BY <1>1, <1>3, <1>4, <1>5 DEF Next, Quiescent

LEMMA InitTimed == Init => Timed
  BY DEF Init, Timed, InTx

\* No row of the history and no open transaction bears a time to come.
THEOREM TimesPast == Spec => []Timed
  BY InitTimed, TimedStep, Layered, PTL DEF Spec
=============================================================================
