------------------------------- MODULE Triage -------------------------------
(***************************************************************************)
(* src/handlers/triage.rs: POST /admin/triage/:report_id/open-case.        *)
(*                                                                         *)
(*   begin -> lock: SELECT status ... FOR UPDATE -> insert -> commit       *)
(*                                               -> rollback               *)
(***************************************************************************)
EXTENDS AuthHelper

StartOpenCase(r) ==
    \E u \in User, p \in Report :
       Arrive(r, [NoLocals EXCEPT !.op = "open", !.user = u, !.report = p],
              "administrator", "begin")

\* Mutant: the status test after the lock is dropped.
InIntake_Untested(p) == reports[p] # Null
InIntake(p) == reports[p] # Null /\ reports[p].status = "intake"

\* SELECT status FROM reports WHERE id = $1 FOR UPDATE.  A report that is not
\* there locks nothing.  The two early returns, an unknown report and one that
\* another lead opened first, drop the transaction with what it holds.
OpenCaseLock(r) ==
    LET p == loc[r].report IN
    /\ At(r, "open", "lock")
    /\ reportLock[p] = Null
    /\ reportLock' = [reportLock EXCEPT ![p] = IF reports[p] = Null THEN Null ELSE r]
    /\ Goto(r, IF InIntake(p) THEN "insert" ELSE "rollback")
    /\ UNCHANGED <<loc, caseLock, tables, counters, framework>>

\* INSERT the case, UPDATE the report (its row is already locked) and INSERT
\* the case_opened row.  The id of the new case is out of use: no row has it
\* and no other transaction is inserting it.
OpenCaseInsert(r) ==
    /\ At(r, "open", "insert")
    /\ \E c \in Case :
          /\ cases[c] = Null /\ caseLock[c] = Null
          /\ caseLock' = [caseLock EXCEPT ![c] = r]
          /\ loc' = [loc EXCEPT ![r].case = c, ![r].id = nextId]
    /\ nextId' = nextId + 1
    /\ Goto(r, "commit")
    /\ UNCHANGED <<tables, reportLock, clock, framework>>

\* What the transaction wrote, visible to others from its COMMIT on.
OpenCaseCommit(r) ==
    LET c == loc[r].case
        p == loc[r].report
    IN
    /\ At(r, "open", "commit")
    /\ cases' = [cases EXCEPT ![c] = [report |-> p, assignee |-> Null,
                                      status |-> "triage", closed |-> FALSE]]
    /\ reports' = [reports EXCEPT ![p].status = "triage"]
    /\ caseActions' = caseActions \cup
          {NewAction(r, loc[r].id, loc[r].at, c, "case_opened", Null, p)}
    /\ EndTx(r)
    /\ UNCHANGED <<disclosures, counters, framework>>

OpenCaseStep(r) == OpenCaseLock(r) \/ OpenCaseInsert(r) \/ OpenCaseCommit(r)
=============================================================================
