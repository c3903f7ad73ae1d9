-------------------------------- MODULE Cases --------------------------------
(***************************************************************************)
(* src/handlers/cases.rs: the three POST handlers of the case page.        *)
(*                                                                         *)
(*   status    load -> [elevate] -> begin -> lock -> sync -> commit        *)
(*   note      load -> append -> check -> commit: an autocommitted INSERT  *)
(*   reassign  target -> load -> begin -> lock -> commit                   *)
(*                                                                         *)
(* All three read the case on a pool connection of its own, BEFORE the     *)
(* write; the UPDATEs that follow do not test what was read.               *)
(***************************************************************************)
EXTENDS AuthHelper

\* allowed_next_statuses, transition_requires_reauth, is_terminal_status.
\* Mutants: the backlog takes cases back to intake; resolved cases reopen.
AllowedNext_ToIntake(status) ==
    CASE status = "triage"        -> {"investigating", "archived"}
      [] status = "investigating" -> {"resolved", "intake"}
      [] status = "resolved"      -> {"archived"}
      [] OTHER                    -> {}
AllowedNext_Reopen(status) ==
    CASE status = "triage"        -> {"investigating", "archived"}
      [] status = "investigating" -> {"resolved", "triage"}
      [] status = "resolved"      -> {"archived", "investigating"}
      [] OTHER                    -> {}
AllowedNext(status) ==
    CASE status = "triage"        -> {"investigating", "archived"}
      [] status = "investigating" -> {"resolved", "triage"}
      [] status = "resolved"      -> {"archived"}
      [] OTHER                    -> {}

\* Mutants: archiving is forgotten.
OnlyResolved(status) == status = "resolved"
RequiresReauth(status) == status \in {"resolved", "archived"}
IsTerminal(status) == status \in {"resolved", "archived"}

\* ASSIGNABLE_ROLES, tested on an account that exists and is active.
Assignable(u) == u \in active /\ RoleOf[u] \in Role \ {"user"}

\* The in-handler filter: a lead, or the assignee of the case.
\* Mutant: any handler, once the case is assigned to somebody.
MayActOn_AnyHandler(u, c) == IsLead(u) \/ cases[c].assignee # Null
MayActOn(u, c) == IsLead(u) \/ cases[c].assignee = u

\* A read on a free pool connection that found nothing the handler can act
\* on: it redirects or answers 403.
Dismiss(r) == Return(r, "done") /\ UNCHANGED <<tables, locks, counters, framework>>

-----------------------------------------------------------------------------
(* do_status_transition                                                    *)

StartStatus(r) ==
    \E u \in User, c \in Case, s \in Targets :
       Arrive(r, [NoLocals EXCEPT !.op = "status", !.user = u, !.case = c, !.target = s],
              "staff", "load")

StatusAccepted(u, c, s) ==
    cases[c] # Null /\ MayActOn(u, c) /\ s \in AllowedNext(cases[c].status)

\* SELECT report_id, assignee_id, status; authority; state machine.
StatusLoad(r) ==
    LET c == loc[r].case
        ok == StatusAccepted(loc[r].user, c, loc[r].target)
    IN
    /\ At(r, "status", "load")
    /\ ConnectionFree
    /\ \/ /\ ok
          /\ loc' = [loc EXCEPT ![r].report = cases[c].report, ![r].status = cases[c].status]
          /\ Goto(r, IF RequiresReauth(loc[r].target) THEN "elevate" ELSE "begin")
          /\ UNCHANGED <<tables, locks, counters, framework>>
       \/ ~ok /\ Dismiss(r)

\* A terminal target without an elevated session bounces to /admin/reauth.
StatusElevate(r) ==
    /\ At(r, "status", "elevate")
    /\ ConnectionFree
    /\ \/ /\ IsSessionElevated(loc[r].user)
          /\ Goto(r, "begin")
          /\ UNCHANGED <<loc, tables, locks, counters, framework>>
       \/ ~IsSessionElevated(loc[r].user) /\ Dismiss(r)

\* The table that the first UPDATE (at stage lock) and the second (at stage
\* sync) of a transition to status s write: the same order in both branches.
\* Mutant: a terminal transition writes the report first.
UpdateOf_Mixed(stage, s) == IF (stage = "lock") = IsTerminal(s) THEN "reports" ELSE "cases"
UpdateOf(stage, s) == IF stage = "lock" THEN "cases" ELSE "reports"

\* An UPDATE waits for its row, then owns it.
LockRow(r, table) ==
    LET c == loc[r].case
        p == loc[r].report
    IN
    \/ /\ table = "cases" /\ caseLock[c] = Null
       /\ caseLock' = [caseLock EXCEPT ![c] = r]
       /\ UNCHANGED reportLock
    \/ /\ table = "reports" /\ reportLock[p] = Null
       /\ reportLock' = [reportLock EXCEPT ![p] = r]
       /\ UNCHANGED caseLock

\* UPDATE cases SET status [, closed_at].
StatusUpdateCase(r) ==
    /\ At(r, "status", "lock")
    /\ LockRow(r, UpdateOf("lock", loc[r].target))
    /\ Goto(r, "sync")
    /\ UNCHANGED <<loc, tables, counters, framework>>

\* UPDATE reports SET status, then the INSERT of the case_actions row, which
\* waits for nothing.
\* Mutant: the statement asks the pool for a second connection.
StatusUpdateReport_SecondConnection(r) ==
    /\ At(r, "status", "sync")
    /\ ConnectionFree
    /\ LockRow(r, UpdateOf("sync", loc[r].target))
    /\ loc' = [loc EXCEPT ![r].id = nextId]
    /\ nextId' = nextId + 1
    /\ Goto(r, "commit")
    /\ UNCHANGED <<tables, clock, framework>>

StatusUpdateReport(r) ==
    /\ At(r, "status", "sync")
    /\ LockRow(r, UpdateOf("sync", loc[r].target))
    /\ loc' = [loc EXCEPT ![r].id = nextId]
    /\ nextId' = nextId + 1
    /\ Goto(r, "commit")
    /\ UNCHANGED <<tables, clock, framework>>

\* The UPDATE of cases: closed_at is stamped on a terminal target and left
\* alone otherwise.  Mutant: it is stamped on every transition.
StatusWritten_AlwaysStamped(row, s) == [row EXCEPT !.status = s, !.closed = TRUE]
StatusWritten(row, s) ==
    [row EXCEPT !.status = s, !.closed = IsTerminal(s) \/ row.closed]

\* The UPDATE of reports.  Mutant: only the non-terminal branch has it.
ReporterSees_WhileOpen(row, s) == IF IsTerminal(s) THEN row ELSE [row EXCEPT !.status = s]
ReporterSees(row, s) == [row EXCEPT !.status = s]

StatusCommit(r) ==
    LET c == loc[r].case
        s == loc[r].target
    IN
    /\ At(r, "status", "commit")
    /\ cases' = [cases EXCEPT ![c] = StatusWritten(cases[c], s)]
    /\ reports' = [reports EXCEPT ![loc[r].report] = ReporterSees(@, s)]
    /\ caseActions' = caseActions \cup
          {NewAction(r, loc[r].id, loc[r].at, c, "status_changed", loc[r].status, s)}
    /\ EndTx(r)
    /\ UNCHANGED <<disclosures, counters, framework>>

StatusStep(r) ==
    \/ StatusLoad(r) \/ StatusElevate(r)
    \/ StatusUpdateCase(r) \/ StatusUpdateReport(r) \/ StatusCommit(r)

-----------------------------------------------------------------------------
(* do_add_note.  A note outside the length envelope never reaches the      *)
(* database: Start stands for the notes inside it.                         *)

StartNote(r) ==
    \E u \in User, c \in Case :
       Arrive(r, [NoLocals EXCEPT !.op = "note", !.user = u, !.case = c], "staff", "load")

NoteLoad(r) ==
    LET c == loc[r].case
        ok == cases[c] # Null /\ MayActOn(loc[r].user, c)
    IN
    /\ At(r, "note", "load")
    /\ ConnectionFree
    /\ \/ /\ ok
          /\ Goto(r, "append")
          /\ UNCHANGED <<loc, tables, locks, counters, framework>>
       \/ ~ok /\ Dismiss(r)

\* The INSERT gives its row NOW() and the next id ...
NoteInsert(r) ==
    /\ At(r, "note", "append")
    /\ ConnectionFree
    /\ loc' = [loc EXCEPT ![r].at = clock, ![r].id = nextId]
    /\ nextId' = nextId + 1
    /\ Tick
    /\ Goto(r, "check")
    /\ UNCHANGED <<tables, locks, framework>>

\* ... checks its foreign key FOR KEY SHARE, which only a SELECT ... FOR
\* UPDATE of the case row holds up and which other notes share ...
NoteCheck(r) ==
    LET c == loc[r].case IN
    /\ At(r, "note", "check")
    /\ caseLock[c] # Null => loc[caseLock[c]].op # "disclose"
    /\ Goto(r, "commit")
    /\ UNCHANGED <<loc, tables, locks, counters, framework>>

\* ... and commits by itself, not necessarily in the order of the ids.
NoteCommit(r) ==
    /\ At(r, "note", "commit")
    /\ caseActions' = caseActions \cup
          {NewAction(r, loc[r].id, loc[r].at, loc[r].case, "note_added", Null, Null)}
    /\ EndTx(r)
    /\ UNCHANGED <<reports, cases, disclosures, counters, framework>>

NoteStep(r) == NoteLoad(r) \/ NoteInsert(r) \/ NoteCheck(r) \/ NoteCommit(r)

-----------------------------------------------------------------------------
(* do_reassign                                                             *)

StartReassign(r) ==
    \E u \in User, c \in Case, v \in User :
       Arrive(r, [NoLocals EXCEPT !.op = "reassign", !.user = u, !.case = c, !.target = v],
              "administrator", "target")

\* SELECT email, role FROM rustio_users ... AND is_active.
ReassignTarget(r) ==
    /\ At(r, "reassign", "target")
    /\ ConnectionFree
    /\ \/ /\ Assignable(loc[r].target)
          /\ Goto(r, "load")
          /\ UNCHANGED <<loc, tables, locks, counters, framework>>
       \/ ~Assignable(loc[r].target) /\ Dismiss(r)

\* SELECT assignee_id; an unknown case and a no-op are dismissed.
ReassignLoad(r) ==
    LET c == loc[r].case
        ok == cases[c] # Null /\ cases[c].assignee # loc[r].target
    IN
    /\ At(r, "reassign", "load")
    /\ ConnectionFree
    /\ \/ /\ ok
          /\ loc' = [loc EXCEPT ![r].assignee = cases[c].assignee]
          /\ Goto(r, "begin")
          /\ UNCHANGED <<tables, locks, counters, framework>>
       \/ ~ok /\ Dismiss(r)

\* UPDATE cases SET assignee_id, then the INSERT of the case_actions row.
\* Mutant: the INSERT goes first, before the row lock.
ReassignUpdate_InsertFirst(r) ==
    /\ At(r, "reassign", "lock")
    /\ loc' = [loc EXCEPT ![r].id = nextId]
    /\ nextId' = nextId + 1
    /\ Goto(r, "commit")
    /\ UNCHANGED <<tables, locks, clock, framework>>

ReassignUpdate(r) ==
    LET c == loc[r].case IN
    /\ At(r, "reassign", "lock")
    /\ caseLock[c] = Null
    /\ caseLock' = [caseLock EXCEPT ![c] = r]
    /\ loc' = [loc EXCEPT ![r].id = nextId]
    /\ nextId' = nextId + 1
    /\ Goto(r, "commit")
    /\ UNCHANGED <<tables, reportLock, clock, framework>>

ReassignCommit(r) ==
    LET c == loc[r].case
        v == loc[r].target
        prev == loc[r].assignee
        type == IF prev = Null THEN "assigned" ELSE "reassigned"
    IN
    /\ At(r, "reassign", "commit")
    /\ cases' = [cases EXCEPT ![c].assignee = v]
    /\ caseActions' = caseActions \cup
          {NewAction(r, loc[r].id, loc[r].at, c, type, prev, v)}
    /\ EndTx(r)
    /\ UNCHANGED <<reports, disclosures, counters, framework>>

ReassignStep(r) ==
    ReassignTarget(r) \/ ReassignLoad(r) \/ ReassignUpdate(r) \/ ReassignCommit(r)
=============================================================================
