------------------------------ MODULE Workflow ------------------------------
(***************************************************************************)
(* The case workflow: every handler of triage.rs, cases.rs and             *)
(* disclosure.rs that writes, interleaved step by step over one database.  *)
(***************************************************************************)
EXTENDS Triage, Cases, Disclosure

Start(r) ==
    \/ StartOpenCase(r) \/ StartStatus(r) \/ StartNote(r)
    \/ StartReassign(r) \/ StartDisclose(r)

\* The steps a request that has arrived takes by itself.
Step(r) ==
    \/ BeginTx(r) \/ Rollback(r)
    \/ OpenCaseStep(r) \/ StatusStep(r) \/ NoteStep(r)
    \/ ReassignStep(r) \/ DiscloseStep(r)

Framework(u) ==
    SignIn(u) \/ Reauth(u) \/ Lapse(u) \/ SignOut(u) \/ Deactivate(u)

\* Every request has been answered: the run is over.
Quiescent ==
    /\ \A r \in Req : pc[r] \in Final
    /\ UNCHANGED vars

Next ==
    \/ \E p \in Report : Submit(p)
    \/ \E r \in Req : Start(r) \/ Step(r) \/ Cancel(r)
    \/ \E u \in User : Framework(u)
    \/ Quiescent

Spec == Init /\ [][Next]_vars

\* The server keeps polling a request it has accepted; Postgres grants a row
\* lock and the pool a connection to whoever keeps waiting for it.  Clients,
\* failures and the framework's events are never forced.
Fairness == \A r \in Req : WF_vars(Step(r))
FairSpec == Spec /\ Fairness

-----------------------------------------------------------------------------
TypeOK ==
    /\ reports \in [Report -> ReportRow \cup {Null}]
    /\ cases \in [Case -> CaseRow \cup {Null}]
    /\ caseActions \subseteq ActionRow
    /\ disclosures \subseteq DisclosureRow
    /\ reportLock \in [Report -> Req \cup {Null}]
    /\ caseLock \in [Case -> Req \cup {Null}]
    /\ nextId \in Nat \ {0} /\ clock \in Nat \ {0}
    /\ session \in [User -> SessionState]
    /\ active \subseteq User
    /\ pc \in [Req -> Stage]
    /\ loc \in [Req -> Locals]

Closing == {"resolved", "archived"}
Opened == {c \in Case : cases[c] # Null}
Known == {p \in Report : reports[p] # Null}
HasCase(p) == \E c \in Opened : cases[c].report = p

\* Two leads who open the same report get one case between them: the promise
\* of do_open_case's FOR UPDATE and its status test (triage.rs:27-30).
OneCasePerReport ==
    \A c, d \in Opened : cases[c].report = cases[d].report => c = d

\* What the reporter reads at /report/status is the status of the case, and
\* "intake" exactly while nobody has opened one (triage.rs:124-126,
\* cases.rs:279-281): two tables, written by racing transactions.
ReporterViewInSync ==
    /\ \A c \in Opened :
          /\ cases[c].report \in Known
          /\ reports[cases[c].report].status = cases[c].status
    /\ \A p \in Known : reports[p].status = "intake" <=> ~HasCase(p)

\* The rows of a case's history that say what its status, its assignee is.
StatusRows(c) ==
    {a \in caseActions : a.case = c /\ a.type \in {"case_opened", "status_changed"}}
AssigneeRows(c) ==
    {a \in caseActions : a.case = c /\ a.type \in {"assigned", "reassigned"}}
StatusSaid(a) == IF a.type = "case_opened" THEN "triage" ELSE a.to
IsNewest(a, rows) == \A b \in rows : b.id <= a.id

\* The audit overlay can be replayed: for every case the status row with the
\* highest id names its status and the assignment row with the highest id
\* its assignee, whatever transactions raced (0001_lursystem_schema.sql:59,
\* "every state change ... lands here").
LedgerReplay ==
    \A c \in Opened :
       /\ \E a \in StatusRows(c) :
             IsNewest(a, StatusRows(c)) /\ StatusSaid(a) = cases[c].status
       /\ IF cases[c].assignee = Null
          THEN AssigneeRows(c) = {}
          ELSE \E a \in AssigneeRows(c) :
                  IsNewest(a, AssigneeRows(c)) /\ a.to = cases[c].assignee

\* A case whose status is resolved or archived carries its closing stamp
\* (0001_lursystem_schema.sql:41-43), whichever transition got it there.
TerminalStamped ==
    \A c \in Opened : cases[c].status \in Closing => cases[c].closed

\* A row a handler who is no lead wrote comes after a row that assigned the
\* case to them: no id in the history shows work on a case its author had
\* never been given (cases.rs:10-15).
StaffWorkWasAssigned ==
    \A a \in caseActions :
       \/ IsLead(a.actor)
       \/ \E b \in AssigneeRows(a.case) : b.to = a.actor /\ b.id < a.id

\* Disclosures and disclosure_consumed rows pair off by correlation id, each
\* pair about one case, one lead and one instant: no disclosure is in one
\* audit table and not in the other (disclosure.rs:246-248).
DisclosuresPaired ==
    LET consumed == {a \in caseActions : a.type = "disclosure_consumed"} IN
    /\ {<<d.corr, d.case, d.requestedBy, d.at>> : d \in disclosures}
          = {<<a.corr, a.case, a.actor, a.at>> : a \in consumed}
    /\ \A a, b \in consumed : a.corr = b.corr => a = b

\* Nobody has seen an e-mail whose reading is not in the audit tables, even
\* when requests fail between COMMIT and response ("each viewing of the
\* email requires a fresh disclosure event", disclosure.rs:36-42).
ViewingIsLogged ==
    \A r \in Req : pc[r] = "viewed" => \E d \in disclosures : d.corr = r

\* While sessions only gain rights, every terminal transition and every
\* disclosure on record is the act of an account whose session passed the
\* re-auth wall (cases.rs:92-96, 0001_lursystem_schema.sql:107-113).
GatedByReauth ==
    /\ \A a \in caseActions :
          a.type = "status_changed" /\ a.to \in Closing => session[a.actor] = "elevated"
    /\ \A d \in disclosures : session[d.requestedBy] = "elevated" /\ IsLead(d.requestedBy)

\* Every request that arrives is answered: no cycle of row locks and no
\* handler that needs a second connection while its transaction holds one.
RequestsAnswered ==
    \A r \in Req : pc[r] # "idle" ~> pc[r] \in Final

\* The next statement of q needs a row that r's transaction holds.
WaitsFor(q, r) ==
    LET l == loc[q] IN
    \/ At(q, "open", "lock") /\ reportLock[l.report] = r
    \/ /\ l.op = "status" /\ pc[q] \in {"lock", "sync"}
       /\ \/ UpdateOf(pc[q], l.target) = "cases" /\ caseLock[l.case] = r
          \/ UpdateOf(pc[q], l.target) = "reports" /\ reportLock[l.report] = r
    \/ At(q, "reassign", "lock") /\ caseLock[l.case] = r
    \/ /\ At(q, "disclose", "lock") /\ cases[l.case] # Null
       /\ \/ caseLock[l.case] = r
          \/ At(r, "note", "commit") /\ loc[r].case = l.case
    \/ At(q, "note", "check") /\ caseLock[l.case] = r /\ loc[r].op = "disclose"

\* Requests never wait for each other in a circle.  do_status_transition takes
\* two row locks (cases.rs:263-287) and do_open_case takes the same two tables'
\* in the opposite order (triage.rs:88-133).  A transition that holds the case
\* may still wait for a report that a losing open-case holds until it rolls
\* back (triage.rs:89-111), and others for its case meanwhile; that is two
\* waits in a row, and there are never three.
NoWaitCycle ==
    \A p, q, r, s \in Req : ~(WaitsFor(p, q) /\ WaitsFor(q, r) /\ WaitsFor(r, s))

-----------------------------------------------------------------------------
(* The two abstract specifications, on the same tables.                    *)

Ledger == INSTANCE CaseLedger
Lifecycle == INSTANCE CaseLifecycle

\* Whatever races, the tables only change the way CaseLedger says.
ImplementsLedger == Ledger!Spec

\* Served one at a time, requests keep the documented lifecycle.
ImplementsLifecycle == Lifecycle!LifecycleSpec

-----------------------------------------------------------------------------
(* What the documentation says and racing requests break.                  *)

\* "Locked transitions" (cases.rs:71-75): a case moves only along them.
LockedTransitions ==
    [][\A c \in Opened : cases'[c].status # cases[c].status =>
          <<cases[c].status, cases'[c].status>> \in Lifecycle!Locked]_cases

\* "Non-terminal transition. closed_at stays NULL." (cases.rs:270).
OpenCasesUnstamped ==
    \A c \in Opened : cases[c].status \notin Closing => ~cases[c].closed

\* "Action history -- every case_actions row ..., ordered newest-first"
\* (cases.rs:36-37), where newest is by created_at (cases.rs:169): the first
\* assignment a reader meets is the assignment in force.
NewestFirstShowsAssignee ==
    \A c \in Opened : \A a \in AssigneeRows(c) :
       (\A b \in AssigneeRows(c) \ {a} : b.at < a.at) => a.to = cases[c].assignee
=============================================================================
