------------------------------ MODULE LurState ------------------------------
(***************************************************************************)
(* The state lursystem keeps in Postgres and the state of the requests in  *)
(* flight in the web server.  The handler modules (Triage, Cases,          *)
(* Disclosure) extend this one with one action per awaited step.           *)
(*                                                                         *)
(* A request is a process and also its own correlation id.  Every `.await' *)
(* on the database is a step of its own; a transaction's writes become     *)
(* visible together at its COMMIT (READ COMMITTED), and the rows it wrote  *)
(* or selected FOR UPDATE stay locked until the transaction ends.          *)
(***************************************************************************)
EXTENDS Integers, FiniteSets

CONSTANTS
    Req,        \* HTTP requests; each is sent at most once (a retry is another)
    User,       \* accounts of rustio_users
    Report,     \* ids of `reports'
    Case,       \* ids of `cases'
    Null,       \* SQL NULL, Rust None, or a row that does not exist
    RoleOf,     \* the role of every account
    Ops,        \* the endpoints clients call
    SignedIn,   \* the states the accounts' sessions may start in
    Targets,    \* target_status values clients post
    Ticks,      \* what NOW() may advance by from one transaction to the next
    MaxActive,  \* bound: requests in flight at one time
    PoolSize    \* connections of the sqlx pool

Status == {"intake", "triage", "investigating", "resolved", "archived"}
CaseStatus == Status \ {"intake"}
Role == {"user", "staff", "supervisor", "administrator", "developer"}
SessionState == {"none", "live", "elevated"}
OpName == {"open", "status", "note", "reassign", "disclose"}
ActionType == {"case_opened", "status_changed", "note_added", "assigned",
               "reassigned", "disclosure_consumed"}

ASSUME NullAssumption ==
    Null \notin Req \cup User \cup Report \cup Case \cup Status

ASSUME InputAssumption ==
    /\ RoleOf \in [User -> Role]
    /\ Ops \subseteq OpName
    /\ SignedIn \subseteq SessionState
    /\ Targets \subseteq Status

\* Nothing keeps two transactions from the same microsecond: 0 is a tick.
ASSUME TickAssumption == Ticks \subseteq Nat

ASSUME BoundAssumption == MaxActive \in Nat /\ PoolSize \in Nat

-----------------------------------------------------------------------------
(* Rows of the tables, with the columns the properties tell apart.         *)

ReportRow == [status : Status, email : BOOLEAN]

CaseRow == [report : Report, assignee : User \cup {Null},
            status : CaseStatus, closed : BOOLEAN]

\* A case_actions row.  `from' and `to' are the two halves of its note.
ActionRow == [id : Nat, case : Case, actor : User, type : ActionType,
              from : Status \cup User \cup {Null},
              to : Status \cup User \cup Report \cup {Null},
              at : Nat, corr : Req]

DisclosureRow == [case : Case, requestedBy : User, at : Nat, corr : Req]

ASSUME RowAssumption == Null \notin ReportRow \cup CaseRow

VARIABLES
    reports, cases,            \* id -> row, or Null
    caseActions, disclosures,  \* sets of rows; nothing deletes from them
    reportLock, caseLock,      \* the request whose transaction holds the row
    nextId,                    \* sequence behind case_actions.id (BIGSERIAL)
    clock,                     \* NOW(), at the start of a transaction
    session,                   \* rustio_sessions, one session per account
    active,                    \* accounts with is_active
    pc, loc                    \* the requests: next step, handler's locals

tables == <<reports, cases, caseActions, disclosures>>
locks == <<reportLock, caseLock>>
counters == <<nextId, clock>>
framework == <<session, active>>
requests == <<pc, loc>>
vars == <<tables, locks, counters, framework, requests>>

-----------------------------------------------------------------------------
(* Requests.                                                               *)

Final == {"done", "viewed"}   \* "viewed": the response shows the e-mail
InTx == {"lock", "sync", "insert", "check", "commit", "rollback"}
Stage == {"idle", "load", "target", "elevate", "begin", "append", "render"} \cup InTx \cup Final

Locals == [op : OpName \cup {Null}, user : User \cup {Null},
           case : Case \cup {Null}, report : Report \cup {Null},
           target : Status \cup User \cup {Null},
           status : CaseStatus \cup {Null}, assignee : User \cup {Null},
           at : Nat, id : Nat]

NoLocals == [op |-> Null, user |-> Null, case |-> Null, report |-> Null,
             target |-> Null, status |-> Null, assignee |-> Null,
             at |-> 0, id |-> 0]

InFlight == {r \in Req : pc[r] \notin {"idle"} \cup Final}
ConnectionFree == Cardinality({r \in Req : pc[r] \in InTx}) < PoolSize

\* Request r runs handler op and is about to take the step named stage.
At(r, op, stage) == pc[r] = stage /\ loc[r].op = op

Goto(r, stage) == pc' = [pc EXCEPT ![r] = stage]

\* The handler returns, early or at its end, and drops what it holds.
Return(r, final) ==
    /\ pc' = [pc EXCEPT ![r] = final]
    /\ loc' = [loc EXCEPT ![r] = NoLocals]

\* The transaction of r ends, committed or rolled back.
ReleaseLocks(r) ==
    /\ caseLock' = [c \in Case |-> IF caseLock[c] = r THEN Null ELSE caseLock[c]]
    /\ reportLock' = [p \in Report |-> IF reportLock[p] = r THEN Null ELSE reportLock[p]]

EndTx(r) == Return(r, "done") /\ ReleaseLocks(r)

Tick == \E t \in Ticks : clock' = clock + t

\* db.pool().begin(): a connection leaves the pool and NOW() is fixed for
\* every statement of the transaction.
BeginTx(r) ==
    /\ pc[r] = "begin"
    /\ ConnectionFree
    /\ Goto(r, "lock")
    /\ loc' = [loc EXCEPT ![r].at = clock]
    /\ Tick
    /\ UNCHANGED <<tables, locks, nextId, framework>>

\* The transaction of an early return is rolled back, or dropped: what it
\* locked stays locked until then.
Rollback(r) ==
    /\ pc[r] = "rollback"
    /\ EndTx(r)
    /\ UNCHANGED <<tables, counters, framework>>

\* A failed await (`?'), a client that hangs up, a server that stops: the
\* handler's future is dropped and its transaction rolls back.  The rollback
\* needs no step of its own here: a failure may be as late as any rollback.
Cancel(r) ==
    /\ r \in InFlight
    /\ EndTx(r)
    /\ UNCHANGED <<tables, counters, framework>>

\* The case_actions row request r writes, as INSERTed with its correlation id.
\* Mutant: the two halves of the note are swapped.
NewAction_Swapped(r, id, at, c, type, from, to) ==
    [id |-> id, case |-> c, actor |-> loc[r].user, type |-> type,
     from |-> to, to |-> from, at |-> at, corr |-> r]
NewAction(r, id, at, c, type, from, to) ==
    [id |-> id, case |-> c, actor |-> loc[r].user, type |-> type,
     from |-> from, to |-> to, at |-> at, corr |-> r]

-----------------------------------------------------------------------------
(* The anonymous form (do_submit_report): one autocommitted INSERT, in one *)
(* step: here its NOW() and its commit coincide.                           *)

Submit(p) ==
    /\ reports[p] = Null
    /\ ConnectionFree
    /\ \E email \in BOOLEAN :
          reports' = [reports EXCEPT ![p] = [status |-> "intake", email |-> email]]
    /\ UNCHANGED <<cases, caseActions, disclosures, locks, counters, framework, requests>>

Init ==
    /\ reports = [p \in Report |-> Null]
    /\ cases = [c \in Case |-> Null]
    /\ caseActions = {}
    /\ disclosures = {}
    /\ reportLock = [p \in Report |-> Null]
    /\ caseLock = [c \in Case |-> Null]
    /\ nextId = 1
    /\ clock = 1
    /\ session \in [User -> SignedIn]
    /\ active = User
    /\ pc = [r \in Req |-> "idle"]
    /\ loc = [r \in Req |-> NoLocals]
=============================================================================
