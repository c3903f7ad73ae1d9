# A verification of lursystem

lursystem is a whistleblower-reporting and case-handling server: Rust handlers
(`src/src/handlers/`) on the framework `rustio-admin`, over one Postgres
database (`src/migrations/`). This directory holds TLA+ modules translated from
that code, the TLC configurations that check them on small instances, and
theorems that TLAPS proves for every value of the constants.

## 1. Inventory

Paths below are relative to `src/src/` unless they start with `migrations/`.

| Component | State | Operations | What makes it correct |
|---|---|---|---|
| Database (`migrations/*.sql`, `models/*.rs`) | `reports`, `cases`, `case_actions`, `disclosures`, `documents`; row locks; BIGSERIAL ids; `NOW()` | SQL of the handlers | the four tables agree with one another after any race |
| Access guard (`auth_helper.rs`) | none; reads `rustio_sessions`, `rustio_users` | `require_role`, `is_session_elevated` | what a handler writes comes from an account that had the right |
| Triage (`handlers/triage.rs`) | reports, cases | `show_triage_queue`, `do_open_case` | one case per report; report and case agree; an opened report leaves the queue for good |
| Case workflow (`handlers/cases.rs`) | cases, reports, case_actions | `show_case_detail`, `do_status_transition`, `do_add_note`, `do_reassign` | the locked transitions; `closed_at`; the history tells what happened; authority; a page agrees with itself |
| Disclosure (`handlers/disclosure.rs`) | disclosures, case_actions | `show_disclose_form`, `do_disclose` | two audit tables in step; no e-mail shown without its row |
| Public form (`handlers/public.rs`) | reports | `show_report_form`, `do_submit_report`, `do_status_lookup` | a receipt opens its own report only; the reporter is told how the case stands |
| Auditor log (`handlers/audit.rs`) | none; reads case_actions | `show_audit_log`, the pager, `last_full_quarter_range` | a walk through the pages misses nothing; every type can be filtered for; the proposed ranges abut |
| Export (`handlers/export.rs`) | none; reads four tables | `do_export` | ranges neither overlap nor miss rows; the four lists belong together |
| Wiring (`main.rs`) | router, pool | boot, routes | |
| Framework CRUD | all tables | generic pages of `rustio-admin` | not in the repository |

How they interact: every request is a task of its own. The components never
call one another; they share the database. A handler takes a pool connection
for each statement outside a transaction, and holds one from `begin` to
`commit`. Two writing handlers meet only in rows: the report row (open-case,
status), the case row (status, reassign, disclosure, and a note's foreign key),
and the sequence of `case_actions.id`. The reading handlers (case page, queue,
disclosure form, audit log, export, status page) lock nothing and begin no
transaction: each of their SELECTs sees what is committed when it runs.

What is hard:

- `cases.rs` reads the case (authority, current status, previous assignee) on a
  pool connection **before** its transaction begins, and its UPDATEs do not test
  what was read. `triage.rs` and `disclosure.rs` read under `FOR UPDATE`.
- A status lives in `cases` and, copied, in `reports`.
- `created_at` is `NOW()`, the start of the transaction; ids are drawn after the
  row lock. The two orders differ under a race, and a row can appear whose
  `created_at` is long past.
- A note is one autocommitted INSERT: it has its time and its id before it waits for
  its foreign key and before it commits, and notes of one case exclude nobody but
  a disclosure, so that they may commit in another order than their ids'.
- A request may end at every await: a query fails, the client hangs up, the
  server stops. Its transaction rolls back, and what it had locked stays locked until
  it has; the same goes for an early return inside a transaction.
- The session may lapse or end, and the account may be deactivated, between two
  steps of a handler.
- A page or a file is put together from up to five statements while others
  commit, and a tab stays open after that.

`PROJECT.json` lists these as hazards, each at its line.

## 2. Modules

The writing core:

| Module | Models | Form |
|---|---|---|
| `LurState` | tables, row locks, sequence, `NOW()`, pool, requests; `Submit`; failure (`Cancel`) | constants with assumptions, state, shared actions |
| `AuthHelper` | `auth_helper.rs`; the framework's events on sessions and accounts | guards, `Arrive`, five framework events |
| `Triage` | `do_open_case` | lock, insert, commit |
| `Cases` | `do_status_transition`, `do_add_note`, `do_reassign`; the state machine | one action per awaited step |
| `Disclosure` | `do_disclose` | elevate, lock, commit, render |
| `Workflow` | all of them over one database | `Next`, `Spec`, `FairSpec`, the properties |
| `CaseLedger` | abstract: what the tables promise under any race | `Spec` |
| `CaseLifecycle` | abstract: the lifecycle `cases.rs` documents | `LifecycleSpec`, extends `CaseLedger` |

What is put beside it, each module extending `Workflow` with a variable and a
next-state relation of its own:

| Module | Models | Form |
|---|---|---|
| `Pages` | `show_case_detail`, `show_triage_queue`, `show_disclose_form` | browser tabs `pg`; one action per SELECT |
| `AuditLog` | `show_audit_log`: filters, the page's links, list and count, the clamp | browser tabs `rd` |
| `Export` | `do_export`: checks, four SELECTs, signature | exports `ex`; the columns `submittedAt`, `openedAt` |
| `PublicForm` | `do_submit_report`, `do_status_lookup` | submissions `fm`; the column `token` |
| `ReporterView` | abstract: what a reporter with a receipt is told | `Spec` |
| `Calendar` | inclusive dates to half-open instants; the range check | operators |
| `Quarter` | `last_full_quarter_range` over the Gregorian calendar | one step per day |

`MC_Workflow`, `MC_Pages`, `MC_AuditLog`, `MC_Export` and `MC_PublicForm` give TLC
the accounts, their roles and the symmetry sets; `Workflow_proofs`,
`History_proofs`, `Ledger_proofs`, `Pages_proofs`, `Public_proofs`, `Export_proofs`,
`Audit_proofs` and `Quarter_proofs` hold the theorems of section 4.

**State.** `reports`, `cases` map an id to a row or `Null`; a row has the
columns some property tells apart (a report: status, whether an e-mail was left;
a case: report, assignee, status, whether `closed_at` is set). `caseActions` and
`disclosures` are sets of rows. `reportLock`, `caseLock` name the request whose
transaction holds the row. `nextId` is the sequence, `clock` is `NOW()`.
`session`, `active` are the framework's tables. A request `r` is a process with
the stage `pc[r]` it is about to execute and its locals `loc[r]`; `r` is also
its correlation id.

**Actions.** One per `.await` that another request can observe. Statements of a
transaction that follow the acquisition of their row lock and wait for nothing
are taken with the step that acquires it, and the transaction's writes become
visible at its COMMIT, which is what READ COMMITTED shows other requests. A
blocked statement is a disabled action. `Cancel` may take any request in flight,
at any stage. An early return inside a transaction (a report opened by somebody
else, an anonymous report) goes to the stage `rollback` with its lock, and
`Rollback` releases it. A note's INSERT is three stages: `NoteInsert` fixes `NOW()`
and draws the id, `NoteCheck` waits for the case row as the foreign key's FOR KEY
SHARE does, `NoteCommit` makes the row visible; it holds a connection in between.
A reporter's INSERT (`Submit`) has no row to wait for and is one step: its `NOW()` and
its commit coincide.

**Time.** `NOW()` is `clock` at the start of the transaction; after it the clock
advances by some member of `Ticks`. With 0 in `Ticks` transactions may begin at
one instant, as they may in Postgres, whose `NOW()` counts microseconds.

**Composition.** A reader's next-state relation is `Next /\ UNCHANGED own` or an
own step that leaves the workflow's variables alone, so that every behaviour of
`PagesSpec`, `AuditSpec`, `ExportSpec` and `PublicSpec` is one of the workflow's
`Spec` too, and what is proved of the workflow holds in it. `Export` adds to each
workflow step the two DEFAULT columns it selects by (`Stamp`): a new report's
`submitted_at`, a new case's `opened_at`. `PublicForm` refines the workflow's
`Submit`, which inserts any report, to the one INSERT of a validated form.

**Data abstracted.** A text is its length in bytes, which is what `validate`
looks at; an e-mail field is empty, an address, or refused; notes within their
length limit are a note; `from` and `to` of an action row are the two halves of its
note text (`triage -> investigating`). A reporter's token is a model value; the
generator may draw any, the same one twice included. Severity and channel are
posted and validated, and no handler reads them again. One session per account.

## 3. What is checked

| Run | Instance | Shows |
|---|---|---|
| `races` | 4 requests, three in flight, a lead and a handler, every endpoint, one report, two case ids | `OneCasePerReport`, `ReporterViewInSync`, `TerminalStamped`, `LedgerReplay`, `StaffWorkWasAssigned`, `DisclosuresPaired`, `ViewingIsLogged`, `NoWaitCycle`; the system implements `CaseLedger` (`ImplementsLedger`); `TypeOK` |
| `serial` | 5 requests, one at a time; sessions lapse and end | the system implements `CaseLifecycle` (`ImplementsLifecycle`); `OpenCasesUnstamped`, `NewestFirstShowsAssignee` |
| `liveness` | 3 requests, every endpoint, pool of 2; sessions gain rights, accounts are deactivated | `RequestsAnswered`: no cycle of locks, or of lock and connection; `GatedByReauth` |
| `pages` | 2 tabs, 3 requests | `PageHistoryExplains`, `PageShownToAssigned`, `OpenedStaysOutOfQueue`, `PagesTypeOK` |
| `walk` | 1 tab, a lead and a handler, 3 requests of every endpoint, two in flight; one row a page, three pages | `WalkMissesNothing`, `EmptyPageMeansNoMatch`, `EveryTypeSelectable`, `AuditTypeOK` |
| `export` | 2 exports, 2 requests that may begin at one instant | `SettledComplete`, `AdjacentExportsConcatenate`, `EarlierListsSupported`, `ExportTypeOK` |
| `quarters` | every day from 2096 to 2103 | `ProposesClosedQuarter`, `ProposalsAbut`, `YearAndOverlapAccepted` |
| `public` | 2 submissions, 2 tokens, 3 requests | `ReceiptOpensOwnReport`; the public side implements `ReporterView` (`ImplementsReporterView`); `PublicTypeOK` |
| `lifecycle_race`, `closed_race`, `history_race`, `late_commit` | 2 to 4 requests | the four findings below |

**Bounds.** `Req` bounds the requests of a behaviour (each is sent once; a retry
is another request), `MaxActive` those in flight together, `PoolSize` the
connections, and `Report`, `Case`, `User` the rows. `Ops`, `Targets` and `Events`
choose the endpoints, the posted statuses and the framework's events.

- `races`: four requests are an open and three racing ones: enough for two writers
  of one row, and for a third that supersedes what they left. Two case ids for one
  report are what a second case for it would need. With three in flight a circle of
  two or of three requests is within the run; three waits in a row that close no
  circle would take four, and are excluded by the proof.
- `pages`, `export`, `public`: `MaxActive = 1`, so the requests come one after the
  other, but each at any point between the reads of a tab, an export or a reporter.
  Their races among themselves are the subject of `races`, and the proofs of
  section 4 hold for any `MaxActive`. Three requests let a page see an opened, a
  moved and a reassigned case; two exports are what two adjacent ranges need; two
  submissions and two tokens are what a collision needs.
- `walk`: one row a page and three rows at most (a request writes one), so that the
  walk spans three pages and every row starts a page. `UrlPages` holds page numbers
  below, at and above the first; `MaxPage` equals the rows there can be, so that
  nothing the pager promises is cut off: what becomes of the rows past `MAX_PAGE` is outside
  the run (see the second note below). `Ticks = {1}`: no two rows have the same
  `created_at` (see the third). The second account lets a case be assigned twice, which is
  what writes a `reassigned` row.
- `export`: a day is one instant and a range one or two days of two, so that
  transactions and statements fall on both sides of a midnight, two exports can be
  adjacent, and the empty range is refused. `Ticks = {0, 1}`: rows of one instant fall on
  one side of a midnight together. Every other run has `Ticks = {1}`; the proofs take
  any `Ticks`. The other two refusals only leave
  fewer exports; `quarters` checks what must be accepted.
- `quarters`: eight years through 2100, which is no leap year, with `MaxRangeDays`
  and `LastDay` as in the code.
- Symmetry is used over requests, tabs, reports and cases where no property
  distinguishes them, never in the temporal liveness run. In `public` the system
  may stop once every form is refused or lost and every request done, and
  `quarters` stops after its last day; everywhere else deadlock is checked.

**Fairness.** `FairSpec` has weak fairness of each request's own steps: tokio
polls a future that is ready, Postgres queues row locks, and sqlx's pool is a
fair queue. It has none for clients, failures or framework events. Weak fairness
is enough although a lock or a connection may be taken and released again and
again meanwhile: the requests are finite in number, so a waiter is at last
enabled for good.

**Findings** (the runs with `expect: violation`):

1. *Locked transitions are not locked.* `do_status_transition` tests the status it
   read before its transaction (`cases.rs:225`), and the UPDATE (`cases.rs:271`)
   does not test it again. Two racing requests move a case along a pair the
   table at `cases.rs:71-75` forbids, for example out of `archived`.
2. *`closed_at` on open cases.* The comment at `cases.rs:270` says a non-terminal
   transition leaves `closed_at` NULL; after a racing terminal one it is set.
3. *Newest-first is not the order of effect.* `cases.rs:169` sorts by
   `created_at`, which is the transaction's start. Two racing reassignments can be
   listed in the order they did not take effect.
4. *A range that was over is not complete.* The export selects by `created_at`
   (`export.rs:187`). A transaction that began before midnight and commits after
   the export of that day has run leaves a row which no later range holds, while
   `export.rs:17-18` promises every audit-bearing row of the range. What does
   hold is `SettledComplete`: once no transaction begun in the range is still
   open, the file is complete and stays so. (A note's INSERT counts as one; a
   reporter's is a single step here, so a file that is to be complete must in the
   same way come after the reports begun in the range have committed.)

What the code does guarantee under those same races is `CaseLedger`, and with
requests served one by one `CaseLifecycle`.

**Seen while modelling, without a run of its own:**

- *Reassigning to an account just deactivated.* `do_reassign` looks up the target
  with `is_active` on a pool connection (`cases.rs:401-408`) and writes later, in
  its transaction (`cases.rs:446-455`). The model has the two steps and the event
  between them. An account deactivated a moment after the COMMIT keeps the case
  in the same way.
- *The pager past the last page.* `page` is clamped to `MAX_PAGE` (`audit.rs:100`);
  `render_pagination` counts the pages without that limit (`audit.rs:655`, `673`).
  On page 200 of more, Next leads back to page 200, and rows past the 10000th are
  on no page. `audit.rs:65` says that the page "refuses to render beyond this".
- *Ties in the audit log.* `ORDER BY created_at DESC` has no second key
  (`audit.rs:190-191`). With `Ticks = {0, 1}` `WalkMissesNothing` fails: two rows of
  one instant come in one order on page 1 and in the other on page 2, so that the
  walk shows one of them twice and the other never.
- *A lapse after the re-auth wall.* `is_session_elevated` is one query and the write a later
  transaction (`cases.rs:247-259`, `disclosure.rs:142-191`): a session that lapses or ends
  in between does not stop the write. `GatedByReauth` is therefore stated, and
  checked, for sessions that only gain rights.
- *Bytes and characters.* `validate` compares `str::len()`, which is bytes, while
  its banners speak of characters (`public.rs:172-181`): a text with `å`, `ä`, `ö`
  near the limit is refused although it is short enough, or let through although
  it is too short.

## 4. What is proved

The theorems hold for every set of requests, reports, cases and accounts, every
assignment of roles, every choice of endpoints and every bound, under named
assumptions: those of `LurState` and `AuthHelper` (`Null` is none of the other
values; `RoleOf`, `Ops`, `SignedIn`, `Targets` and `Events` have their types),
`CalendarAssumption` (a day has at least one instant), `ExportAssumption` (what is
posted is a date), `PublicAssumption` (`Null` is none of the public side's
values; lengths are natural numbers), `AuditAssumption` (a page has at least one
row and there is at least one page; what can be typed is a filter) and
`QuarterAssumption` (the years are positive and there is one). What a theorem
needs beyond that stands in the table and in its statement.

| Theorem | Property |
|---|---|
| `TypeCorrect` | `TypeOK` |
| `ReportsOpenedOnce` | `OneCasePerReport` |
| `ReporterSeesCase` | `ReporterViewInSync` |
| `ClosedCasesStamped` | `TerminalStamped` |
| `EveryViewingLogged` | `ViewingIsLogged` |
| `DisclosuresInBothTables` | `DisclosuresPaired` |
| `HistoryReplays` | `LedgerReplay` |
| `StaffHadBeenAssigned` | `StaffWorkWasAssigned` |
| `NoDeadlockOfRows` | `NoWaitCycle` |
| `WallHolds` | `GatedByReauth`, when `Events` has neither `"lapse"` nor `"signout"` |
| `RefinesLedger` | `ImplementsLedger`: the system implements `CaseLedger` |
| `LifecycleKept` | `ImplementsLifecycle`: the system implements `CaseLifecycle`, while `NoOverlap` |
| `TransitionsLocked` | `LockedTransitions`, while `NoOverlap` |
| `OpenUnstamped` | `OpenCasesUnstamped`, while `NoOverlap` |
| `NewestIsInForce` | `NewestFirstShowsAssignee`, while `NoOverlap` |
| `ServedOneByOne` | `NoOverlap` and those four, when `MaxActive <= 1` |
| `PagesTyped` | `PagesTypeOK` |
| `HistoryExplains` | `PageHistoryExplains` |
| `ShownToAssigned` | `PageShownToAssigned` |
| `OpenedStaysOut` | `OpenedStaysOutOfQueue` |
| `PublicTyped` | `PublicTypeOK` |
| `OwnReportOpened` | `ReceiptOpensOwnReport` |
| `RefinesReporterView` | `ImplementsReporterView`: the public side implements `ReporterView` |
| `NewsNeverGoesBack` | `View!NewsGoesForward`: who was told "taken up" is never told "waiting" again |
| `ExportTyped` | `ExportTypeOK` |
| `SettledFilesComplete` | `SettledComplete` |
| `AdjacentFilesConcatenate` | `AdjacentExportsConcatenate` |
| `ListsSupported` | `EarlierListsSupported` |
| `AuditTyped` | `AuditTypeOK` |
| `TypesSelectable` | `EveryTypeSelectable` |
| `NoEmptyPage` | `EmptyPageMeansNoMatch` |
| `WalkIsComplete` | `WalkMissesNothing`, while no two rows share an instant (`NoTies`) |
| `ClosedQuarterProposed` | `ProposesClosedQuarter`, when `MaxRangeDays >= 91` and the calendar reaches the last day |
| `ProposalsFollow` | `ProposalsAbut` |
| `ThirteenMonthsAccepted` | `YearAndOverlapAccepted`, when `MaxRangeDays >= 396` and the calendar reaches the last range |

Hardly any of these is inductive as it stands.

**The workflow.** The invariant is built in layers, each inductive given the
ones before it:

1. `Typed`: types, and for each handler and stage what its locals hold: the rows
   they name exist, `loc.report` is the report of `loc.case`, the posted target is
   one the state machine allows from the status that was *read*. Rows are never
   deleted and a case never changes its report (`Persist`), so a request's step
   cannot spoil another's locals.
2. `Locked`: at each stage of a transaction, which rows it has locked, and what
   the lock preserves (the report is still in `intake`, the id of the new case is
   still unused, the e-mail is still there). `Framed` says a step of `r` writes no
   row another request has locked; with it, `Locked` is inductive.
3. `Sync`: `OneCasePerReport` and `ReporterViewInSync` together; each needs the
   other.
4. `Written`: a request has rows in the audit tables only past its COMMIT. Gives
   `ViewingIsLogged`, and that a correlation id is written once, which pairs the
   disclosures.
5. `Numbered`: the id a transaction has drawn is above every id of its kind in
   its case, because it was drawn under the case's row lock. Gives
   `LedgerReplay`.
6. `AllAuthorised`: a request past the authority filter is a lead's, or its
   account is named by an assignment row, older than the row it will write. Uses
   `LedgerReplay` at the read of the assignee. Gives `StaffWorkWasAssigned`.
7. `Owned`: the converse of `Locked`, a row is locked only by a request at a
   stage that holds it. It gives `NoWaitCycle`: a request that is waited for holds a
   row, and the only one that holds a row and waits is a transition that wants its
   report; whoever holds that report, a losing open-case until it rolls back for
   example, waits for nothing. So a transition may wait for an open-case while others
   wait for the transition, two waits in a row, but no third.
8. `Timed`: no transaction and no row bears a time to come. It says nothing about ties:
   two transactions may have one time.
9. `AllElevated`: a request past `is_session_elevated` still has an elevated
   session, if none lapses. Gives `WallHolds`. The hypothesis is needed: the check
   is one query and the write a later transaction, so a session that lapses in
   between does not stop the write.

The refinement of `CaseLedger` has the identity as its mapping (the four tables
are the abstract state), so it needs no new invariant: under `Typed`, `Locked`,
`Written` and `Numbered` each COMMIT is one operation of `CaseLedger` (`OpenStep`,
`MoveStep`, `AssignStep`, `NoteStepLogged`, `DiscloseStepLogged`) and every other
step leaves the tables alone. The order of the ids is promised only where a row
lock gives it: among the rows of one case that supersede one another, not of notes.

**The lifecycle.** What the violation runs refute holds under `NoOverlap`: no two
requests that have read a case's status (or its assignee) and not yet written it are
about the same case. Transactions that begin at one instant are allowed. That is far less than serving requests one by one, since
openings, notes, disclosures, a transition beside a reassignment and
work on different cases may race at will; it is what the missing test in
the UPDATEs amounts to. Under it `AllCurrent` is inductive (what a handler read is
still so when it writes; rows of its kind in its case are older than its
transaction), and so is `AllInForce` (the assignee has a row, and no row of the case
bears a later time). With them each COMMIT is one faithful operation of `CaseLifecycle`.
`ServedOneByOne` proves `NoOverlap` itself for `MaxActive <= 1`, which is the run
`serial` for every instance.

**The pages.** `TabOK` says, for each stage of a tab, what of the things read is
*still* true: the case and its report, and that the table
`caseActions` has rows that name the status and the assignee of the header. That
is `LedgerReplay` at the moment the header is read; rows only join, so it
lasts until the history is read, and then the history on the page has those rows.
It would fail if the history were read first. `OpenedStaysOutOfQueue` rests on
`Sync`: a report with a case is not in `intake`.

**The public side.** `Forms` says that a receipt and the row it was given for
carry the same token, that no two rows carry one token (the UNIQUE constraint)
and that no row has two receipts. Under it the SELECT by token can only find the
row of the receipt. The refinement mapping reads `stands` off `cases` and `news`
off the status the page showed, which is a copy in `reports`: that the two agree is
`Sync`, and so the mapping holds only if the workflow keeps the copy true.
`NewsNeverGoesBack` is the abstract specification's property, carried over.

**The export.** A row a step adds is stamped with `clock` or with the start of a
transaction that was under way (`Fresh`). Once a range is *settled*, both are
outside it, and stay so: `clock` only grows and new transactions begin at `clock`.
So from its first SELECT on, a settled file's range gains no rows (`CompleteOK`),
whichever statement reads it when. `FileOK` keeps, list by list, what supports
the lists before it: a case read was opened in a `case_opened` row of the same
stamp (`OpenedOn`) and its status was named by a row (`LedgerReplay`); a
`disclosure_consumed` row has its disclosure (`Paired`), in the range because both
rows carry one stamp. It would fail if the actions were read before the cases.
`RangeOfDays` shows that the half-open range of instants is the range of days,
both inclusive, for days of any length, which joins adjacent ranges (`Joins`).

**The auditor log.** The history is finite (`FiniteHistory`), so rows have ranks: how
many rows of the filter are newer (`Rank`). Page `p` is the rows of rank `(p - 1) *
PageSize` up to `p * PageSize`, exactly, if no two rows share an instant (`NoTies`).
`AllWithin` says that a link taken leads to a page that has rows: what was counted can
only grow. `AllAhead` says that the rows a walk began with and has not shown have
ranks on the pages to come: a row written meanwhile raises ranks, never lowers them,
and a listing takes away exactly those below the page's end. At the last page there
are none left. The hypothesis is needed (see the ties of section 3).

**The quarter.** `MonthStarts` says how far into its year each month begins, and how
far away the next year is, by the divisions of `FirstOf`; `DateOf` that the year
and month chrono's calendar chooses are the ones the day lies in. `Dated` is the inductive
invariant, and `ProposalOf` makes the proposal a function of year and quarter, so
that only the step into a new month, or a new year, can change it (`DayAfter`). The
code's bound, `MAX_RANGE_DAYS`, meets both hypotheses on `MaxRangeDays`.

**Only model-checked:** `RequestsAnswered`. Liveness under fairness is beyond TLAPS;
`NoDeadlockOfRows` proves the part of it that is safety: no circle of requests that wait
for each other's rows. The four violation
runs are counterexamples, which need no proof.

## 5. Not modelled

- Boot, migrations, middleware order (`main.rs`): they run once, in sequence.
- The framework's CRUD pages on the registered models: not in the repository.
  Every property is about the writes of the project's own handlers, which delete no
  row and change no e-mail. The branches that expect otherwise (`triage.rs:98-103`,
  `disclosure.rs:206-211`) are in the model and are reached by ids that never were;
  that an e-mail once there stays there is no property of this project.
- Login, MFA, session storage: the framework's; five events stand for them.
- HTML, labels, form parsing and the e-mail of the assignee on a case page.
- The bytes of the exported JSON and its HMAC: no property is about them; that
  the key is looked at only after the four reads is an early return of `Export`.
- `documents`: a model and a table without a handler.

## 6. Plan

Done: the writing core and its two abstract specifications, the reading pages,
the audit log, the export, the quarter, the public side with its abstract
specification, and the proofs of section 4: every invariant and action property a
passing run checks, and the three refinements.

Left, in this order:

1. Properties of the abstract specifications, proved in them and carried over by
   the refinements: of `CaseLedger`, that an opened report never waits again and that
   the history only grows; of `CaseLifecycle`, that an archived case stays archived.
2. The bound of the pool: a request in a transaction asks for no second connection, so
   that a request that waits for the pool holds no row.
