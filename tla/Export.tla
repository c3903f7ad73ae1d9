------------------------------- MODULE Export -------------------------------
(***************************************************************************)
(* src/handlers/export.rs: GET /admin/audit/export, run beside the case    *)
(* workflow.                                                               *)
(*                                                                         *)
(*   reports -> cases -> actions -> disclosures -> sign -> done            *)
(*                                                                         *)
(* The four SELECTs are statements of their own on pool connections of     *)
(* their own: each sees what has been committed when it runs.              *)
(***************************************************************************)
EXTENDS Workflow, Calendar

CONSTANTS
    Exp,    \* export requests
    Days    \* the dates auditors post

ASSUME ExportAssumption == Days \subseteq 0..LastDay

VARIABLES
    submittedAt, openedAt,   \* the columns the export selects rows by
    ex                       \* the exports: next statement and payload so far

stamps == <<submittedAt, openedAt>>
exportVars == <<vars, stamps, ex>>

\* The SELECTs in the order the handler awaits them.
\* Mutant: the history is read before the cases.
Following_ActionsFirst ==
    [reports |-> "actions", actions |-> "cases", cases |-> "disclosures",
     disclosures |-> "sign"]
Following ==
    [reports |-> "cases", cases |-> "actions", actions |-> "disclosures",
     disclosures |-> "sign"]

ExportStage == {"idle", "reports", "cases", "actions", "disclosures", "sign",
                "done", "failed"}
Running == ExportStage \ {"idle", "done", "failed"}

\* The payload, its rows cut down to ids and a case's status.  `began' and
\* `settled' are for the properties: no step reads them.
Payload == [stage : ExportStage, from : 0..LastDay, to : 0..LastDay,
            reports : SUBSET Report,
            cases : SUBSET [id : Case, status : CaseStatus],
            actions : SUBSET ActionRow, disclosures : SUBSET DisclosureRow,
            began : Nat, settled : BOOLEAN]

NoPayload == [stage |-> "idle", from |-> 0, to |-> 0, reports |-> {}, cases |-> {},
              actions |-> {}, disclosures |-> {}, began |-> 0, settled |-> FALSE]

\* No transaction under way stamps its rows inside the range.
NoneInRange(from, to) ==
    \A r \in Req : pc[r] \in InTx => ~InRange(loc[r].at, from, to)

\* The range is over, and so is every transaction that began in it.
Settled(from, to) == Midnight(to + 1) <= clock /\ NoneInRange(from, to)

-----------------------------------------------------------------------------

\* The role guard, then the checks on the two dates.
StartExport(e) ==
    /\ ex[e].stage = "idle"
    /\ ConnectionFree
    /\ \E u \in User, from, to \in Days :
          \/ /\ RequireRole(u, "supervisor") /\ RangeAccepted(from, to)
             /\ ex' = [ex EXCEPT ![e].stage = "reports", ![e].from = from, ![e].to = to]
          \/ /\ ~(RequireRole(u, "supervisor") /\ RangeAccepted(from, to))
             /\ ex' = [ex EXCEPT ![e].stage = "failed"]

SelectReports(e) ==
    LET x == ex[e] IN
    /\ x.stage = "reports"
    /\ ConnectionFree
    /\ ex' = [ex EXCEPT
          ![e].stage = Following["reports"],
          ![e].reports = {p \in Known : InRange(submittedAt[p], x.from, x.to)},
          ![e].began = clock,
          ![e].settled = Settled(x.from, x.to)]

SelectCases(e) ==
    LET x == ex[e] IN
    /\ x.stage = "cases"
    /\ ConnectionFree
    /\ ex' = [ex EXCEPT
          ![e].stage = Following["cases"],
          ![e].cases = {[id |-> c, status |-> cases[c].status] :
                           c \in {d \in Opened : InRange(openedAt[d], x.from, x.to)}}]

SelectActions(e) ==
    LET x == ex[e] IN
    /\ x.stage = "actions"
    /\ ConnectionFree
    /\ ex' = [ex EXCEPT
          ![e].stage = Following["actions"],
          ![e].actions = {a \in caseActions : InRange(a.at, x.from, x.to)}]

SelectDisclosures(e) ==
    LET x == ex[e] IN
    /\ x.stage = "disclosures"
    /\ ConnectionFree
    /\ ex' = [ex EXCEPT
          ![e].stage = Following["disclosures"],
          ![e].disclosures = {d \in disclosures : InRange(d.at, x.from, x.to)}]

\* RUSTIO_SECRET_KEY, looked at only now, signs the payload.
Sign(e) ==
    /\ ex[e].stage = "sign"
    /\ ex' = [ex EXCEPT ![e].stage = "done"]

\* A failed await, a key that is missing or shorter than 32 bytes, an
\* auditor who hangs up: no file.
DropExport(e) ==
    /\ ex[e].stage \in Running
    /\ ex' = [ex EXCEPT ![e].stage = "failed"]

ExportStep(e) ==
    \/ StartExport(e)
    \/ SelectReports(e) \/ SelectCases(e) \/ SelectActions(e) \/ SelectDisclosures(e)
    \/ Sign(e) \/ DropExport(e)

\* submitted_at and opened_at are NOW() of the INSERT's own transaction.
\* Mutant: opened_at has no default and the INSERT of a case leaves it out.
Stamp_NoDefault ==
    /\ submittedAt' = [p \in Report |->
          IF reports[p] = Null /\ reports'[p] # Null THEN clock ELSE submittedAt[p]]
    /\ openedAt' = [c \in Case |->
          IF cases[c] = Null /\ cases'[c] # Null THEN Null ELSE openedAt[c]]
Stamp ==
    /\ submittedAt' = [p \in Report |->
          IF reports[p] = Null /\ reports'[p] # Null THEN clock ELSE submittedAt[p]]
    /\ openedAt' = [c \in Case |->
          IF cases[c] = Null /\ cases'[c] # Null THEN loc[caseLock[c]].at ELSE openedAt[c]]

ExportInit ==
    /\ Init
    /\ submittedAt = [p \in Report |-> 0]
    /\ openedAt = [c \in Case |-> 0]
    /\ ex = [e \in Exp |-> NoPayload]

ExportNext ==
    \/ Next /\ Stamp /\ UNCHANGED ex
    \/ \E e \in Exp : ExportStep(e) /\ UNCHANGED <<vars, stamps>>

ExportSpec == ExportInit /\ [][ExportNext]_exportVars

-----------------------------------------------------------------------------
ExportTypeOK ==
    /\ submittedAt \in [Report -> Nat]
    /\ openedAt \in [Case -> Nat]
    /\ ex \in [Exp -> Payload]

Files == {e \in Exp : ex[e].stage = "done"}

\* Within(at, from, to): the instant falls on one of the days from..to.
Within(at, from, to) == from <= DayOf(at) /\ DayOf(at) <= to

ReportsOf(from, to) == {p \in Known : Within(submittedAt[p], from, to)}
CasesOf(from, to) == {c \in Opened : Within(openedAt[c], from, to)}
ActionsOf(from, to) == {a \in caseActions : Within(a.at, from, to)}
DisclosuresOf(from, to) == {d \in disclosures : Within(d.at, from, to)}
CaseIds(e) == {row.id : row \in ex[e].cases}

\* A file whose first SELECT ran after the range and after every transaction
\* begun in it holds every row of the range and no other, then and at any
\* later time: the four statements need no transaction and the signature
\* stays true (export.rs:17-21).
SettledComplete ==
    \A e \in Files : ex[e].settled =>
       /\ ex[e].reports = ReportsOf(ex[e].from, ex[e].to)
       /\ CaseIds(e) = CasesOf(ex[e].from, ex[e].to)
       /\ ex[e].actions = ActionsOf(ex[e].from, ex[e].to)
       /\ ex[e].disclosures = DisclosuresOf(ex[e].from, ex[e].to)

\* Two adjacent exports can be concatenated (export.rs:93-94): no row is in
\* both, and settled ones leave out no row of the joint range.
AdjacentExportsConcatenate ==
    \A e, f \in Files : ex[f].from = ex[e].to + 1 =>
       /\ ex[e].reports \cap ex[f].reports = {}
       /\ CaseIds(e) \cap CaseIds(f) = {}
       /\ ex[e].actions \cap ex[f].actions = {}
       /\ ex[e].disclosures \cap ex[f].disclosures = {}
       /\ ex[e].settled /\ ex[f].settled =>
             /\ ex[e].reports \cup ex[f].reports = ReportsOf(ex[e].from, ex[f].to)
             /\ CaseIds(e) \cup CaseIds(f) = CasesOf(ex[e].from, ex[f].to)
             /\ ex[e].actions \cup ex[f].actions = ActionsOf(ex[e].from, ex[f].to)
             /\ ex[e].disclosures \cup ex[f].disclosures
                    = DisclosuresOf(ex[e].from, ex[f].to)

\* Whatever commits between the statements, a file holds the evidence for
\* what its earlier lists say: the opening of every case it lists, a row that
\* names the case's status (unless that row is outside the range), and the
\* disclosure behind every disclosure_consumed row.
EarlierListsSupported ==
    \A e \in Files :
       /\ \A row \in ex[e].cases :
             /\ \E a \in ex[e].actions : a.case = row.id /\ a.type = "case_opened"
             /\ \E a \in StatusRows(row.id) :
                   /\ StatusSaid(a) = row.status
                   /\ Within(a.at, ex[e].from, ex[e].to) => a \in ex[e].actions
       /\ \A a \in ex[e].actions : a.type = "disclosure_consumed" =>
             \E d \in ex[e].disclosures : d.corr = a.corr

-----------------------------------------------------------------------------
\* "a single signed JSON file covering every audit-bearing row in a date
\* range" (export.rs:17-18), for a range that was over when the export began.
RangeCovered ==
    \A e \in Files : Midnight(ex[e].to + 1) <= ex[e].began =>
       ActionsOf(ex[e].from, ex[e].to) \subseteq ex[e].actions
=============================================================================
