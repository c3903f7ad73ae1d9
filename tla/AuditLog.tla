------------------------------ MODULE AuditLog ------------------------------
(***************************************************************************)
(* src/handlers/audit.rs: GET /admin/audit, the auditors' paged and        *)
(* filtered view of case_actions, read while the case workflow writes.     *)
(*                                                                         *)
(*   visit -> list (LIMIT/OFFSET) -> count (COUNT of all pages) -> shown   *)
(*                                                                         *)
(* An auditor's browser tab is a process.  From a shown page it follows    *)
(* one of the page's links, or goes to any URL.                            *)
(***************************************************************************)
EXTENDS Workflow

CONSTANTS
    Auditor,      \* browser tabs
    Filters,      \* filters auditors type, in the form or in a URL
    UrlPages,     \* ?page= values they type in a URL
    PageSize,     \* PAGE_SIZE
    MaxPage       \* MAX_PAGE

VARIABLE rd
auditVars == <<vars, rd>>

\* The reads of one request, in the order they are awaited.
\* Mutant: the rows are counted first.
Following_CountFirst == [visit |-> "count", count |-> "list", list |-> "shown"]
Following == [visit |-> "list", list |-> "count", count |-> "shown"]

\* AuditFilters without the page; Null is an absent parameter, "other" any
\* text in a URL that no handler writes as a type.
FilterFields == {"type", "corr", "actor", "case", "since"}
Filter == [type : ActionType \cup {"other", Null}, corr : Req \cup {Null},
           actor : User \cup {Null}, case : Case \cup {Null}, since : Nat \cup {Null}]
NoFilter == [type |-> Null, corr |-> Null, actor |-> Null, case |-> Null, since |-> Null]

ASSUME AuditAssumption ==
    /\ PageSize \in Nat \ {0} /\ MaxPage \in Nat \ {0}
    /\ UrlPages \subseteq Int /\ Filters \subseteq Filter

\* `walk', `base' and `seen' are for the properties, no step reads them: a
\* tab that went from page 1 by Next and Previous only, the matching rows of
\* its first listing, and the rows it has been shown.
Tab == [stage : {"closed", "list", "count", "shown"}, filter : Filter,
        page : 1..MaxPage, rows : SUBSET ActionRow, total : Nat,
        walk : {"off", "fresh", "on"}, base : SUBSET ActionRow, seen : SUBSET ActionRow]
Closed == [stage |-> "closed", filter |-> NoFilter, page |-> 1, rows |-> {}, total |-> 0,
           walk |-> "off", base |-> {}, seen |-> {}]

Passes(f, a) ==
    /\ f.type \in {Null, a.type} /\ f.corr \in {Null, a.corr}
    /\ f.actor \in {Null, a.actor} /\ f.case \in {Null, a.case}
    /\ f.since # Null => f.since <= a.at

Matching(f) == {a \in caseActions : Passes(f, a)}

\* ORDER BY created_at DESC has no tie-break: any n rows that no other row
\* is newer than may come first.
Newest(rows, n) ==
    IF Cardinality(rows) <= n THEN {rows}
    ELSE {first \in SUBSET rows :
            /\ Cardinality(first) = n
            /\ \A a \in first, b \in rows \ first : b.at <= a.at}

\* page.parse().clamp(1, MAX_PAGE).  Mutant: it is only capped.
Clamp_Capped(n) == IF n > MaxPage THEN MaxPage ELSE n
Clamp(n) == IF n < 1 THEN 1 ELSE IF n > MaxPage THEN MaxPage ELSE n

\* render_pagination, over the unclamped number of pages.
\* Mutant: Next is offered on the last page too.
Pages(total) == (total + PageSize - 1) \div PageSize
NextOffered_OnLastPage(x) == x.total > PageSize /\ x.page <= Pages(x.total)
NextOffered(x) == x.total > PageSize /\ x.page < Pages(x.total)
PrevOffered(x) == x.total > PageSize /\ x.page > 1

\* render_filter_form: the options besides "Alla".
\* Mutant: every assignment is taken to be "assigned".
FilterOptions_NoReassigned ==
    {"case_opened", "assigned", "status_changed", "note_added", "disclosure_consumed"}
FilterOptions ==
    {"case_opened", "assigned", "reassigned", "status_changed", "note_added",
     "disclosure_consumed"}

-----------------------------------------------------------------------------
\* A request for page n under filter f: the role guard, then the first read.
Visit(t, x) ==
    /\ ConnectionFree
    /\ \E u \in User :
          rd' = [rd EXCEPT ![t] = IF RequireRole(u, "supervisor") THEN x ELSE Closed]

Open(t, f, n) ==
    Visit(t, [Closed EXCEPT !.stage = Following["visit"], !.filter = f, !.page = Clamp(n),
                            !.walk = IF Clamp(n) = 1 THEN "fresh" ELSE "off"])

\* A pager link keeps the filter.
Turn(t, n) ==
    Visit(t, [rd[t] EXCEPT !.stage = Following["visit"], !.page = Clamp(n), !.rows = {}])

TypeUrl(t) ==
    /\ rd[t].stage \in {"closed", "shown"}
    /\ \E f \in Filters, n \in UrlPages : Open(t, f, n)

ClickNext(t) == rd[t].stage = "shown" /\ NextOffered(rd[t]) /\ Turn(t, rd[t].page + 1)
ClickPrev(t) == rd[t].stage = "shown" /\ PrevOffered(rd[t]) /\ Turn(t, rd[t].page - 1)

\* The form, the chips and the links of a row drop the page number.
SubmitForm(t) == rd[t].stage = "shown" /\ \E f \in Filters : Open(t, f, 1)

ClickChip(t) ==
    /\ rd[t].stage = "shown"
    /\ \E field \in FilterFields :
          /\ rd[t].filter[field] # Null
          /\ Open(t, [rd[t].filter EXCEPT ![field] = Null], 1)

ClickRow(t) ==
    /\ rd[t].stage = "shown"
    /\ \E a \in rd[t].rows :
          \/ Open(t, [NoFilter EXCEPT !.corr = a.corr], 1)
          \/ Open(t, [NoFilter EXCEPT !.actor = a.actor], 1)

ListRows(t) ==
    LET x == rd[t]
        rows == Matching(x.filter)
    IN
    /\ x.stage = "list"
    /\ ConnectionFree
    /\ \E before \in Newest(rows, (x.page - 1) * PageSize), upto \in Newest(rows, x.page * PageSize) :
          /\ before \subseteq upto
          /\ rd' = [rd EXCEPT
                ![t].stage = Following["list"],
                ![t].rows = upto \ before,
                ![t].walk = IF x.walk = "fresh" THEN "on" ELSE x.walk,
                ![t].base = IF x.walk = "fresh" THEN rows ELSE x.base,
                ![t].seen = x.seen \cup (upto \ before)]

CountRows(t) ==
    /\ rd[t].stage = "count"
    /\ ConnectionFree
    /\ rd' = [rd EXCEPT ![t].stage = Following["count"],
                        ![t].total = Cardinality(Matching(rd[t].filter))]

\* A failed await or an auditor who hangs up.
DropTab(t) == rd[t].stage # "closed" /\ rd' = [rd EXCEPT ![t] = Closed]

TabStep(t) ==
    \/ TypeUrl(t) \/ ClickNext(t) \/ ClickPrev(t)
    \/ SubmitForm(t) \/ ClickChip(t) \/ ClickRow(t)
    \/ ListRows(t) \/ CountRows(t) \/ DropTab(t)

AuditInit == Init /\ rd = [t \in Auditor |-> Closed]
AuditNext ==
    \/ Next /\ UNCHANGED rd
    \/ \E t \in Auditor : TabStep(t) /\ UNCHANGED vars
AuditSpec == AuditInit /\ [][AuditNext]_auditVars

-----------------------------------------------------------------------------
AuditTypeOK == rd \in [Auditor -> Tab]

\* Pages walked by Next while rows are being written: where Next ends, every
\* row that matched when page 1 was listed has been shown.  New rows push
\* old ones to later pages, never past the reader, and the count, taken
\* after the list, keeps Next alive for them (audit.rs:226-252).  It needs
\* timestamps that differ (0 \notin Ticks): nothing breaks a tie (audit.rs:191).
WalkMissesNothing ==
    \A t \in Auditor :
       rd[t].stage = "shown" /\ rd[t].walk = "on" /\ ~NextOffered(rd[t])
          => rd[t].base \subseteq rd[t].seen

\* A page with no rows, reached by the page's own links, means that no row
\* matched: no link of the pager, of a chip or of the form leads past the
\* last row (audit.rs:112-114, 651-680).
EmptyPageMeansNoMatch ==
    \A t \in Auditor :
       rd[t].stage = "shown" /\ rd[t].walk = "on" /\ rd[t].rows = {} => rd[t].base = {}

\* "The action_type <select> options must reflect every action_type written
\* by lursystem handlers" (audit.rs:458-460).
EveryTypeSelectable == \A a \in caseActions : a.type \in FilterOptions
=============================================================================
