------------------------------- MODULE Pages -------------------------------
(***************************************************************************)
(* The pages that handlers and leads work from, read while the workflow    *)
(* writes: the triage queue (show_triage_queue), the case page             *)
(* (show_case_detail) and the disclosure form (show_disclose_form).        *)
(*                                                                         *)
(*   case page   case -> report -> history [-> options] -> caseShown       *)
(*   queue       queue -> queueShown                                       *)
(*   disclosure  identity [-> elevate] -> formShown | stubShown            *)
(*                                                                         *)
(* A browser tab is a process; each SELECT sees what is committed then.    *)
(***************************************************************************)
EXTENDS Workflow

CONSTANT View   \* browser tabs

VARIABLE pg
pagesVars == <<vars, pg>>

Reading == {"case", "report", "history", "options", "queue", "identity", "elevate"}
Shown == {"caseShown", "queueShown", "formShown", "stubShown"}

\* A tab: who looks at which case, and what has been read for the page.
Page == [stage : {"blank"} \cup Reading \cup Shown,
         user : User \cup {Null}, case : Case \cup {Null}, row : CaseRow \cup {Null},
         history : SUBSET ActionRow,
         options : SUBSET User, queue : SUBSET Report]
Blank == [stage |-> "blank", user |-> Null, case |-> Null, row |-> Null,
          history |-> {}, options |-> {}, queue |-> {}]

\* The SELECTs of the case page, as awaited by a lead and by anybody else.
\* Mutant: the history is read first.
Following_HistoryFirst(lead) ==
    [guard |-> "history", history |-> "case", case |-> "report",
     report |-> IF lead THEN "options" ELSE "caseShown", options |-> "caseShown"]
Following(lead) ==
    [guard |-> "case", case |-> "report", report |-> "history",
     history |-> IF lead THEN "options" ELSE "caseShown", options |-> "caseShown"]

Close(v) == pg' = [pg EXCEPT ![v] = Blank]

\* A tab goes to a page; the role guard redirects or lets the first read run.
Visit(v, min, x) ==
    /\ pg[v].stage \in {"blank"} \cup Shown
    /\ ConnectionFree
    /\ \/ RequireRole(x.user, min) /\ pg' = [pg EXCEPT ![v] = x]
       \/ ~RequireRole(x.user, min) /\ Close(v)

-----------------------------------------------------------------------------
(* show_case_detail                                                        *)

GoToCase(v) ==
    \E u \in User, c \in Case :
       Visit(v, "staff", [Blank EXCEPT !.stage = Following(IsLead(u))["guard"],
                                       !.user = u, !.case = c])

\* An unknown case is a 404, somebody else's a 403.
ReadCase(v) ==
    LET x == pg[v]
        ok == cases[x.case] # Null /\ MayActOn(x.user, x.case)
    IN
    /\ x.stage = "case"
    /\ ConnectionFree
    /\ \/ /\ ok
          /\ pg' = [pg EXCEPT ![v].row = cases[x.case],
                              ![v].stage = Following(IsLead(x.user))["case"]]
       \/ ~ok /\ Close(v)

\* fetch_one: a report that is not there would be an error.  The columns it
\* reads for the page, and the assignee's e-mail read next, are not modelled.
ReadReport(v) ==
    LET x == pg[v] IN
    /\ x.stage = "report"
    /\ ConnectionFree
    /\ \/ /\ reports[x.row.report] # Null
          /\ pg' = [pg EXCEPT ![v].stage = Following(IsLead(x.user))["report"]]
       \/ reports[x.row.report] = Null /\ Close(v)

ReadHistory(v) ==
    LET x == pg[v] IN
    /\ x.stage = "history"
    /\ ConnectionFree
    /\ pg' = [pg EXCEPT ![v].history = {a \in caseActions : a.case = x.case},
                        ![v].stage = Following(IsLead(x.user))["history"]]

\* The reassign form of a lead.
ReadOptions(v) ==
    /\ pg[v].stage = "options"
    /\ ConnectionFree
    /\ pg' = [pg EXCEPT ![v].options = {u \in User : Assignable(u)},
                        ![v].stage = Following(TRUE)["options"]]

-----------------------------------------------------------------------------
(* show_triage_queue and show_disclose_form                                *)

GoToQueue(v) ==
    \E u \in User : Visit(v, "administrator", [Blank EXCEPT !.stage = "queue", !.user = u])

ReadQueue(v) ==
    /\ pg[v].stage = "queue"
    /\ ConnectionFree
    /\ pg' = [pg EXCEPT ![v].queue = {p \in Known : reports[p].status = "intake"},
                        ![v].stage = "queueShown"]

GoToDisclosure(v) ==
    \E u \in User, c \in Case :
       Visit(v, "administrator", [Blank EXCEPT !.stage = "identity", !.user = u, !.case = c])

\* One JOIN of the case and its report, without the e-mail itself: a 404, the
\* stub of an anonymous report, or on to the re-auth wall.
ReadIdentity(v) ==
    LET c == pg[v].case IN
    /\ pg[v].stage = "identity"
    /\ ConnectionFree
    /\ \/ cases[c] = Null /\ Close(v)
       \/ /\ cases[c] # Null
          /\ pg' = [pg EXCEPT ![v].stage = IF HasEmail(c) THEN "elevate" ELSE "stubShown"]

ReadElevation(v) ==
    /\ pg[v].stage = "elevate"
    /\ ConnectionFree
    /\ \/ /\ IsSessionElevated(pg[v].user)
          /\ pg' = [pg EXCEPT ![v].stage = "formShown"]
       \/ ~IsSessionElevated(pg[v].user) /\ Close(v)

\* A failed await or a closed tab.
DropPage(v) == pg[v].stage # "blank" /\ Close(v)

PageStep(v) ==
    \/ GoToCase(v) \/ ReadCase(v) \/ ReadReport(v) \/ ReadHistory(v) \/ ReadOptions(v)
    \/ GoToQueue(v) \/ ReadQueue(v)
    \/ GoToDisclosure(v) \/ ReadIdentity(v) \/ ReadElevation(v)
    \/ DropPage(v)

PagesInit == Init /\ pg = [v \in View |-> Blank]
PagesNext ==
    \/ Next /\ UNCHANGED pg
    \/ \E v \in View : PageStep(v) /\ UNCHANGED vars
PagesSpec == PagesInit /\ [][PagesNext]_pagesVars

-----------------------------------------------------------------------------
PagesTypeOK == pg \in [View -> Page]

\* A case page is read in up to five statements while others commit, yet
\* its history accounts for its header: some row of it names the status and
\* some row the assignee shown above (cases.rs:118-174).
PageHistoryExplains ==
    \A v \in View : pg[v].stage = "caseShown" =>
       /\ \E a \in pg[v].history :
             /\ a.type \in {"case_opened", "status_changed"}
             /\ StatusSaid(a) = pg[v].row.status
       /\ pg[v].row.assignee # Null =>
             \E a \in pg[v].history :
                a.type \in {"assigned", "reassigned"} /\ a.to = pg[v].row.assignee

\* A case page shown to an account that is no lead carries in its history
\* the assignment that let the account see it (cases.rs:10-15).
PageShownToAssigned ==
    \A v \in View : pg[v].stage = "caseShown" /\ ~IsLead(pg[v].user) =>
       \E a \in pg[v].history :
          a.type \in {"assigned", "reassigned"} /\ a.to = pg[v].user

\* Once somebody has been shown the case of a report, no queue read later
\* lists the report again: triage never gets a case back as new work
\* (triage.rs:65-70 against cases.rs:279-287).
OpenedStaysOutOfQueue ==
    [][\A v, w \in View :
          /\ pg[v].stage = "queue" /\ pg'[v].stage = "queueShown"
          /\ pg[w].stage = "caseShown"
          => pg[w].row.report \notin pg'[v].queue]_pg
=============================================================================
