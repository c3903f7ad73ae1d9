--------------------------- MODULE CaseLifecycle ---------------------------
(***************************************************************************)
(* The lifecycle cases.rs documents, on top of CaseLedger: statuses follow *)
(* the locked transitions, closed_at is set exactly on terminal statuses,  *)
(* and a history row tells the truth about what it changed.                *)
(***************************************************************************)
EXTENDS CaseLedger

\* cases.rs:71-75, "Locked transitions".
Locked == {<<"triage", "investigating">>, <<"triage", "archived">>,
           <<"investigating", "resolved">>, <<"investigating", "triage">>,
           <<"resolved", "archived">>}

FaithfulMove(c) == \E row \in NewRows :
    /\ Moved(c, row.to, row)
    /\ <<cases[c].status, row.to>> \in Locked
    /\ row.from = cases[c].status

FaithfulAssign(c) == \E row \in NewRows :
    /\ row.to \in User \ {cases[c].assignee}
    /\ Assigned(c, row.to, row)
    /\ row.from = cases[c].assignee
    /\ row.type = IF cases[c].assignee = Null THEN "assigned" ELSE "reassigned"

LifecycleNext ==
    \/ \E p \in Report : Receive(p)
    \/ \E c \in Case, p \in Report : Open(c, p)
    \/ \E c \in Case : FaithfulMove(c) \/ FaithfulAssign(c) \/ Note(c) \/ Disclose(c)

LifecycleSpec == Init /\ [][LifecycleNext]_book
=============================================================================
