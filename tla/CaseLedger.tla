----------------------------- MODULE CaseLedger -----------------------------
(***************************************************************************)
(* What the workflow promises of its four tables whatever requests race,   *)
(* fail half way or are sent twice: a report is opened at most once, the   *)
(* case and the reporter's view of it move together, every change of a     *)
(* case comes with exactly one history row, newer than what it supersedes, *)
(* and a disclosure is one row in each of two tables.  Notes supersede     *)
(* nothing: they may join the history in another order than their ids'.    *)
(*                                                                         *)
(* It does NOT promise that statuses follow the documented transitions:    *)
(* CaseLifecycle adds that, and holds only of requests served one by one.  *)
(***************************************************************************)
EXTENDS Naturals

CONSTANTS Report, Case, User, Null

VARIABLES reports, cases, caseActions, disclosures

book == <<reports, cases, caseActions, disclosures>>

Moves == {"case_opened", "status_changed"}
Assignments == {"assigned", "reassigned"}

\* One row joins the history and nothing leaves it; a request writes one row.
Logged(row) ==
    /\ caseActions' = caseActions \cup {row}
    /\ \A a \in caseActions : a.corr # row.corr

\* A row of its kind, newer than those of the case that it supersedes.
Newest(row, kind) ==
    /\ row.type \in kind
    /\ \A a \in caseActions : a.case = row.case /\ a.type \in kind => a.id < row.id

NewRows == caseActions' \ caseActions

Receive(p) ==
    /\ reports[p] = Null
    /\ \E e \in BOOLEAN : reports' = [reports EXCEPT ![p] = [status |-> "intake", email |-> e]]
    /\ UNCHANGED <<cases, caseActions, disclosures>>

Open(c, p) ==
    /\ cases[c] = Null
    /\ reports[p] # Null /\ reports[p].status = "intake"
    /\ cases' = [cases EXCEPT ![c] = [report |-> p, assignee |-> Null,
                                      status |-> "triage", closed |-> FALSE]]
    /\ reports' = [reports EXCEPT ![p].status = "triage"]
    /\ \E row \in NewRows :
          Logged(row) /\ Newest(row, {"case_opened"}) /\ row.case = c /\ row.to = p
    /\ UNCHANGED disclosures

\* row is the history row, s the new status.
Moved(c, s, row) ==
    /\ cases[c] # Null
    /\ cases' = [cases EXCEPT ![c].status = s,
                              ![c].closed = @ \/ s \in {"resolved", "archived"}]
    /\ reports' = [reports EXCEPT ![cases[c].report].status = s]
    /\ Logged(row) /\ Newest(row, Moves) /\ row.case = c /\ row.to = s
    /\ UNCHANGED disclosures

Move(c) == \E row \in NewRows :
    Moved(c, row.to, row) /\ row.to \in {"triage", "investigating", "resolved", "archived"}

Assigned(c, u, row) ==
    /\ cases[c] # Null
    /\ cases' = [cases EXCEPT ![c].assignee = u]
    /\ Logged(row) /\ Newest(row, Assignments) /\ row.case = c /\ row.to = u
    /\ UNCHANGED <<reports, disclosures>>

Assign(c) == \E row \in NewRows : row.to \in User /\ Assigned(c, row.to, row)

Note(c) ==
    /\ cases[c] # Null
    /\ \E row \in NewRows : Logged(row) /\ row.type = "note_added" /\ row.case = c
    /\ UNCHANGED <<reports, cases, disclosures>>

\* Only an e-mail that is there can be disclosed.
Disclose(c) ==
    /\ cases[c] # Null /\ reports[cases[c].report].email
    /\ \E row \in NewRows, d \in disclosures' \ disclosures :
          /\ Logged(row) /\ Newest(row, {"disclosure_consumed"}) /\ row.case = c
          /\ disclosures' = disclosures \cup {d}
          /\ d.case = c /\ d.corr = row.corr /\ d.requestedBy = row.actor
    /\ UNCHANGED <<reports, cases>>

Init ==
    /\ reports = [p \in Report |-> Null]
    /\ cases = [c \in Case |-> Null]
    /\ caseActions = {} /\ disclosures = {}

Next ==
    \/ \E p \in Report : Receive(p)
    \/ \E c \in Case, p \in Report : Open(c, p)
    \/ \E c \in Case : Move(c) \/ Assign(c) \/ Note(c) \/ Disclose(c)

Spec == Init /\ [][Next]_book
=============================================================================
