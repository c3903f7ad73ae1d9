----------------------------- MODULE Disclosure -----------------------------
(***************************************************************************)
(* src/handlers/disclosure.rs: POST /admin/cases/:case_id/disclose, the    *)
(* unmask of a reporter's e-mail.                                          *)
(*                                                                         *)
(*   elevate -> begin -> lock: SELECT ... FOR UPDATE OF c -> commit        *)
(*           -> render, or -> rollback                                     *)
(***************************************************************************)
EXTENDS AuthHelper

StartDisclose(r) ==
    \E u \in User, c \in Case :
       Arrive(r, [NoLocals EXCEPT !.op = "disclose", !.user = u, !.case = c],
              "administrator", "elevate")

\* The re-auth wall, then the length envelope of the reason, which the form
\* the lead typed may or may not meet.
DiscloseElevate(r) ==
    /\ At(r, "disclose", "elevate")
    /\ ConnectionFree
    /\ \/ /\ IsSessionElevated(loc[r].user)
          /\ Goto(r, "begin")
          /\ UNCHANGED loc
       \/ Return(r, "done")
    /\ UNCHANGED <<tables, locks, counters, framework>>

HasEmail(c) == cases[c] # Null /\ reports[cases[c].report].email

\* The note that is being written holds the case row FOR KEY SHARE.
KeyShared(c) == \E q \in Req : At(q, "note", "commit") /\ loc[q].case = c

\* SELECT c.report_id, r.reporter_email ... FOR UPDATE OF c: a case that is
\* not there locks nothing; a missing case and an anonymous report roll back,
\* the latter with the case locked.  Otherwise both INSERTs follow.
DiscloseLock(r) ==
    LET c == loc[r].case IN
    /\ At(r, "disclose", "lock")
    /\ cases[c] # Null => caseLock[c] = Null /\ ~KeyShared(c)
    /\ caseLock' = [caseLock EXCEPT ![c] = IF cases[c] = Null THEN @ ELSE r]
    /\ \/ /\ HasEmail(c)
          /\ loc' = [loc EXCEPT ![r].id = nextId]
          /\ nextId' = nextId + 1
          /\ Goto(r, "commit")
       \/ ~HasEmail(c) /\ Goto(r, "rollback") /\ UNCHANGED <<loc, nextId>>
    /\ UNCHANGED <<tables, reportLock, clock, framework>>

\* Mutant: without a transaction, a failure may fall between the INSERTs.
DiscloseCommit_NoTx(r) ==
    LET c == loc[r].case IN
    /\ At(r, "disclose", "commit")
    /\ disclosures' = disclosures \cup
          {[case |-> c, requestedBy |-> loc[r].user, at |-> loc[r].at, corr |-> r]}
    /\ EndTx(r)
    /\ UNCHANGED <<reports, cases, caseActions, counters, framework>>

DiscloseCommit(r) ==
    LET c == loc[r].case IN
    /\ At(r, "disclose", "commit")
    /\ disclosures' = disclosures \cup
          {[case |-> c, requestedBy |-> loc[r].user, at |-> loc[r].at, corr |-> r]}
    /\ caseActions' = caseActions \cup
          {NewAction(r, loc[r].id, loc[r].at, c, "disclosure_consumed", Null, Null)}
    /\ Goto(r, "render")
    /\ ReleaseLocks(r)
    /\ UNCHANGED <<loc, reports, cases, counters, framework>>

\* The response with the e-mail reaches the lead.
\* Mutant: it is sent before the COMMIT.
DiscloseRender_BeforeCommit(r) ==
    /\ loc[r].op = "disclose" /\ pc[r] \in {"commit", "render"}
    /\ Return(r, "viewed")
    /\ ReleaseLocks(r)
    /\ UNCHANGED <<tables, counters, framework>>

DiscloseRender(r) ==
    /\ At(r, "disclose", "render")
    /\ Return(r, "viewed")
    /\ UNCHANGED <<tables, locks, counters, framework>>

DiscloseStep(r) ==
    DiscloseElevate(r) \/ DiscloseLock(r) \/ DiscloseCommit(r) \/ DiscloseRender(r)
=============================================================================
