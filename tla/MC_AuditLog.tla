---------------------------- MODULE MC_AuditLog ----------------------------
(* Values for the runs of AuditLog.  Roles go by the account's name.       *)
EXTENDS AuditLog, TLC

CONSTANTS lead, handler, auditor

MCRoleOf == [u \in User |->
    IF u = lead THEN "administrator"
    ELSE IF u = auditor THEN "supervisor" ELSE "staff"]

DisclosuresSince == {NoFilter, [NoFilter EXCEPT !.type = "disclosure_consumed", !.since = 2]}

RequestSymmetry == Permutations(Req)
=============================================================================
