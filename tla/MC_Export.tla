----------------------------- MODULE MC_Export -----------------------------
(* Values for the runs of Export.  Roles go by the account's name.         *)
EXTENDS Export, TLC

CONSTANTS lead, handler, auditor

MCRoleOf == [u \in User |->
    IF u = lead THEN "administrator"
    ELSE IF u = auditor THEN "supervisor" ELSE "staff"]

RowSymmetry == Permutations(Req) \cup Permutations(Exp)
=============================================================================
