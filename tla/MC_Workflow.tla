---------------------------- MODULE MC_Workflow ----------------------------
(* Values for the runs of Workflow.  Roles go by the account's name.       *)
EXTENDS Workflow, TLC

CONSTANTS lead, lead2, handler, handler2, reporter

MCRoleOf == [u \in User |->
    IF u \in {lead, lead2} THEN "administrator"
    ELSE IF u \in {handler, handler2} THEN "staff" ELSE "user"]

RequestSymmetry == Permutations(Req)
RowSymmetry == Permutations(Req) \cup Permutations(Case) \cup Permutations(Report)
=============================================================================
