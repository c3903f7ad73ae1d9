------------------------------ MODULE MC_Pages ------------------------------
(* Values for the runs of Pages.  Roles go by the account's name.          *)
EXTENDS Pages, TLC

CONSTANTS lead, handler

MCRoleOf == [u \in User |-> IF u = lead THEN "administrator" ELSE "staff"]

TabSymmetry == Permutations(Req) \cup Permutations(View)
=============================================================================
