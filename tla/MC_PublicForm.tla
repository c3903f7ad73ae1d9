--------------------------- MODULE MC_PublicForm ---------------------------
(* Values for the runs of PublicForm.                                      *)
EXTENDS PublicForm, TLC

CONSTANT lead

MCRoleOf == [u \in User |-> "administrator"]

\* Texts by their length in bytes: one that passes both checks.
Fine == {40}

RequestSymmetry == Permutations(Req)
=============================================================================
