---------------------------- MODULE ReporterView ----------------------------
(***************************************************************************)
(* What the public side of lursystem promises a reporter: whoever was      *)
(* given a receipt can ask how the report stands and is told the truth,    *)
(* that it waits or that somebody has taken it up, and the news never goes *)
(* back.                                                                   *)
(***************************************************************************)
CONSTANTS Form, Report, None

VARIABLES
    stands,   \* report -> "unsent", "waiting", "taken"
    receipt,  \* form -> the report whose receipt the reporter holds, or None
    news      \* form -> what the reporter was told last, or "nothing"

viewVars == <<stands, receipt, news>>

Init ==
    /\ stands = [p \in Report |-> "unsent"]
    /\ receipt = [f \in Form |-> None]
    /\ news = [f \in Form |-> "nothing"]

Send(p) ==
    /\ stands[p] = "unsent"
    /\ stands' = [stands EXCEPT ![p] = "waiting"]
    /\ UNCHANGED <<receipt, news>>

TakeUp(p) ==
    /\ stands[p] = "waiting"
    /\ stands' = [stands EXCEPT ![p] = "taken"]
    /\ UNCHANGED <<receipt, news>>

\* No two reporters hold a receipt for the same report.
Hand(f, p) ==
    /\ receipt[f] = None /\ stands[p] # "unsent"
    /\ \A g \in Form : receipt[g] # p
    /\ receipt' = [receipt EXCEPT ![f] = p]
    /\ UNCHANGED <<stands, news>>

Tell(f) ==
    /\ receipt[f] # None
    /\ news' = [news EXCEPT ![f] = stands[receipt[f]]]
    /\ UNCHANGED <<stands, receipt>>

Next ==
    \/ \E p \in Report : Send(p) \/ TakeUp(p)
    \/ \E f \in Form : Tell(f) \/ \E p \in Report : Hand(f, p)

Spec == Init /\ [][Next]_viewVars

\* Once told that the report has been taken up, a reporter is never told
\* that it waits.
NewsForward == \A f \in Form : news[f] = "taken" => news'[f] = "taken"
NewsGoesForward == [][NewsForward]_viewVars
=============================================================================
