----------------------------- MODULE AuthHelper -----------------------------
(***************************************************************************)
(* src/auth_helper.rs: the role guard and the elevation check every        *)
(* /admin/* handler starts with, and the framework's own events on the     *)
(* sessions and accounts those two read.                                   *)
(***************************************************************************)
EXTENDS LurState

CONSTANT Events   \* the framework events of a run

ASSUME EventsAssumption ==
    Events \subseteq {"signin", "reauth", "lapse", "signout", "deactivate"}

\* Role::includes, the framework's hierarchy.
Tier == [user |-> 0, staff |-> 1, supervisor |-> 2, administrator |-> 3, developer |-> 4]
Includes(role, min) == Tier[role] >= Tier[min]
IsLead(u) == Includes(RoleOf[u], "administrator")

\* require_role: a live session, an active account, a sufficient role.
RequireRole(u, min) ==
    /\ session[u] # "none"
    /\ u \in active
    /\ Includes(RoleOf[u], min)

\* is_session_elevated: elevated_until is still in the future.
IsSessionElevated(u) == session[u] = "elevated"

\* A request arrives and awaits its role guard.  A refused one is redirected
\* to the login page or to /admin.
Arrive(r, l, min, stage) ==
    /\ pc[r] = "idle"
    /\ l.op \in Ops
    /\ Cardinality(InFlight) < MaxActive
    /\ ConnectionFree
    /\ \/ /\ RequireRole(l.user, min)
          /\ Goto(r, stage)
          /\ loc' = [loc EXCEPT ![r] = l]
       \/ /\ ~RequireRole(l.user, min)
          /\ Return(r, "done")
    /\ UNCHANGED <<tables, locks, counters, framework>>

-----------------------------------------------------------------------------
(* Framework events: rustio-admin's login, /admin/reauth, the end of the   *)
(* re-auth window, logout or revocation, and deactivation of an account.   *)

SetSession(u, from, to) ==
    /\ session[u] \in from
    /\ session' = [session EXCEPT ![u] = to]
    /\ UNCHANGED <<tables, locks, counters, active, requests>>

SignIn(u) == "signin" \in Events /\ u \in active /\ SetSession(u, {"none"}, "live")
Reauth(u) == "reauth" \in Events /\ u \in active /\ SetSession(u, {"live"}, "elevated")
Lapse(u) == "lapse" \in Events /\ SetSession(u, {"elevated"}, "live")
SignOut(u) == "signout" \in Events /\ SetSession(u, {"live", "elevated"}, "none")

Deactivate(u) ==
    /\ "deactivate" \in Events
    /\ u \in active
    /\ active' = active \ {u}
    /\ UNCHANGED <<tables, locks, counters, session, requests>>
=============================================================================
