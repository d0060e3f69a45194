----------------------------- MODULE LeaveLedger ----------------------------
(***************************************************************************)
(* What the leave module promises of one balance row: the status of a      *)
(* request and the days it moves change together, in one step.  The        *)
(* handlers of module Leave need two to four database calls for each of    *)
(* these steps; LeaveRefinement says when that goes unnoticed.             *)
(***************************************************************************)
EXTENDS Integers, FiniteSetsExt

CONSTANTS Request, Duration, Accrual

VARIABLES
    state,    \* where each request stands
    days,     \* its duration
    pending,  \* days held for requests under decision
    taken,    \* days of approved requests
    accrued   \* days granted

vars == <<state, days, pending, taken, accrued>>

Init ==
    /\ state = [r \in Request |-> "absent"]
    /\ days = [r \in Request |-> 0]
    /\ pending = 0 /\ taken = 0 /\ accrued = 0

Becomes(r, from, to) ==
    /\ state[r] = from
    /\ state' = [state EXCEPT ![r] = to]

Submit(r, d) ==
    /\ Becomes(r, "absent", "pending")
    /\ days' = [days EXCEPT ![r] = d]
    /\ pending' = pending + d
    /\ UNCHANGED <<taken, accrued>>

Approve(r) ==
    /\ Becomes(r, "pending", "approved")
    /\ pending' = pending - days[r]
    /\ taken' = taken + days[r]
    /\ UNCHANGED <<days, accrued>>

\* A rejection and a withdrawal give the held days back.
Release(r, to) ==
    /\ Becomes(r, "pending", to)
    /\ pending' = pending - days[r]
    /\ UNCHANGED <<days, taken, accrued>>

Refund(r) ==
    /\ Becomes(r, "approved", "cancelled")
    /\ taken' = taken - days[r]
    /\ UNCHANGED <<days, pending, accrued>>

Credit ==
    /\ accrued' = accrued + Accrual
    /\ UNCHANGED <<state, days, pending, taken>>

Next ==
    \/ \E r \in Request :
        \/ \E d \in Duration : Submit(r, d)
        \/ Approve(r)
        \/ \E to \in {"rejected", "cancelled"} : Release(r, to)
        \/ Refund(r)
    \/ Credit

Spec == Init /\ [][Next]_vars

DaysOf(status) == MapThenSumSet(LAMBDA r : days[r], {r \in Request : state[r] = status})

\* The columns of the balance are the sums over the requests.
Balanced == pending = DaysOf("pending") /\ taken = DaysOf("approved")
=============================================================================
