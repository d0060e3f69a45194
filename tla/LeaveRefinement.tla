--------------------------- MODULE LeaveRefinement --------------------------
(***************************************************************************)
(* The handlers of module Leave against the ledger they are meant to keep. *)
(***************************************************************************)
EXTENDS Leave, FiniteSetsExt

\* A handler at one of these labels on r has written the status of r and not
\* yet the balance, or the row and not yet the hold.
At(labels, r) == \E w \in Worker : handler[w].pc \in labels /\ handler[w].on = r

\* A request changes state when the balance follows, not when its row does.
Settled(r) ==
    IF At({"reserve"}, r) THEN "absent"
    ELSE IF At({"debit", "release", "unhold"}, r) THEN "pending"
    ELSE IF At({"refund"}, r) THEN "approved"
    ELSE request[r].status

SettledDays(r) == IF At({"reserve"}, r) THEN 0 ELSE request[r].days

Ledger == INSTANCE LeaveLedger WITH
    state <- [r \in Request |-> Settled(r)],
    days <- [r \in Request |-> SettledDays(r)],
    pending <- balance.pending,
    taken <- balance.taken,
    accrued <- balance.accrued

\* As long as no two handlers overlap on a request and none dies, the calls of
\* create, approve and cancel that move status and days separately look like
\* the atomic steps of the ledger.
KeepsLedger == Ledger!Spec

DaysWith(status) == MapThenSumSet(LAMBDA r : request[r].days,
                                  {r \in Request : request[r].status = status})
Within(x, y, slack) == x - y =< slack /\ y - x =< slack

\* With no handler in flight and no overlap so far, pending and taken are the
\* days of the pending and of the approved requests; each handler that died
\* between its status write and its balance write is off by one request.
BalanceMatchesRequests ==
    (overlapped = {} /\ \A w \in Worker : handler[w].pc = "idle") =>
        /\ Within(balance.pending, DaysWith("pending"), MaxDuration * aborts)
        /\ Within(balance.taken, DaysWith("approved"), MaxDuration * aborts)

\* Every day taken and every day accrued has its row in leave_transactions,
\* also when handlers overlap or die (a refund writes no row, so taken may be
\* less than the DEBIT rows).
TakenBackedByDebits ==
    /\ balance.taken =< MapThenSumSet(LAMBDA r : debits[r] * request[r].days, Request)
    /\ balance.accrued = credits * Accrual

\* An SLA job of a request nobody is working on is for the level the request
\* waits at, so no approver is escalated who has answered; only a cancelled
\* request keeps its job.
SlaJobsCurrent ==
    aborts = 0 => \A job \in slaJobs :
        LET r == job[1] IN
        (r \notin overlapped /\ \A w \in Worker : handler[w].on # r) =>
            /\ request[r].status \in {"pending", "cancelled"}
            /\ request[r].level = job[2]

\* "Leave request not found or already processed": no request is debited twice,
\* and none that was never approved.
NeverProcessedTwice == \A r \in Request : DebitedOnce(r)

\* An approved request whose handler is left to run is debited.
ApprovedIsDebited == \A r \in Request :
    (request[r].status = "approved") ~> (debits[r] = 1)
=============================================================================
