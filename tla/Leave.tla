------------------------------- MODULE Leave -------------------------------
(***************************************************************************)
(* LeaveService and LeaveBalanceService of the API, with the SLA jobs of   *)
(* WorkflowService, for one row of leave_balances (one employee, leave     *)
(* type and year; rows do not interact).                                   *)
(*                                                                         *)
(* A Worker is one HTTP request in flight on any replica of the API.  A    *)
(* handler is cut at each await: between two of its steps any other        *)
(* handler may run, and what it read before is a copy (handler[w].row).    *)
(* Durations and amounts are counted in half days, so they are integers.   *)
(***************************************************************************)
EXTENDS Integers, FiniteSets

CONSTANTS
    Worker,       \* handlers that can be in flight at the same time
    Request,      \* primary keys of leave_requests
    None,         \* "no request": what an idle handler works on
    Duration,     \* durations calculateLeaveDuration may return
    MaxDuration,  \* the longest of them
    Opening,      \* leave_balances.opening
    Accrual,      \* leave_policies.accrualAmount
    MaxCredits,   \* bound: accruals of a behaviour
    MaxAborts,    \* bound: handlers that die between two awaits
    MaxCalls      \* bound: handlers started

ASSUME WorkerAssumption == IsFiniteSet(Worker) /\ Worker # {}
ASSUME RequestAssumption == IsFiniteSet(Request)
ASSUME NoneAssumption == None \notin Request
ASSUME DurationAssumption ==
    /\ Duration \subseteq Nat
    /\ MaxDuration \in Nat
    /\ \A d \in Duration : d =< MaxDuration
ASSUME AmountAssumption ==
    /\ Opening \in Nat /\ Accrual \in Nat
    /\ MaxCredits \in Nat /\ MaxAborts \in Nat /\ MaxCalls \in Nat

VARIABLES
    balance,     \* the row of leave_balances
    request,     \* the table leave_requests
    debits,      \* DEBIT rows of leave_transactions, per referenced request
    credits,     \* CREDIT rows of leave_transactions
    slaJobs,     \* jobs of the queue workflow-sla: <<request, level>>
    handler,     \* the handlers in flight
    overlapped,  \* auxiliary: requests on which two handlers ever overlapped
    aborts,      \* auxiliary: handlers that died so far
    calls        \* auxiliary: handlers started so far

vars == <<balance, request, debits, credits, slaJobs, handler, overlapped, aborts,
          calls>>

----------------------------------------------------------------------------
(* Data.                                                                   *)

\* buildApprovalChain always returns two levels: direct manager, then HR.
Levels == 1..2
LastLevel == 2

Decision == {"approved", "rejected"}

Row == [status : {"absent", "pending", "approved", "rejected", "cancelled"},
        level  : Levels,
        chain  : [Levels -> {"pending"} \union Decision],
        days   : {0} \union Duration]

FreshRow(status, d) ==
    [status |-> status, level |-> 1, chain |-> [l \in Levels |-> "pending"], days |-> d]

PC == {"idle",
       "insert", "reserve", "schedule",                            \* create
       "unschedule", "scheduleNext", "write", "debit", "release",  \* approve
       "cancel", "unhold", "refund"}                               \* cancel

\* A handler past its insert, or past its first read, has a request.
Handler == {h \in [pc : PC, on : Request \union {None}, row : Row] :
                h.pc \in {"idle", "insert"} \/ h.on \in Request}

Idle == [pc |-> "idle", on |-> None, row |-> FreshRow("absent", 0)]

Available == balance.accrued + Opening - balance.taken - balance.pending

\* Fault: the consent of any level approves.
NewStatusAnyLevel(row) ==
    IF row.chain[row.level] = "rejected" THEN "rejected" ELSE "approved"

\* What approve writes, from its copy of the row with the decision set.
NewStatus(row) ==
    IF row.chain[row.level] = "rejected" THEN "rejected"
    ELSE IF row.level >= LastLevel THEN "approved" ELSE "pending"

\* Fault: the level moves on past the last one.
NewLevelUnbounded(row) == row.level + 1

NewLevel(row) == IF NewStatus(row) = "pending" THEN row.level + 1 ELSE row.level

----------------------------------------------------------------------------
Init ==
    /\ balance = [accrued |-> 0, taken |-> 0, pending |-> 0, closing |-> 0]
    /\ request = [r \in Request |-> FreshRow("absent", 0)]
    /\ debits = [r \in Request |-> 0]
    /\ credits = 0
    /\ slaJobs = {}
    /\ handler = [w \in Worker |-> Idle]
    /\ overlapped = {}
    /\ aborts = 0
    /\ calls = 0

Goto(w, label) == handler' = [handler EXCEPT ![w].pc = label]
Finish(w) == handler' = [handler EXCEPT ![w] = Idle]
Start(w, label, r, row) ==
    /\ handler[w].pc = "idle"
    /\ calls < MaxCalls
    /\ calls' = calls + 1
    /\ handler' = [handler EXCEPT ![w] = [pc |-> label, on |-> r, row |-> row]]

\* Bookkeeping for the properties only: r gets a second handler.
NoteOverlap(w, r) ==
    overlapped' = IF \E v \in Worker \ {w} : handler[v].on = r
                  THEN overlapped \union {r} ELSE overlapped

----------------------------------------------------------------------------
(* WorkflowService: the job id names the request and the level, so a job   *)
(* that is queued is not added again.                                      *)

ScheduleEscalation(r, level) == slaJobs' = slaJobs \union {<<r, level>>}
CancelEscalation(r, level) == slaJobs' = slaJobs \ {<<r, level>>}

----------------------------------------------------------------------------
(* LeaveService.create                                                     *)

\* The duration is computed, the balance is read and is enough.
CreateCheck(w, d) ==
    /\ d # 0
    /\ Available >= d
    /\ Start(w, "insert", None, FreshRow("pending", d))
    /\ UNCHANGED <<balance, request, debits, credits, slaJobs, overlapped, aborts>>

\* leaveRequest.create
CreateInsert(w, r) ==
    /\ handler[w].pc = "insert"
    /\ request[r].status = "absent"
    /\ request' = [request EXCEPT ![r] = handler[w].row]
    /\ handler' = [handler EXCEPT ![w].pc = "reserve", ![w].on = r]
    /\ UNCHANGED <<balance, debits, credits, slaJobs, overlapped, aborts, calls>>

\* leaveBalance.updateMany: pending += durationDays
CreateReserve(w) ==
    /\ handler[w].pc = "reserve"
    /\ balance' = [balance EXCEPT !.pending = @ + handler[w].row.days]
    /\ Goto(w, "schedule")
    /\ UNCHANGED <<request, debits, credits, slaJobs, overlapped, aborts, calls>>

\* The SLA job of level 1.
CreateSchedule(w) ==
    /\ handler[w].pc = "schedule"
    /\ ScheduleEscalation(handler[w].on, 1)
    /\ Finish(w)
    /\ UNCHANGED <<balance, request, debits, credits, overlapped, aborts, calls>>

----------------------------------------------------------------------------
(* LeaveService.approve                                                    *)

\* Fault: findFirst without status pending.
DecideReadAnyStatus(w, r, decision) ==
    /\ request[r].status # "absent"
    /\ Start(w, "unschedule", r,
             [request[r] EXCEPT !.chain[request[r].level] = decision])
    /\ NoteOverlap(w, r)
    /\ UNCHANGED <<balance, request, debits, credits, slaJobs, aborts>>

\* findFirst with status pending; the decision goes into the copied chain.
DecideRead(w, r, decision) ==
    /\ request[r].status = "pending"
    /\ Start(w, "unschedule", r,
             [request[r] EXCEPT !.chain[request[r].level] = decision])
    /\ NoteOverlap(w, r)
    /\ UNCHANGED <<balance, request, debits, credits, slaJobs, aborts>>

\* Fault: the job of the level decided stays in the queue.
DecideLeaveScheduled(w) ==
    /\ handler[w].pc = "unschedule"
    /\ Goto(w, IF NewStatus(handler[w].row) = "pending" THEN "scheduleNext" ELSE "write")
    /\ UNCHANGED <<balance, request, debits, credits, slaJobs, overlapped, aborts, calls>>

\* The SLA job of the level decided goes.
DecideUnschedule(w) ==
    /\ handler[w].pc = "unschedule"
    /\ CancelEscalation(handler[w].on, handler[w].row.level)
    /\ Goto(w, IF NewStatus(handler[w].row) = "pending" THEN "scheduleNext" ELSE "write")
    /\ UNCHANGED <<balance, request, debits, credits, overlapped, aborts, calls>>

\* The SLA job of the next level.
DecideScheduleNext(w) ==
    /\ handler[w].pc = "scheduleNext"
    /\ ScheduleEscalation(handler[w].on, NewLevel(handler[w].row))
    /\ Goto(w, "write")
    /\ UNCHANGED <<balance, request, debits, credits, overlapped, aborts, calls>>

\* Fault: approve returns before the debit.
DecideWriteAndReturn(w) ==
    /\ handler[w].pc = "write"
    /\ request' = [request EXCEPT ![handler[w].on].status = NewStatus(handler[w].row),
                                  ![handler[w].on].level = NewLevel(handler[w].row),
                                  ![handler[w].on].chain = handler[w].row.chain]
    /\ Finish(w)
    /\ UNCHANGED <<balance, debits, credits, slaJobs, overlapped, aborts, calls>>

\* leaveRequest.update by id alone: the status is not looked at again.
DecideWrite(w) ==
    LET row == handler[w].row
        r   == handler[w].on
        new == NewStatus(row) IN
    /\ handler[w].pc = "write"
    /\ request' = [request EXCEPT ![r].status = new,
                                  ![r].level = NewLevel(row),
                                  ![r].chain = row.chain]
    /\ CASE new = "approved" -> Goto(w, "debit")
         [] new = "rejected" -> Goto(w, "release")
         [] new = "pending"  -> Finish(w)
    /\ UNCHANGED <<balance, debits, credits, slaJobs, overlapped, aborts, calls>>

\* Fault: the days taken are not released from pending.
DecideDebitKeepsHold(w) ==
    /\ handler[w].pc = "debit"
    /\ balance' = [balance EXCEPT !.taken = @ + handler[w].row.days]
    /\ debits' = [debits EXCEPT ![handler[w].on] = @ + 1]
    /\ Finish(w)
    /\ UNCHANGED <<request, credits, slaJobs, overlapped, aborts, calls>>

\* Fault: the transaction writes no row of leave_transactions.
DecideDebitUnrecorded(w) ==
    /\ handler[w].pc = "debit"
    /\ balance' = [balance EXCEPT !.taken = @ + handler[w].row.days,
                                  !.pending = @ - handler[w].row.days]
    /\ Finish(w)
    /\ UNCHANGED <<request, debits, credits, slaJobs, overlapped, aborts, calls>>

\* LeaveBalanceService.debit, one transaction
DecideDebit(w) ==
    LET d == handler[w].row.days IN
    /\ handler[w].pc = "debit"
    /\ balance' = [balance EXCEPT !.taken = @ + d, !.pending = @ - d]
    /\ debits' = [debits EXCEPT ![handler[w].on] = @ + 1]
    /\ Finish(w)
    /\ UNCHANGED <<request, credits, slaJobs, overlapped, aborts, calls>>

\* leaveBalance.updateMany after a rejection: pending -= durationDays
DecideRelease(w) ==
    /\ handler[w].pc = "release"
    /\ balance' = [balance EXCEPT !.pending = @ - handler[w].row.days]
    /\ Finish(w)
    /\ UNCHANGED <<request, debits, credits, slaJobs, overlapped, aborts, calls>>

----------------------------------------------------------------------------
(* LeaveService.cancel.  It neither removes the SLA job nor writes a row   *)
(* of leave_transactions.                                                  *)

CancelRead(w, r) ==
    /\ request[r].status \in {"pending", "approved"}
    /\ Start(w, "cancel", r, request[r])
    /\ NoteOverlap(w, r)
    /\ UNCHANGED <<balance, request, debits, credits, slaJobs, aborts>>

\* Fault: the two refunds are swapped.
CancelWriteSwapped(w) ==
    /\ handler[w].pc = "cancel"
    /\ request' = [request EXCEPT ![handler[w].on].status = "cancelled"]
    /\ Goto(w, IF handler[w].row.status = "pending" THEN "refund" ELSE "unhold")
    /\ UNCHANGED <<balance, debits, credits, slaJobs, overlapped, aborts, calls>>

CancelWrite(w) ==
    /\ handler[w].pc = "cancel"
    /\ request' = [request EXCEPT ![handler[w].on].status = "cancelled"]
    /\ Goto(w, IF handler[w].row.status = "pending" THEN "unhold" ELSE "refund")
    /\ UNCHANGED <<balance, debits, credits, slaJobs, overlapped, aborts, calls>>

\* Fault: the hold of a cancelled request stays.
CancelKeepsHold(w) ==
    /\ handler[w].pc = "unhold"
    /\ Finish(w)
    /\ UNCHANGED <<balance, request, debits, credits, slaJobs, overlapped, aborts, calls>>

\* The request was pending when read: pending -= durationDays
CancelRelease(w) ==
    /\ handler[w].pc = "unhold"
    /\ balance' = [balance EXCEPT !.pending = @ - handler[w].row.days]
    /\ Finish(w)
    /\ UNCHANGED <<request, debits, credits, slaJobs, overlapped, aborts, calls>>

\* The request was approved when read: taken -= durationDays
CancelRefund(w) ==
    /\ handler[w].pc = "refund"
    /\ balance' = [balance EXCEPT !.taken = @ - handler[w].row.days]
    /\ Finish(w)
    /\ UNCHANGED <<request, debits, credits, slaJobs, overlapped, aborts, calls>>

----------------------------------------------------------------------------
(* The environment of the handlers.                                        *)

\* runMonthlyAccrual calls LeaveBalanceService.credit for this row.
Accrue ==
    /\ credits < MaxCredits
    /\ balance' = [balance EXCEPT !.accrued = @ + Accrual, !.closing = @ + Accrual]
    /\ credits' = credits + 1
    /\ UNCHANGED <<request, debits, slaJobs, handler, overlapped, aborts, calls>>

\* The delay of a job elapses; the worker's processor only logs it.
SlaFires(job) ==
    /\ slaJobs' = slaJobs \ {job}
    /\ UNCHANGED <<balance, request, debits, credits, handler, overlapped, aborts, calls>>

\* The awaited call rejects, or the process dies: the rest never runs.
Abort(w) ==
    /\ handler[w].pc # "idle"
    /\ aborts < MaxAborts
    /\ aborts' = aborts + 1
    /\ Finish(w)
    /\ UNCHANGED <<balance, request, debits, credits, slaJobs, overlapped, calls>>

----------------------------------------------------------------------------
\* The steps of a handler after its first read: it runs to its end.
Advance(w) ==
    \/ \E r \in Request : CreateInsert(w, r)
    \/ CreateReserve(w) \/ CreateSchedule(w)
    \/ DecideUnschedule(w) \/ DecideScheduleNext(w) \/ DecideWrite(w)
    \/ DecideDebit(w) \/ DecideRelease(w)
    \/ CancelWrite(w) \/ CancelRelease(w) \/ CancelRefund(w)

Next ==
    \/ \E w \in Worker :
        \/ \E d \in Duration : CreateCheck(w, d)
        \/ \E r \in Request : CancelRead(w, r)
        \/ \E r \in Request, decision \in Decision : DecideRead(w, r, decision)
        \/ Advance(w)
        \/ Abort(w)
    \/ Accrue
    \/ \E job \in slaJobs : SlaFires(job)

Spec == Init /\ [][Next]_vars

\* Behaviours in which the decisions and the cancellation of a request do
\* not overlap: the premise under which the service keeps its promise.
SerialSpec == Init /\ [][Next /\ overlapped' = {}]_vars

\* A handler that is running goes on, and a job whose delay has passed fires.
Fairness ==
    /\ \A w \in Worker : WF_vars(Advance(w))
    /\ WF_vars(\E job \in slaJobs : SlaFires(job))

FairSerialSpec == SerialSpec /\ Fairness

----------------------------------------------------------------------------
TypeOK ==
    /\ balance \in [accrued : Nat, taken : Int, pending : Int, closing : Nat]
    /\ request \in [Request -> Row]
    /\ debits \in [Request -> Nat]
    /\ credits \in Nat
    /\ slaJobs \subseteq Request \X Levels
    /\ handler \in [Worker -> Handler]
    /\ overlapped \subseteq Request
    /\ aborts \in Nat
    /\ calls \in Nat

\* create reads the balance, awaits, and only then raises pending: each other
\* create in flight may spend the same days once more, and nothing else ever
\* overdraws the row, whatever overlaps or dies.  With one handler in flight
\* the balance is never overdrawn.
OverdraftBounded == Available >= -(MaxDuration * (Cardinality(Worker) - 1))

\* approve needs every level: a request is approved only with the consent of
\* the whole chain, also when approvals of the two levels race.
ApprovedByWholeChain ==
    \A r \in Request : request[r].status = "approved" =>
        \A l \in Levels : request[r].chain[l] = "approved"

\* "not found or already processed": a request whose handlers do not overlap
\* is debited at most once, and a request that was not approved never.
DebitedOnce(r) ==
    /\ debits[r] =< 1
    /\ request[r].status \in {"absent", "pending", "rejected"} => debits[r] = 0
DebitedOnceUnlessOverlapped == \A r \in Request \ overlapped : DebitedOnce(r)
=============================================================================
