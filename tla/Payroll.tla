------------------------------ MODULE Payroll -------------------------------
(***************************************************************************)
(* One row of payroll_runs (a tenant, a month) from trigger to approval:   *)
(* PayrollService, the job of the queue payroll-run that stands for it and *)
(* the executions of that job.                                             *)
(*                                                                         *)
(* triggerRun and approveRun are HTTP handlers, cut at each await.         *)
(* processPayrollRun is what a job of payroll-run is for (ADR 0002); the   *)
(* processor in apps/worker is still a stub that completes the job without *)
(* calling it.  Wired says which of the two a behaviour may have.          *)
(***************************************************************************)
EXTENDS Integers, FiniteSets, FiniteSetsExt

CONSTANTS
    Caller,       \* HTTP handlers in flight
    Executor,     \* slots of the workers of payroll-run
    Employee,     \* employees with status active
    Pay,          \* net pay computeEmployeePayroll may return
    Wired,        \* whether the processor runs processPayrollRun: the choices
    MaxTriggers,  \* bound: calls of triggerRun
    MaxStalls,    \* bound: jobs whose lock expires under a worker
    MaxEvictions, \* bound: finished jobs that leave the queue
    MaxThrows     \* bound: awaited calls, outside the loop, that reject

ASSUME WiredAssumption == Wired \subseteq BOOLEAN
ASSUME EmployeeAssumption == IsFiniteSet(Employee)
ASSUME PayAssumption == Pay \subseteq Nat \ {0}
ASSUME BoundAssumption ==
    /\ MaxTriggers \in Nat /\ MaxStalls \in Nat
    /\ MaxEvictions \in Nat /\ MaxThrows \in Nat

VARIABLES
    run,         \* the row: status, total, count
    item,        \* payroll_run_items: net pay per employee, 0 when there is none
    job,         \* the job with this run's id in payroll-run
    payslips,    \* jobs added to payslip-generation
    wired,       \* whether a job runs processPayrollRun; never changes
    caller,      \* the HTTP handlers
    exec,        \* the executions of processPayrollRun
    triggers,    \* auxiliary: calls of triggerRun so far
    stalls,      \* auxiliary: locks lost so far
    evictions,   \* auxiliary: finished jobs removed so far
    throws,      \* auxiliary: executions ended by a rejected call so far
    outOfTurn    \* auxiliary: whether a row was written whose status had moved on

vars == <<run, item, job, payslips, wired, caller, exec, triggers, stalls, evictions,
          throws, outOfTurn>>
queueVars == <<job, payslips, wired>>
counters == <<triggers, stalls, evictions, throws>>

Status == {"absent", "draft", "processing", "processed", "failed", "approved"}

----------------------------------------------------------------------------
NoCall == [pc |-> "idle", seen |-> "absent"]
NoExec == [pc |-> "idle", owns |-> FALSE, todo |-> {}, all |-> {},
           errors |-> 0, total |-> 0, count |-> 0]

Init ==
    /\ run = [status |-> "absent", total |-> 0, count |-> 0]
    /\ item = [e \in Employee |-> 0]
    /\ job = "none"
    /\ payslips = 0
    /\ wired \in Wired
    /\ caller = [c \in Caller |-> NoCall]
    /\ exec = [x \in Executor |-> NoExec]
    /\ triggers = 0 /\ stalls = 0 /\ evictions = 0 /\ throws = 0
    /\ outOfTurn = FALSE

Call(c, label) == caller' = [caller EXCEPT ![c] = [pc |-> label, seen |-> run.status]]
Return(c) == caller' = [caller EXCEPT ![c] = NoCall]

\* Bookkeeping: the row is no longer what its writer goes by.
NoteTurn(expected) == outOfTurn' = (outOfTurn \/ run.status # expected)

----------------------------------------------------------------------------
(* PayrollService.triggerRun                                               *)

\* Fault: an approved run does not stop a new trigger.
TriggerReadApproved(c) ==
    /\ caller[c].pc = "idle"
    /\ triggers < MaxTriggers
    /\ run.status \notin {"processing", "processed"}
    /\ Call(c, "upsert")
    /\ triggers' = triggers + 1
    /\ UNCHANGED <<run, item, queueVars, exec, stalls, evictions, throws, outOfTurn>>

\* A draft or failed run does not stop a new trigger.
TriggerRead(c) ==
    /\ caller[c].pc = "idle"
    /\ triggers < MaxTriggers
    /\ run.status \notin {"processing", "processed", "approved"}
    /\ Call(c, "upsert")
    /\ triggers' = triggers + 1
    /\ UNCHANGED <<run, item, queueVars, exec, stalls, evictions, throws, outOfTurn>>

TriggerUpsert(c) ==
    /\ caller[c].pc = "upsert"
    /\ run' = [run EXCEPT !.status = "draft"]
    /\ NoteTurn(caller[c].seen)
    /\ caller' = [caller EXCEPT ![c].pc = "enqueue"]
    /\ UNCHANGED <<item, queueVars, exec, counters>>

\* Fault: the job has no fixed id, so it is always added.
TriggerEnqueueAgain(c) ==
    /\ caller[c].pc = "enqueue"
    /\ job' = "waiting"
    /\ Return(c)
    /\ UNCHANGED <<run, item, payslips, wired, exec, counters, outOfTurn>>

\* The job id names the tenant and month: while a job with that id is in the
\* queue, waiting, active or kept after it finished, add changes nothing.
TriggerEnqueue(c) ==
    /\ caller[c].pc = "enqueue"
    /\ job' = IF job = "none" THEN "waiting" ELSE job
    /\ Return(c)
    /\ UNCHANGED <<run, item, payslips, wired, exec, counters, outOfTurn>>

----------------------------------------------------------------------------
(* PayrollService.approveRun                                               *)

ApproveRead(c) ==
    /\ caller[c].pc = "idle"
    /\ run.status = "processed"
    /\ Call(c, "approve")
    /\ UNCHANGED <<run, item, queueVars, exec, counters, outOfTurn>>

ApproveWrite(c) ==
    /\ caller[c].pc = "approve"
    /\ run' = [run EXCEPT !.status = "approved"]
    /\ NoteTurn(caller[c].seen)
    /\ Return(c)
    /\ UNCHANGED <<item, queueVars, exec, counters>>

\* The next awaited call of a handler rejects: what it has done stays done.
CallerThrow(c) ==
    /\ caller[c].pc # "idle"
    /\ throws < MaxThrows
    /\ throws' = throws + 1
    /\ Return(c)
    /\ UNCHANGED <<run, item, queueVars, exec, triggers, stalls, evictions, outOfTurn>>

----------------------------------------------------------------------------
(* PayrollService.processPayrollRun, as the execution of a job             *)

\* Fault: only a draft is processed, so a stalled job is not taken up again.
ExecStartDraft(x) ==
    /\ wired
    /\ job = "waiting" /\ run.status = "draft"
    /\ exec[x].pc = "idle"
    /\ job' = "active"
    /\ run' = [run EXCEPT !.status = "processing"]
    /\ NoteTurn("draft")
    /\ exec' = [exec EXCEPT ![x].pc = "load", ![x].owns = TRUE]
    /\ UNCHANGED <<item, payslips, wired, caller, counters>>

\* A worker takes the job and marks the row, whatever its status is.
ExecStart(x) ==
    /\ wired
    /\ job = "waiting"
    /\ exec[x].pc = "idle"
    /\ job' = "active"
    /\ run' = [run EXCEPT !.status = "processing"]
    /\ NoteTurn("draft")
    /\ exec' = [exec EXCEPT ![x].pc = "load", ![x].owns = TRUE]
    /\ UNCHANGED <<item, payslips, wired, caller, counters>>

\* The active employees are read once, before the loop.
ExecLoad(x, active) ==
    /\ exec[x].pc = "load"
    /\ exec' = [exec EXCEPT ![x].pc = "pay", ![x].todo = active, ![x].all = active]
    /\ UNCHANGED <<run, item, queueVars, caller, counters, outOfTurn>>

\* computeEmployeePayroll returns and the item is upserted.
ExecPay(x, e, net) ==
    /\ exec[x].pc = "pay" /\ e \in exec[x].todo
    /\ item' = [item EXCEPT ![e] = net]
    /\ exec' = [exec EXCEPT ![x].todo = @ \ {e}, ![x].total = @ + net, ![x].count = @ + 1]
    /\ UNCHANGED <<run, queueVars, caller, counters, outOfTurn>>

\* Fault: an employee whose payroll failed is counted as paid.
ExecErrorCounted(x, e) ==
    /\ exec[x].pc = "pay" /\ e \in exec[x].todo
    /\ exec' = [exec EXCEPT ![x].todo = @ \ {e}, ![x].count = @ + 1]
    /\ UNCHANGED <<run, item, queueVars, caller, counters, outOfTurn>>

\* No salary structure, or anything on the way throws: collected, not fatal.
ExecError(x, e) ==
    /\ exec[x].pc = "pay" /\ e \in exec[x].todo
    /\ exec' = [exec EXCEPT ![x].todo = @ \ {e}, ![x].errors = @ + 1]
    /\ UNCHANGED <<run, item, queueVars, caller, counters, outOfTurn>>

\* What the last update writes.
Totals(x, status) == [status |-> status, total |-> exec[x].total, count |-> exec[x].count]

\* Fault: with errors the run is left as it is.
ExecFinishSilent(x) ==
    /\ exec[x].pc = "pay" /\ exec[x].todo = {}
    /\ run' = IF exec[x].errors > 0 THEN run ELSE Totals(x, "processed")
    /\ exec' = [exec EXCEPT ![x].pc = "done"]
    /\ UNCHANGED <<item, queueVars, caller, counters, outOfTurn>>

\* Fault: payslips only when everybody was paid.
ExecFinishWholly(x) ==
    /\ exec[x].pc = "pay" /\ exec[x].todo = {}
    /\ run' = Totals(x, IF exec[x].errors = Cardinality(exec[x].all) THEN "failed" ELSE "processed")
    /\ exec' = [exec EXCEPT ![x].pc = IF exec[x].errors = 0 THEN "payslips" ELSE "done"]
    /\ UNCHANGED <<item, queueVars, caller, counters, outOfTurn>>

\* Totals and status; a run without employees counts as failed.
ExecFinish(x) ==
    /\ exec[x].pc = "pay" /\ exec[x].todo = {}
    /\ run' = Totals(x, IF exec[x].errors = Cardinality(exec[x].all)
                        THEN "failed" ELSE "processed")
    /\ exec' = [exec EXCEPT ![x].pc = IF exec[x].count > 0 THEN "payslips" ELSE "done"]
    /\ UNCHANGED <<item, queueVars, caller, counters, outOfTurn>>

ExecPayslips(x) ==
    /\ exec[x].pc = "payslips"
    /\ payslips' = payslips + 1
    /\ exec' = [exec EXCEPT ![x].pc = "done"]
    /\ UNCHANGED <<run, item, job, wired, caller, counters, outOfTurn>>

----------------------------------------------------------------------------
(* The queue (BullMQ).                                                     *)

\* The processor returns; the finished job keeps its id.  An execution that
\* lost its lock cannot finish the job.
ExecDone(x) ==
    /\ exec[x].pc = "done"
    /\ job' = IF exec[x].owns THEN "finished" ELSE job
    /\ exec' = [exec EXCEPT ![x] = NoExec]
    /\ UNCHANGED <<run, item, payslips, wired, caller, counters, outOfTurn>>

\* The first update, the read of the employees, the last update or the add to
\* payslip-generation rejects: attempts is 1, so the job is not run again.
ExecThrow(x) ==
    /\ throws < MaxThrows
    /\ \/ exec[x].pc \in {"load", "payslips"}
       \/ exec[x].pc = "pay" /\ exec[x].todo = {}
    /\ throws' = throws + 1
    /\ job' = IF exec[x].owns THEN "finished" ELSE job
    /\ exec' = [exec EXCEPT ![x] = NoExec]
    /\ UNCHANGED <<run, item, payslips, wired, caller, triggers, stalls, evictions, outOfTurn>>

\* The stub of apps/worker: logs, reports progress, processes nobody.
StubDone ==
    /\ ~wired
    /\ job = "waiting"
    /\ job' = "finished"
    /\ UNCHANGED <<run, item, payslips, wired, caller, exec, counters, outOfTurn>>

\* A worker dies or no longer renews its lock: the job waits again.  A worker
\* that was only slow goes on with its execution beside the new one.
Stall(x, dead) ==
    /\ stalls < MaxStalls
    /\ exec[x].owns
    /\ job' = "waiting"
    /\ stalls' = stalls + 1
    /\ exec' = IF dead THEN [exec EXCEPT ![x] = NoExec] ELSE [exec EXCEPT ![x].owns = FALSE]
    /\ UNCHANGED <<run, item, payslips, wired, caller, triggers, evictions, throws, outOfTurn>>

\* removeOnComplete and removeOnFail keep a bounded number of finished jobs.
Evict ==
    /\ job = "finished"
    /\ evictions < MaxEvictions
    /\ job' = "none"
    /\ evictions' = evictions + 1
    /\ UNCHANGED <<run, item, payslips, wired, caller, exec, triggers, stalls, throws, outOfTurn>>

----------------------------------------------------------------------------
CallerStep(c) == TriggerUpsert(c) \/ TriggerEnqueue(c) \/ ApproveWrite(c)

ExecStep(x) ==
    \/ ExecStart(x) \/ ExecFinish(x) \/ ExecPayslips(x) \/ ExecDone(x)
    \/ \E active \in SUBSET Employee : ExecLoad(x, active)
    \/ \E e \in Employee : ExecError(x, e) \/ \E net \in Pay : ExecPay(x, e, net)

Next ==
    \/ \E c \in Caller : TriggerRead(c) \/ ApproveRead(c) \/ CallerStep(c) \/ CallerThrow(c)
    \/ \E x \in Executor : ExecStep(x) \/ ExecThrow(x) \/ \E dead \in BOOLEAN : Stall(x, dead)
    \/ StubDone \/ Evict

Spec == Init /\ [][Next]_vars

\* Handlers and workers run on; users, stalls and evictions may never come.
FairSpec ==
    /\ Spec
    /\ \A c \in Caller : WF_vars(CallerStep(c))
    /\ \A x \in Executor : WF_vars(ExecStep(x))
    /\ WF_vars(StubDone)

----------------------------------------------------------------------------
TypeOK ==
    /\ run \in [status : Status, total : Nat, count : Nat]
    /\ item \in [Employee -> Pay \union {0}]
    /\ job \in {"none", "waiting", "active", "finished"}
    /\ payslips \in Nat /\ wired \in Wired
    /\ caller \in [Caller -> [pc : {"idle", "upsert", "enqueue", "approve"}, seen : Status]]
    /\ exec \in [Executor -> [pc : {"idle", "load", "pay", "payslips", "done"},
                             owns : BOOLEAN,
                             todo : SUBSET Employee, all : SUBSET Employee,
                             errors : Nat, total : Nat, count : Nat]]
    /\ triggers \in Nat /\ stalls \in Nat /\ evictions \in Nat /\ throws \in Nat
    /\ outOfTurn \in BOOLEAN

Running == {x \in Executor : exec[x].pc # "idle"}

\* The fixed job id makes the run single-flight: whatever is triggered, kept
\* or evicted, two executions of a run overlap only after a lost lock.
SingleFlight == Cardinality(Running) =< 1 + stalls

\* The totals an approver sees are those of the register, for at least one
\* employee, unless a handler or a second execution wrote the row after its
\* status had moved on.
TotalsMatchRegister ==
    (run.status \in {"processed", "approved"} /\ ~outOfTurn) =>
        /\ run.count >= 1
        /\ run.count = Cardinality({e \in Employee : item[e] # 0})
        /\ run.total = MapThenSumSet(LAMBDA e : item[e], Employee)

\* An approved run and its register are final under the same premise:
\* neither a retrigger nor the queue touches them again.
ApprovedIsFinal ==
    [][(run.status = "approved" /\ ~outOfTurn') => UNCHANGED <<run, item>>]_vars

\* A run says processing only while an execution is at work on it, unless an
\* execution threw; then nothing ever takes the run out of processing.
ProcessingIsAlive ==
    (run.status = "processing" /\ throws = 0) => Running # {} \/ job = "waiting"

\* With the engine behind the queue a queued run gets its verdict.
QueuedIsDecided ==
    (wired /\ job = "waiting")
        ~> (run.status \in {"processed", "failed", "approved"} \/ throws > 0)

\* A processed run gets its payslips, unless an execution threw, or a second
\* execution of the job found nobody to pay.
PayslipsFollow ==
    (run.status = "processed") ~> (payslips > 0 \/ throws > 0 \/ run.status = "failed")

\* ADR 0002: payroll runs are jobs that complete; a triggered run does not
\* stay a draft.
TriggeredIsProcessed == (run.status = "draft") ~> (run.status # "draft")
=============================================================================
