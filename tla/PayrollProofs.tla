--------------------------- MODULE PayrollProofs ----------------------------
(***************************************************************************)
(* Theorems about Payroll, for every set of callers, executors, employees  *)
(* and pays, with a wired processor or without.                            *)
(***************************************************************************)
EXTENDS Payroll, Sums

Owners == {x \in Executor : exec[x].owns}

\* Executions that go on although the job is no longer theirs.
Strays == {x \in Executor : exec[x].pc # "idle" /\ ~exec[x].owns}

ExecRow == [pc : {"idle", "load", "pay", "payslips", "done"}, owns : BOOLEAN,
            todo : SUBSET Employee, all : SUBSET Employee,
            errors : Nat, total : Nat, count : Nat]

\* The job has an owner only while it is active, and every execution without
\* the job has cost a lock.
FlightInv ==
    /\ exec \in [Executor -> ExecRow]
    /\ stalls \in Nat
    /\ \A x \in Executor : exec[x].owns => exec[x].pc # "idle" /\ job = "active"
    /\ \A x, y \in Executor : exec[x].owns /\ exec[y].owns => x = y
    /\ IsFiniteSet(Strays) /\ Cardinality(Strays) =< stalls

\* FlightInv holds at first, and every step keeps it.
LEMMA FlightFacts ==
    /\ Init => FlightInv
    /\ FlightInv /\ [Next]_vars => FlightInv'
<1>1. Init => FlightInv
  <2> SUFFICES ASSUME Init PROVE FlightInv
    OBVIOUS
  <2>1. Strays = {}
    BY DEF Strays, Init, NoExec
  <2> QED
    BY <2>1, FS_EmptySet DEF Init, FlightInv, NoExec, ExecRow
<1>2. FlightInv /\ [Next]_vars => FlightInv'
  <2> SUFFICES ASSUME FlightInv, [Next]_vars PROVE FlightInv'
    OBVIOUS
  <2>1. /\ exec \in [Executor -> ExecRow] /\ stalls \in Nat
        /\ \A x \in Executor : exec[x] \in ExecRow
        /\ \A x \in Executor : exec[x].owns => exec[x].pc # "idle" /\ job = "active"
        /\ \A x, y \in Executor : exec[x].owns /\ exec[y].owns => x = y
        /\ IsFiniteSet(Strays) /\ Cardinality(Strays) =< stalls /\ Cardinality(Strays) \in Nat
    BY FS_CardinalityType DEF FlightInv
  <2>2. Strays' = {x \in Executor : exec'[x].pc # "idle" /\ ~exec'[x].owns}
    BY DEF Strays
  <2>3. ASSUME exec' = exec, stalls' = stalls, job = "active" => job' = "active"
        PROVE  FlightInv'
    BY <2>1, <2>3 DEF FlightInv, Strays
  \* A step of an execution that keeps the job, or never had it.
  <2>4. ASSUME NEW x \in Executor, NEW row \in ExecRow, exec' = [exec EXCEPT ![x] = row],
               stalls' = stalls, job' = job,
               row.owns = exec[x].owns, exec[x].pc # "idle",
               row.pc = "idle" => ~exec[x].owns
        PROVE  FlightInv'
    <3>1. \A y \in Executor : exec'[y] = IF y = x THEN row ELSE exec[y]
      BY <2>1, <2>4
    <3>2. Strays' \subseteq Strays
      BY <2>1, <2>2, <2>4, <3>1 DEF Strays
    <3>3. /\ IsFiniteSet(Strays') /\ Cardinality(Strays') =< Cardinality(Strays)
          /\ Cardinality(Strays') \in Nat
      BY <2>1, <3>2, FS_Subset, FS_CardinalityType
    <3> QED
      BY <2>1, <2>4, <3>1, <3>3 DEF FlightInv
  \* An execution ends, and with it the job if it owns it.
  <2>5. ASSUME NEW x \in Executor, exec' = [exec EXCEPT ![x] = NoExec], stalls' \in Nat,
               stalls' >= stalls, ~exec[x].owns => job' = job
        PROVE  FlightInv'
    <3>1. \A y \in Executor : exec'[y] = IF y = x THEN NoExec ELSE exec[y]
      BY <2>1, <2>5
    <3>2. NoExec \in ExecRow /\ ~NoExec.owns /\ NoExec.pc = "idle"
      BY DEF NoExec, ExecRow
    <3>3. Strays' \subseteq Strays
      BY <2>1, <2>2, <3>1, <3>2 DEF Strays
    <3>4. /\ IsFiniteSet(Strays') /\ Cardinality(Strays') =< Cardinality(Strays)
          /\ Cardinality(Strays') \in Nat
      BY <2>1, <3>3, FS_Subset, FS_CardinalityType
    <3>5. Cardinality(Strays') =< stalls'
      BY <2>1, <2>5, <3>4
    <3>6. \A y \in Executor : exec'[y].owns => exec'[y].pc # "idle" /\ job' = "active"
      BY <2>1, <2>5, <3>1, <3>2
    <3>7. \A y, z \in Executor : exec'[y].owns /\ exec'[z].owns => y = z
      BY <2>1, <3>1, <3>2
    <3>8. exec' \in [Executor -> ExecRow]
      BY <2>1, <2>5, <3>2
    <3> QED
      BY <2>5, <3>4, <3>5, <3>6, <3>7, <3>8 DEF FlightInv
  <2>6. ASSUME NEW x \in Executor, ExecStart(x) PROVE FlightInv'
    <3>1. \A y \in Executor : ~exec[y].owns
      BY <2>1, <2>6 DEF ExecStart
    <3>2. /\ exec' = [exec EXCEPT ![x].pc = "load", ![x].owns = TRUE] /\ job' = "active"
          /\ stalls' = stalls /\ exec[x].pc = "idle"
      BY <2>6 DEF ExecStart, counters
    <3>3. /\ exec' \in [Executor -> ExecRow]
          /\ exec'[x].owns /\ exec'[x].pc = "load"
          /\ \A y \in Executor \ {x} : exec'[y] = exec[y]
      BY <2>1, <3>2 DEF ExecRow
    <3>4. Strays' = Strays
      BY <2>2, <3>1, <3>2, <3>3 DEF Strays
    <3>5. \A y \in Executor : exec'[y].owns => y = x
      BY <3>1, <3>3
    <3> QED
      BY <2>1, <3>2, <3>3, <3>4, <3>5 DEF FlightInv
  <2>7. ASSUME NEW x \in Executor, NEW dead \in BOOLEAN, Stall(x, dead) PROVE FlightInv'
    <3>1. stalls' = stalls + 1 /\ exec[x].owns /\ job' = "waiting"
      BY <2>7 DEF Stall
    <3>2. CASE dead
      <4>1. exec' = [exec EXCEPT ![x] = NoExec]
        BY <2>7, <3>2 DEF Stall
      <4>2. stalls' \in Nat /\ stalls' >= stalls
        BY <2>1, <3>1
      <4> QED
        BY <2>5, <3>1, <4>1, <4>2
    <3>3. CASE ~dead
      <4>1. exec' = [exec EXCEPT ![x].owns = FALSE]
        BY <2>7, <3>3 DEF Stall
      <4>2. /\ exec' \in [Executor -> ExecRow]
            /\ ~exec'[x].owns /\ exec'[x].pc = exec[x].pc
            /\ \A y \in Executor \ {x} : exec'[y] = exec[y]
        BY <2>1, <4>1 DEF ExecRow
      <4>3. Strays' = Strays \union {x} /\ x \notin Strays
        BY <2>1, <2>2, <3>1, <4>2 DEF Strays
      <4>4. IsFiniteSet(Strays') /\ Cardinality(Strays') = Cardinality(Strays) + 1
        BY <2>1, <4>3, FS_AddElement
      <4>5. \A y \in Executor : ~exec'[y].owns
        BY <2>1, <3>1, <4>2
      <4>6. stalls' \in Nat /\ Cardinality(Strays') =< stalls'
        BY <2>1, <3>1, <4>4
      <4> QED
        BY <4>2, <4>4, <4>5, <4>6 DEF FlightInv
    <3> QED
      BY <3>2, <3>3
  <2>8. CASE UNCHANGED vars
    BY <2>3, <2>8 DEF vars, queueVars, counters
  <2>9. ASSUME NEW c \in Caller,
               TriggerRead(c) \/ ApproveRead(c) \/ CallerStep(c) \/ CallerThrow(c)
        PROVE  FlightInv'
    BY <2>3, <2>9 DEF TriggerRead, ApproveRead, CallerStep, CallerThrow, TriggerUpsert,
                      TriggerEnqueue, ApproveWrite, queueVars, counters
  <2>10. ASSUME NEW x \in Executor, ExecFinish(x) \/ ExecPayslips(x) PROVE FlightInv'
    <3>1. /\ exec[x].pc # "idle" /\ job' = job /\ stalls' = stalls
          /\ \/ exec' = [exec EXCEPT ![x].pc = "payslips"]
             \/ exec' = [exec EXCEPT ![x].pc = "done"]
      BY <2>10 DEF ExecFinish, ExecPayslips, queueVars, counters
    <3>2. PICK pc \in {"payslips", "done"} : exec' = [exec EXCEPT ![x].pc = pc]
      BY <3>1
    <3> DEFINE row == [exec[x] EXCEPT !.pc = pc]
    <3>3. row \in ExecRow /\ row.owns = exec[x].owns /\ row.pc # "idle"
      BY <2>1 DEF ExecRow
    <3>4. exec' = [exec EXCEPT ![x] = row]
      BY <2>1, <3>2
    <3> HIDE DEF row
    <3> QED
      BY <2>4, <3>1, <3>3, <3>4
  <2>11. ASSUME NEW x \in Executor, NEW active \in SUBSET Employee, ExecLoad(x, active)
         PROVE  FlightInv'
    <3> DEFINE row == [exec[x] EXCEPT !.pc = "pay", !.todo = active, !.all = active]
    <3>1. /\ exec[x].pc = "load" /\ job' = job /\ stalls' = stalls
          /\ exec' = [exec EXCEPT ![x] = row]
      BY <2>1, <2>11 DEF ExecLoad, queueVars, counters
    <3>2. row \in ExecRow /\ row.owns = exec[x].owns /\ row.pc = "pay"
      BY <2>1 DEF ExecRow
    <3> HIDE DEF row
    <3> QED
      BY <2>4, <3>1, <3>2
  <2>12. ASSUME NEW x \in Executor, NEW e \in Employee, ExecError(x, e) PROVE FlightInv'
    <3> DEFINE row == [exec[x] EXCEPT !.todo = @ \ {e}, !.errors = @ + 1]
    <3>1. /\ exec[x].pc = "pay" /\ job' = job /\ stalls' = stalls
          /\ exec' = [exec EXCEPT ![x] = row]
      BY <2>1, <2>12 DEF ExecError, queueVars, counters
    <3>2. row \in ExecRow /\ row.owns = exec[x].owns /\ row.pc = exec[x].pc
      <4>1. PICK old \in ExecRow : old = exec[x]
        BY <2>1
      <4>2. old.errors + 1 \in Nat /\ old.todo \ {e} \in SUBSET Employee
        BY DEF ExecRow
      <4> QED
        BY <4>1, <4>2 DEF ExecRow
    <3> HIDE DEF row
    <3> QED
      BY <2>4, <3>1, <3>2
  <2>13. ASSUME NEW x \in Executor, NEW e \in Employee, NEW net \in Pay, ExecPay(x, e, net)
         PROVE  FlightInv'
    <3> DEFINE row == [exec[x] EXCEPT !.todo = @ \ {e}, !.total = @ + net, !.count = @ + 1]
    <3>1. /\ exec[x].pc = "pay" /\ job' = job /\ stalls' = stalls
          /\ exec' = [exec EXCEPT ![x] = row]
      BY <2>1, <2>13 DEF ExecPay, queueVars, counters
    <3>2. row \in ExecRow /\ row.owns = exec[x].owns /\ row.pc = exec[x].pc
      <4>1. PICK old \in ExecRow : old = exec[x]
        BY <2>1
      <4>2. /\ old.total + net \in Nat /\ old.count + 1 \in Nat
            /\ old.todo \ {e} \in SUBSET Employee
        BY PayAssumption DEF ExecRow
      <4> QED
        BY <4>1, <4>2 DEF ExecRow
    <3> HIDE DEF row
    <3> QED
      BY <2>4, <3>1, <3>2
  <2>14. ASSUME NEW x \in Executor, ExecDone(x) \/ ExecThrow(x) PROVE FlightInv'
    <3>1. exec' = [exec EXCEPT ![x] = NoExec] /\ stalls' = stalls /\ (~exec[x].owns => job' = job)
      BY <2>14 DEF ExecDone, ExecThrow, counters
    <3>2. stalls' \in Nat /\ stalls' >= stalls
      BY <2>1, <3>1
    <3> QED
      BY <2>5, <3>1, <3>2
  <2>15. ASSUME StubDone \/ Evict PROVE FlightInv'
    BY <2>3, <2>15 DEF StubDone, Evict, counters
  <2> QED
    BY <2>6, <2>7, <2>8, <2>9, <2>10, <2>11, <2>12, <2>13, <2>14, <2>15 DEF Next, ExecStep
<1> QED
  BY <1>1, <1>2

\* The id of the job, and nothing else, keeps a payroll run single-flight:
\* two executions overlap only after a worker has lost its lock, however
\* often the run is triggered, kept in the queue or evicted.
THEOREM OneExecution == Spec => []SingleFlight
<1>1. FlightInv => SingleFlight
  <2> SUFFICES ASSUME FlightInv PROVE SingleFlight
    OBVIOUS
  <2>1. IsFiniteSet(Strays) /\ Cardinality(Strays) \in Nat /\ Cardinality(Strays) =< stalls
        /\ stalls \in Nat
    BY FS_CardinalityType DEF FlightInv
  <2>2. Running = Strays \union Owners
    BY DEF Running, Strays, Owners, FlightInv
  <2>3. CASE Owners = {}
    BY <2>1, <2>2, <2>3 DEF SingleFlight
  <2>4. CASE Owners # {}
    <3>1. PICK x \in Executor : Owners = {x} /\ x \notin Strays
      BY <2>4 DEF Owners, Strays, FlightInv
    <3>2. Cardinality(Running) = Cardinality(Strays) + 1
      BY <2>1, <2>2, <3>1, FS_AddElement
    <3> QED
      BY <2>1, <3>2 DEF SingleFlight
  <2> QED
    BY <2>3, <2>4
<1> QED
  BY <1>1, FlightFacts, PTL DEF Spec

\* Executions that may still write the register or the row.
Working == {x \in Executor : exec[x].pc \in {"load", "pay"}}

\* As long as no writer was out of turn there is one of them, and the row says
\* so; a caller about to write has seen a status that is not final.
TurnInv ==
    /\ FlightInv
    /\ run \in [status : Status, total : Nat, count : Nat]
    /\ caller \in [Caller -> [pc : {"idle", "upsert", "enqueue", "approve"}, seen : Status]]
    /\ outOfTurn \in BOOLEAN
    /\ ~outOfTurn => \A x, y \in Working : x = y /\ run.status = "processing"
    /\ \A c \in Caller : /\ caller[c].pc = "upsert" => caller[c].seen \in {"absent", "draft", "failed"}
                         /\ caller[c].pc = "approve" => caller[c].seen = "processed"

\* What a step may do to a run: ApprovedIsFinal is [][Final]_vars.
Final == (run.status = "approved" /\ ~outOfTurn') => UNCHANGED <<run, item>>

\* TurnInv holds at first, and every step keeps it and what is final.
LEMMA TurnFacts ==
    /\ Init => TurnInv
    /\ TurnInv /\ [Next]_vars => TurnInv' /\ Final
<1>1. Init => TurnInv
  <2> SUFFICES ASSUME Init PROVE TurnInv
    OBVIOUS
  <2>1. FlightInv
    BY FlightFacts
  <2>2. Working = {}
    BY DEF Working, Init, NoExec
  <2> QED
    BY <2>1, <2>2 DEF Init, TurnInv, NoCall, Status
<1>2. TurnInv /\ [Next]_vars => TurnInv' /\ Final
  <2> SUFFICES ASSUME TurnInv, [Next]_vars PROVE TurnInv' /\ Final
    OBVIOUS
  <2>1. FlightInv'
    BY FlightFacts DEF TurnInv
  <2>2. /\ exec \in [Executor -> ExecRow]
        /\ run \in [status : Status, total : Nat, count : Nat]
        /\ caller \in [Caller -> [pc : {"idle", "upsert", "enqueue", "approve"}, seen : Status]]
        /\ outOfTurn \in BOOLEAN
        /\ ~outOfTurn => \A x, y \in Working : x = y /\ run.status = "processing"
        /\ \A c \in Caller :
              /\ caller[c].pc = "upsert" => caller[c].seen \in {"absent", "draft", "failed"}
              /\ caller[c].pc = "approve" => caller[c].seen = "processed"
    BY DEF TurnInv, FlightInv
  <2>3. Working' = {x \in Executor : exec'[x].pc \in {"load", "pay"}}
    BY DEF Working
  \* A step that touches neither callers nor the row, and starts nothing.
  <2>4. ASSUME run' = run, caller' = caller, outOfTurn' = outOfTurn, Working' \subseteq Working,
               item' = item \/ Working # {}
        PROVE  TurnInv' /\ Final
    BY <2>1, <2>2, <2>4 DEF TurnInv, Final
  <2>5. CASE UNCHANGED vars
    <3>1. Working' = Working
      BY <2>5, <2>3 DEF vars, Working
    <3> QED
      BY <2>4, <2>5, <3>1 DEF vars
  <2>6. ASSUME NEW c \in Caller, TriggerRead(c) \/ ApproveRead(c) PROVE TurnInv' /\ Final
    <3>1. PICK label \in {"upsert", "approve"} :
              /\ caller' = [caller EXCEPT ![c] = [pc |-> label, seen |-> run.status]]
              /\ label = "upsert" => run.status \notin {"processing", "processed", "approved"}
              /\ label = "approve" => run.status = "processed"
      BY <2>6 DEF TriggerRead, ApproveRead, Call
    <3>2. run' = run /\ item' = item /\ exec' = exec /\ outOfTurn' = outOfTurn
      BY <2>6 DEF TriggerRead, ApproveRead
    <3>3. run.status \in Status /\ Working' = Working
      BY <2>2, <2>3, <3>2 DEF Working
    <3>4. caller' \in [Caller -> [pc : {"idle", "upsert", "enqueue", "approve"}, seen : Status]]
      BY <2>2, <3>1, <3>3
    <3>5. \A d \in Caller :
              /\ caller'[d].pc = "upsert" => caller'[d].seen \in {"absent", "draft", "failed"}
              /\ caller'[d].pc = "approve" => caller'[d].seen = "processed"
      BY <2>2, <3>1, <3>3 DEF Status
    <3> QED
      BY <2>1, <2>2, <3>2, <3>3, <3>4, <3>5 DEF TurnInv, Final
  \* A caller writes the row: while an execution works, out of turn.
  <2>7. ASSUME NEW c \in Caller, TriggerUpsert(c) \/ ApproveWrite(c) PROVE TurnInv' /\ Final
    <3>1. /\ exec' = exec /\ item' = item
          /\ caller[c].seen \in {"absent", "draft", "failed", "processed"}
          /\ outOfTurn' = (outOfTurn \/ run.status # caller[c].seen)
          /\ \/ run' = [run EXCEPT !.status = "draft"]
             \/ run' = [run EXCEPT !.status = "approved"]
          /\ \/ caller' = [caller EXCEPT ![c].pc = "enqueue"]
             \/ caller' = [caller EXCEPT ![c] = NoCall]
      BY <2>2, <2>7 DEF TriggerUpsert, ApproveWrite, NoteTurn, Return
    <3>2. Working' = Working
      BY <2>3, <3>1 DEF Working
    <3>3. outOfTurn' \in BOOLEAN /\ run' \in [status : Status, total : Nat, count : Nat]
      BY <2>2, <3>1 DEF Status
    <3>4. ~outOfTurn' => Working = {}
      BY <2>2, <3>1
    <3>5. caller' \in [Caller -> [pc : {"idle", "upsert", "enqueue", "approve"}, seen : Status]]
      BY <2>2, <3>1 DEF NoCall, Status
    <3>6. \A d \in Caller :
              /\ caller'[d].pc = "upsert" => caller'[d].seen \in {"absent", "draft", "failed"}
              /\ caller'[d].pc = "approve" => caller'[d].seen = "processed"
      BY <2>2, <3>1 DEF NoCall
    <3> QED
      BY <2>1, <3>1, <3>2, <3>3, <3>4, <3>5, <3>6 DEF TurnInv, Final
  <2>8. ASSUME NEW c \in Caller, TriggerEnqueue(c) \/ CallerThrow(c) PROVE TurnInv' /\ Final
    <3>1. /\ run' = run /\ item' = item /\ exec' = exec /\ outOfTurn' = outOfTurn
          /\ caller' = [caller EXCEPT ![c] = NoCall]
      BY <2>8 DEF TriggerEnqueue, CallerThrow, Return, counters
    <3>2. Working' = Working
      BY <2>3, <3>1 DEF Working
    <3>3. caller' \in [Caller -> [pc : {"idle", "upsert", "enqueue", "approve"}, seen : Status]]
      BY <2>2, <3>1 DEF NoCall, Status
    <3>4. \A d \in Caller :
              /\ caller'[d].pc = "upsert" => caller'[d].seen \in {"absent", "draft", "failed"}
              /\ caller'[d].pc = "approve" => caller'[d].seen = "processed"
      BY <2>2, <3>1 DEF NoCall
    <3> QED
      BY <2>1, <2>2, <3>1, <3>2, <3>3, <3>4 DEF TurnInv, Final
  <2>9. ASSUME NEW x \in Executor, ExecStart(x) PROVE TurnInv' /\ Final
    <3>1. /\ run' = [run EXCEPT !.status = "processing"]
          /\ outOfTurn' = (outOfTurn \/ run.status # "draft")
          /\ caller' = caller
          /\ exec' = [exec EXCEPT ![x].pc = "load", ![x].owns = TRUE]
      BY <2>9 DEF ExecStart, NoteTurn
    <3>2. /\ run' \in [status : Status, total : Nat, count : Nat] /\ run'.status = "processing"
          /\ outOfTurn' \in BOOLEAN
      BY <2>2, <3>1 DEF Status
    <3>3. ~outOfTurn' => Working = {} /\ run.status # "approved"
      BY <2>2, <3>1
    <3>4. Working' \subseteq Working \union {x}
      BY <2>2, <2>3, <3>1 DEF Working
    <3> QED
      BY <2>1, <2>2, <3>1, <3>2, <3>3, <3>4 DEF TurnInv, Final
  <2>10. ASSUME NEW x \in Executor, ExecFinish(x) PROVE TurnInv' /\ Final
    <3>1. PICK old \in ExecRow : old = exec[x]
      BY <2>2
    <3>2. PICK status \in {"failed", "processed"}, pc \in {"payslips", "done"} :
              /\ run' = [status |-> status, total |-> old.total, count |-> old.count]
              /\ exec' = [exec EXCEPT ![x].pc = pc]
              /\ caller' = caller /\ outOfTurn' = outOfTurn /\ old.pc = "pay"
      BY <2>10, <3>1 DEF ExecFinish, Totals
    <3>3. run' \in [status : Status, total : Nat, count : Nat]
      BY <3>2 DEF Status, ExecRow
    <3>4. x \in Working /\ Working' = Working \ {x}
      BY <2>2, <2>3, <3>1, <3>2 DEF Working
    <3>5. ~outOfTurn' => Working' = {} /\ run.status = "processing"
      BY <2>2, <3>2, <3>4
    <3> QED
      BY <2>1, <2>2, <3>2, <3>3, <3>4, <3>5 DEF TurnInv, Final
  <2>11. ASSUME NEW x \in Executor, NEW e \in Employee,
                ExecError(x, e) \/ \E net \in Pay : ExecPay(x, e, net)
         PROVE  TurnInv' /\ Final
    <3>1. /\ exec[x].pc = "pay" /\ run' = run /\ caller' = caller /\ outOfTurn' = outOfTurn
          /\ \/ exec' = [exec EXCEPT ![x].todo = @ \ {e}, ![x].errors = @ + 1]
             \/ \E net \in Pay : exec' = [exec EXCEPT ![x].todo = @ \ {e}, ![x].total = @ + net,
                                                      ![x].count = @ + 1]
      BY <2>11 DEF ExecError, ExecPay
    <3>2. \A y \in Executor : exec'[y].pc = exec[y].pc
      <4>1. \A y \in Executor : y # x => exec'[y] = exec[y]
        BY <2>2, <3>1
      <4>2. exec[x] \in ExecRow
        BY <2>2
      <4>3. ASSUME NEW net \in Pay,
                   exec' = [exec EXCEPT ![x].todo = @ \ {e}, ![x].total = @ + net,
                                        ![x].count = @ + 1]
            PROVE  exec'[x].pc = exec[x].pc
        BY <2>2, <4>2, <4>3 DEF ExecRow
      <4>4. CASE exec' = [exec EXCEPT ![x].todo = @ \ {e}, ![x].errors = @ + 1]
        BY <2>2, <4>2, <4>4 DEF ExecRow
      <4> QED
        BY <3>1, <4>1, <4>3, <4>4
    <3>3. x \in Working /\ Working' = Working
      BY <2>3, <3>1, <3>2 DEF Working
    <3>4. item' = item \/ Working # {}
      BY <3>3
    <3> QED
      BY <2>4, <3>1, <3>3, <3>4
  <2>12. ASSUME NEW x \in Executor, NEW active \in SUBSET Employee, ExecLoad(x, active)
         PROVE  TurnInv' /\ Final
    <3>1. /\ exec[x].pc = "load" /\ run' = run /\ caller' = caller /\ outOfTurn' = outOfTurn
          /\ item' = item
          /\ exec' = [exec EXCEPT ![x].pc = "pay", ![x].todo = active, ![x].all = active]
      BY <2>12 DEF ExecLoad
    <3>2. Working' = Working
      BY <2>2, <2>3, <3>1 DEF Working
    <3> QED
      BY <2>4, <3>1, <3>2
  <2>13. ASSUME NEW x \in Executor,
                \/ ExecPayslips(x) \/ ExecDone(x) \/ ExecThrow(x)
                \/ \E dead \in BOOLEAN : Stall(x, dead)
         PROVE  TurnInv' /\ Final
    <3>1. /\ run' = run /\ caller' = caller /\ outOfTurn' = outOfTurn /\ item' = item
          /\ \/ exec' = [exec EXCEPT ![x].pc = "done"]
             \/ exec' = [exec EXCEPT ![x] = NoExec]
             \/ exec' = [exec EXCEPT ![x].owns = FALSE]
      BY <2>13 DEF ExecPayslips, ExecDone, ExecThrow, Stall, counters
    <3>2. exec'[x].pc \in {"done", "idle", exec[x].pc}
      <4>1. exec[x] \in ExecRow
        BY <2>2
      <4> QED
        BY <2>2, <3>1, <4>1 DEF NoExec, ExecRow
    <3>3. \A y \in Executor : y # x => exec'[y] = exec[y]
      BY <2>2, <3>1
    <3>4. Working' \subseteq Working
      BY <2>3, <3>2, <3>3 DEF Working
    <3> QED
      BY <2>4, <3>1, <3>4
  <2>14. ASSUME StubDone \/ Evict PROVE TurnInv' /\ Final
    <3>1. /\ run' = run /\ caller' = caller /\ outOfTurn' = outOfTurn /\ item' = item
          /\ exec' = exec
      BY <2>14 DEF StubDone, Evict
    <3>2. Working' = Working
      BY <2>3, <3>1 DEF Working
    <3> QED
      BY <2>4, <3>1, <3>2
  <2> QED
    BY <2>5, <2>6, <2>7, <2>8, <2>9, <2>10, <2>11, <2>12, <2>13, <2>14
    DEF Next, CallerStep, ExecStep
<1> QED
  BY <1>1, <1>2

\* An approved run and its register are final, unless a writer went by a
\* status that had moved on: a check of the status in the update itself would
\* make them final without a premise.
THEOREM ApprovedStays == Spec => ApprovedIsFinal
<1>1. TurnInv /\ [Next]_vars => TurnInv' /\ [Final]_vars
  BY TurnFacts
<1> QED
  BY <1>1, TurnFacts, PTL DEF Spec, ApprovedIsFinal, Final

\* The register: who has an item, and what the items add up to.
Paid == {e \in Employee : item[e] # 0}
Total == SumOf(item, Employee)

\* What the execution x has done so far is what the register holds.
Begun(x) ==
    /\ exec[x].todo \subseteq exec[x].all
    /\ Paid \subseteq exec[x].all \ exec[x].todo
    /\ exec[x].errors + exec[x].count = Cardinality(exec[x].all \ exec[x].todo)
    /\ exec[x].count = Cardinality(Paid)
    /\ exec[x].total = Total

\* As long as every writer was in turn nothing is in the register before an
\* execution pays, an execution that pays has written all of it, and one that
\* has paid leaves its sums in the row.
RegisterInv ==
    /\ TurnInv
    /\ item \in [Employee -> Nat]
    /\ \A x \in Executor : exec[x].pc \in {"idle", "load"} =>
           exec[x].total = 0 /\ exec[x].count = 0 /\ exec[x].errors = 0
    /\ ~outOfTurn =>
        /\ run.status \in {"absent", "draft", "failed"} => Paid = {}
        /\ run.status \in {"processed", "approved"} =>
               run.count >= 1 /\ run.count = Cardinality(Paid) /\ run.total = Total
        /\ \A x \in Executor : /\ exec[x].pc = "load" => Paid = {}
                               /\ exec[x].pc = "pay" => Begun(x)

\* The totals of a processed or approved run are those of its register, for
\* every set of employees and every order in which they are paid, fail and
\* the run is triggered again.
THEOREM TotalsAreRight == Spec => []TotalsMatchRegister
<1>1. Init => RegisterInv
  <2> SUFFICES ASSUME Init PROVE RegisterInv
    OBVIOUS
  <2>1. Paid = {} /\ item \in [Employee -> Nat]
    BY DEF Init, Paid
  <2>2. \A x \in Executor : exec[x] = NoExec
    BY DEF Init
  <2> QED
    BY <2>1, <2>2, TurnFacts DEF Init, RegisterInv, NoExec
<1>2. RegisterInv /\ [Next]_vars => RegisterInv'
  <2> SUFFICES ASSUME RegisterInv, [Next]_vars PROVE RegisterInv'
    OBVIOUS
  <2>1. /\ TurnInv /\ TurnInv'
        /\ exec \in [Executor -> ExecRow]
        /\ run \in [status : Status, total : Nat, count : Nat]
        /\ outOfTurn \in BOOLEAN
        /\ item \in [Employee -> Nat]
    BY TurnFacts DEF RegisterInv, TurnInv, FlightInv
  <2>2. Total = SumOf(item, Employee) /\ Total' = SumOf(item', Employee)
    BY DEF Total
  <2>3. item' = item => Paid' = Paid /\ Total' = Total
    BY <2>2 DEF Paid
  <2>4. Paid = {} => Total = 0
    BY <2>1, <2>2, EmployeeAssumption, SumRemove DEF Paid
  <2> DEFINE Kept(x) == /\ exec'[x].pc = exec[x].pc /\ exec'[x].todo = exec[x].todo
                        /\ exec'[x].all = exec[x].all /\ exec'[x].errors = exec[x].errors
                        /\ exec'[x].count = exec[x].count /\ exec'[x].total = exec[x].total
             Idle(x) == exec'[x].pc = "idle" /\ exec'[x].total = 0 /\ exec'[x].count = 0
                        /\ exec'[x].errors = 0
  \* A step that writes no row and starts and loads nothing.
  <2>5. ASSUME item' = item, run' = run, outOfTurn' = outOfTurn,
               \A x \in Executor : Kept(x) \/ Idle(x) \/ exec'[x].pc \in {"payslips", "done"}
        PROVE  RegisterInv'
    <3>1. \A x \in Executor : exec'[x].pc \in {"idle", "load"} =>
              exec'[x].total = 0 /\ exec'[x].count = 0 /\ exec'[x].errors = 0
      BY <2>5 DEF RegisterInv
    <3>2. \A x \in Executor : exec'[x].pc = "load" => exec[x].pc = "load"
      BY <2>5
    <3>3. \A x \in Executor : exec'[x].pc = "pay" => exec[x].pc = "pay" /\ Kept(x)
      BY <2>5
    <3>4. ASSUME NEW x \in Executor, exec'[x].pc = "pay", Begun(x) PROVE Begun(x)'
      BY <2>3, <2>5, <3>3, <3>4 DEF Begun
    <3>5. ~outOfTurn => \A x \in Executor : /\ exec'[x].pc = "load" => Paid' = {}
                                            /\ exec'[x].pc = "pay" => Begun(x)'
      BY <2>3, <2>5, <3>2, <3>3, <3>4 DEF RegisterInv
    <3> QED
      BY <2>1, <2>3, <2>5, <3>1, <3>5 DEF RegisterInv
  <2>6. CASE UNCHANGED vars
    BY <2>5, <2>6 DEF vars
  <2>7. ASSUME NEW c \in Caller,
               TriggerRead(c) \/ ApproveRead(c) \/ TriggerEnqueue(c) \/ CallerThrow(c)
        PROVE  RegisterInv'
    <3>1. item' = item /\ run' = run /\ outOfTurn' = outOfTurn /\ exec' = exec
      BY <2>7 DEF TriggerRead, ApproveRead, TriggerEnqueue, CallerThrow, counters
    <3> QED
      BY <2>5, <3>1
  <2>8. CASE StubDone \/ Evict
    BY <2>5, <2>8 DEF StubDone, Evict
  <2>9. ASSUME NEW x \in Executor,
               \/ ExecPayslips(x) \/ ExecDone(x) \/ ExecThrow(x)
               \/ \E dead \in BOOLEAN : Stall(x, dead)
        PROVE  RegisterInv'
    <3>1. /\ run' = run /\ outOfTurn' = outOfTurn /\ item' = item
          /\ \/ exec' = [exec EXCEPT ![x].pc = "done"]
             \/ exec' = [exec EXCEPT ![x] = NoExec]
             \/ exec' = [exec EXCEPT ![x].owns = FALSE]
      BY <2>9 DEF ExecPayslips, ExecDone, ExecThrow, Stall, counters
    <3>2. exec[x] \in ExecRow
      BY <2>1
    <3>3. Kept(x) \/ Idle(x) \/ exec'[x].pc = "done"
      <4>1. CASE exec' = [exec EXCEPT ![x].pc = "done"]
        BY <2>1, <3>2, <4>1 DEF ExecRow
      <4>2. CASE exec' = [exec EXCEPT ![x] = NoExec]
        BY <2>1, <4>2 DEF NoExec
      <4>3. CASE exec' = [exec EXCEPT ![x].owns = FALSE]
        BY <2>1, <3>2, <4>3 DEF ExecRow
      <4> QED
        BY <3>1, <4>1, <4>2, <4>3
    <3>4. \A y \in Executor : y # x => exec'[y] = exec[y]
      BY <2>1, <3>1
    <3> QED
      BY <2>5, <3>1, <3>3, <3>4
  \* A caller writes the status, and is in turn only when no execution works.
  <2>10. ASSUME NEW c \in Caller, TriggerUpsert(c) \/ ApproveWrite(c) PROVE RegisterInv'
    <3>1. /\ exec' = exec /\ item' = item
          /\ outOfTurn' = (outOfTurn \/ run.status # caller[c].seen)
          /\ \/ /\ run' = [run EXCEPT !.status = "draft"]
                /\ caller[c].seen \in {"absent", "draft", "failed"}
             \/ /\ run' = [run EXCEPT !.status = "approved"]
                /\ caller[c].seen = "processed"
      BY <2>1, <2>10 DEF TurnInv, TriggerUpsert, ApproveWrite, NoteTurn
    <3>2. run'.count = run.count /\ run'.total = run.total
      BY <2>1, <3>1
    <3>3. \A x \in Executor : Begun(x)' <=> Begun(x)
      BY <2>3, <3>1 DEF Begun
    <3>4. ~outOfTurn' =>
              \/ run'.status = "draft" /\ Paid = {}
              \/ /\ run'.status = "approved"
                 /\ run.count >= 1 /\ run.count = Cardinality(Paid) /\ run.total = Total
      BY <2>1, <3>1 DEF RegisterInv
    <3> QED
      BY <2>1, <2>3, <3>1, <3>2, <3>3, <3>4 DEF RegisterInv
  <2>11. ASSUME NEW x \in Executor, ExecStart(x) PROVE RegisterInv'
    <3>1. /\ run' = [run EXCEPT !.status = "processing"] /\ item' = item
          /\ outOfTurn' = (outOfTurn \/ run.status # "draft")
          /\ exec' = [exec EXCEPT ![x].pc = "load", ![x].owns = TRUE]
          /\ exec[x].pc = "idle"
      BY <2>11 DEF ExecStart, NoteTurn
    <3>2. exec[x] \in ExecRow
      BY <2>1
    <3>3. /\ exec'[x].pc = "load" /\ exec'[x].total = 0 /\ exec'[x].count = 0
          /\ exec'[x].errors = 0
      BY <2>1, <3>1, <3>2 DEF RegisterInv, ExecRow
    <3>4. \A y \in Executor : y # x => exec'[y] = exec[y]
      BY <2>1, <3>1
    <3>5. \A y \in Executor : y # x => (Begun(y)' <=> Begun(y))
      BY <2>3, <3>1, <3>4 DEF Begun
    <3>6. run'.status = "processing"
      BY <2>1, <3>1
    <3>7. ~outOfTurn' => Paid = {}
      BY <2>1, <3>1 DEF RegisterInv
    <3> QED
      BY <2>1, <2>3, <3>1, <3>3, <3>4, <3>5, <3>6, <3>7 DEF RegisterInv
  \* A step of one execution at work: in turn, it is the only one.
  <2>12. ASSUME NEW x \in Executor, exec[x].pc \in {"load", "pay"}, outOfTurn' = outOfTurn,
                \A y \in Executor : y # x => exec'[y] = exec[y],
                item' \in [Employee -> Nat], exec'[x].pc \in {"pay", "payslips", "done"},
                ~outOfTurn =>
                    /\ exec'[x].pc = "pay" => Begun(x)' /\ run' = run
                    /\ exec'[x].pc # "pay" =>
                           \/ run'.status = "failed" /\ Paid' = {}
                           \/ /\ run'.status = "processed" /\ run'.count >= 1
                              /\ run'.count = Cardinality(Paid') /\ run'.total = Total'
         PROVE  RegisterInv'
    <3>1. ~outOfTurn => /\ run.status = "processing"
                        /\ \A y \in Executor : exec[y].pc \in {"load", "pay"} => y = x
      BY <2>1, <2>12 DEF TurnInv, Working
    <3>2. ~outOfTurn => \A y \in Executor : exec'[y].pc \in {"load", "pay"} =>
                            y = x /\ exec'[x].pc = "pay"
      BY <2>12, <3>1
    <3>3. \A y \in Executor : exec'[y].pc \in {"idle", "load"} =>
              exec'[y].total = 0 /\ exec'[y].count = 0 /\ exec'[y].errors = 0
      BY <2>12 DEF RegisterInv
    <3> QED
      BY <2>1, <2>12, <3>1, <3>2, <3>3 DEF RegisterInv
  <2>13. ASSUME NEW x \in Executor, NEW active \in SUBSET Employee, ExecLoad(x, active)
         PROVE  RegisterInv'
    <3>1. /\ exec[x].pc = "load" /\ run' = run /\ outOfTurn' = outOfTurn /\ item' = item
          /\ exec' = [exec EXCEPT ![x].pc = "pay", ![x].todo = active, ![x].all = active]
      BY <2>13 DEF ExecLoad
    <3>2. exec[x] \in ExecRow
      BY <2>1
    <3>3. /\ exec'[x].pc = "pay" /\ exec'[x].todo = active /\ exec'[x].all = active
          /\ exec'[x].total = 0 /\ exec'[x].count = 0 /\ exec'[x].errors = 0
      BY <2>1, <3>1, <3>2 DEF RegisterInv, ExecRow
    <3>4. ~outOfTurn => Paid = {}
      BY <3>1 DEF RegisterInv
    <3>5. ASSUME ~outOfTurn PROVE Begun(x)'
      <4>1. Paid' = {} /\ Total' = 0 /\ Cardinality({}) = 0
        BY <2>3, <2>4, <3>1, <3>4, <3>5, FS_EmptySet
      <4>2. exec'[x].all \ exec'[x].todo = {}
        BY <3>3
      <4> QED
        BY <3>3, <4>1, <4>2 DEF Begun
    <3>6. \A y \in Executor : y # x => exec'[y] = exec[y]
      BY <2>1, <3>1
    <3> QED
      BY <2>1, <2>12, <3>1, <3>3, <3>5, <3>6
  <2>14. ASSUME NEW x \in Executor, NEW e \in Employee, ExecError(x, e) PROVE RegisterInv'
    <3>1. /\ exec[x].pc = "pay" /\ run' = run /\ outOfTurn' = outOfTurn /\ item' = item
          /\ exec' = [exec EXCEPT ![x].todo = @ \ {e}, ![x].errors = @ + 1]
          /\ e \in exec[x].todo
      BY <2>14 DEF ExecError
    <3>2. exec[x] \in ExecRow
      BY <2>1
    <3>3. /\ exec'[x].pc = "pay" /\ exec'[x].todo = exec[x].todo \ {e}
          /\ exec'[x].all = exec[x].all /\ exec'[x].errors = exec[x].errors + 1
          /\ exec'[x].count = exec[x].count /\ exec'[x].total = exec[x].total
      BY <2>1, <3>1, <3>2 DEF ExecRow
    <3>4. \A y \in Executor : y # x => exec'[y] = exec[y]
      BY <2>1, <3>1
    <3>5. ASSUME Begun(x) PROVE Begun(x)'
      <4> DEFINE done == exec[x].all \ exec[x].todo
      <4>1. exec'[x].all \ exec'[x].todo = done \union {e} /\ e \notin done
        BY <3>1, <3>3, <3>5 DEF Begun
      <4>2. IsFiniteSet(done)
        BY <3>2, EmployeeAssumption, FS_Subset DEF ExecRow
      <4>3. Cardinality(done \union {e}) = Cardinality(done) + 1 /\ Cardinality(done) \in Nat
        BY <4>1, <4>2, FS_AddElement, FS_CardinalityType
      <4>4. exec[x].errors \in Nat /\ exec[x].count \in Nat
        BY <3>2 DEF ExecRow
      <4>5. exec'[x].errors + exec'[x].count = Cardinality(exec'[x].all \ exec'[x].todo)
        <5>1. exec[x].errors + exec[x].count = Cardinality(done)
          BY <3>5 DEF Begun
        <5>2. exec'[x].errors + exec'[x].count = (exec[x].errors + 1) + exec[x].count
          BY <3>3
        <5>3. exec'[x].errors + exec'[x].count = Cardinality(done) + 1
          BY <4>4, <5>1, <5>2
        <5> HIDE DEF done
        <5> QED
          BY <4>1, <4>3, <5>3
      <4> QED
        BY <2>3, <3>1, <3>3, <3>5, <4>1, <4>5 DEF Begun
    <3> QED
      BY <2>1, <2>12, <3>1, <3>3, <3>4, <3>5 DEF RegisterInv
  <2>15. ASSUME NEW x \in Executor, NEW e \in Employee, NEW net \in Pay, ExecPay(x, e, net)
         PROVE  RegisterInv'
    <3>1. /\ exec[x].pc = "pay" /\ run' = run /\ outOfTurn' = outOfTurn
          /\ item' = [item EXCEPT ![e] = net]
          /\ exec' = [exec EXCEPT ![x].todo = @ \ {e}, ![x].total = @ + net, ![x].count = @ + 1]
          /\ e \in exec[x].todo /\ net \in Nat /\ net # 0
      BY <2>15, PayAssumption DEF ExecPay
    <3>2. exec[x] \in ExecRow
      BY <2>1
    <3>3. /\ exec'[x].pc = "pay" /\ exec'[x].todo = exec[x].todo \ {e}
          /\ exec'[x].all = exec[x].all /\ exec'[x].errors = exec[x].errors
          /\ exec'[x].count = exec[x].count + 1 /\ exec'[x].total = exec[x].total + net
      BY <2>1, <3>1, <3>2 DEF ExecRow
    <3>4. \A y \in Executor : y # x => exec'[y] = exec[y]
      BY <2>1, <3>1
    <3>5. item' \in [Employee -> Nat]
      BY <2>1, <3>1
    <3>6. ASSUME Begun(x) PROVE Begun(x)'
      <4> DEFINE done == exec[x].all \ exec[x].todo
      <4>1. exec'[x].all \ exec'[x].todo = done \union {e} /\ e \notin done
        BY <3>1, <3>3, <3>6 DEF Begun
      <4>2. IsFiniteSet(done) /\ IsFiniteSet(Paid)
        BY <3>2, EmployeeAssumption, FS_Subset DEF ExecRow, Paid
      <4>3. Cardinality(done \union {e}) = Cardinality(done) + 1 /\ Cardinality(done) \in Nat
        BY <4>1, <4>2, FS_AddElement, FS_CardinalityType
      <4>4. exec[x].errors \in Nat /\ exec[x].count \in Nat
        BY <3>2 DEF ExecRow
      <4>5. exec'[x].errors + exec'[x].count = Cardinality(exec'[x].all \ exec'[x].todo)
        <5>1. exec[x].errors + exec[x].count = Cardinality(done)
          BY <3>6 DEF Begun
        <5>2. exec'[x].errors + exec'[x].count = exec[x].errors + (exec[x].count + 1)
          BY <3>3
        <5>3. exec'[x].errors + exec'[x].count = Cardinality(done) + 1
          BY <4>4, <5>1, <5>2
        <5> HIDE DEF done
        <5> QED
          BY <4>1, <4>3, <5>3
      <4>6. item[e] = 0 /\ e \notin Paid
        BY <3>1, <3>6 DEF Begun, Paid
      <4>7. Paid' = Paid \union {e}
        BY <2>1, <3>1 DEF Paid
      <4>8. Cardinality(Paid') = Cardinality(Paid) + 1
        BY <4>2, <4>6, <4>7, FS_AddElement
      <4>9. Total' = Total + net
        <5>1. \A d \in Employee : item[d] \in Int /\ item'[d] \in Int
          BY <2>1, <3>5
        <5>2. \A d \in Employee \ {e} : item[d] = item'[d]
          BY <2>1, <3>1
        <5>3. item'[e] = net
          BY <2>1, <3>1
        <5>4. SumOf(item', Employee) = SumOf(item, Employee) - item[e] + item'[e]
          BY <5>1, <5>2, EmployeeAssumption, SumUpdate
        <5>5. SumOf(item, Employee) \in Int
          BY <5>1, EmployeeAssumption, SumRemove
        <5> QED
          BY <2>2, <3>1, <4>6, <5>3, <5>4, <5>5
      <4> QED
        BY <3>3, <3>6, <4>1, <4>5, <4>7, <4>8, <4>9 DEF Begun
    <3> QED
      BY <2>1, <2>12, <3>1, <3>3, <3>4, <3>5, <3>6 DEF RegisterInv
  <2>16. ASSUME NEW x \in Executor, ExecFinish(x) PROVE RegisterInv'
    <3>1. PICK status \in {"failed", "processed"}, pc \in {"payslips", "done"} :
              /\ run' = [status |-> status, total |-> exec[x].total, count |-> exec[x].count]
              /\ exec' = [exec EXCEPT ![x].pc = pc]
              /\ item' = item /\ outOfTurn' = outOfTurn
              /\ exec[x].pc = "pay" /\ exec[x].todo = {}
              /\ status = "failed" <=> exec[x].errors = Cardinality(exec[x].all)
      BY <2>16 DEF ExecFinish, Totals
    <3>2. exec[x] \in ExecRow
      BY <2>1
    <3>3. exec'[x].pc = pc /\ \A y \in Executor : y # x => exec'[y] = exec[y]
      BY <2>1, <3>1, <3>2 DEF ExecRow
    <3>4. ASSUME Begun(x)
          PROVE  \/ run'.status = "failed" /\ Paid' = {}
                 \/ /\ run'.status = "processed" /\ run'.count >= 1
                    /\ run'.count = Cardinality(Paid') /\ run'.total = Total'
      <4>1. exec[x].errors + exec[x].count = Cardinality(exec[x].all)
        BY <3>1, <3>4 DEF Begun
      <4>2. exec[x].errors \in Nat /\ exec[x].count \in Nat
        BY <3>2 DEF ExecRow
      <4>3. CASE status = "failed"
        <5>1. Cardinality(Paid) = 0
          BY <3>1, <3>4, <4>1, <4>2, <4>3 DEF Begun
        <5>2. Paid = {}
          BY <5>1, EmployeeAssumption, FS_Subset, FS_EmptySet DEF Paid
        <5> QED
          BY <2>3, <3>1, <4>3, <5>2
      <4>4. CASE status = "processed"
        <5>1. exec[x].count >= 1
          BY <3>1, <4>1, <4>2, <4>4
        <5> QED
          BY <2>3, <3>1, <3>4, <4>4, <5>1 DEF Begun
      <4> QED
        BY <4>3, <4>4
    <3> QED
      BY <2>1, <2>12, <3>1, <3>3, <3>4 DEF RegisterInv
  <2> QED
    BY <2>6, <2>7, <2>8, <2>9, <2>10, <2>11, <2>13, <2>14, <2>15, <2>16
    DEF Next, CallerStep, ExecStep
<1>3. RegisterInv => TotalsMatchRegister
  BY DEF RegisterInv, TotalsMatchRegister, Paid, Total,
         MapThenSumSet, MapThenFoldSet, SumOf, Iterates, First
<1> QED
  BY <1>1, <1>2, <1>3, PTL DEF Spec

\* Whatever has marked the row as processing is still at work on it, or the
\* job waits for a worker that will be; the stub marks nothing.
AliveInv ==
    /\ TurnInv
    /\ throws \in Nat
    /\ run.status = "processing" => wired
    /\ \A x \in Executor : exec[x].pc # "idle" => wired
    /\ run.status = "processing" /\ throws = 0 => Working # {} \/ job = "waiting"

\* A run is left in processing with nobody at work on it only by an execution
\* whose call was rejected: stalls, retriggers and evictions never do it.
THEOREM ProcessingHasAWorker == Spec => []ProcessingIsAlive
<1>1. Init => AliveInv
  BY TurnFacts DEF Init, AliveInv, NoExec
<1>2. AliveInv /\ [Next]_vars => AliveInv'
  <2> SUFFICES ASSUME AliveInv, [Next]_vars PROVE AliveInv'
    OBVIOUS
  <2>1. /\ FlightInv /\ TurnInv' /\ throws \in Nat
        /\ exec \in [Executor -> ExecRow]
        /\ \A x \in Executor : exec[x].owns => job = "active"
        /\ \A x \in Executor : exec[x].pc # "idle" => wired
    BY TurnFacts DEF AliveInv, TurnInv, FlightInv
  <2>2. /\ Working = {x \in Executor : exec[x].pc \in {"load", "pay"}}
        /\ Working' = {x \in Executor : exec'[x].pc \in {"load", "pay"}}
    BY DEF Working
  \* A step that keeps everybody at work and the waiting job.
  <2>3. ASSUME wired' = wired, throws' = throws, exec' = exec,
               run'.status = "processing" => run' = run,
               job = "waiting" /\ run' = run => job' = "waiting" \/ ~wired
        PROVE  AliveInv'
    BY <2>1, <2>2, <2>3 DEF AliveInv
  <2>4. CASE UNCHANGED vars
    BY <2>3, <2>4 DEF vars, queueVars, counters
  <2>5. ASSUME NEW c \in Caller, TriggerRead(c) \/ ApproveRead(c) \/ TriggerEnqueue(c)
        PROVE  AliveInv'
    BY <2>3, <2>5 DEF TriggerRead, ApproveRead, TriggerEnqueue, queueVars, counters
  <2>6. ASSUME NEW c \in Caller, TriggerUpsert(c) \/ ApproveWrite(c) PROVE AliveInv'
    <3>1. run'.status # "processing"
      <4>1. run \in [status : Status, total : Nat, count : Nat]
        BY DEF AliveInv, TurnInv
      <4> QED
        BY <2>6, <4>1 DEF TriggerUpsert, ApproveWrite
    <3> QED
      BY <2>1, <2>6, <3>1 DEF AliveInv, TriggerUpsert, ApproveWrite, queueVars, counters
  <2>7. ASSUME NEW c \in Caller, CallerThrow(c) PROVE AliveInv'
    BY <2>1, <2>7 DEF AliveInv, CallerThrow, queueVars
  <2>8. CASE StubDone \/ Evict
    BY <2>3, <2>8 DEF StubDone, Evict, counters
  <2>9. ASSUME NEW x \in Executor, ExecStart(x) PROVE AliveInv'
    <3>1. wired /\ wired' = wired /\ throws' = throws
          /\ exec' = [exec EXCEPT ![x].pc = "load", ![x].owns = TRUE]
      BY <2>9 DEF ExecStart, counters
    <3>2. x \in Working'
      BY <2>1, <2>2, <3>1
    <3> QED
      BY <2>1, <3>1, <3>2 DEF AliveInv
  \* A step of an execution that stays at work.
  <2>10. ASSUME NEW x \in Executor,
                \/ \E active \in SUBSET Employee : ExecLoad(x, active)
                \/ \E e \in Employee : ExecError(x, e) \/ \E net \in Pay : ExecPay(x, e, net)
         PROVE  AliveInv'
    <3>1. /\ exec[x].pc \in {"load", "pay"}
          /\ run' = run /\ job' = job /\ wired' = wired /\ throws' = throws
      BY <2>10 DEF ExecLoad, ExecError, ExecPay, queueVars, counters
    <3>2. wired
      BY <2>1, <3>1
    <3>3. exec'[x].pc = "pay"
      <4>1. exec[x] \in ExecRow
        BY <2>1
      <4>2. CASE \E active \in SUBSET Employee : ExecLoad(x, active)
        BY <2>1, <4>1, <4>2 DEF ExecLoad, ExecRow
      <4>3. CASE \E e \in Employee : ExecError(x, e)
        BY <2>1, <4>1, <4>3 DEF ExecError, ExecRow
      <4>4. CASE \E e \in Employee : \E net \in Pay : ExecPay(x, e, net)
        BY <2>1, <4>1, <4>4 DEF ExecPay, ExecRow
      <4> QED
        BY <2>10, <4>2, <4>3, <4>4
    <3>4. x \in Working'
      BY <2>2, <3>3
    <3> QED
      BY <2>1, <3>1, <3>2, <3>4 DEF AliveInv
  <2>11. ASSUME NEW x \in Executor, ExecFinish(x) PROVE AliveInv'
    <3>1. /\ exec[x].pc = "pay" /\ run'.status # "processing"
          /\ wired' = wired /\ throws' = throws
      BY <2>11 DEF ExecFinish, Totals, queueVars, counters
    <3> QED
      BY <2>1, <3>1 DEF AliveInv
  <2>12. ASSUME NEW x \in Executor, ExecPayslips(x) \/ ExecDone(x) PROVE AliveInv'
    <3>1. /\ exec[x].pc \in {"payslips", "done"}
          /\ run' = run /\ wired' = wired /\ throws' = throws
          /\ exec' = [exec EXCEPT ![x].pc = "done"] \/ exec' = [exec EXCEPT ![x] = NoExec]
          /\ job' = job \/ exec[x].owns
      BY <2>12 DEF ExecPayslips, ExecDone, counters
    <3>2. \A y \in Executor : y # x => exec'[y] = exec[y]
      BY <2>1, <3>1
    <3>3. Working \subseteq Working'
      BY <2>2, <3>1, <3>2
    <3> QED
      BY <2>1, <3>1, <3>3 DEF AliveInv
  <2>13. ASSUME NEW x \in Executor, ExecThrow(x) PROVE AliveInv'
    <3>1. /\ exec[x].pc # "idle" /\ run' = run /\ wired' = wired
          /\ throws' = throws + 1
      BY <2>13 DEF ExecThrow
    <3> QED
      BY <2>1, <3>1 DEF AliveInv
  <2>14. ASSUME NEW x \in Executor, NEW dead \in BOOLEAN, Stall(x, dead) PROVE AliveInv'
    <3>1. /\ exec[x].owns /\ job' = "waiting" /\ run' = run /\ wired' = wired
          /\ throws' = throws
      BY <2>14 DEF Stall
    <3>2. wired
      BY <2>1, <3>1 DEF FlightInv
    <3> QED
      BY <2>1, <3>1, <3>2 DEF AliveInv
  <2> QED
    BY <2>4, <2>5, <2>6, <2>7, <2>8, <2>9, <2>10, <2>11, <2>12, <2>13, <2>14
    DEF Next, CallerStep, ExecStep
<1>3. AliveInv => ProcessingIsAlive
  BY DEF AliveInv, ProcessingIsAlive, Working, Running
<1> QED
  BY <1>1, <1>2, <1>3, PTL DEF Spec
=============================================================================
