---------------------------- MODULE LeaveProofs -----------------------------
(***************************************************************************)
(* Theorems about module Leave, for every set of handlers, requests and    *)
(* durations and every bound: types, the chain of approvals, a request     *)
(* whose handlers never overlap is debited at most once, and the balance   *)
(* is overdrawn by at most what the other creates in flight can take.      *)
(***************************************************************************)
EXTENDS Leave, FiniteSetTheorems, TLAPS

----------------------------------------------------------------------------
(* Typing.                                                                 *)

\* The rows a handler makes, and what approve computes from one.
LEMMA RowFacts ==
    /\ Idle \in Handler
    /\ \A status \in {"absent", "pending"}, d \in {0} \union Duration : FreshRow(status, d) \in Row
    /\ \A row \in Row :
        /\ \A decision \in Decision : [row EXCEPT !.chain[row.level] = decision] \in Row
        /\ NewStatus(row) \in {"pending", "approved", "rejected"} /\ NewLevel(row) \in Levels
        /\ row.days \in Nat /\ row.days =< MaxDuration
<1>1. ASSUME NEW status \in {"absent", "pending"}, NEW d \in {0} \union Duration
      PROVE  FreshRow(status, d) \in Row
  BY DEF FreshRow, Row, Levels, Decision
<1>2. Idle \in Handler
  BY <1>1 DEF Idle, Handler, PC
<1>3. ASSUME NEW row \in Row, NEW decision \in Decision
      PROVE  [row EXCEPT !.chain[row.level] = decision] \in Row
  BY DEF Row, Decision
<1>4. ASSUME NEW row \in Row
      PROVE  NewStatus(row) \in {"pending", "approved", "rejected"} /\ NewLevel(row) \in Levels
  BY DEF NewStatus, NewLevel, Row, Levels, LastLevel
<1>5. ASSUME NEW row \in Row PROVE row.days \in Nat /\ row.days =< MaxDuration
  <2>1. row.days \in {0} \union Duration
    BY DEF Row
  <2>2. MaxDuration \in Nat
    BY DurationAssumption
  <2>3. \A d \in Duration : d =< MaxDuration /\ d \in Nat
    BY DurationAssumption
  <2>4. MaxDuration >= 0
    BY <2>2
  <2> QED
    BY <2>1, <2>2, <2>3, <2>4
<1> QED
  BY <1>1, <1>2, <1>3, <1>4, <1>5

\* A handler starts, goes to a label or finishes; the others stay.
LEMMA HandlerMoves ==
    ASSUME TypeOK, NEW w \in Worker
    PROVE  /\ \A label \in PC : handler[w].on \in Request /\ Goto(w, label)
                => handler' \in [Worker -> Handler]
           /\ Finish(w) => handler' \in [Worker -> Handler]
           /\ \A label \in PC, r \in Request, row \in Row :
                Start(w, label, r, row) => handler' \in [Worker -> Handler]
           /\ \A label : Goto(w, label) => \A v \in Worker :
                /\ handler'[v].pc = IF v = w THEN label ELSE handler[v].pc
                /\ handler'[v].on = handler[v].on
                /\ handler'[v].row = handler[v].row
           /\ Finish(w) => \A v \in Worker : handler'[v] = IF v = w THEN Idle ELSE handler[v]
<1>1. ASSUME NEW label \in PC, handler[w].on \in Request, Goto(w, label)
      PROVE  handler' \in [Worker -> Handler]
  BY <1>1 DEF TypeOK, Handler, Goto
<1>2. ASSUME Finish(w)
      PROVE  handler' \in [Worker -> Handler]
  BY <1>2, RowFacts DEF TypeOK, Finish
<1>3. ASSUME NEW label \in PC, NEW r \in Request, NEW row \in Row, Start(w, label, r, row)
      PROVE  handler' \in [Worker -> Handler]
  BY <1>3 DEF TypeOK, Handler, Start
<1>4. ASSUME NEW label, Goto(w, label)
      PROVE  \A v \in Worker : /\ handler'[v].pc = IF v = w THEN label ELSE handler[v].pc
                               /\ handler'[v].on = handler[v].on
                               /\ handler'[v].row = handler[v].row
  BY <1>4 DEF TypeOK, Handler, Goto
<1>5. ASSUME Finish(w)
      PROVE  \A v \in Worker : handler'[v] = IF v = w THEN Idle ELSE handler[v]
  BY <1>5 DEF TypeOK, Finish
<1> QED
  BY <1>1, <1>2, <1>3, <1>4, <1>5

\* The tables, the queue and the handlers keep their types.
THEOREM TypeCorrect == Spec => []TypeOK
<1>1. Init => TypeOK
  <2> SUFFICES ASSUME Init PROVE TypeOK
    OBVIOUS
  <2>1. request \in [Request -> Row]
    BY RowFacts DEF Init
  <2>2. handler \in [Worker -> Handler]
    BY RowFacts DEF Init
  <2> QED
    BY <2>1, <2>2 DEF Init, TypeOK, Handler
\* Every action keeps the types; the cases follow the disjuncts of Next.
<1>2. TypeOK /\ [Next]_vars => TypeOK'
  <2> SUFFICES ASSUME TypeOK, [Next]_vars
               PROVE  TypeOK'
    OBVIOUS
  <2> USE DEF TypeOK
  <2>1. CASE UNCHANGED vars
    BY <2>1 DEF vars
  <2>2. ASSUME NEW w \in Worker, NEW d \in Duration, CreateCheck(w, d)
        PROVE  TypeOK'
    <3>1. FreshRow("pending", d) \in Row
      BY RowFacts
    <3>2. handler' \in [Worker -> Handler]
      BY <2>2, <3>1 DEF CreateCheck, Start, Handler, PC
    <3> QED
      BY <2>2, <3>2 DEF CreateCheck, Start, Handler
  <2>3. ASSUME NEW w \in Worker, NEW r \in Request, NEW decision \in Decision,
               DecideRead(w, r, decision)
        PROVE  TypeOK'
    <3>1. [request[r] EXCEPT !.chain[request[r].level] = decision] \in Row
      BY RowFacts
    <3>2. handler' \in [Worker -> Handler]
      BY <2>3, <3>1, HandlerMoves DEF DecideRead, PC
    <3> QED
      BY <2>3, <3>2 DEF DecideRead, Start, NoteOverlap, Handler
  <2>4. ASSUME NEW w \in Worker, NEW r \in Request, CancelRead(w, r)
        PROVE  TypeOK'
    <3>1. handler' \in [Worker -> Handler]
      BY <2>4, HandlerMoves DEF CancelRead, PC
    <3> QED
      BY <2>4, <3>1 DEF CancelRead, Start, NoteOverlap, Handler
  <2>5. ASSUME NEW w \in Worker, Abort(w)
        PROVE  TypeOK'
    <3>1. handler' \in [Worker -> Handler]
      BY <2>5, HandlerMoves DEF Abort
    <3> QED
      BY <2>5, <3>1 DEF Abort, Handler
  <2>6. ASSUME Accrue
        PROVE  TypeOK'
    <3>1. Accrual \in Nat
      BY AmountAssumption
    <3>2. balance'.accrued \in Nat /\ balance'.closing \in Nat
      BY <2>6, <3>1 DEF Accrue
    <3>3. balance' \in [accrued : Nat, taken : Int, pending : Int, closing : Nat]
      BY <2>6, <3>2 DEF Accrue
    <3> QED
      BY <2>6, <3>3 DEF Accrue
  <2>7. ASSUME NEW job \in slaJobs, SlaFires(job)
        PROVE  TypeOK'
    BY <2>7 DEF SlaFires
  <2>8. ASSUME NEW w \in Worker, Advance(w)
        PROVE  TypeOK'
    <3> DEFINE row == handler[w].row
    <3>1. row \in Row /\ handler[w].on \in Request \union {None}
      BY DEF Handler
    <3>2. row.days \in Nat
      BY <3>1, RowFacts
    <3>3. handler[w].pc \notin {"idle", "insert"} => handler[w].on \in Request
      BY DEF Handler
    <3>4. NewStatus(row) \in {"pending", "approved", "rejected"} /\ NewLevel(row) \in Levels
      BY <3>1, RowFacts
    <3>5. ASSUME NEW r \in Request, CreateInsert(w, r)
          PROVE  TypeOK'
      <4> DEFINE next == [handler[w] EXCEPT !.pc = "reserve", !.on = r]
      <4>a. next \in Handler
        BY <3>5 DEF Handler, PC
      <4>b. handler' = [handler EXCEPT ![w] = next]
        BY <3>5 DEF CreateInsert
      <4>1. handler' \in [Worker -> Handler]
        BY <4>a, <4>b
      <4> QED
        BY <3>1, <3>5, <4>1 DEF CreateInsert
    <3>6. CASE CreateReserve(w)
      <4>1. handler' \in [Worker -> Handler]
        BY <3>3, <3>6, HandlerMoves DEF CreateReserve, PC
      <4> QED
        BY <3>2, <3>6, <4>1 DEF CreateReserve
    <3>7. CASE CreateSchedule(w)
      <4>1. handler' \in [Worker -> Handler]
        BY <3>7, HandlerMoves DEF CreateSchedule
      <4> QED
        BY <3>3, <3>7, <4>1 DEF CreateSchedule, ScheduleEscalation, Levels
    <3>8. CASE DecideUnschedule(w)
      <4>1. handler' \in [Worker -> Handler]
        BY <3>3, <3>8, HandlerMoves DEF DecideUnschedule, PC
      <4> QED
        BY <3>8, <4>1 DEF DecideUnschedule, CancelEscalation
    <3>9. CASE DecideScheduleNext(w)
      <4>1. handler' \in [Worker -> Handler]
        BY <3>3, <3>9, HandlerMoves DEF DecideScheduleNext, PC
      <4> QED
        BY <3>3, <3>4, <3>9, <4>1 DEF DecideScheduleNext, ScheduleEscalation
    <3>10. CASE DecideWrite(w)
      <4>1. handler' \in [Worker -> Handler]
        <5>1. Finish(w) \/ \E label \in {"debit", "release"} : Goto(w, label)
          BY <3>4, <3>10 DEF DecideWrite
        <5>2. handler[w].on \in Request
          BY <3>3, <3>10 DEF DecideWrite
        <5> QED
          BY <5>1, <5>2, HandlerMoves DEF PC
      <4>2. request' \in [Request -> Row]
        <5> DEFINE r   == handler[w].on
                   new == [request[r] EXCEPT !.status = NewStatus(row),
                                             !.level = NewLevel(row),
                                             !.chain = row.chain]
        <5>1. r \in Request
          BY <3>3, <3>10 DEF DecideWrite
        <5>2. new \in Row
          BY <3>1, <3>4, <5>1 DEF Row
        <5>3. request' = [request EXCEPT ![r] = new]
          BY <3>10 DEF DecideWrite
        <5> QED
          BY <5>2, <5>3
      <4> QED
        BY <3>10, <4>1, <4>2 DEF DecideWrite
    <3>11. CASE DecideDebit(w)
      <4>1. handler' \in [Worker -> Handler]
        BY <3>11, HandlerMoves DEF DecideDebit
      <4>2. debits' \in [Request -> Nat]
        BY <3>3, <3>11 DEF DecideDebit
      <4>3. balance'.taken \in Int /\ balance'.pending \in Int
        BY <3>2, <3>11 DEF DecideDebit
      <4>4. balance' \in [accrued : Nat, taken : Int, pending : Int, closing : Nat]
        BY <3>11, <4>3 DEF DecideDebit
      <4> QED
        BY <3>11, <4>1, <4>2, <4>4 DEF DecideDebit
    <3>12. CASE DecideRelease(w)
      <4>1. handler' \in [Worker -> Handler]
        BY <3>12, HandlerMoves DEF DecideRelease
      <4> QED
        BY <3>2, <3>12, <4>1 DEF DecideRelease
    <3>13. CASE CancelWrite(w)
      <4>1. handler' \in [Worker -> Handler]
        BY <3>3, <3>13, HandlerMoves DEF CancelWrite, PC
      <4>2. request' \in [Request -> Row]
        <5>1. handler[w].on \in Request
          BY <3>3, <3>13 DEF CancelWrite
        <5>2. [request[handler[w].on] EXCEPT !.status = "cancelled"] \in Row
          BY <5>1 DEF Row
        <5> QED
          BY <3>13, <5>1, <5>2 DEF CancelWrite
      <4> QED
        BY <3>13, <4>1, <4>2 DEF CancelWrite
    <3>14. CASE CancelRelease(w)
      <4>1. handler' \in [Worker -> Handler]
        BY <3>14, HandlerMoves DEF CancelRelease
      <4> QED
        BY <3>2, <3>14, <4>1 DEF CancelRelease
    <3>15. CASE CancelRefund(w)
      <4>1. handler' \in [Worker -> Handler]
        BY <3>15, HandlerMoves DEF CancelRefund
      <4> QED
        BY <3>2, <3>15, <4>1 DEF CancelRefund
    <3> QED
      BY <2>8, <3>5, <3>6, <3>7, <3>8, <3>9, <3>10, <3>11, <3>12, <3>13, <3>14, <3>15
      DEF Advance
  <2> QED
    BY <2>1, <2>2, <2>3, <2>4, <2>5, <2>6, <2>7, <2>8 DEF Next
<1> QED
  BY <1>1, <1>2, PTL DEF Spec

----------------------------------------------------------------------------
(* The approval chain.  A row at level 2 has the consent of level 1, in    *)
(* the table and in every copy a handler decides on: that is what a stale  *)
(* write puts back, so racing approvals cannot skip a level.               *)

LevelEarned(row) == row.level = 2 => row.chain[1] = "approved"

ChainInv ==
    /\ \A r \in Request :
        /\ LevelEarned(request[r])
        /\ request[r].status = "approved" => \A l \in Levels : request[r].chain[l] = "approved"
    /\ \A w \in Worker :
        /\ handler[w].pc = "insert" =>
            LevelEarned(handler[w].row) /\ handler[w].row.status = "pending"
        /\ handler[w].pc \in {"unschedule", "scheduleNext", "write"} =>
            /\ LevelEarned(handler[w].row)
            /\ handler[w].row.chain[handler[w].row.level] \in Decision

\* A request is approved only with the consent of its whole chain, whatever
\* approvals, cancellations and crashes overlap.
THEOREM WholeChainApproves == Spec => [](TypeOK /\ ChainInv /\ ApprovedByWholeChain)
<1>1. Init => ChainInv
  BY DEF Init, ChainInv, Idle, FreshRow, LevelEarned, Levels
\* What approve writes keeps both parts of the invariant.
<1>2. ASSUME NEW row \in Row, LevelEarned(row), row.chain[row.level] \in Decision
      PROVE  /\ NewLevel(row) = 2 => row.chain[1] = "approved"
             /\ NewStatus(row) = "approved" => \A l \in Levels : row.chain[l] = "approved"
  BY <1>2 DEF Row, LevelEarned, NewStatus, NewLevel, LastLevel, Levels, Decision
<1>3. TypeOK /\ ChainInv /\ [Next]_vars => ChainInv'
  <2> SUFFICES ASSUME TypeOK, ChainInv, [Next]_vars
               PROVE  ChainInv'
    OBVIOUS
  <2>1. CASE UNCHANGED vars
    BY <2>1 DEF vars, ChainInv
  <2>2. ASSUME NEW w \in Worker, NEW d \in Duration, CreateCheck(w, d)
        PROVE  ChainInv'
    <3>1. LevelEarned(FreshRow("pending", d)) /\ FreshRow("pending", d).status = "pending"
      BY DEF FreshRow, LevelEarned
    <3> QED
      BY <2>2, <3>1 DEF CreateCheck, Start, ChainInv, TypeOK
  <2>3. ASSUME NEW w \in Worker, NEW r \in Request, NEW decision \in Decision,
               DecideRead(w, r, decision)
        PROVE  ChainInv'
    <3> DEFINE row == [request[r] EXCEPT !.chain[request[r].level] = decision]
    <3>1. request[r] \in Row /\ LevelEarned(request[r])
      BY DEF TypeOK, ChainInv
    <3>2. LevelEarned(row) /\ row.chain[row.level] \in Decision
      BY <3>1 DEF Row, LevelEarned, Levels
    <3> HIDE DEF row
    <3>3. handler' = [handler EXCEPT ![w] = [pc |-> "unschedule", on |-> r, row |-> row]]
      BY <2>3 DEF DecideRead, Start, row
    <3> QED
      BY <2>3, <3>2, <3>3 DEF DecideRead, ChainInv, TypeOK
  <2>4. ASSUME NEW w \in Worker, NEW r \in Request, CancelRead(w, r)
        PROVE  ChainInv'
    BY <2>4 DEF CancelRead, Start, ChainInv, TypeOK
  <2>5. ASSUME NEW w \in Worker, Abort(w) \/ CreateSchedule(w) \/ DecideDebit(w)
                                    \/ DecideRelease(w) \/ CancelRelease(w) \/ CancelRefund(w)
        PROVE  ChainInv'
    <3>1. Finish(w) /\ request' = request
      BY <2>5 DEF Abort, CreateSchedule, DecideDebit, DecideRelease, CancelRelease, CancelRefund
    <3> QED
      BY <3>1 DEF Finish, Idle, ChainInv, TypeOK
  <2>6. CASE Accrue \/ \E job \in slaJobs : SlaFires(job)
    BY <2>6 DEF Accrue, SlaFires, ChainInv
  <2>7. ASSUME NEW w \in Worker, NEW r \in Request, CreateInsert(w, r)
        PROVE  ChainInv'
    <3>1. LevelEarned(handler[w].row) /\ handler[w].row.status = "pending"
      BY <2>7 DEF CreateInsert, ChainInv
    <3> QED
      BY <2>7, <3>1 DEF CreateInsert, ChainInv, TypeOK
  <2>8. ASSUME NEW w \in Worker, CreateReserve(w)
        PROVE  ChainInv'
    <3>1. \A v \in Worker : handler'[v] = handler[v] \/ handler'[v].pc = "schedule"
      BY <2>8 DEF CreateReserve, Goto, TypeOK, Handler
    <3> QED
      BY <2>8, <3>1 DEF CreateReserve, ChainInv
  <2>9. ASSUME NEW w \in Worker, DecideUnschedule(w) \/ DecideScheduleNext(w)
        PROVE  ChainInv'
    <3> DEFINE deciding == {"unschedule", "scheduleNext", "write"}
    <3>1. \A v \in Worker : /\ handler'[v].row = handler[v].row
                            /\ \/ handler'[v].pc = handler[v].pc
                               \/ handler[v].pc \in deciding /\ handler'[v].pc \in deciding
      <4>1. PICK label \in deciding : Goto(w, label) /\ handler[w].pc \in deciding
        BY <2>9 DEF DecideUnschedule, DecideScheduleNext
      <4>2. \A v \in Worker : /\ handler'[v].pc = IF v = w THEN label ELSE handler[v].pc
                              /\ handler'[v].row = handler[v].row
        BY <4>1, HandlerMoves
      <4> QED
        BY <4>1, <4>2
    <3>2. request' = request
      BY <2>9 DEF DecideUnschedule, DecideScheduleNext
    <3> QED
      BY <3>1, <3>2 DEF ChainInv
  <2>10. ASSUME NEW w \in Worker, DecideWrite(w)
        PROVE  ChainInv'
    <3> DEFINE row == handler[w].row  r == handler[w].on
    <3>1. row \in Row /\ LevelEarned(row) /\ row.chain[row.level] \in Decision
      BY <2>10 DEF DecideWrite, TypeOK, Handler, ChainInv
    <3>2. /\ NewLevel(row) = 2 => row.chain[1] = "approved"
          /\ NewStatus(row) = "approved" => \A l \in Levels : row.chain[l] = "approved"
      BY <3>1, <1>2
    <3>3. Finish(w) \/ \E label \in {"debit", "release"} : Goto(w, label)
      BY <2>10, <3>1, RowFacts DEF DecideWrite
    <3>4. \A v \in Worker : \/ handler'[v] = handler[v]
                             \/ handler'[v].pc \in {"idle", "debit", "release"}
      <4>1. CASE Finish(w)
        BY <4>1 DEF Finish, Idle, TypeOK
      <4>2. ASSUME NEW label \in {"debit", "release"}, Goto(w, label)
            PROVE  \A v \in Worker : handler'[v] = handler[v] \/ handler'[v].pc = label
        BY <4>2 DEF Goto, TypeOK, Handler
      <4> QED
        BY <3>3, <4>1, <4>2
    <3>5. \A q \in Request : request'[q] = request[q] \/
              /\ q = r
              /\ request'[q].status = NewStatus(row)
              /\ request'[q].level = NewLevel(row)
              /\ request'[q].chain = row.chain
      BY <2>10 DEF DecideWrite, TypeOK, Row
    <3>6. ASSUME NEW q \in Request
          PROVE  /\ LevelEarned(request'[q])
                 /\ request'[q].status = "approved"
                      => \A l \in Levels : request'[q].chain[l] = "approved"
      BY <3>2, <3>5 DEF ChainInv, LevelEarned
    <3> QED
      BY <3>4, <3>6 DEF ChainInv
  <2>11. ASSUME NEW w \in Worker, CancelWrite(w)
        PROVE  ChainInv'
    <3>1. \A q \in Request : request'[q] = request[q] \/
              /\ request'[q].status = "cancelled"
              /\ request'[q].level = request[q].level
              /\ request'[q].chain = request[q].chain
      BY <2>11 DEF CancelWrite, TypeOK, Row
    <3>2. \A v \in Worker : handler'[v] = handler[v] \/ handler'[v].pc \in {"unhold", "refund"}
      BY <2>11 DEF CancelWrite, Goto, TypeOK, Handler
    <3> QED
      BY <3>1, <3>2 DEF ChainInv, LevelEarned
  <2> QED
    BY <2>1, <2>2, <2>3, <2>4, <2>5, <2>6, <2>7, <2>8, <2>9, <2>10, <2>11 DEF Next, Advance
<1>4. ChainInv => ApprovedByWholeChain
  BY DEF ChainInv, ApprovedByWholeChain
<1> QED
  BY <1>1, <1>3, <1>4, TypeCorrect, PTL DEF Spec

----------------------------------------------------------------------------
(* Debits.  The check of approve (status pending) is made once and never   *)
(* again, so the argument is about what a handler may rely on at each of   *)
(* its labels as long as it is the only one on its request: the invariant  *)
(* ties the label to the status and the debits of the row.                 *)

Deciding == {"unschedule", "scheduleNext", "write"}

Alone(r) == \A v, w \in Worker : handler[v].on = r /\ handler[w].on = r => v = w

\* What the handler of w may rely on, if it works on r.
Relies(w, r) ==
    handler[w].on = r =>
        /\ handler[w].pc \in Deciding => request[r].status = "pending"
        /\ handler[w].pc = "debit" => request[r].status = "approved" /\ debits[r] = 0

DebitInv ==
    /\ \A r \in Request, w \in Worker : handler[w].on = r => request[r].status # "absent"
    /\ \A r \in Request \ overlapped :
        /\ Alone(r)
        /\ DebitedOnce(r)
        /\ \A w \in Worker : Relies(w, r)

\* "Leave request not found or already processed": without an overlap of its
\* handlers no request is debited twice, or without its approval.
THEOREM DebitedAtMostOnce ==
    Spec => [](TypeOK /\ ChainInv /\ DebitInv /\ DebitedOnceUnlessOverlapped)
<1>1. Init => DebitInv
  <2> SUFFICES ASSUME Init PROVE DebitInv
    OBVIOUS
  <2>1. \A w \in Worker : handler[w].on \notin Request
    BY NoneAssumption DEF Init, Idle
  <2>2. \A r \in Request : debits[r] = 0
    BY DEF Init
  <2> QED
    BY <2>1, <2>2 DEF DebitInv, Alone, Relies, DebitedOnce
<1>2. TypeOK /\ ChainInv /\ DebitInv /\ [Next]_vars => DebitInv'
  <2> SUFFICES ASSUME TypeOK, ChainInv, DebitInv, [Next]_vars
               PROVE  DebitInv'
    OBVIOUS
  \* Nobody starts, and no handler enters a label it must rely on something at.
  <2>1. ASSUME UNCHANGED <<request, debits, overlapped>>,
               \A v \in Worker :
                   \/ handler'[v].on \notin Request
                   \/ /\ handler'[v].on = handler[v].on
                      /\ handler'[v].pc \in Deciding => handler[v].pc \in Deciding
                      /\ handler'[v].pc = "debit" => handler[v].pc = "debit"
        PROVE  DebitInv'
    <3> USE <2>1
    <3>1. ASSUME NEW r \in Request, NEW w \in Worker, handler'[w].on = r
          PROVE  request'[r].status # "absent"
      BY <3>1 DEF DebitInv
    <3>2. ASSUME NEW r \in Request \ overlapped'
          PROVE  Alone(r)' /\ DebitedOnce(r)' /\ \A w \in Worker : Relies(w, r)'
      <4>1. r \in Request \ overlapped
        BY <3>2
      <4>2. Alone(r) /\ DebitedOnce(r) /\ \A w \in Worker : Relies(w, r)
        BY <4>1 DEF DebitInv
      <4>3. Alone(r)'
        BY <4>1, <4>2 DEF Alone
      <4>4. DebitedOnce(r)'
        BY <4>2 DEF DebitedOnce
      <4>5. \A w \in Worker : Relies(w, r)'
        BY <4>1, <4>2 DEF Relies
      <4> QED
        BY <4>3, <4>4, <4>5
    <3> QED
      BY <3>1, <3>2 DEF DebitInv
  \* A handler starts on a request and notes whether it is alone there.
  <2>2. ASSUME NEW w \in Worker, NEW q \in Request, NEW label, NEW row,
               Start(w, label, q, row), NoteOverlap(w, q), request[q].status # "absent",
               label \in Deciding => request[q].status = "pending", label # "debit",
               UNCHANGED <<request, debits>>
        PROVE  DebitInv'
    <3> USE <2>2
    <3>1. /\ handler'[w].on = q /\ handler'[w].pc = label
          /\ \A v \in Worker : v # w => handler'[v] = handler[v]
      BY DEF Start, TypeOK
    <3>2. overlapped \subseteq overlapped'
      BY DEF NoteOverlap
    <3>3. ASSUME NEW r \in Request, NEW v \in Worker, handler'[v].on = r
          PROVE  request'[r].status # "absent"
      BY <3>1, <3>3 DEF DebitInv
    <3>4. ASSUME NEW r \in Request \ overlapped'
          PROVE  Alone(r)' /\ DebitedOnce(r)' /\ \A v \in Worker : Relies(v, r)'
      <4>1. Alone(r) /\ DebitedOnce(r) /\ \A v \in Worker : Relies(v, r)
        BY <3>2, <3>4 DEF DebitInv
      <4>2. r = q => \A v \in Worker : v # w => handler[v].on # q
        BY <3>4 DEF NoteOverlap
      <4>3. Alone(r)'
        BY <3>1, <4>1, <4>2 DEF Alone
      <4>4. DebitedOnce(r)'
        BY <4>1 DEF DebitedOnce
      <4>5. \A v \in Worker : Relies(v, r)'
        BY <3>1, <4>1 DEF Relies
      <4> QED
        BY <4>3, <4>4, <4>5
    <3> QED
      BY <3>3, <3>4 DEF DebitInv
  \* The handler of w moves on alone on q: what must hold of q afterwards.
  <2>3. ASSUME NEW w \in Worker, NEW q \in Request,
               handler[w].on = q, overlapped' = overlapped,
               \A v \in Worker : v # w => handler'[v] = handler[v],
               handler'[w].on \in {q} \/ handler'[w].on \notin Request,
               \A r \in Request : r # q => request'[r] = request[r] /\ debits'[r] = debits[r],
               request'[q].status # "absent",
               q \notin overlapped => DebitedOnce(q)' /\ Relies(w, q)'
        PROVE  DebitInv'
    <3> USE <2>3
    <3>1. ASSUME NEW r \in Request, NEW v \in Worker, handler'[v].on = r
          PROVE  request'[r].status # "absent"
      BY <3>1 DEF DebitInv
    <3>2. ASSUME NEW r \in Request \ overlapped'
          PROVE  Alone(r)' /\ DebitedOnce(r)' /\ \A v \in Worker : Relies(v, r)'
      <4>1. Alone(r) /\ DebitedOnce(r) /\ \A v \in Worker : Relies(v, r)
        BY <3>2 DEF DebitInv
      <4>2. Alone(r)'
        BY <4>1 DEF Alone
      <4>3. DebitedOnce(r)'
        BY <3>2, <4>1 DEF DebitedOnce
      <4>4. ASSUME NEW v \in Worker
            PROVE  Relies(v, r)'
        <5>1. CASE r = q /\ v = w
          BY <3>2, <5>1
        <5>2. CASE r = q /\ v # w
          BY <4>1, <5>2 DEF Relies, Alone
        <5>3. CASE r # q
          BY <3>2, <4>1, <5>3 DEF Relies
        <5> QED
          BY <5>1, <5>2, <5>3
      <4> QED
        BY <4>2, <4>3, <4>4
    <3> QED
      BY <3>1, <3>2 DEF DebitInv
  <2>4. CASE UNCHANGED vars
    BY <2>4, <2>1 DEF vars
  <2>5. ASSUME NEW w \in Worker, NEW d \in Duration, CreateCheck(w, d)
        PROVE  DebitInv'
    <3>1. handler'[w].on = None /\ \A v \in Worker : v # w => handler'[v] = handler[v]
      BY <2>5 DEF CreateCheck, Start, TypeOK
    <3> QED
      BY <2>5, <3>1, NoneAssumption, <2>1 DEF CreateCheck
  <2>6. ASSUME NEW w \in Worker, NEW r \in Request, NEW decision \in Decision,
               DecideRead(w, r, decision)
        PROVE  DebitInv'
    <3> DEFINE row == [request[r] EXCEPT !.chain[request[r].level] = decision]
    <3>1. Start(w, "unschedule", r, row) /\ NoteOverlap(w, r)
          /\ request[r].status = "pending" /\ UNCHANGED <<request, debits>>
      BY <2>6 DEF DecideRead
    <3> HIDE DEF row
    <3> QED
      BY <3>1, <2>2
  <2>7. ASSUME NEW w \in Worker, NEW r \in Request, CancelRead(w, r)
        PROVE  DebitInv'
    <3>1. Start(w, "cancel", r, request[r]) /\ NoteOverlap(w, r)
          /\ request[r].status # "absent" /\ UNCHANGED <<request, debits>>
      BY <2>7 DEF CancelRead
    <3> QED
      BY <3>1, <2>2 DEF Deciding
  <2>8. ASSUME NEW w \in Worker, Abort(w) \/ CreateSchedule(w) \/ DecideRelease(w)
                                    \/ CancelRelease(w) \/ CancelRefund(w)
        PROVE  DebitInv'
    <3>1. Finish(w) /\ UNCHANGED <<request, debits, overlapped>>
      BY <2>8 DEF Abort, CreateSchedule, DecideRelease, CancelRelease, CancelRefund
    <3>2. \A v \in Worker : handler'[v] = IF v = w THEN Idle ELSE handler[v]
      BY <3>1, HandlerMoves
    <3> QED
      BY <3>1, <3>2, NoneAssumption, <2>1 DEF Idle
  <2>9. CASE Accrue \/ \E job \in slaJobs : SlaFires(job)
    BY <2>9, <2>1 DEF Accrue, SlaFires
  <2>10. ASSUME NEW w \in Worker, NEW q \in Request, CreateInsert(w, q)
        PROVE  DebitInv'
    <3>1. /\ request[q].status = "absent"
          /\ handler'[w].on = q /\ handler'[w].pc = "reserve"
          /\ \A v \in Worker : v # w => handler'[v] = handler[v]
          /\ request'[q] = handler[w].row
          /\ \A r \in Request : r # q => request'[r] = request[r]
          /\ debits' = debits /\ overlapped' = overlapped
      BY <2>10 DEF CreateInsert, TypeOK, Handler
    <3>2. handler[w].pc = "insert"
      BY <2>10 DEF CreateInsert
    <3>3. \A v \in Worker : handler[v].on # q
      BY <3>1 DEF DebitInv
    <3>4. q \notin overlapped => debits[q] = 0
      BY <3>1 DEF DebitInv, DebitedOnce
    <3>5. handler[w].row.status = "pending"
      BY <3>2 DEF ChainInv
    <3>6. ASSUME NEW r \in Request, NEW v \in Worker, handler'[v].on = r
          PROVE  request'[r].status # "absent"
      BY <3>1, <3>5, <3>6 DEF DebitInv
    <3>7. ASSUME NEW r \in Request \ overlapped'
          PROVE  Alone(r)' /\ DebitedOnce(r)' /\ \A v \in Worker : Relies(v, r)'
      <4>1. Alone(r) /\ DebitedOnce(r) /\ \A v \in Worker : Relies(v, r)
        BY <3>1, <3>7 DEF DebitInv
      <4>2. Alone(r)'
        BY <3>1, <3>3, <4>1 DEF Alone
      <4>3. DebitedOnce(r)'
        <5>1. CASE r = q
          BY <3>1, <3>4, <3>7, <5>1 DEF DebitedOnce
        <5>2. CASE r # q
          BY <3>1, <4>1, <5>2 DEF DebitedOnce
        <5> QED
          BY <5>1, <5>2
      <4>4. ASSUME NEW v \in Worker
            PROVE  Relies(v, r)'
        <5>1. CASE v = w
          BY <3>1, <4>1, <5>1 DEF Relies, Deciding
        <5>2. CASE v # w
          BY <3>1, <3>3, <4>1, <5>2 DEF Relies
        <5> QED
          BY <5>1, <5>2
      <4> QED
        BY <4>2, <4>3, <4>4
    <3> QED
      BY <3>6, <3>7 DEF DebitInv
  <2>11. ASSUME NEW w \in Worker, CreateReserve(w) \/ DecideUnschedule(w) \/ DecideScheduleNext(w)
        PROVE  DebitInv'
    <3>1. PICK label \in {"schedule", "scheduleNext", "write"} :
              /\ Goto(w, label)
              /\ label \in Deciding => handler[w].pc \in Deciding
      BY <2>11 DEF CreateReserve, DecideUnschedule, DecideScheduleNext, Deciding
    <3>2. UNCHANGED <<request, debits, overlapped>>
      BY <2>11 DEF CreateReserve, DecideUnschedule, DecideScheduleNext
    <3>3. \A v \in Worker : /\ handler'[v].pc = IF v = w THEN label ELSE handler[v].pc
                            /\ handler'[v].on = handler[v].on
      BY <3>1, HandlerMoves
    <3> QED
      BY <3>1, <3>2, <3>3, <2>1
  <2>12. ASSUME NEW w \in Worker, DecideWrite(w)
        PROVE  DebitInv'
    <3> DEFINE new == NewStatus(handler[w].row)
    <3>1. PICK q \in Request : /\ handler[w].on = q /\ handler[w].row \in Row
                               /\ handler[w].pc = "write"
      BY <2>12 DEF DecideWrite, TypeOK, Handler
    <3>2. new \in {"pending", "approved", "rejected"}
      BY <3>1, RowFacts
    <3>3. /\ request'[q].status = new
          /\ \A r \in Request : r # q => request'[r] = request[r]
          /\ debits' = debits /\ overlapped' = overlapped
      <4>1. request[q] \in Row
        BY <3>1 DEF TypeOK
      <4>2. request' = [request EXCEPT ![q] =
                          [request[q] EXCEPT !.status = new,
                                             !.level = NewLevel(handler[w].row),
                                             !.chain = handler[w].row.chain]]
        BY <2>12, <3>1 DEF DecideWrite
      <4>3. request'[q].status = new
        BY <3>1, <4>1, <4>2 DEF TypeOK, Row
      <4>4. \A r \in Request : r # q => request'[r] = request[r]
        BY <3>1, <4>2 DEF TypeOK
      <4> QED
        BY <2>12, <4>3, <4>4 DEF DecideWrite
    <3>4. /\ \A v \in Worker : v # w => handler'[v] = handler[v]
          /\ \/ handler'[w] = Idle
             \/ handler'[w].on = q /\ handler'[w].pc = "release"
             \/ handler'[w].on = q /\ handler'[w].pc = "debit" /\ new = "approved"
      <4>1. \/ Finish(w)
            \/ Goto(w, "release")
            \/ Goto(w, "debit") /\ new = "approved"
        BY <2>12, <3>2 DEF DecideWrite
      <4>2. /\ DOMAIN handler = Worker
            /\ handler[w] \in [pc : PC, on : Request \union {None}, row : Row]
        BY DEF TypeOK, Handler
      <4>3. CASE Finish(w)
        BY <4>2, <4>3 DEF Finish
      <4>4. ASSUME NEW label, Goto(w, label)
            PROVE  /\ handler'[w].on = q /\ handler'[w].pc = label
                   /\ \A v \in Worker : v # w => handler'[v] = handler[v]
        BY <3>1, <4>2, <4>4 DEF Goto
      <4> QED
        BY <4>1, <4>2, <4>3, <4>4
    <3>5. q \notin overlapped => debits[q] = 0
      BY <3>1 DEF DebitInv, Relies, DebitedOnce, Deciding
    <3>6. handler'[w].on = q \/ handler'[w].on \notin Request
      BY <3>4, NoneAssumption DEF Idle
    <3>7. handler'[w].pc = "debit" => new = "approved"
      BY <3>4 DEF Idle
    <3>8. handler'[w].pc \notin Deciding
      BY <3>4 DEF Idle, Deciding
    <3>9. request'[q].status # "absent"
      BY <3>2, <3>3
    <3>10. q \notin overlapped => DebitedOnce(q)'
      BY <3>1, <3>3, <3>5 DEF DebitedOnce
    <3>11. q \notin overlapped => Relies(w, q)'
      BY <3>1, <3>3, <3>5, <3>7, <3>8 DEF Relies
    <3> QED
      BY <3>1, <3>3, <3>4, <3>6, <3>9, <3>10, <3>11, <2>3
  <2>13. ASSUME NEW w \in Worker, DecideDebit(w)
         PROVE  DebitInv'
    <3>1. PICK q \in Request : handler[w].on = q /\ handler[w].pc = "debit"
      BY <2>13 DEF DecideDebit, TypeOK, Handler
    <3>2. /\ request' = request /\ overlapped' = overlapped
          /\ debits'[q] = debits[q] + 1
          /\ \A r \in Request : r # q => debits'[r] = debits[r]
      BY <2>13, <3>1 DEF DecideDebit, TypeOK
    <3>3. \A v \in Worker : handler'[v] = IF v = w THEN Idle ELSE handler[v]
      BY <2>13, HandlerMoves DEF DecideDebit
    <3>4. q \notin overlapped => request[q].status = "approved" /\ debits[q] = 0
      BY <3>1 DEF DebitInv, Relies
    <3>5. q \notin overlapped => DebitedOnce(q)'
      BY <3>1, <3>2, <3>4 DEF DebitedOnce
    <3>6. handler'[w].on \notin Request
      BY <3>3, NoneAssumption DEF Idle
    <3>7. Relies(w, q)'
      BY <3>1, <3>6 DEF Relies
    <3>8. request'[q].status # "absent"
      BY <3>1, <3>2 DEF DebitInv
    <3> QED
      BY <3>1, <3>2, <3>3, <3>5, <3>6, <3>7, <3>8, <2>3
  <2>14. ASSUME NEW w \in Worker, CancelWrite(w)
         PROVE  DebitInv'
    <3>1. PICK q \in Request : handler[w].on = q /\ handler[w].pc = "cancel"
      BY <2>14 DEF CancelWrite, TypeOK, Handler
    <3>2. /\ request'[q].status = "cancelled"
          /\ \A r \in Request : r # q => request'[r] = request[r]
          /\ debits' = debits /\ overlapped' = overlapped
      BY <2>14, <3>1 DEF CancelWrite, TypeOK, Row
    <3>3. /\ \A v \in Worker : v # w => handler'[v] = handler[v]
          /\ handler'[w].on = q /\ handler'[w].pc \in {"unhold", "refund"}
      BY <2>14, <3>1 DEF CancelWrite, Goto, TypeOK, Handler
    <3>4. q \notin overlapped => DebitedOnce(q)
      BY <3>1 DEF DebitInv
    <3>5. q \notin overlapped => DebitedOnce(q)' /\ Relies(w, q)'
      BY <3>2, <3>3, <3>4 DEF DebitedOnce, Relies, Deciding
    <3> QED
      BY <3>1, <3>2, <3>3, <3>5, <2>3
  <2> QED
    BY <2>4, <2>5, <2>6, <2>7, <2>8, <2>9, <2>10, <2>11, <2>12, <2>13, <2>14 DEF Next, Advance
<1>3. DebitInv => DebitedOnceUnlessOverlapped
  BY DEF DebitInv, DebitedOnceUnlessOverlapped
<1> QED
  BY <1>1, <1>2, <1>3, WholeChainApproves, PTL DEF Spec

----------------------------------------------------------------------------
(* The overdraft.  A create is reserving from the balance check until it   *)
(* has raised pending.  With n creates reserving, one of them still fits   *)
(* into what is available and every other may take a full MaxDuration: the *)
(* inductive invariant names that one and charges the workers that have    *)
(* already spent, so no sum over handlers is needed.                       *)

Reserving == {w \in Worker : handler[w].pc \in {"insert", "reserve"}}

Slack(n) == MaxDuration * (Cardinality(Worker) - n)

Fits(w) == Available >= handler[w].row.days - Slack(Cardinality(Reserving))

OverdraftInv ==
    /\ Reserving = {} => Available >= -Slack(1)
    /\ Reserving # {} => \E w \in Reserving : Fits(w)

----------------------------------------------------------------------------
\* The balance is overdrawn by at most MaxDuration for every further handler
\* in flight, whatever overlaps, dies, is accrued or given back.
THEOREM OverdraftIsBounded == Spec => []OverdraftBounded
\* How many creates may be reserving, and the slack that leaves.
<1>slack. /\ Cardinality(Worker) \in Nat /\ Cardinality(Worker) >= 1
          /\ Reserving \subseteq Worker /\ Reserving' \subseteq Worker
          /\ \A S \in SUBSET Worker : /\ IsFiniteSet(S) /\ Cardinality(S) \in Nat
                                      /\ Cardinality(S) =< Cardinality(Worker)
          /\ \A n \in Nat : /\ Slack(n) \in Int
                            /\ Slack(n) = Slack(n + 1) + MaxDuration
                            /\ n =< Cardinality(Worker) => Slack(n) >= 0
  <2>1. Cardinality(Worker) \in Nat /\ Cardinality(Worker) >= 1
    <3>1. IsFiniteSet(Worker) /\ Worker # {}
      BY WorkerAssumption
    <3> QED
      BY <3>1, FS_CardinalityType, FS_EmptySet
  <2>2. ASSUME NEW S \in SUBSET Worker
        PROVE  /\ IsFiniteSet(S) /\ Cardinality(S) \in Nat
               /\ Cardinality(S) =< Cardinality(Worker)
    <3>1. S \subseteq Worker /\ IsFiniteSet(Worker)
      BY WorkerAssumption
    <3> QED
      BY <3>1, FS_Subset, FS_CardinalityType
  <2>3. Reserving \subseteq Worker /\ Reserving' \subseteq Worker
    BY DEF Reserving
  <2>4. ASSUME NEW n \in Nat
        PROVE  /\ Slack(n) \in Int
               /\ Slack(n) = Slack(n + 1) + MaxDuration
               /\ n =< Cardinality(Worker) => Slack(n) >= 0
    <3> DEFINE k == Cardinality(Worker)
    <3>1. k \in Nat /\ MaxDuration \in Nat
      BY <2>1, DurationAssumption
    <3>2. ASSUME NEW a \in Nat, NEW b \in Nat
          PROVE  /\ a * (b - n) \in Int
                 /\ a * (b - n) = a * (b - (n + 1)) + a
                 /\ n =< b => a * (b - n) >= 0
      OBVIOUS
    <3> QED
      BY <3>1, <3>2 DEF Slack
  <2> QED
    BY <2>1, <2>2, <2>3, <2>4
<1>amounts. ASSUME TypeOK, TypeOK'
            PROVE  /\ Available \in Int /\ Available' \in Int
                   /\ \A w \in Worker : /\ handler[w].row.days \in Nat
                                        /\ handler[w].row.days =< MaxDuration
  <2> USE <1>amounts
  <2>1. Available \in Int /\ Available' \in Int
    <3>1. Opening \in Int
      BY AmountAssumption
    <3>2. balance.accrued \in Int /\ balance.taken \in Int /\ balance.pending \in Int
      BY DEF TypeOK
    <3>3. balance'.accrued \in Int /\ balance'.taken \in Int /\ balance'.pending \in Int
      BY DEF TypeOK
    <3> QED
      BY <3>1, <3>2, <3>3 DEF Available
  <2>2. ASSUME NEW w \in Worker
        PROVE  handler[w].row.days \in Nat /\ handler[w].row.days =< MaxDuration
    <3>1. handler[w].row \in Row
      BY DEF TypeOK, Handler
    <3> QED
      BY <3>1, RowFacts
  <2> QED
    BY <2>1, <2>2
<1>1. Init => OverdraftInv
  <2> SUFFICES ASSUME Init PROVE OverdraftInv
    OBVIOUS
  <2>1. Reserving = {}
    BY DEF Init, Idle, Reserving
  <2>2. Available = Opening /\ Opening \in Nat
    BY AmountAssumption DEF Init, Available
  <2>3. MaxDuration * (Cardinality(Worker) - 1) >= 0
        /\ MaxDuration * (Cardinality(Worker) - 1) \in Int
    <3>1. Slack(1) \in Int /\ Slack(1) >= 0
      BY <1>slack
    <3> QED
      BY <3>1 DEF Slack
  <2> QED
    BY <2>1, <2>2, <2>3 DEF OverdraftInv, Slack
<1>2. TypeOK /\ TypeOK' /\ OverdraftInv /\ [Next]_vars => OverdraftInv'
  <2> SUFFICES ASSUME TypeOK, TypeOK', OverdraftInv, [Next]_vars
               PROVE  OverdraftInv'
    OBVIOUS
  \* Nobody starts or stops reserving and no available day is spent.
  <2>1. ASSUME Reserving' = Reserving,
               \A v \in Reserving : handler'[v].row = handler[v].row,
               Available' >= Available
        PROVE  OverdraftInv'
    <3> USE <2>1
    <3> DEFINE n == Cardinality(Reserving)
    <3>1. Available \in Int /\ Available' \in Int
      BY <1>amounts
    <3>2. n \in Nat /\ n' = n
      BY <1>slack
    <3>3. Slack(n) \in Int /\ Slack(1) \in Int
      BY <3>2, <1>slack
    <3>4. CASE Reserving = {}
      BY <3>1, <3>3, <3>4 DEF OverdraftInv, Slack
    <3>5. CASE Reserving # {}
      <4>1. PICK w \in Reserving : Fits(w)
        BY <3>5 DEF OverdraftInv
      <4>2. handler[w].row.days \in Int
        BY <1>amounts DEF Reserving
      <4>3. Available' >= handler'[w].row.days - Slack(n)
        BY <3>1, <3>3, <4>1, <4>2 DEF Fits
      <4>4. Fits(w)'
        BY <3>2, <4>3 DEF Fits, Slack
      <4> QED
        BY <3>5, <4>4 DEF OverdraftInv
    <3> QED
      BY <3>4, <3>5
  \* One more create passes the check: its days are available, so it fits.
  <2>2. ASSUME NEW w \in Worker, handler'[w].row \in Row,
               w \in Reserving', Available' >= handler'[w].row.days
        PROVE  OverdraftInv'
    <3> USE <2>2
    <3> DEFINE n == Cardinality(Reserving)
    <3>1. n' \in Nat /\ n' =< Cardinality(Worker)
      BY <1>slack
    <3>2. MaxDuration * (Cardinality(Worker) - n') \in Int
          /\ MaxDuration * (Cardinality(Worker) - n') >= 0
      BY <3>1, <1>slack DEF Slack
    <3>3. Available' \in Int /\ handler'[w].row.days \in Int
      BY <1>amounts, RowFacts
    <3>4. Fits(w)'
      BY <3>2, <3>3 DEF Fits, Slack
    <3> QED
      BY <3>4 DEF OverdraftInv
  \* A create stops reserving, and spends at most its own days.
  <2>3. ASSUME NEW w \in Reserving,
               Reserving' = Reserving \ {w},
               \A v \in Reserving \ {w} : handler'[v].row = handler[v].row,
               Available' >= Available - handler[w].row.days
        PROVE  OverdraftInv'
    <3> USE <2>3
    <3> DEFINE n == Cardinality(Reserving)  m == n - 1
    <3>1. Available \in Int /\ Available' \in Int
      BY <1>amounts
    <3>2. \A v \in Reserving : handler[v].row.days \in Nat /\ handler[v].row.days =< MaxDuration
      BY <1>amounts DEF Reserving
    <3>3. /\ m \in Nat /\ n = m + 1
          /\ Cardinality(Reserving \ {w}) = m
          /\ m = 0 <=> Reserving \ {w} = {}
      <4>1. IsFiniteSet(Reserving) /\ IsFiniteSet(Reserving \ {w}) /\ n \in Nat
        BY <1>slack, FS_RemoveElement
      <4>2. Cardinality(Reserving \ {w}) = n - 1
        BY <4>1, FS_RemoveElement
      <4>3. Cardinality(Reserving \ {w}) \in Nat
        BY <4>1, FS_CardinalityType
      <4> QED
        BY <4>1, <4>2, <4>3, FS_EmptySet
    <3>4. /\ Slack(m) \in Int /\ Slack(n) \in Int
          /\ Slack(m) = Slack(n) + MaxDuration
          /\ MaxDuration \in Nat
      BY <3>3, <1>slack, DurationAssumption
    <3>5. PICK v \in Reserving : Fits(v)
      BY DEF OverdraftInv
    <3>6. CASE Reserving \ {w} = {}
      <4>1. v = w /\ n = 1
        BY <3>3, <3>5, <3>6
      <4>2. Available' >= -Slack(1)
        BY <3>1, <3>2, <3>4, <3>5, <4>1 DEF Fits
      <4> QED
        BY <3>6, <4>2 DEF OverdraftInv, Slack
    <3>7. CASE Reserving \ {w} # {}
      <4>1. PICK u \in Reserving \ {w} : v # w => u = v
        BY <3>5, <3>7
      <4>2. Available' >= handler[u].row.days - Slack(m)
        <5>1. CASE v = w
          BY <3>1, <3>2, <3>4, <3>5, <5>1, <4>1 DEF Fits
        <5>2. CASE v # w
          BY <3>1, <3>2, <3>4, <3>5, <5>2, <4>1 DEF Fits
        <5> QED
          BY <5>1, <5>2
      <4>3. Fits(u)'
        BY <3>3, <4>1, <4>2 DEF Fits, Slack
      <4> QED
        BY <3>7, <4>1, <4>3 DEF OverdraftInv
    <3> QED
      BY <3>6, <3>7
  \* A handler that finishes leaves the reserving ones, if it was one of them.
  <2>4. ASSUME NEW w \in Worker, Finish(w),
               Available' >= Available
        PROVE  OverdraftInv'
    <3> USE <2>4
    <3>1. \A v \in Worker : handler'[v] = IF v = w THEN Idle ELSE handler[v]
      BY HandlerMoves
    <3>2. Reserving' = Reserving \ {w}
      BY <3>1 DEF Reserving, Idle
    <3>3. \A v \in Reserving \ {w} : handler'[v].row = handler[v].row
      BY <3>1 DEF Reserving
    <3>4. CASE w \in Reserving
      <4>1. Available \in Int /\ Available' \in Int /\ handler[w].row.days \in Nat
        BY <1>amounts
      <4>2. Available' >= Available - handler[w].row.days
        BY <4>1
      <4> QED
        BY <3>2, <3>3, <3>4, <4>2, <2>3
    <3>5. CASE w \notin Reserving
      <4>1. Reserving' = Reserving /\ \A v \in Reserving : handler'[v].row = handler[v].row
        BY <3>2, <3>3, <3>5
      <4> QED
        BY <4>1, <2>1
    <3> QED
      BY <3>4, <3>5
  <2>5. /\ Available \in Int /\ Available' \in Int
        /\ \A w \in Worker : handler[w].row.days \in Nat
        /\ balance.accrued \in Int /\ balance.taken \in Int /\ balance.pending \in Int
        /\ Opening \in Int /\ Accrual \in Nat
    BY <1>amounts, AmountAssumption DEF TypeOK
  <2>6. CASE UNCHANGED vars
    BY <2>5, <2>6, <2>1 DEF vars, Reserving, Available
  <2>7. ASSUME NEW w \in Worker, NEW d \in Duration, CreateCheck(w, d)
        PROVE  OverdraftInv'
    <3>1. handler'[w].pc = "insert" /\ handler'[w].row = FreshRow("pending", d)
      BY <2>7 DEF CreateCheck, Start, TypeOK
    <3>2. handler'[w].row \in Row /\ handler'[w].row.days = d
      <4>1. FreshRow("pending", d) \in Row
        BY RowFacts
      <4>2. FreshRow("pending", d).days = d
        BY DEF FreshRow
      <4> QED
        BY <3>1, <4>1, <4>2
    <3>3. Available' >= d
      BY <2>7 DEF CreateCheck, Available
    <3>4. w \in Reserving'
      BY <3>1 DEF Reserving
    <3> QED
      BY <3>2, <3>3, <3>4, <2>2
  <2>8. ASSUME NEW w \in Worker, NEW r \in Request,
               CancelRead(w, r) \/ \E decision \in Decision : DecideRead(w, r, decision)
        PROVE  OverdraftInv'
    <3>1. /\ balance' = balance
          /\ handler[w].pc = "idle"
          /\ \A v \in Worker : v # w => handler'[v] = handler[v]
          /\ handler'[w].pc \in {"cancel", "unschedule"}
      BY <2>8 DEF CancelRead, DecideRead, Start, TypeOK
    <3>2. Reserving' = Reserving /\ \A v \in Reserving : handler'[v].row = handler[v].row
      BY <3>1 DEF Reserving
    <3>3. Available' = Available
      BY <3>1 DEF Available
    <3> QED
      BY <2>5, <3>2, <3>3, <2>1
  <2>9. ASSUME NEW w \in Worker,
               Abort(w) \/ CreateSchedule(w) \/ DecideDebit(w) \/ DecideRelease(w)
                        \/ CancelRelease(w) \/ CancelRefund(w)
        PROVE  OverdraftInv'
    <3>1. Finish(w)
      BY <2>9 DEF Abort, CreateSchedule, DecideDebit, DecideRelease, CancelRelease, CancelRefund
    <3>2. Available' >= Available
      <4>1. CASE Abort(w) \/ CreateSchedule(w)
        BY <2>5, <4>1 DEF Abort, CreateSchedule, Available
      <4>2. CASE DecideDebit(w)
        <5>1. /\ balance'.taken = balance.taken + handler[w].row.days
              /\ balance'.pending = balance.pending - handler[w].row.days
              /\ balance'.accrued = balance.accrued
          BY <4>2 DEF DecideDebit, TypeOK
        <5> QED
          BY <2>5, <5>1 DEF Available
      <4>3. CASE DecideRelease(w) \/ CancelRelease(w)
        <5>1. /\ balance'.taken = balance.taken
              /\ balance'.pending = balance.pending - handler[w].row.days
              /\ balance'.accrued = balance.accrued
          BY <4>3 DEF DecideRelease, CancelRelease, TypeOK
        <5> QED
          BY <2>5, <5>1 DEF Available
      <4>4. CASE CancelRefund(w)
        <5>1. /\ balance'.taken = balance.taken - handler[w].row.days
              /\ balance'.pending = balance.pending
              /\ balance'.accrued = balance.accrued
          BY <4>4 DEF CancelRefund, TypeOK
        <5> QED
          BY <2>5, <5>1 DEF Available
      <4> QED
        BY <2>9, <4>1, <4>2, <4>3, <4>4
    <3> QED
      BY <3>1, <3>2, <2>4
  <2>10. CASE Accrue
    <3>1. /\ balance'.taken = balance.taken
          /\ balance'.pending = balance.pending
          /\ balance'.accrued = balance.accrued + Accrual
          /\ handler' = handler
      BY <2>10 DEF Accrue, TypeOK
    <3>2. Available' >= Available
      BY <2>5, <3>1 DEF Available
    <3> QED
      BY <3>1, <3>2, <2>1 DEF Reserving
  <2>11. ASSUME NEW job \in slaJobs, SlaFires(job)
        PROVE  OverdraftInv'
    BY <2>5, <2>11, <2>1 DEF SlaFires, Reserving, Available
  <2>12. ASSUME NEW w \in Worker, NEW r \in Request, CreateInsert(w, r)
        PROVE  OverdraftInv'
    <3>1. /\ handler[w].pc = "insert"
          /\ \A v \in Worker : v # w => handler'[v] = handler[v]
          /\ handler'[w].pc = "reserve" /\ handler'[w].row = handler[w].row
          /\ balance' = balance
      BY <2>12 DEF CreateInsert, TypeOK, Handler
    <3>2. Reserving' = Reserving /\ \A v \in Reserving : handler'[v].row = handler[v].row
      BY <3>1 DEF Reserving
    <3>3. Available' = Available
      BY <3>1 DEF Available
    <3> QED
      BY <2>5, <3>2, <3>3, <2>1
  <2>13. ASSUME NEW w \in Worker, CreateReserve(w)
        PROVE  OverdraftInv'
    <3>1. Goto(w, "schedule")
      BY <2>13 DEF CreateReserve
    <3>2. \A v \in Worker : /\ handler'[v].pc = IF v = w THEN "schedule" ELSE handler[v].pc
                            /\ handler'[v].row = handler[v].row
      BY <3>1, HandlerMoves
    <3>3. w \in Reserving /\ Reserving' = Reserving \ {w}
      BY <2>13, <3>2 DEF CreateReserve, Reserving
    <3>4. /\ balance'.taken = balance.taken
          /\ balance'.pending = balance.pending + handler[w].row.days
          /\ balance'.accrued = balance.accrued
      BY <2>13 DEF CreateReserve, TypeOK
    <3>5. Available' >= Available - handler[w].row.days
      BY <2>5, <3>4 DEF Available
    <3>6. \A v \in Reserving \ {w} : handler'[v].row = handler[v].row
      BY <3>2 DEF Reserving
    <3> QED
      BY <3>3, <3>5, <3>6, <2>3
  <2>14. ASSUME NEW w \in Worker,
               DecideUnschedule(w) \/ DecideScheduleNext(w) \/ DecideWrite(w) \/ CancelWrite(w)
        PROVE  OverdraftInv'
    <3>1. /\ balance' = balance
          /\ handler[w].pc \notin {"insert", "reserve"}
          /\ Finish(w) \/ \E label \in PC \ {"insert", "reserve"} : Goto(w, label)
      <4>1. handler[w].row \in Row
        BY DEF TypeOK, Handler
      <4> QED
        BY <2>14, <4>1, RowFacts
        DEF DecideUnschedule, DecideScheduleNext, DecideWrite, CancelWrite, PC
    <3>2. Available' = Available
      BY <3>1 DEF Available
    <3>3. CASE Finish(w)
      BY <2>5, <3>2, <3>3, <2>4
    <3>4. ASSUME NEW label \in PC \ {"insert", "reserve"}, Goto(w, label)
          PROVE  OverdraftInv'
      <4>1. \A v \in Worker : /\ handler'[v].pc = IF v = w THEN label ELSE handler[v].pc
                              /\ handler'[v].row = handler[v].row
        BY <3>4, HandlerMoves
      <4>2. Reserving' = Reserving /\ \A v \in Reserving : handler'[v].row = handler[v].row
        BY <3>1, <4>1 DEF Reserving
      <4> QED
        BY <2>5, <3>2, <4>2, <2>1
    <3> QED
      BY <3>1, <3>3, <3>4
  <2> QED
    BY <2>6, <2>7, <2>8, <2>9, <2>10, <2>11, <2>12, <2>13, <2>14 DEF Next, Advance
<1>3. TypeOK /\ TypeOK' /\ OverdraftInv => OverdraftBounded
  <2> SUFFICES ASSUME TypeOK, TypeOK', OverdraftInv
               PROVE  OverdraftBounded
    OBVIOUS
  <2>1. Slack(1) \in Int /\ Slack(1) = MaxDuration * (Cardinality(Worker) - 1)
    BY <1>slack DEF Slack
  <2>2. CASE Reserving = {}
    BY <2>1, <2>2 DEF OverdraftInv, OverdraftBounded
  <2>3. CASE Reserving # {}
    <3> DEFINE n == Cardinality(Reserving)
    <3>1. PICK w \in Reserving : Fits(w)
      BY <2>3 DEF OverdraftInv
    <3>2. n \in Nat /\ n >= 1
      BY <2>3, <1>slack, FS_EmptySet
    <3>3. Slack(n) \in Int /\ Slack(n) =< Slack(1)
      <4>1. ASSUME NEW a \in Nat, NEW b \in Nat
            PROVE  a * (b - n) \in Int /\ a * (b - n) =< a * (b - 1)
        BY <3>2
      <4> QED
        BY <4>1, <1>slack, DurationAssumption DEF Slack
    <3>4. handler[w].row.days \in Nat /\ Available \in Int
      BY <1>amounts DEF Reserving
    <3> QED
      BY <2>1, <3>1, <3>3, <3>4 DEF Fits, OverdraftBounded
  <2> QED
    BY <2>2, <2>3
<1> QED
  BY <1>1, <1>2, <1>3, TypeCorrect, PTL DEF Spec
=============================================================================
