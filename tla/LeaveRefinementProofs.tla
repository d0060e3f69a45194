----------------------- MODULE LeaveRefinementProofs ------------------------
(***************************************************************************)
(* Theorems of LeaveRefinement, for every set of handlers, requests and    *)
(* durations: what a handler may go by while it is alone on its request,   *)
(* the SLA jobs, the books, and the step simulation of the ledger.         *)
(***************************************************************************)
EXTENDS LeaveRefinement, LeaveProofs, Sums

----------------------------------------------------------------------------
(* What the steps of a handler do, point by point.                         *)

Others(w) == \A v \in Worker : v # w => handler'[v] = handler[v]
Ends(w) == handler'[w] = Idle /\ Others(w)
Goes(w, label) ==
    /\ handler'[w].pc = label /\ handler'[w].on = handler[w].on
    /\ handler'[w].row = handler[w].row
    /\ Others(w)
Opened(w, label, r, row) ==
    /\ handler'[w].pc = label /\ handler'[w].on = r /\ handler'[w].row = row
    /\ Others(w)
Rewrites(q, status, level) ==
    /\ q \in Request
    /\ request'[q].status = status /\ request'[q].level = level
    /\ request'[q].days = request[q].days
    /\ \A r \in Request : r # q => request'[r] = request[r]

\* What the steps of a handler do, in these terms.
LEMMA Effects ==
    ASSUME TypeOK, NEW w \in Worker
    PROVE  /\ handler[w].row \in Row
           /\ handler[w].pc \notin {"idle", "insert"} => handler[w].on \in Request
           /\ \A label : Goto(w, label) => Goes(w, label)
           /\ Finish(w) => Ends(w)
           /\ \A label, r, row : Start(w, label, r, row) => Opened(w, label, r, row)
           /\ \A q \in Request : CreateInsert(w, q) =>
                /\ Opened(w, "reserve", q, handler[w].row)
                /\ request'[q] = handler[w].row
                /\ \A r \in Request : r # q => request'[r] = request[r]
           /\ DecideWrite(w) =>
                /\ Rewrites(handler[w].on, NewStatus(handler[w].row), NewLevel(handler[w].row))
                /\ \/ NewStatus(handler[w].row) = "approved" /\ Goes(w, "debit")
                   \/ NewStatus(handler[w].row) = "rejected" /\ Goes(w, "release")
                   \/ NewStatus(handler[w].row) = "pending" /\ Ends(w)
           /\ CancelWrite(w) => Rewrites(handler[w].on, "cancelled", request[handler[w].on].level)
<1> USE DEF TypeOK
<1>1. /\ handler[w].row \in Row
      /\ handler[w].pc \notin {"idle", "insert"} => handler[w].on \in Request
  BY DEF Handler
<1>2. ASSUME NEW label, Goto(w, label) PROVE Goes(w, label)
  BY <1>2 DEF Goto, Goes, Others, Handler
<1>3. Finish(w) => Ends(w)
  BY DEF Finish, Ends, Others
<1>4. ASSUME NEW label, NEW r, NEW row, Start(w, label, r, row)
      PROVE  Opened(w, label, r, row)
  BY <1>4 DEF Start, Opened, Others
<1>5. ASSUME NEW q \in Request, CreateInsert(w, q)
      PROVE  /\ Opened(w, "reserve", q, handler[w].row)
             /\ request'[q] = handler[w].row
             /\ \A r \in Request : r # q => request'[r] = request[r]
  BY <1>5 DEF CreateInsert, Opened, Others, Handler
<1>6. ASSUME DecideWrite(w)
      PROVE  /\ Rewrites(handler[w].on, NewStatus(handler[w].row), NewLevel(handler[w].row))
             /\ \/ NewStatus(handler[w].row) = "approved" /\ Goes(w, "debit")
                \/ NewStatus(handler[w].row) = "rejected" /\ Goes(w, "release")
                \/ NewStatus(handler[w].row) = "pending" /\ Ends(w)
  <2> DEFINE q == handler[w].on
  <2>1. q \in Request
    BY <1>1, <1>6 DEF DecideWrite
  <2>2. request[q] \in Row
    BY <2>1
  <2>3. request' = [request EXCEPT ![q] =
                      [request[q] EXCEPT !.status = NewStatus(handler[w].row),
                                         !.level = NewLevel(handler[w].row),
                                         !.chain = handler[w].row.chain]]
    BY <1>6, <2>1 DEF DecideWrite
  <2>4. Rewrites(q, NewStatus(handler[w].row), NewLevel(handler[w].row))
    BY <2>1, <2>2, <2>3 DEF Rewrites, Row
  <2>5. NewStatus(handler[w].row) \in {"pending", "approved", "rejected"}
    BY <1>1, RowFacts
  <2>6. \/ NewStatus(handler[w].row) = "approved" /\ Goto(w, "debit")
        \/ NewStatus(handler[w].row) = "rejected" /\ Goto(w, "release")
        \/ NewStatus(handler[w].row) = "pending" /\ Finish(w)
    BY <1>6, <2>5 DEF DecideWrite
  <2> QED
    BY <1>2, <1>3, <2>4, <2>6
<1>7. ASSUME CancelWrite(w)
      PROVE  Rewrites(handler[w].on, "cancelled", request[handler[w].on].level)
  <2>1. handler[w].on \in Request /\ request[handler[w].on] \in Row
    BY <1>1, <1>7 DEF CancelWrite
  <2> QED
    BY <1>7, <2>1 DEF CancelWrite, Rewrites, Row
<1> QED
  BY <1>1, <1>2, <1>3, <1>4, <1>5, <1>6, <1>7

----------------------------------------------------------------------------
(* What a handler may go by.  The days of its copy are those of the row,   *)
(* whatever overlaps; the status and the level are while it is alone.      *)

Trusts(w, r) ==
    /\ handler[w].pc \in {"reserve", "schedule"} =>
           request[r].status = "pending" /\ request[r].level = 1
    /\ handler[w].pc \in Deciding =>
           request[r].status = "pending" /\ handler[w].row.level = request[r].level
    /\ handler[w].pc = "scheduleNext" => NewStatus(handler[w].row) = "pending"
    /\ handler[w].pc = "debit" => request[r].status = "approved"
    /\ handler[w].pc = "release" => request[r].status = "rejected"
    /\ handler[w].pc = "cancel" => /\ handler[w].row.status = request[r].status
                                   /\ request[r].status \in {"pending", "approved"}
    /\ handler[w].pc \in {"unhold", "refund"} => request[r].status = "cancelled"

Copied(w) ==
    /\ handler[w].pc = "insert" => /\ handler[w].row.level = 1
                                   /\ handler[w].row.days \in Duration
    /\ handler[w].pc \in {"idle", "insert"} => handler[w].on \notin Request
    /\ \A r \in Request : handler[w].on = r =>
           /\ request[r].status # "absent"
           /\ handler[w].row.days = request[r].days
           /\ r \notin overlapped => Trusts(w, r)

Dated(r) ==
    IF request[r].status = "absent" THEN request[r].days = 0 ELSE request[r].days \in Duration

CopyInv == (\A w \in Worker : Copied(w)) /\ (\A r \in Request : Dated(r))

----------------------------------------------------------------------------
(* The SLA jobs.  A handler of approve moves the job of a request before   *)
(* the level: between the two the job is ahead of the row.                 *)

Late(w, r) == handler[w].on = r /\ handler[w].pc \in {"scheduleNext", "write"}

Planned(r) ==
    /\ (\A w \in Worker : ~Late(w, r)) => \A l \in Levels : <<r, l>> \in slaJobs =>
           request[r].status \in {"pending", "cancelled"} /\ request[r].level = l
    /\ \A w \in Worker : handler[w].on = r =>
        /\ handler[w].pc = "scheduleNext" => \A l \in Levels : <<r, l>> \notin slaJobs
        /\ handler[w].pc = "write" => \A l \in Levels : <<r, l>> \in slaJobs =>
               NewStatus(handler[w].row) = "pending" /\ l = NewLevel(handler[w].row)

PlanInv == aborts = 0 => \A r \in Request \ overlapped : Planned(r)

\* The SLA jobs of a request that nobody is working on are for the level it
\* waits at, for every order of decisions, cancellations and timeouts.
THEOREM JobsAreCurrent ==
    Spec => [](TypeOK /\ ChainInv /\ DebitInv /\ CopyInv /\ SlaJobsCurrent)
<1>1. Init => CopyInv
  BY NoneAssumption DEF Init, CopyInv, Copied, Dated, Idle, FreshRow
<1>2. TypeOK /\ ChainInv /\ DebitInv /\ CopyInv /\ [Next]_vars => CopyInv'
  <2> SUFFICES ASSUME TypeOK, ChainInv, DebitInv, CopyInv, [Next]_vars
               PROVE  CopyInv'
    OBVIOUS
  \* A handler that does not move, when another one moves on q.
  <2>1. ASSUME NEW w \in Worker, NEW q, overlapped' = overlapped,
               \A v \in Worker : v # w => handler'[v] = handler[v],
               \A r \in Request : r # q => request'[r] = request[r],
               q \in Request => /\ request'[q].status # "absent"
                                /\ request'[q].days = request[q].days
                                /\ handler[w].on = q,
               Copied(w)'
        PROVE  CopyInv'
    <3>1. ASSUME NEW v \in Worker, v # w PROVE Copied(v)'
      <4>1. ASSUME NEW r \in Request, handler[v].on = r
            PROVE  /\ request'[r].status # "absent"
                   /\ handler[v].row.days = request'[r].days
        BY <2>1, <4>1 DEF CopyInv, Copied
      <4>2. ASSUME NEW r \in Request, handler[v].on = r, r \notin overlapped
            PROVE  Trusts(v, r)'
        <5>1. r # q
          BY <2>1, <3>1, <4>2 DEF DebitInv, Alone
        <5>2. Trusts(v, r)
          BY <4>2 DEF CopyInv, Copied
        <5> QED
          BY <2>1, <3>1, <5>1, <5>2 DEF Trusts
      <4>3. handler'[v] = handler[v] /\ Copied(v)
        BY <2>1, <3>1 DEF CopyInv
      <4> QED
        BY <2>1, <4>1, <4>2, <4>3 DEF Copied
    <3>2. ASSUME NEW r \in Request PROVE Dated(r)'
      <4>1. Dated(r)
        BY DEF CopyInv
      <4>2. CASE r = q
        <5>1. request[r].status # "absent"
          BY <2>1, <4>2 DEF CopyInv, Copied
        <5> QED
          BY <2>1, <4>1, <4>2, <5>1 DEF Dated
      <4>3. CASE r # q
        BY <2>1, <4>1, <4>3 DEF Dated
      <4> QED
        BY <4>2, <4>3
    <3> QED
      BY <2>1, <3>1, <3>2 DEF CopyInv
  <2>2. ASSUME handler' = handler, request' = request, overlapped' = overlapped
        PROVE  CopyInv'
    BY <2>2 DEF CopyInv, Copied, Dated, Trusts
  <2>3. CASE UNCHANGED vars
    BY <2>2, <2>3 DEF vars
  <2>4. CASE Accrue \/ \E job \in slaJobs : SlaFires(job)
    BY <2>2, <2>4 DEF Accrue, SlaFires
  <2>5. ASSUME NEW w \in Worker, NEW d \in Duration, CreateCheck(w, d)
        PROVE  CopyInv'
    <3>1. /\ Opened(w, "insert", None, FreshRow("pending", d))
          /\ request' = request /\ overlapped' = overlapped
      BY <2>5, Effects DEF CreateCheck
    <3>2. Copied(w)'
      BY <3>1, NoneAssumption DEF Opened, FreshRow, Copied
    <3> QED
      BY <2>1, <3>1, <3>2, NoneAssumption DEF Opened, Others
  \* A handler reads the row; if it is not alone there, that is noted.
  <2>6. ASSUME NEW w \in Worker, NEW q \in Request, NEW label, NEW row, NoteOverlap(w, q),
               Opened(w, label, q, row), request' = request,
               row.days = request[q].days, request[q].status # "absent",
               \/ /\ label = "unschedule" /\ request[q].status = "pending"
                  /\ row.level = request[q].level
               \/ /\ label = "cancel" /\ request[q].status \in {"pending", "approved"}
                  /\ row.status = request[q].status
        PROVE  CopyInv'
    <3>1. overlapped \subseteq overlapped'
      BY <2>6 DEF NoteOverlap
    <3>2. Copied(w)'
      BY <2>6 DEF Opened, Copied, Trusts, Deciding
    <3>3. ASSUME NEW v \in Worker, v # w PROVE Copied(v)'
      <4>1. handler'[v] = handler[v] /\ Copied(v)
        BY <2>6, <3>3 DEF Opened, Others, CopyInv
      <4> QED
        BY <2>6, <3>1, <4>1 DEF Copied, Trusts
    <3>4. \A r \in Request : Dated(r)'
      BY <2>6 DEF CopyInv, Dated
    <3> QED
      BY <3>2, <3>3, <3>4 DEF CopyInv
  <2>7. ASSUME NEW w \in Worker, NEW q \in Request, NEW decision \in Decision,
               DecideRead(w, q, decision)
        PROVE  CopyInv'
    <3> DEFINE row == [request[q] EXCEPT !.chain[request[q].level] = decision]
    <3>1. request[q] \in Row
      BY DEF TypeOK
    <3>2. row.days = request[q].days /\ row.level = request[q].level
      BY <3>1 DEF Row
    <3>3. NoteOverlap(w, q) /\ Start(w, "unschedule", q, row) /\ request' = request
          /\ request[q].status = "pending"
      BY <2>7 DEF DecideRead
    <3> HIDE DEF row
    <3>4. Opened(w, "unschedule", q, row)
      BY <3>3, Effects
    <3> QED
      BY <2>6, <3>2, <3>3, <3>4
  <2>8. ASSUME NEW w \in Worker, NEW q \in Request, CancelRead(w, q) PROVE CopyInv'
    <3>1. NoteOverlap(w, q) /\ Start(w, "cancel", q, request[q]) /\ request' = request
          /\ request[q].status \in {"pending", "approved"}
      BY <2>8 DEF CancelRead
    <3>2. Opened(w, "cancel", q, request[q])
      BY <3>1, Effects
    <3> QED
      BY <2>6, <3>1, <3>2
  <2>9. ASSUME NEW w \in Worker, Abort(w) \/ CreateSchedule(w) \/ DecideDebit(w)
                                   \/ DecideRelease(w) \/ CancelRelease(w) \/ CancelRefund(w)
        PROVE  CopyInv'
    <3>1. Finish(w) /\ request' = request /\ overlapped' = overlapped
      BY <2>9 DEF Abort, CreateSchedule, DecideDebit, DecideRelease, CancelRelease, CancelRefund
    <3>2. Ends(w)
      BY <3>1, Effects
    <3>3. Copied(w)'
      BY <3>2, NoneAssumption DEF Ends, Copied, Idle
    <3> QED
      BY <2>1, <3>1, <3>2, <3>3, NoneAssumption DEF Ends, Others
  <2>10. ASSUME NEW w \in Worker, CreateReserve(w) \/ DecideUnschedule(w) \/ DecideScheduleNext(w)
         PROVE  CopyInv'
    <3>1. PICK label \in {"schedule", "scheduleNext", "write"} :
              /\ Goto(w, label)
              /\ label = "schedule" => handler[w].pc = "reserve"
              /\ label # "schedule" => handler[w].pc \in Deciding
              /\ label = "scheduleNext" => NewStatus(handler[w].row) = "pending"
      BY <2>10 DEF CreateReserve, DecideUnschedule, DecideScheduleNext, Deciding
    <3>2. Goes(w, label) /\ request' = request /\ overlapped' = overlapped
      BY <2>10, <3>1, Effects DEF CreateReserve, DecideUnschedule, DecideScheduleNext
    <3>3. Copied(w)'
      <4>1. Copied(w)
        BY DEF CopyInv
      <4>2. ASSUME NEW r \in Request, handler[w].on = r, r \notin overlapped PROVE Trusts(w, r)'
        <5>1. Trusts(w, r)
          BY <4>1, <4>2 DEF Copied
        <5> QED
          BY <3>1, <3>2, <5>1 DEF Goes, Trusts, Deciding
      <4> QED
        BY <3>1, <3>2, <4>1, <4>2 DEF Goes, Copied
    <3> QED
      BY <2>1, <3>2, <3>3, NoneAssumption DEF Goes, Others
  <2>11. ASSUME NEW w \in Worker, NEW q \in Request, CreateInsert(w, q) PROVE CopyInv'
    <3>1. /\ Opened(w, "reserve", q, handler[w].row)
          /\ request'[q] = handler[w].row
          /\ \A r \in Request : r # q => request'[r] = request[r]
          /\ overlapped' = overlapped /\ handler[w].pc = "insert" /\ request[q].status = "absent"
      BY <2>11, Effects DEF CreateInsert
    <3>2. /\ handler[w].row.status = "pending" /\ handler[w].row.level = 1
          /\ handler[w].row.days \in Duration
      BY <3>1 DEF ChainInv, CopyInv, Copied
    <3>3. \A v \in Worker : handler[v].on # q
      BY <3>1 DEF CopyInv, Copied
    <3>4. Copied(w)'
      BY <3>1, <3>2 DEF Opened, Copied, Trusts, Deciding
    <3>5. ASSUME NEW v \in Worker, v # w PROVE Copied(v)'
      <4>1. handler'[v] = handler[v] /\ Copied(v)
        BY <3>1, <3>5 DEF Opened, Others, CopyInv
      <4> QED
        BY <3>1, <3>3, <4>1 DEF Copied, Trusts
    <3>6. \A r \in Request : Dated(r)'
      BY <3>1, <3>2 DEF CopyInv, Dated
    <3> QED
      BY <3>4, <3>5, <3>6 DEF CopyInv
  <2>12. ASSUME NEW w \in Worker, DecideWrite(w) PROVE CopyInv'
    <3> DEFINE q == handler[w].on  new == NewStatus(handler[w].row)
    <3>1. /\ Rewrites(q, new, NewLevel(handler[w].row))
          /\ \/ new = "approved" /\ Goes(w, "debit")
             \/ new = "rejected" /\ Goes(w, "release")
             \/ new = "pending" /\ Ends(w)
          /\ overlapped' = overlapped /\ handler[w].row.days = request[q].days
      BY <2>12, Effects DEF DecideWrite, CopyInv, Copied, Rewrites
    <3>2. Copied(w)'
      <4>1. CASE new = "pending" /\ Ends(w)
        BY <4>1, NoneAssumption DEF Ends, Copied, Idle
      <4>2. CASE new = "approved" /\ Goes(w, "debit")
        BY <3>1, <4>2 DEF Goes, Rewrites, Copied, Trusts, Deciding
      <4>3. CASE new = "rejected" /\ Goes(w, "release")
        BY <3>1, <4>3 DEF Goes, Rewrites, Copied, Trusts, Deciding
      <4> QED
        BY <3>1, <4>1, <4>2, <4>3
    <3> QED
      BY <2>1, <3>1, <3>2 DEF Goes, Ends, Others, Rewrites
  <2>13. ASSUME NEW w \in Worker, CancelWrite(w) PROVE CopyInv'
    <3> DEFINE q == handler[w].on
    <3>1. /\ Rewrites(q, "cancelled", request[q].level)
          /\ overlapped' = overlapped /\ handler[w].row.days = request[q].days
      BY <2>13, Effects DEF CancelWrite, CopyInv, Copied, Rewrites
    <3>2. PICK label \in {"unhold", "refund"} : Goes(w, label)
      BY <2>13, Effects DEF CancelWrite
    <3>3. Copied(w)'
      BY <3>1, <3>2 DEF Goes, Rewrites, Copied, Trusts, Deciding
    <3> QED
      BY <2>1, <3>1, <3>2, <3>3 DEF Goes, Others, Rewrites
  <2> QED
    BY <2>3, <2>4, <2>5, <2>7, <2>8, <2>9, <2>10, <2>11, <2>12, <2>13 DEF Next, Advance
<1>3. Spec => [](TypeOK /\ ChainInv /\ DebitInv /\ CopyInv)
  BY <1>1, <1>2, DebitedAtMostOnce, PTL DEF Spec
\* With the copies, the jobs.
<1>4. Init => PlanInv
  BY DEF Init, PlanInv, Planned, Idle
<1>5. TypeOK /\ ChainInv /\ DebitInv /\ CopyInv /\ PlanInv /\ [Next]_vars => PlanInv'
  <2> SUFFICES ASSUME TypeOK, ChainInv, DebitInv, CopyInv, PlanInv, [Next]_vars
               PROVE  PlanInv'
    OBVIOUS
  \* A request whose row, plan and handlers at work on the plan stay.
  <2>1. ASSUME NEW r \in Request, Planned(r),
               request'[r].status = request[r].status, request'[r].level = request[r].level,
               \A l \in Levels : <<r, l>> \in slaJobs' => <<r, l>> \in slaJobs,
               \A v \in Worker : handler'[v] = handler[v] \/ (~Late(v, r) /\ ~Late(v, r)')
        PROVE  Planned(r)'
    <3>1. \A v \in Worker : Late(v, r)' <=> Late(v, r)
      BY <2>1 DEF Late
    <3>2. \A v \in Worker : Late(v, r) => handler'[v] = handler[v]
      BY <2>1
    <3>3. ASSUME NEW v \in Worker, Late(v, r)'
          PROVE  /\ handler'[v].pc = "scheduleNext" => \A l \in Levels : <<r, l>> \notin slaJobs'
                 /\ handler'[v].pc = "write" => \A l \in Levels : <<r, l>> \in slaJobs' =>
                        NewStatus(handler'[v].row) = "pending" /\ l = NewLevel(handler'[v].row)
      BY <2>1, <3>1, <3>2, <3>3 DEF Planned, Late
    <3>4. (\A w \in Worker : ~Late(w, r)') => \A l \in Levels : <<r, l>> \in slaJobs' =>
              request'[r].status \in {"pending", "cancelled"} /\ request'[r].level = l
      BY <2>1, <3>1 DEF Planned
    <3> QED
      BY <3>3, <3>4 DEF Planned, Late
  \* Nobody enters or leaves the two labels, and no job is added.
  <2>2. ASSUME request' = request, slaJobs' \subseteq slaJobs, overlapped \subseteq overlapped',
               aborts' = aborts,
               \A v \in Worker, r \in Request :
                   handler'[v] = handler[v] \/ (~Late(v, r) /\ ~Late(v, r)')
        PROVE  PlanInv'
    <3>1. ASSUME aborts = 0, NEW r \in Request \ overlapped' PROVE Planned(r)'
      <4>1. Planned(r)
        BY <2>2, <3>1 DEF PlanInv
      <4> QED
        BY <2>1, <2>2, <4>1
    <3> QED
      BY <2>2, <3>1 DEF PlanInv
  \* The handler of w moves on q.
  <2>3. ASSUME NEW w \in Worker, NEW q \in Request, Others(w),
               handler[w].on \in Request => handler[w].on = q,
               handler'[w].on \in Request => handler'[w].on = q,
               \A r \in Request : r # q => request'[r] = request[r],
               \A r \in Request, l \in Levels :
                   r # q /\ <<r, l>> \in slaJobs' => <<r, l>> \in slaJobs,
               overlapped' = overlapped, aborts' = aborts,
               q \notin overlapped /\ Planned(q) => Planned(q)'
        PROVE  PlanInv'
    <3>1. ASSUME aborts = 0, NEW r \in Request \ overlapped', r # q PROVE Planned(r)'
      <4>1. Planned(r)
        BY <2>3, <3>1 DEF PlanInv
      <4>2. \A v \in Worker : handler'[v] = handler[v] \/ (~Late(v, r) /\ ~Late(v, r)')
        BY <2>3, <3>1 DEF Late, Others
      <4> QED
        BY <2>1, <2>3, <3>1, <4>1, <4>2
    <3> QED
      BY <2>3, <3>1 DEF PlanInv
  <2>4. CASE UNCHANGED vars
    BY <2>2, <2>4 DEF vars
  <2>5. CASE Accrue \/ \E job \in slaJobs : SlaFires(job)
    BY <2>2, <2>5 DEF Accrue, SlaFires
  <2>6. ASSUME NEW w \in Worker, NEW label, NEW q, NEW row, Start(w, label, q, row),
               label \in {"insert", "unschedule", "cancel"}, request' = request,
               slaJobs' = slaJobs, overlapped \subseteq overlapped', aborts' = aborts
        PROVE  PlanInv'
    <3>1. Opened(w, label, q, row) /\ handler[w].pc = "idle"
      BY <2>6, Effects DEF Start
    <3> QED
      BY <2>2, <2>6, <3>1 DEF Opened, Others, Late
  <2>7. ASSUME NEW w \in Worker,
               \/ \E d \in Duration : CreateCheck(w, d)
               \/ \E r \in Request : CancelRead(w, r)
               \/ \E r \in Request, decision \in Decision : DecideRead(w, r, decision)
        PROVE  PlanInv'
    BY <2>6, <2>7 DEF CreateCheck, CancelRead, DecideRead, NoteOverlap
  <2>8. ASSUME NEW w \in Worker, Abort(w) PROVE PlanInv'
    BY <2>8 DEF Abort, PlanInv, TypeOK
  <2>9. ASSUME NEW w \in Worker, DecideDebit(w) \/ DecideRelease(w)
                                   \/ CancelRelease(w) \/ CancelRefund(w) \/ CreateReserve(w)
        PROVE  PlanInv'
    <3>1. /\ request' = request /\ slaJobs' = slaJobs /\ overlapped' = overlapped
          /\ aborts' = aborts /\ handler[w].pc \notin {"scheduleNext", "write"}
          /\ Ends(w) \/ Goes(w, "schedule")
      BY <2>9, Effects DEF DecideDebit, DecideRelease, CancelRelease, CancelRefund, CreateReserve
    <3> QED
      BY <2>2, <3>1 DEF Ends, Goes, Others, Idle, Late
  \* What a handler knows that is alone on q.
  <2>10. ASSUME NEW w \in Worker, NEW q \in Request \ overlapped, handler[w].on = q
         PROVE  /\ \A v \in Worker : handler[v].on = q => v = w
                /\ Trusts(w, q)
    BY <2>10 DEF DebitInv, Alone, CopyInv, Copied
  <2>11. ASSUME NEW w \in Worker, CreateSchedule(w) PROVE PlanInv'
    <3>1. PICK q \in Request : handler[w].on = q
      BY <2>11, Effects DEF CreateSchedule
    <3>2. /\ Ends(w) /\ request' = request /\ overlapped' = overlapped /\ aborts' = aborts
          /\ slaJobs' = slaJobs \union {<<q, 1>>} /\ handler[w].pc = "schedule"
      BY <2>11, <3>1, Effects DEF CreateSchedule, ScheduleEscalation
    <3>3. ASSUME q \notin overlapped, Planned(q) PROVE Planned(q)'
      <4>1. /\ \A v \in Worker : ~Late(v, q)
            /\ request[q].status = "pending" /\ request[q].level = 1
        BY <2>10, <3>1, <3>2, <3>3 DEF Late, Trusts
      <4>2. \A v \in Worker : handler'[v].on # q
        BY <2>10, <3>1, <3>2, <3>3, NoneAssumption DEF Ends, Others, Idle
      <4> QED
        BY <3>2, <3>3, <4>1, <4>2 DEF Planned
    <3> QED
      BY <2>3, <3>1, <3>2, <3>3, NoneAssumption DEF Ends, Idle
  <2>12. ASSUME NEW w \in Worker, DecideUnschedule(w) PROVE PlanInv'
    <3>1. PICK q \in Request : handler[w].on = q
      BY <2>12, Effects DEF DecideUnschedule
    <3>2. /\ Goes(w, "scheduleNext") \/ Goes(w, "write")
          /\ request' = request /\ overlapped' = overlapped /\ aborts' = aborts
          /\ slaJobs' = slaJobs \ {<<q, handler[w].row.level>>} /\ handler[w].pc = "unschedule"
      BY <2>12, <3>1, Effects DEF DecideUnschedule, CancelEscalation
    <3>3. ASSUME q \notin overlapped, Planned(q) PROVE Planned(q)'
      <4>1. (\A v \in Worker : ~Late(v, q)) /\ handler[w].row.level = request[q].level
        BY <2>10, <3>1, <3>2, <3>3 DEF Late, Trusts, Deciding
      <4>2. \A l \in Levels : <<q, l>> \notin slaJobs'
        BY <3>2, <3>3, <4>1 DEF Planned
      <4> QED
        BY <4>2 DEF Planned
    <3> QED
      BY <2>3, <3>1, <3>2, <3>3 DEF Goes
  <2>13. ASSUME NEW w \in Worker, DecideScheduleNext(w) PROVE PlanInv'
    <3>1. PICK q \in Request : handler[w].on = q
      BY <2>13, Effects DEF DecideScheduleNext
    <3> DEFINE next == NewLevel(handler[w].row)
    <3>2. /\ Goes(w, "write")
          /\ request' = request /\ overlapped' = overlapped /\ aborts' = aborts
          /\ slaJobs' = slaJobs \union {<<q, next>>} /\ handler[w].pc = "scheduleNext"
      BY <2>13, <3>1, Effects DEF DecideScheduleNext, ScheduleEscalation
    <3>3. ASSUME q \notin overlapped, Planned(q) PROVE Planned(q)'
      <4>1. /\ \A v \in Worker : handler[v].on = q => v = w
            /\ NewStatus(handler[w].row) = "pending"
        BY <2>10, <3>1, <3>2, <3>3 DEF Trusts
      <4>2. \A l \in Levels : <<q, l>> \in slaJobs' => l = next
        BY <3>1, <3>2, <3>3 DEF Planned
      <4>3. Late(w, q)' /\ handler'[w].pc = "write" /\ handler'[w].row = handler[w].row
        BY <3>1, <3>2 DEF Late, Goes
      <4>4. \A v \in Worker : handler'[v].on = q => v = w
        BY <3>1, <3>2, <4>1 DEF Goes, Others
      <4> QED
        BY <4>1, <4>2, <4>3, <4>4 DEF Planned
    <3> QED
      BY <2>3, <3>1, <3>2, <3>3 DEF Goes
  <2>14. ASSUME NEW w \in Worker, NEW q \in Request, CreateInsert(w, q) PROVE PlanInv'
    <3>1. /\ Opened(w, "reserve", q, handler[w].row)
          /\ \A r \in Request : r # q => request'[r] = request[r]
          /\ slaJobs' = slaJobs /\ overlapped' = overlapped /\ aborts' = aborts
          /\ request[q].status = "absent" /\ handler[w].pc = "insert"
      BY <2>14, Effects DEF CreateInsert
    <3>2. handler[w].on \notin Request /\ \A v \in Worker : handler[v].on # q
      BY <3>1 DEF CopyInv, Copied
    <3>3. ASSUME q \notin overlapped, Planned(q) PROVE Planned(q)'
      <4>1. \A l \in Levels : <<q, l>> \notin slaJobs'
        BY <3>1, <3>2, <3>3 DEF Planned, Late
      <4> QED
        BY <4>1 DEF Planned
    <3> QED
      BY <2>3, <3>1, <3>2, <3>3 DEF Opened
  <2>15. ASSUME NEW w \in Worker, DecideWrite(w) PROVE PlanInv'
    <3> DEFINE new == NewStatus(handler[w].row)  next == NewLevel(handler[w].row)
    <3>0. PICK q \in Request : handler[w].on = q
      BY <2>15, Effects DEF DecideWrite
    <3>1. /\ Rewrites(q, new, next)
          /\ Goes(w, "debit") \/ Goes(w, "release") \/ Ends(w)
          /\ slaJobs' = slaJobs /\ overlapped' = overlapped /\ aborts' = aborts
          /\ handler[w].pc = "write"
      BY <2>15, <3>0, Effects DEF DecideWrite
    <3>2. ASSUME q \notin overlapped, Planned(q) PROVE Planned(q)'
      <4>1. \A l \in Levels : <<q, l>> \in slaJobs' => new = "pending" /\ l = next
        BY <3>0, <3>1, <3>2 DEF Planned
      <4>2. \A v \in Worker : ~Late(v, q)'
        BY <2>10, <3>0, <3>1, <3>2, NoneAssumption DEF Late, Goes, Ends, Others, Idle
      <4> QED
        BY <3>1, <4>1, <4>2 DEF Planned, Rewrites, Late
    <3> QED
      BY <2>3, <3>0, <3>1, <3>2, NoneAssumption DEF Rewrites, Goes, Ends, Idle
  <2>16. ASSUME NEW w \in Worker, CancelWrite(w) PROVE PlanInv'
    <3>0. PICK q \in Request : handler[w].on = q
      BY <2>16, Effects DEF CancelWrite
    <3>1. /\ Rewrites(q, "cancelled", request[q].level)
          /\ Goes(w, "unhold") \/ Goes(w, "refund")
          /\ slaJobs' = slaJobs /\ overlapped' = overlapped /\ aborts' = aborts
          /\ handler[w].pc = "cancel"
      BY <2>16, <3>0, Effects DEF CancelWrite
    <3>2. ASSUME q \notin overlapped, Planned(q) PROVE Planned(q)'
      <4>1. \A v \in Worker : ~Late(v, q) /\ ~Late(v, q)'
        BY <2>10, <3>0, <3>1, <3>2 DEF Late, Goes, Others
      <4> QED
        BY <3>1, <3>2, <4>1 DEF Planned, Rewrites, Late
    <3> QED
      BY <2>3, <3>0, <3>1, <3>2 DEF Rewrites, Goes
  <2> QED
    BY <2>4, <2>5, <2>7, <2>8, <2>9, <2>11, <2>12, <2>13, <2>14, <2>15, <2>16 DEF Next, Advance
<1>6. TypeOK /\ PlanInv => SlaJobsCurrent
  <2> SUFFICES ASSUME TypeOK, PlanInv, aborts = 0, NEW job \in slaJobs,
                      job[1] \notin overlapped, \A w \in Worker : handler[w].on # job[1]
               PROVE  /\ request[job[1]].status \in {"pending", "cancelled"}
                      /\ request[job[1]].level = job[2]
    BY DEF SlaJobsCurrent
  <2>1. job = <<job[1], job[2]>> /\ job[1] \in Request /\ job[2] \in Levels
    BY DEF TypeOK
  <2> QED
    BY <2>1 DEF PlanInv, Planned, Late
<1> QED
  BY <1>3, <1>4, <1>5, <1>6, PTL DEF Spec

----------------------------------------------------------------------------
(* The ledger.  While no two handlers share a request, at most one of them *)
(* is between the row of a request and the balance, and its label says     *)
(* what the ledger still has to do.                                        *)

Half(w, r) ==
    handler[w].on = r /\ handler[w].pc \in {"reserve", "debit", "release", "unhold", "refund"}

SettledBy(w, r) ==
    CASE handler[w].pc = "reserve" -> "absent"
      [] handler[w].pc \in {"debit", "release", "unhold"} -> "pending"
      [] handler[w].pc = "refund" -> "approved"
      [] OTHER -> request[r].status

SettledDaysBy(w, r) == IF handler[w].pc = "reserve" THEN 0 ELSE request[r].days

\* A request looks to the ledger as its one handler says; with none, as its
\* row says.
Looks == \A r \in Request :
    /\ (\A v \in Worker : ~Half(v, r)) =>
           Settled(r) = request[r].status /\ SettledDays(r) = request[r].days
    /\ \A w \in Worker : handler[w].on = r /\ (\A v \in Worker : handler[v].on = r => v = w) =>
           Settled(r) = SettledBy(w, r) /\ SettledDays(r) = SettledDaysBy(w, r)

\* What the ledger shows of a request is its row, or what its only handler makes
\* of it.
LEMMA LooksRight == Looks
<1> SUFFICES ASSUME NEW r \in Request
             PROVE  /\ (\A v \in Worker : ~Half(v, r)) =>
                          Settled(r) = request[r].status /\ SettledDays(r) = request[r].days
                    /\ \A w \in Worker :
                          handler[w].on = r /\ (\A v \in Worker : handler[v].on = r => v = w) =>
                              Settled(r) = SettledBy(w, r) /\ SettledDays(r) = SettledDaysBy(w, r)
  BY DEF Looks
<1>1. ASSUME \A v \in Worker : ~Half(v, r)
      PROVE  Settled(r) = request[r].status /\ SettledDays(r) = request[r].days
  BY <1>1 DEF Half, Settled, SettledDays, At
<1>2. ASSUME NEW w \in Worker, handler[w].on = r, \A v \in Worker : handler[v].on = r => v = w
      PROVE  Settled(r) = SettledBy(w, r) /\ SettledDays(r) = SettledDaysBy(w, r)
  <2>1. \A labels : At(labels, r) <=> handler[w].pc \in labels
    BY <1>2 DEF At
  <2> QED
    BY <2>1 DEF Settled, SettledDays, SettledBy, SettledDaysBy
<1> QED
  BY <1>1, <1>2

\* Nothing changes for the ledger but what it sees of q.
SameBut(q) == \A r \in Request : r # q =>
    Settled(r)' = Settled(r) /\ SettledDays(r)' = SettledDays(r)

SameBalance == /\ balance'.pending = balance.pending /\ balance'.taken = balance.taken
               /\ balance'.accrued = balance.accrued

\* What a step does to the ledger: nothing, a step of the ledger, or the death
\* of a handler, which leaves one request as if the handler had finished.
LEMMA LedgerStep ==
    ASSUME TypeOK, ChainInv, DebitInv, CopyInv, overlapped = {}, [Next]_vars
    PROVE  \/ [Ledger!Next]_(Ledger!vars)
           \/ \E w \in Worker, q \in Request \union {None} : Abort(w) /\ SameBut(q)
<1>1. Looks /\ Looks'
  BY LooksRight, PTL
\* A request whose row stays, and whose handlers between row and balance do.
<1>2. ASSUME NEW r \in Request, request'[r].status = request[r].status,
             request'[r].days = request[r].days,
             \A v \in Worker : handler'[v] = handler[v] \/ (~Half(v, r) /\ ~Half(v, r)')
      PROVE  Settled(r)' = Settled(r) /\ SettledDays(r)' = SettledDays(r)
  <2>1. \A labels \in {{"reserve"}, {"debit", "release", "unhold"}, {"refund"}} :
            (\E w \in Worker : handler'[w].pc \in labels /\ handler'[w].on = r) <=> At(labels, r)
    BY <1>2 DEF At, Half
  <2> QED
    BY <1>2, <2>1 DEF Settled, SettledDays, At
<1>3. ASSUME NEW w \in Worker, NEW q, Others(w),
             handler[w].on \in Request => handler[w].on = q,
             handler'[w].on \in Request => handler'[w].on = q,
             \A r \in Request : r # q => request'[r] = request[r]
      PROVE  SameBut(q)
  BY <1>2, <1>3 DEF SameBut, Half, Others
\* What the one handler of a request knows.
<1>4. ASSUME NEW w \in Worker, NEW q \in Request, handler[w].on = q
      PROVE  /\ \A v \in Worker : handler[v].on = q => v = w
             /\ Trusts(w, q) /\ handler[w].row.days = request[q].days
             /\ request[q].days \in Duration
             /\ Settled(q) = SettledBy(w, q) /\ SettledDays(q) = SettledDaysBy(w, q)
  <2>1. \A v \in Worker : handler[v].on = q => v = w
    BY <1>4 DEF DebitInv, Alone
  <2> QED
    BY <1>1, <1>4, <2>1 DEF CopyInv, Copied, Dated, Looks
\* What it leaves, still there or done.
<1>5. ASSUME NEW w \in Worker, NEW q \in Request, handler[w].on = q, Others(w)
      PROVE  /\ handler'[w].on = q =>
                    Settled(q)' = SettledBy(w, q)' /\ SettledDays(q)' = SettledDaysBy(w, q)'
             /\ handler'[w] = Idle =>
                    Settled(q)' = request'[q].status /\ SettledDays(q)' = request'[q].days
  <2>1. \A v \in Worker : handler'[v].on = q => v = w
    BY <1>4, <1>5 DEF Others
  <2>2. handler'[w] = Idle => \A v \in Worker : ~Half(v, q)'
    BY <2>1 DEF Half, Idle
  <2> QED
    BY <1>1, <2>1, <2>2 DEF Looks
<1>6. ASSUME \A r \in Request : Settled(r)' = Settled(r) /\ SettledDays(r)' = SettledDays(r),
             SameBalance
      PROVE  [Ledger!Next]_(Ledger!vars)
  BY <1>6 DEF Ledger!vars, SameBalance
<1>7. ASSUME NEW q \in Request, SameBut(q)
      PROVE  /\ [r \in Request |-> Settled(r)]' =
                    [[r \in Request |-> Settled(r)] EXCEPT ![q] = Settled(q)']
             /\ [r \in Request |-> SettledDays(r)]' =
                    [[r \in Request |-> SettledDays(r)] EXCEPT ![q] = SettledDays(q)']
  BY <1>7 DEF SameBut
<1>8. CASE UNCHANGED vars
  BY <1>2, <1>6, <1>8 DEF vars, SameBalance
<1>9. CASE Accrue
  <2>1. /\ balance'.accrued = balance.accrued + Accrual
        /\ balance'.pending = balance.pending /\ balance'.taken = balance.taken
        /\ request' = request /\ handler' = handler
    BY <1>9 DEF Accrue, TypeOK
  <2>2. \A r \in Request : Settled(r)' = Settled(r) /\ SettledDays(r)' = SettledDays(r)
    BY <1>2, <2>1
  <2>3. Ledger!Credit
    BY <2>1, <2>2 DEF Ledger!Credit
  <2> QED
    BY <2>3 DEF Ledger!Next
<1>10. ASSUME NEW job \in slaJobs, SlaFires(job) PROVE [Ledger!Next]_(Ledger!vars)
  BY <1>2, <1>6, <1>10 DEF SlaFires, SameBalance
\* Steps that neither write a row nor the balance.
<1>11. ASSUME NEW w \in Worker,
              \/ \E d \in Duration : CreateCheck(w, d)
              \/ \E r \in Request : CancelRead(w, r)
              \/ \E r \in Request, decision \in Decision : DecideRead(w, r, decision)
              \/ CreateSchedule(w) \/ DecideUnschedule(w) \/ DecideScheduleNext(w)
       PROVE  [Ledger!Next]_(Ledger!vars)
  <2>1. /\ handler[w].pc \in {"idle", "schedule", "unschedule", "scheduleNext"}
        /\ Others(w) /\ request' = request /\ balance' = balance
        /\ handler'[w].pc \in {"insert", "cancel", "unschedule", "idle", "scheduleNext", "write"}
    <3>0. ASSUME NEW label \in {"insert", "cancel", "unschedule"}, NEW q, NEW row,
                 Start(w, label, q, row)
          PROVE  handler[w].pc = "idle" /\ Others(w) /\ handler'[w].pc = label
      BY <3>0, Effects DEF Start, Opened
    <3>1. CASE \E d \in Duration : CreateCheck(w, d)
      BY <3>0, <3>1 DEF CreateCheck
    <3>2. CASE \E r \in Request : CancelRead(w, r)
      BY <3>0, <3>2 DEF CancelRead
    <3>3. CASE \E r \in Request, decision \in Decision : DecideRead(w, r, decision)
      BY <3>0, <3>3 DEF DecideRead
    <3>4. CASE CreateSchedule(w)
      BY <3>4, Effects DEF CreateSchedule, Ends, Idle
    <3>5. CASE DecideUnschedule(w) \/ DecideScheduleNext(w)
      BY <3>5, Effects DEF DecideUnschedule, DecideScheduleNext, Goes
    <3> QED
      BY <1>11, <3>1, <3>2, <3>3, <3>4, <3>5
  <2>2. \A r \in Request, v \in Worker :
            handler'[v] = handler[v] \/ (~Half(v, r) /\ ~Half(v, r)')
    BY <2>1 DEF Half, Others
  <2> QED
    BY <1>2, <1>6, <2>1, <2>2 DEF SameBalance
\* The row is there, and to the ledger it is not.
<1>12. ASSUME NEW w \in Worker, NEW q \in Request, CreateInsert(w, q)
       PROVE  [Ledger!Next]_(Ledger!vars)
  <2>1. /\ Opened(w, "reserve", q, handler[w].row)
        /\ \A r \in Request : r # q => request'[r] = request[r]
        /\ balance' = balance /\ request[q].status = "absent" /\ handler[w].pc = "insert"
    BY <1>12, Effects DEF CreateInsert
  <2>2. /\ handler[w].on \notin Request /\ request[q].days = 0
        /\ \A v \in Worker : handler[v].on # q
    BY <2>1 DEF CopyInv, Copied, Dated
  <2>3. SameBut(q)
    BY <1>3, <2>1, <2>2 DEF Opened
  <2>4. Settled(q) = "absent" /\ SettledDays(q) = 0
    BY <1>1, <2>1, <2>2 DEF Looks, Half
  <2>5. Settled(q)' = "absent" /\ SettledDays(q)' = 0
    <3>1. handler'[w].on = q /\ handler'[w].pc = "reserve"
          /\ \A v \in Worker : handler'[v].on = q => v = w
      BY <2>1, <2>2 DEF Opened, Others
    <3> QED
      BY <1>1, <3>1 DEF Looks, SettledBy, SettledDaysBy
  <2> QED
    BY <1>6, <2>1, <2>3, <2>4, <2>5 DEF SameBut, SameBalance
<1>13. ASSUME NEW w \in Worker, CreateReserve(w) PROVE [Ledger!Next]_(Ledger!vars)
  <2>1. PICK q \in Request : handler[w].on = q
    BY <1>13, Effects DEF CreateReserve
  <2>2. /\ Goes(w, "schedule") /\ request' = request /\ handler[w].pc = "reserve"
        /\ balance'.pending = balance.pending + request[q].days
        /\ balance'.taken = balance.taken /\ balance'.accrued = balance.accrued
    BY <1>4, <1>13, <2>1, Effects DEF CreateReserve, TypeOK
  <2>3. SameBut(q)
    BY <1>3, <2>1, <2>2 DEF Goes
  <2>4. Settled(q) = "absent" /\ SettledDays(q) = 0
    BY <1>4, <2>1, <2>2 DEF SettledBy, SettledDaysBy
  <2>5. Settled(q)' = "pending" /\ SettledDays(q)' = request[q].days
    BY <1>4, <1>5, <2>1, <2>2 DEF Goes, SettledBy, SettledDaysBy, Trusts
  <2>6. Ledger!Submit(q, request[q].days)
    BY <1>7, <2>2, <2>3, <2>4, <2>5 DEF Ledger!Submit, Ledger!Becomes
  <2>7. request[q].days \in Duration
    BY <1>4, <2>1
  <2> QED
    BY <2>6, <2>7 DEF Ledger!Next
\* A status written ahead of the balance, and a decision that moves no days.
<1>14. ASSUME NEW w \in Worker, DecideWrite(w) \/ CancelWrite(w)
       PROVE  [Ledger!Next]_(Ledger!vars)
  <2>1. PICK q \in Request : handler[w].on = q
    BY <1>14, Effects DEF DecideWrite, CancelWrite
  <2>2. /\ Others(w)
        /\ handler'[w] = Idle \/ handler'[w].on = q
        /\ request'[q].days = request[q].days
        /\ \A r \in Request : r # q => request'[r] = request[r]
        /\ balance' = balance /\ handler[w].pc \in {"write", "cancel"}
    BY <1>14, <2>1, Effects
    DEF DecideWrite, CancelWrite, Goes, Ends, Rewrites
  <2>3. SameBut(q)
    BY <1>3, <2>1, <2>2, NoneAssumption DEF Idle
  <2>4. Settled(q) = request[q].status /\ SettledDays(q) = request[q].days
    BY <1>4, <2>1, <2>2 DEF SettledBy, SettledDaysBy
  <2>5. Settled(q)' = request[q].status /\ SettledDays(q)' = request[q].days
    <3>1. CASE DecideWrite(w)
      <4> DEFINE new == NewStatus(handler[w].row)
      <4>1. request[q].status = "pending"
        BY <1>4, <2>1, <3>1 DEF DecideWrite, Trusts, Deciding
      <4>2. /\ request'[q].status = new
            /\ \/ Goes(w, "debit") \/ Goes(w, "release")
               \/ new = "pending" /\ Ends(w)
        BY <2>1, <3>1, Effects DEF Rewrites
      <4> QED
        BY <1>5, <2>1, <2>2, <4>1, <4>2 DEF Goes, Ends, SettledBy, SettledDaysBy
    <3>2. CASE CancelWrite(w)
      <4>1. \/ request[q].status = "pending" /\ Goes(w, "unhold")
            \/ request[q].status = "approved" /\ Goes(w, "refund")
        BY <1>4, <2>1, <3>2, Effects DEF CancelWrite, Trusts
      <4> QED
        BY <1>5, <2>1, <2>2, <4>1 DEF Goes, SettledBy, SettledDaysBy
    <3> QED
      BY <1>14, <3>1, <3>2
  <2> QED
    BY <1>6, <2>2, <2>3, <2>4, <2>5 DEF SameBut, SameBalance
\* The balance follows the status.
<1>15. ASSUME NEW w \in Worker,
              DecideDebit(w) \/ DecideRelease(w) \/ CancelRelease(w) \/ CancelRefund(w)
       PROVE  [Ledger!Next]_(Ledger!vars)
  <2>1. PICK q \in Request : handler[w].on = q
    BY <1>15, Effects DEF DecideDebit, DecideRelease, CancelRelease, CancelRefund
  <2> DEFINE d == request[q].days
  <2>2. Ends(w) /\ request' = request
    BY <1>15, Effects DEF DecideDebit, DecideRelease, CancelRelease, CancelRefund
  <2>3. SameBut(q)
    BY <1>3, <2>1, <2>2, NoneAssumption DEF Ends, Idle
  <2>4. /\ SettledDays(q) = d /\ SettledDays(q)' = d /\ Settled(q)' = request[q].status
        /\ handler[w].row.days = d
    BY <1>4, <1>5, <1>15, <2>1, <2>2
    DEF Ends, DecideDebit, DecideRelease, CancelRelease, CancelRefund, SettledDaysBy
  <2>5. [r \in Request |-> SettledDays(r)]' = [r \in Request |-> SettledDays(r)]
    BY <2>3, <2>4 DEF SameBut
  <2>6. CASE DecideDebit(w)
    <3>1. Settled(q) = "pending" /\ Settled(q)' = "approved"
      BY <1>4, <2>1, <2>4, <2>6 DEF DecideDebit, SettledBy, Trusts
    <3>2. /\ balance'.pending = balance.pending - d /\ balance'.taken = balance.taken + d
          /\ balance'.accrued = balance.accrued
      BY <2>4, <2>6 DEF DecideDebit, TypeOK
    <3>3. Ledger!Approve(q)
      BY <1>7, <2>3, <2>4, <2>5, <3>1, <3>2 DEF Ledger!Approve, Ledger!Becomes
    <3> QED
      BY <3>3 DEF Ledger!Next
  <2>7. CASE DecideRelease(w) \/ CancelRelease(w)
    <3>1. Settled(q) = "pending" /\ Settled(q)' \in {"rejected", "cancelled"}
      BY <1>4, <2>1, <2>4, <2>7 DEF DecideRelease, CancelRelease, SettledBy, Trusts
    <3>2. /\ balance'.pending = balance.pending - d /\ balance'.taken = balance.taken
          /\ balance'.accrued = balance.accrued
      BY <2>4, <2>7 DEF DecideRelease, CancelRelease, TypeOK
    <3>3. PICK to \in {"rejected", "cancelled"} : Settled(q)' = to
      BY <3>1
    <3>4. Ledger!Release(q, to)
      BY <1>7, <2>3, <2>4, <2>5, <3>1, <3>2, <3>3 DEF Ledger!Release, Ledger!Becomes
    <3> QED
      BY <3>4 DEF Ledger!Next
  <2>8. CASE CancelRefund(w)
    <3>1. Settled(q) = "approved" /\ Settled(q)' = "cancelled"
      BY <1>4, <2>1, <2>4, <2>8 DEF CancelRefund, SettledBy, Trusts
    <3>2. /\ balance'.pending = balance.pending /\ balance'.taken = balance.taken - d
          /\ balance'.accrued = balance.accrued
      BY <2>4, <2>8 DEF CancelRefund, TypeOK
    <3>3. Ledger!Refund(q)
      BY <1>7, <2>3, <2>4, <2>5, <3>1, <3>2 DEF Ledger!Refund, Ledger!Becomes
    <3> QED
      BY <3>3 DEF Ledger!Next
  <2> QED
    BY <1>15, <2>6, <2>7, <2>8
<1>16. ASSUME NEW w \in Worker, Abort(w)
       PROVE  \E q \in Request \union {None} : SameBut(q)
  <2>1. Ends(w) /\ request' = request
    BY <1>16, Effects DEF Abort
  <2>2. handler[w].on \in Request \union {None}
    BY DEF TypeOK, Handler
  <2>3. SameBut(handler[w].on)
    BY <1>3, <2>1, NoneAssumption DEF Ends, Idle
  <2> QED
    BY <2>2, <2>3
<1> QED
  BY <1>8, <1>9, <1>10, <1>11, <1>12, <1>13, <1>14, <1>15, <1>16 DEF Next, Advance

\* As long as no two handlers overlap on a request and none dies, create,
\* approve and cancel implement the atomic steps of the ledger, for every set
\* of handlers and requests.
THEOREM HandlersImplementLedger == ASSUME MaxAborts = 0 PROVE SerialSpec => KeepsLedger
<1> DEFINE Inv == TypeOK /\ ChainInv /\ DebitInv /\ CopyInv /\ overlapped = {}
           SerialNext == Next /\ overlapped' = {}
<1>1. Init => Ledger!Init
  <2> SUFFICES ASSUME Init PROVE Ledger!Init
    OBVIOUS
  <2>1. \A r \in Request : /\ \A v \in Worker : ~Half(v, r)
                           /\ request[r].status = "absent" /\ request[r].days = 0
    BY DEF Init, Half, Idle, FreshRow
  <2>2. \A r \in Request : Settled(r) = "absent" /\ SettledDays(r) = 0
    BY <2>1, LooksRight DEF Looks
  <2> QED
    BY <2>2 DEF Init, Ledger!Init
<1>2. SerialSpec => [](TypeOK /\ ChainInv /\ DebitInv /\ CopyInv)
  <2>1. [SerialNext]_vars => [Next]_vars
    OBVIOUS
  <2> QED
    BY <2>1, JobsAreCurrent, PTL DEF SerialSpec, Spec
<1>3. /\ Init => overlapped = {}
      /\ overlapped = {} /\ [SerialNext]_vars => (overlapped = {})'
  BY DEF Init, vars
<1>4. Inv /\ [SerialNext]_vars => [Ledger!Next]_(Ledger!vars)
  <2> SUFFICES ASSUME Inv, [SerialNext]_vars PROVE [Ledger!Next]_(Ledger!vars)
    OBVIOUS
  <2>1. \A w \in Worker : ~Abort(w)
    BY DEF Abort, TypeOK
  <2> QED
    BY <2>1, LedgerStep
<1> QED
  BY <1>1, <1>2, <1>3, <1>4, PTL DEF SerialSpec, KeepsLedger, Ledger!Spec

----------------------------------------------------------------------------
(* The books.  The columns of the balance are the sums the ledger sees,    *)
(* off by one request for each handler that died on its way.               *)

Held == [r \in Request |-> IF Settled(r) = "pending" THEN SettledDays(r) ELSE 0]
Used == [r \in Request |-> IF Settled(r) = "approved" THEN SettledDays(r) ELSE 0]

BooksInv == overlapped = {} =>
    /\ Within(balance.pending, SumOf(Held, Request), MaxDuration * aborts)
    /\ Within(balance.taken, SumOf(Used, Request), MaxDuration * aborts)

\* With no handler in flight and no overlap so far, pending and taken are the
\* days of the pending and of the approved requests; every handler that died
\* on its way is off by at most one request.
THEOREM BooksMatch == Spec => []BalanceMatchesRequests
<1>1. Init => BooksInv
  <2> SUFFICES ASSUME Init PROVE BooksInv
    OBVIOUS
  <2>1. \A r \in Request : SettledDays(r) = 0
    BY DEF Init, SettledDays, FreshRow
  <2>2. \A r \in Request : Held[r] = 0 /\ Used[r] = 0
    BY <2>1 DEF Held, Used
  <2>3. SumOf(Held, Request) = 0 /\ SumOf(Used, Request) = 0
    BY <2>2, RequestAssumption, SumRemove
  <2>4. MaxDuration * 0 = 0
    BY DurationAssumption
  <2> QED
    BY <2>3, <2>4 DEF Init, BooksInv, Within
<1>2. TypeOK /\ TypeOK' /\ ChainInv /\ DebitInv /\ CopyInv /\ BooksInv /\ [Next]_vars => BooksInv'
  <2> SUFFICES ASSUME TypeOK, TypeOK', ChainInv, DebitInv, CopyInv, BooksInv, [Next]_vars,
                      overlapped' = {}
               PROVE  /\ Within(balance.pending, SumOf(Held, Request), MaxDuration * aborts)'
                      /\ Within(balance.taken, SumOf(Used, Request), MaxDuration * aborts)'
    BY DEF BooksInv
  <2>1. overlapped \subseteq overlapped' /\ (aborts' = aborts \/ aborts' = aborts + 1)
    <3>1. CASE UNCHANGED vars
      BY <3>1 DEF vars
    <3>2. CASE Next
      BY <3>2 DEF Next, Advance, CreateCheck, CancelRead, DecideRead, NoteOverlap, Abort, Accrue,
                  SlaFires, CreateInsert, CreateReserve, CreateSchedule, DecideUnschedule,
                  DecideScheduleNext, DecideWrite, DecideDebit, DecideRelease, CancelWrite,
                  CancelRelease, CancelRefund
    <3> QED
      BY <3>1, <3>2
  <2>2. /\ overlapped = {} /\ aborts \in Nat /\ MaxDuration \in Nat
        /\ balance.pending \in Int /\ balance.taken \in Int
        /\ balance'.pending \in Int /\ balance'.taken \in Int
    BY <2>1, DurationAssumption DEF TypeOK
  <2> DEFINE b == MaxDuration * aborts
  <2>3. /\ b \in Nat /\ b' \in Nat /\ b =< b'
        /\ aborts' = aborts + 1 => b' = b + MaxDuration
    <3>1. \A m, n \in Nat : m * n \in Nat /\ m * (n + 1) = m * n + m
      OBVIOUS
    <3>2. b' = MaxDuration * aborts'
      OBVIOUS
    <3>3. b \in Nat /\ MaxDuration * (aborts + 1) = b + MaxDuration
      BY <2>2, <3>1
    <3> HIDE DEF b
    <3> QED
      BY <2>1, <2>2, <3>2, <3>3 DEF b
  <2> HIDE DEF b
  <2>4. /\ balance.pending - SumOf(Held, Request) =< b
        /\ SumOf(Held, Request) - balance.pending =< b
        /\ balance.taken - SumOf(Used, Request) =< b
        /\ SumOf(Used, Request) - balance.taken =< b
    BY <2>2 DEF BooksInv, Within, b
  <2>5. \A r \in Request : /\ SettledDays(r) \in Nat /\ SettledDays(r) =< MaxDuration
                           /\ SettledDays(r)' \in Nat /\ SettledDays(r)' =< MaxDuration
    <3>1. \A r \in Request : request[r] \in Row /\ request'[r] \in Row
      BY DEF TypeOK
    <3>2. \A row \in Row : row.days \in Nat /\ row.days =< MaxDuration
      BY RowFacts
    <3> QED
      BY <2>2, <3>1, <3>2 DEF SettledDays
  <2>6. /\ \A r \in Request : /\ Held[r] \in Nat /\ Held[r] =< MaxDuration
                              /\ Held'[r] \in Nat /\ Held'[r] =< MaxDuration
                              /\ Used[r] \in Nat /\ Used[r] =< MaxDuration
                              /\ Used'[r] \in Nat /\ Used'[r] =< MaxDuration
        /\ SumOf(Held, Request) \in Int /\ SumOf(Used, Request) \in Int
    <3>1. \A r \in Request : /\ Held[r] \in Nat /\ Held[r] =< MaxDuration
                             /\ Held'[r] \in Nat /\ Held'[r] =< MaxDuration
                             /\ Used[r] \in Nat /\ Used[r] =< MaxDuration
                             /\ Used'[r] \in Nat /\ Used'[r] =< MaxDuration
      BY <2>2, <2>5 DEF Held, Used
    <3>2. \A r \in Request : Held[r] \in Int /\ Used[r] \in Int
      BY <3>1
    <3> QED
      BY <3>1, <3>2, RequestAssumption, SumRemove
  \* What the sums become when the ledger sees a change of q only.
  <2>7. ASSUME NEW q \in Request, SameBut(q)
        PROVE  /\ SumOf(Held', Request) = SumOf(Held, Request) - Held[q] + Held'[q]
               /\ SumOf(Used', Request) = SumOf(Used, Request) - Used[q] + Used'[q]
    <3>1. \A r \in Request : /\ Held[r] \in Int /\ Held'[r] \in Int
                             /\ Used[r] \in Int /\ Used'[r] \in Int
      BY <2>6
    <3>2. \A r \in Request \ {q} : Held[r] = Held'[r] /\ Used[r] = Used'[r]
      BY <2>7 DEF SameBut, Held, Used
    <3> QED
      BY <3>1, <3>2, RequestAssumption, SumUpdate
  <2>8. ASSUME NEW q \in Request, SameBut(q),
               balance'.pending = balance.pending - Held[q] + Held'[q],
               balance'.taken = balance.taken - Used[q] + Used'[q]
        PROVE  /\ Within(balance.pending, SumOf(Held, Request), MaxDuration * aborts)'
               /\ Within(balance.taken, SumOf(Used, Request), MaxDuration * aborts)'
    <3>1. Held[q] \in Nat /\ Held'[q] \in Nat /\ Used[q] \in Nat /\ Used'[q] \in Nat
      BY <2>6
    <3>2. /\ balance'.pending - SumOf(Held', Request) =< b'
          /\ SumOf(Held', Request) - balance'.pending =< b'
      BY <2>2, <2>3, <2>4, <2>6, <2>7, <2>8, <3>1
    <3>3. /\ balance'.taken - SumOf(Used', Request) =< b'
          /\ SumOf(Used', Request) - balance'.taken =< b'
      BY <2>2, <2>3, <2>4, <2>6, <2>7, <2>8, <3>1
    <3> QED
      BY <3>2, <3>3 DEF Within, b
  \* The ledger sees nothing.
  <2>9. ASSUME \A r \in Request : Settled(r)' = Settled(r) /\ SettledDays(r)' = SettledDays(r),
               balance'.pending = balance.pending, balance'.taken = balance.taken
        PROVE  /\ Within(balance.pending, SumOf(Held, Request), MaxDuration * aborts)'
               /\ Within(balance.taken, SumOf(Used, Request), MaxDuration * aborts)'
    <3>1. Held' = Held /\ Used' = Used
      BY <2>9 DEF Held, Used
    <3>2. /\ balance'.pending - SumOf(Held', Request) =< b'
          /\ SumOf(Held', Request) - balance'.pending =< b'
          /\ balance'.taken - SumOf(Used', Request) =< b'
          /\ SumOf(Used', Request) - balance'.taken =< b'
      BY <2>2, <2>3, <2>4, <2>6, <2>9, <3>1
    <3> QED
      BY <3>2 DEF Within, b
  <2>10. CASE UNCHANGED Ledger!vars
    <3>1. /\ [r \in Request |-> Settled(r)]' = [r \in Request |-> Settled(r)]
          /\ [r \in Request |-> SettledDays(r)]' = [r \in Request |-> SettledDays(r)]
          /\ balance'.pending = balance.pending /\ balance'.taken = balance.taken
      BY <2>10 DEF Ledger!vars
    <3>2. \A r \in Request : Settled(r)' = Settled(r) /\ SettledDays(r)' = SettledDays(r)
      BY <3>1
    <3> QED
      BY <2>9, <3>1, <3>2
  \* A step of the ledger: status, days and balance of one request together.
  <2>11. CASE Ledger!Next
    <3>1. CASE Ledger!Credit
      <4>1. \A r \in Request : Settled(r)' = Settled(r) /\ SettledDays(r)' = SettledDays(r)
        <5>1. /\ [r \in Request |-> Settled(r)]' = [r \in Request |-> Settled(r)]
              /\ [r \in Request |-> SettledDays(r)]' = [r \in Request |-> SettledDays(r)]
          BY <3>1 DEF Ledger!Credit
        <5> QED
          BY <5>1
      <4> QED
        BY <2>9, <3>1, <4>1 DEF Ledger!Credit
    <3>2. ASSUME NEW q \in Request, NEW d \in Duration, Ledger!Submit(q, d)
          PROVE  /\ Within(balance.pending, SumOf(Held, Request), MaxDuration * aborts)'
                 /\ Within(balance.taken, SumOf(Used, Request), MaxDuration * aborts)'
      <4>1. /\ Settled(q) = "absent" /\ Settled(q)' = "pending" /\ SettledDays(q)' = d
            /\ SameBut(q)
            /\ balance'.pending = balance.pending + d /\ balance'.taken = balance.taken
        BY <3>2 DEF Ledger!Submit, Ledger!Becomes, SameBut
      <4>2. Held[q] = 0 /\ Held'[q] = d /\ Used[q] = 0 /\ Used'[q] = 0
        BY <4>1 DEF Held, Used
      <4>3. d \in Int
        BY DurationAssumption
      <4> QED
        BY <2>2, <2>8, <4>1, <4>2, <4>3
    \* The other steps leave the days of the request alone.
    <3>3. ASSUME NEW q \in Request, NEW from, NEW to, Ledger!Becomes(q, from, to),
                 [r \in Request |-> SettledDays(r)]' = [r \in Request |-> SettledDays(r)]
          PROVE  /\ Settled(q) = from /\ Settled(q)' = to /\ SettledDays(q)' = SettledDays(q)
                 /\ SameBut(q)
      BY <3>3 DEF Ledger!Becomes, SameBut
    <3>4. ASSUME NEW q \in Request, Ledger!Approve(q)
          PROVE  /\ Within(balance.pending, SumOf(Held, Request), MaxDuration * aborts)'
                 /\ Within(balance.taken, SumOf(Used, Request), MaxDuration * aborts)'
      <4>1. /\ Settled(q) = "pending" /\ Settled(q)' = "approved" /\ SameBut(q)
            /\ SettledDays(q)' = SettledDays(q) /\ SettledDays(q) \in Int
            /\ balance'.pending = balance.pending - SettledDays(q)
            /\ balance'.taken = balance.taken + SettledDays(q)
        BY <2>5, <3>3, <3>4 DEF Ledger!Approve
      <4>2. /\ Held[q] = SettledDays(q) /\ Held'[q] = 0
            /\ Used[q] = 0 /\ Used'[q] = SettledDays(q)
        BY <4>1 DEF Held, Used
      <4> QED
        BY <2>2, <2>8, <4>1, <4>2
    <3>5. ASSUME NEW q \in Request, NEW to \in {"rejected", "cancelled"}, Ledger!Release(q, to)
          PROVE  /\ Within(balance.pending, SumOf(Held, Request), MaxDuration * aborts)'
                 /\ Within(balance.taken, SumOf(Used, Request), MaxDuration * aborts)'
      <4>1. /\ Settled(q) = "pending" /\ Settled(q)' = to /\ SameBut(q)
            /\ SettledDays(q)' = SettledDays(q) /\ SettledDays(q) \in Int
            /\ balance'.pending = balance.pending - SettledDays(q)
            /\ balance'.taken = balance.taken
        BY <2>5, <3>3, <3>5 DEF Ledger!Release
      <4>2. Held[q] = SettledDays(q) /\ Held'[q] = 0 /\ Used[q] = 0 /\ Used'[q] = 0
        BY <4>1 DEF Held, Used
      <4> QED
        BY <2>2, <2>8, <4>1, <4>2
    <3>6. ASSUME NEW q \in Request, Ledger!Refund(q)
          PROVE  /\ Within(balance.pending, SumOf(Held, Request), MaxDuration * aborts)'
                 /\ Within(balance.taken, SumOf(Used, Request), MaxDuration * aborts)'
      <4>1. /\ Settled(q) = "approved" /\ Settled(q)' = "cancelled" /\ SameBut(q)
            /\ SettledDays(q)' = SettledDays(q) /\ SettledDays(q) \in Int
            /\ balance'.pending = balance.pending
            /\ balance'.taken = balance.taken - SettledDays(q)
        BY <2>5, <3>3, <3>6 DEF Ledger!Refund
      <4>2. Held[q] = 0 /\ Held'[q] = 0 /\ Used[q] = SettledDays(q) /\ Used'[q] = 0
        BY <4>1 DEF Held, Used
      <4> QED
        BY <2>2, <2>8, <4>1, <4>2
    <3> QED
      BY <2>11, <3>1, <3>2, <3>4, <3>5, <3>6 DEF Ledger!Next
  \* A handler dies: what it had still to do is at most one request's days.
  <2>12. ASSUME NEW w \in Worker, NEW q \in Request \union {None}, Abort(w), SameBut(q)
         PROVE  /\ Within(balance.pending, SumOf(Held, Request), MaxDuration * aborts)'
                /\ Within(balance.taken, SumOf(Used, Request), MaxDuration * aborts)'
    <3>1. /\ balance' = balance /\ aborts' = aborts + 1
      BY <2>12 DEF Abort
    <3>2. CASE q \in Request
      <4>1. /\ Held[q] \in Nat /\ Held'[q] \in Nat /\ Used[q] \in Nat /\ Used'[q] \in Nat
            /\ Held[q] =< MaxDuration /\ Held'[q] =< MaxDuration
            /\ Used[q] =< MaxDuration /\ Used'[q] =< MaxDuration
        BY <2>6, <3>2
      <4>2. b' = b + MaxDuration
        BY <2>3, <3>1
      <4>3. /\ SumOf(Held', Request) = SumOf(Held, Request) - Held[q] + Held'[q]
            /\ SumOf(Used', Request) = SumOf(Used, Request) - Used[q] + Used'[q]
        BY <2>7, <2>12, <3>2
      <4>4. /\ balance'.pending - SumOf(Held', Request) =< b'
            /\ SumOf(Held', Request) - balance'.pending =< b'
        BY <2>2, <2>3, <2>4, <2>6, <3>1, <4>1, <4>2, <4>3
      <4>5. /\ balance'.taken - SumOf(Used', Request) =< b'
            /\ SumOf(Used', Request) - balance'.taken =< b'
        BY <2>2, <2>3, <2>4, <2>6, <3>1, <4>1, <4>2, <4>3
      <4> QED
        BY <4>4, <4>5 DEF Within, b
    <3>3. CASE q = None
      BY <2>9, <2>12, <3>1, <3>3, NoneAssumption DEF SameBut
    <3> QED
      BY <3>2, <3>3
  <2> QED
    BY <2>2, <2>10, <2>11, <2>12, LedgerStep
<1>3. TypeOK /\ BooksInv => BalanceMatchesRequests
  <2> SUFFICES ASSUME TypeOK, BooksInv, overlapped = {}, \A w \in Worker : handler[w].pc = "idle"
               PROVE  /\ Within(balance.pending, DaysWith("pending"), MaxDuration * aborts)
                      /\ Within(balance.taken, DaysWith("approved"), MaxDuration * aborts)
    BY DEF BalanceMatchesRequests
  <2>1. \A r \in Request : /\ Settled(r) = request[r].status /\ SettledDays(r) = request[r].days
                           /\ request[r].days \in Nat
    <3>1. \A r \in Request, w \in Worker : ~Half(w, r)
      BY DEF Half
    <3>2. \A r \in Request : request[r] \in Row
      BY DEF TypeOK
    <3> QED
      BY <3>1, <3>2, LooksRight, RowFacts DEF Looks
  <2> DEFINE With(status) == {r \in Request : request[r].status = status}
  <2>2. ASSUME NEW status, NEW book, \A r \in Request :
                   book[r] = IF request[r].status = status THEN request[r].days ELSE 0
        PROVE  DaysWith(status) = SumOf(book, Request)
    <3> DEFINE T == With(status)
               days == [r \in T |-> request[r].days]
               Adds(iter) == iter = [s \in SUBSET T |->
                                 IF s = {} THEN 0
                                 ELSE request[First(s)].days + iter[s \ {First(s)}]]
               J == CHOOSE iter : Adds(iter)
    <3>1. DaysWith(status) = J[T]
      BY DEF DaysWith, MapThenSumSet, MapThenFoldSet, First
    <3>2. /\ T \in SUBSET Request
          /\ \A r \in Request : book[r] \in Int
          /\ \A r \in T : book[r] = days[r]
          /\ \A r \in Request \ T : book[r] = 0
      BY <2>1, <2>2
    <3>3. IsFiniteSet(T)
      BY <3>2, RequestAssumption, FS_Subset
    <3>4. \A s \in SUBSET T : s # {} => days[First(s)] = request[First(s)].days
      BY DEF First
    <3>5. \A iter : Iterates(iter, days, T) <=> Adds(iter)
      <4> HIDE DEF T, days
      <4> QED
        BY <3>4 DEF Iterates
    <3>6. Adds(J)
      <4>1. \E iter : Adds(iter)
        BY <3>3, <3>5, SumUnfold
      <4> HIDE DEF Adds
      <4> QED
        BY <4>1
    <3>7. SumOf(book, Request) = SumOf(days, T)
      <4> HIDE DEF T, days
      <4> QED
        BY <3>2, RequestAssumption, SumAgree
    <3> HIDE DEF T, days, Adds, J
    <3> QED
      BY <3>1, <3>3, <3>5, <3>6, <3>7, SumUnfold
  <2>3. DaysWith("pending") = SumOf(Held, Request)
    BY <2>1, <2>2 DEF Held
  <2>4. DaysWith("approved") = SumOf(Used, Request)
    BY <2>1, <2>2 DEF Used
  <2> QED
    BY <2>3, <2>4 DEF BooksInv
<1> QED
  BY <1>1, <1>2, <1>3, JobsAreCurrent, PTL DEF Spec

----------------------------------------------------------------------------
(* The rows of leave_transactions.  No step takes more days than it writes *)
(* rows for, and a handler's copy never has other days than the request.   *)

Backing == [r \in Request |-> debits[r] * request[r].days]

BackedInv ==
    /\ balance.taken =< SumOf(Backing, Request)
    /\ balance.accrued = credits * Accrual

\* Whatever overlaps and whatever dies, the days taken never exceed those of
\* the DEBIT rows, and the days accrued are those of the CREDIT rows.
THEOREM DebitsBackTaken == Spec => []TakenBackedByDebits
<1>1. Init => BackedInv
  <2> SUFFICES ASSUME Init PROVE BackedInv
    OBVIOUS
  <2>1. \A r \in Request : Backing[r] = 0
    BY DEF Init, Backing, FreshRow
  <2>2. SumOf(Backing, Request) = 0
    BY <2>1, RequestAssumption, SumRemove
  <2> QED
    BY <2>2, AmountAssumption DEF Init, BackedInv
<1>2. TypeOK /\ TypeOK' /\ CopyInv /\ BackedInv /\ [Next]_vars => BackedInv'
  <2> SUFFICES ASSUME TypeOK, TypeOK', CopyInv, BackedInv, [Next]_vars PROVE BackedInv'
    OBVIOUS
  <2>1. \A m, n \in Nat : m * n \in Nat /\ (m + 1) * n = m * n + n /\ 0 * n = 0 /\ m * 0 = 0
    OBVIOUS
  <2>2. \A r \in Request : /\ request[r] \in Row /\ request'[r] \in Row
                           /\ debits[r] \in Nat /\ debits'[r] \in Nat
    BY DEF TypeOK
  <2>3. \A row \in Row : row.days \in Nat
    BY RowFacts
  <2>4. /\ \A r \in Request : Backing[r] \in Nat /\ Backing'[r] \in Nat
        /\ SumOf(Backing, Request) \in Int /\ SumOf(Backing', Request) \in Int
    <3>1. \A r \in Request : Backing[r] \in Nat /\ Backing'[r] \in Nat
      BY <2>1, <2>2, <2>3 DEF Backing
    <3> QED
      BY <3>1, RequestAssumption, SumRemove
  <2>5. balance.taken \in Int /\ balance'.taken \in Int /\ balance.taken =< SumOf(Backing, Request)
        /\ balance.accrued = credits * Accrual
    BY DEF TypeOK, BackedInv
  \* A step that takes nothing and leaves rows and days alone.
  <2>6. ASSUME debits' = debits, \A r \in Request : request'[r].days = request[r].days,
               balance'.taken =< balance.taken, balance'.accrued = credits' * Accrual
        PROVE  BackedInv'
    <3>1. Backing' = Backing
      BY <2>6 DEF Backing
    <3>2. balance'.taken =< SumOf(Backing', Request)
      BY <2>4, <2>5, <2>6, <3>1
    <3> QED
      BY <2>6, <3>2 DEF BackedInv
  \* A step on q that takes no more than it backs.
  <2>7. ASSUME NEW q \in Request, \A r \in Request \ {q} : Backing'[r] = Backing[r],
               balance'.taken - balance.taken =< Backing'[q] - Backing[q],
               balance'.accrued = balance.accrued, credits' = credits
        PROVE  BackedInv'
    <3>1. SumOf(Backing', Request) = SumOf(Backing, Request) - Backing[q] + Backing'[q]
      <4>1. \A r \in Request : Backing[r] \in Int /\ Backing'[r] \in Int
        BY <2>4
      <4> QED
        BY <2>7, <4>1, RequestAssumption, SumUpdate
    <3>2. balance'.taken =< SumOf(Backing', Request)
      BY <2>4, <2>5, <2>7, <3>1
    <3> QED
      BY <2>5, <2>7, <3>2 DEF BackedInv
  <2>8. CASE UNCHANGED vars
    BY <2>5, <2>6, <2>8 DEF vars
  <2>9. CASE Accrue
    <3>1. /\ balance'.accrued = balance.accrued + Accrual /\ balance'.taken = balance.taken
          /\ credits' = credits + 1 /\ request' = request /\ debits' = debits
      BY <2>9 DEF Accrue, TypeOK
    <3>2. credits \in Nat /\ Accrual \in Nat
      BY AmountAssumption DEF TypeOK
    <3>3. (credits + 1) * Accrual = credits * Accrual + Accrual
      BY <2>1, <3>2
    <3> QED
      BY <2>5, <2>6, <3>1, <3>3
  <2>10. CASE \E job \in slaJobs : SlaFires(job)
    BY <2>5, <2>6, <2>10 DEF SlaFires
  <2>11. ASSUME NEW w \in Worker,
                \/ \E d \in Duration : CreateCheck(w, d)
                \/ \E q \in Request : CancelRead(w, q)
                \/ \E q \in Request, decision \in Decision : DecideRead(w, q, decision)
                \/ Abort(w) \/ CreateSchedule(w) \/ DecideUnschedule(w) \/ DecideScheduleNext(w)
         PROVE  BackedInv'
    <3>1. request' = request /\ balance' = balance /\ credits' = credits /\ debits' = debits
      BY <2>11 DEF CreateCheck, CancelRead, DecideRead, Abort, CreateSchedule, DecideUnschedule,
                   DecideScheduleNext
    <3> QED
      BY <2>5, <2>6, <3>1
  <2>12. ASSUME NEW w \in Worker, CreateReserve(w) \/ DecideRelease(w) \/ CancelRelease(w)
         PROVE  BackedInv'
    <3>1. /\ balance'.taken = balance.taken /\ balance'.accrued = balance.accrued
          /\ request' = request /\ credits' = credits /\ debits' = debits
      BY <2>12 DEF CreateReserve, DecideRelease, CancelRelease, TypeOK
    <3> QED
      BY <2>5, <2>6, <3>1
  <2>13. ASSUME NEW w \in Worker, CancelRefund(w) PROVE BackedInv'
    <3>1. /\ balance'.taken = balance.taken - handler[w].row.days
          /\ balance'.accrued = balance.accrued
          /\ request' = request /\ credits' = credits /\ debits' = debits
      BY <2>13 DEF CancelRefund, TypeOK
    <3>2. handler[w].row.days \in Nat
      BY <2>3, Effects
    <3> QED
      BY <2>5, <2>6, <3>1, <3>2
  <2>14. ASSUME NEW w \in Worker, DecideWrite(w) \/ CancelWrite(w) PROVE BackedInv'
    <3>1. PICK q, status, level : Rewrites(q, status, level)
      BY <2>14, Effects
    <3>2. balance' = balance /\ credits' = credits /\ debits' = debits
      BY <2>14 DEF DecideWrite, CancelWrite
    <3> QED
      BY <2>5, <2>6, <3>1, <3>2 DEF Rewrites
  \* The row is inserted: q had no days and no rows, it may have now.
  <2>15. ASSUME NEW w \in Worker, NEW q \in Request, CreateInsert(w, q) PROVE BackedInv'
    <3>1. /\ \A r \in Request : r # q => request'[r] = request[r]
          /\ request[q].status = "absent"
          /\ balance' = balance /\ credits' = credits /\ debits' = debits
      BY <2>15, Effects DEF CreateInsert
    <3>2. request[q].days = 0
      BY <3>1 DEF CopyInv, Dated
    <3>3. Backing[q] = 0 /\ \A r \in Request \ {q} : Backing'[r] = Backing[r]
      BY <2>1, <2>2, <3>1, <3>2 DEF Backing
    <3>4. balance'.taken - balance.taken =< Backing'[q] - Backing[q]
      BY <2>4, <2>5, <3>1, <3>3
    <3> QED
      BY <2>7, <3>1, <3>3, <3>4
  \* The debit: the days of the copy are those of the row it is booked on.
  <2>16. ASSUME NEW w \in Worker, DecideDebit(w) PROVE BackedInv'
    <3>1. PICK q \in Request : handler[w].on = q
      BY <2>16, Effects DEF DecideDebit
    <3>2. /\ balance'.taken = balance.taken + handler[w].row.days
          /\ balance'.accrued = balance.accrued
          /\ request' = request /\ credits' = credits
          /\ debits'[q] = debits[q] + 1 /\ \A r \in Request \ {q} : debits'[r] = debits[r]
      BY <2>16, <3>1 DEF DecideDebit, TypeOK
    <3>3. handler[w].row.days = request[q].days /\ request[q].days \in Nat
      BY <2>2, <2>3, <3>1 DEF CopyInv, Copied
    <3>4. Backing'[q] = Backing[q] + request[q].days
      BY <2>1, <2>2, <3>2, <3>3 DEF Backing
    <3>5. \A r \in Request \ {q} : Backing'[r] = Backing[r]
      BY <3>2 DEF Backing
    <3>6. balance'.taken - balance.taken =< Backing'[q] - Backing[q]
      BY <2>4, <2>5, <3>2, <3>3, <3>4
    <3> QED
      BY <2>7, <3>2, <3>5, <3>6
  <2> QED
    BY <2>8, <2>9, <2>10, <2>11, <2>12, <2>13, <2>14, <2>15, <2>16 DEF Next, Advance
<1>3. BackedInv => TakenBackedByDebits
  <2> SUFFICES ASSUME BackedInv PROVE TakenBackedByDebits
    OBVIOUS
  <2> DEFINE Adds(iter) == iter = [s \in SUBSET Request |->
                               IF s = {} THEN 0
                               ELSE LET x == First(s) IN
                                    debits[x] * request[x].days + iter[s \ {x}]]
             J == CHOOSE iter : Adds(iter)
             total == MapThenSumSet(LAMBDA r : debits[r] * request[r].days, Request)
  <2>1. total = J[Request]
    BY DEF MapThenSumSet, MapThenFoldSet, First
  <2>2. \A s \in SUBSET Request : s # {} =>
            Backing[First(s)] = debits[First(s)] * request[First(s)].days
    BY DEF First, Backing
  <2>3. \A iter : Iterates(iter, Backing, Request) <=> Adds(iter)
    BY <2>2 DEF Iterates
  <2>4. Adds(J)
    <3>1. \E iter : Adds(iter)
      BY <2>3, RequestAssumption, SumUnfold
    <3> HIDE DEF Adds
    <3> QED
      BY <3>1
  <2> HIDE DEF Adds, J
  <2>5. total = SumOf(Backing, Request)
    BY <2>1, <2>3, <2>4, RequestAssumption, SumUnfold
  <2> QED
    BY <2>5 DEF BackedInv, TakenBackedByDebits
<1> QED
  BY <1>1, <1>2, <1>3, JobsAreCurrent, PTL DEF Spec
=============================================================================
