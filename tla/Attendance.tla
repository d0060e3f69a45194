----------------------------- MODULE Attendance -----------------------------
(***************************************************************************)
(* AttendanceService for one active employee: the rows of                  *)
(* attendance_records (one per day), the regularization requests that      *)
(* correct them, and the cron markAbsentees, which runs in every replica   *)
(* of the API at midnight.                                                 *)
(*                                                                         *)
(* Time is a counter of slots, SlotsPerDay of them to a day; the server    *)
(* runs in UTC.  A handler is cut at each await and works on the time and  *)
(* the row it read.                                                        *)
(***************************************************************************)
EXTENDS Integers, FiniteSets

CONSTANTS
    Worker,       \* HTTP handlers in flight
    Replica,      \* replicas of the API, each with its own scheduler
    Request,      \* primary keys of regularization_requests
    None,         \* a column that is null
    SlotsPerDay,  \* instants told apart in a day
    LastDay,      \* bound: the days are 0..LastDay
    MaxCalls,     \* bound: handlers started
    MaxAborts     \* bound: handlers and sweeps that die between two awaits

Days == 0..LastDay
Times == 0..((LastDay + 1) * SlotsPerDay - 1)
DayOf(t) == t \div SlotsPerDay
Midnight(d) == d * SlotsPerDay

ASSUME NoneAssumption == None \notin Int /\ None \notin Request
ASSUME BoundAssumption ==
    /\ SlotsPerDay \in Nat \ {0} /\ LastDay \in Nat
    /\ MaxCalls \in Nat /\ MaxAborts \in Nat

VARIABLES
    now,         \* the clock
    record,      \* attendance_records, by day
    request,     \* regularization_requests
    handler,     \* the HTTP handlers
    sweep,       \* the run of markAbsentees in each replica
    calls,       \* auxiliary: handlers started
    aborts,      \* auxiliary: handlers and sweeps that died
    doubled,     \* auxiliary: days with two clock-ins in flight at once
    overlapped,  \* auxiliary: requests with two decisions in flight at once
    early        \* auxiliary: requests approved when their day had no record

vars == <<now, record, request, handler, sweep, calls, aborts, doubled, overlapped, early>>
notes == <<doubled, overlapped, early>>

----------------------------------------------------------------------------
TimeOrNull == Times \union {None}

NoRecord == [status |-> "none", in |-> None, out |-> None, hours |-> None, by |-> None]
NoRequest == [status |-> "none", day |-> 0, in |-> None, out |-> None]
Idle == [pc |-> "idle", at |-> 0, in |-> None, on |-> None, decision |-> "none"]
Asleep == [pc |-> "asleep", day |-> 0]

\* A requested column, or the one in the row when it was left out.
Or(requested, current) == IF requested = None THEN current ELSE requested

Init ==
    /\ now = 0
    /\ record = [d \in Days |-> NoRecord]
    /\ request = [q \in Request |-> NoRequest]
    /\ handler = [w \in Worker |-> Idle]
    /\ sweep = [c \in Replica |-> Asleep]
    /\ calls = 0 /\ aborts = 0
    /\ doubled = {} /\ overlapped = {} /\ early = {}

Start(w, h) ==
    /\ handler[w] = Idle
    /\ calls < MaxCalls
    /\ calls' = calls + 1
    /\ handler' = [handler EXCEPT ![w] = h]

Finish(w) == handler' = [handler EXCEPT ![w] = Idle]

----------------------------------------------------------------------------
(* clockIn                                                                 *)

\* Fault: a clock-in is not refused after the first.
ClockInReadAgain(w) ==
    /\ Start(w, [Idle EXCEPT !.pc = "clockIn", !.at = now])
    /\ UNCHANGED <<now, record, request, sweep, aborts, notes>>

\* findFirst on today's row: no clock-in yet.
ClockInRead(w) ==
    /\ record[DayOf(now)].in = None
    /\ Start(w, [Idle EXCEPT !.pc = "clockIn", !.at = now])
    /\ doubled' = IF \E v \in Worker : handler[v].pc = "clockIn"
                                        /\ DayOf(handler[v].at) = DayOf(now)
                  THEN doubled \union {DayOf(now)} ELSE doubled
    /\ UNCHANGED <<now, record, request, sweep, aborts, overlapped, early>>

\* The upsert: the row is created, or its clock-in and status are replaced.
ClockInWrite(w) ==
    /\ handler[w].pc = "clockIn"
    /\ record' = [record EXCEPT ![DayOf(handler[w].at)].in = handler[w].at,
                                ![DayOf(handler[w].at)].status = "present"]
    /\ Finish(w)
    /\ UNCHANGED <<now, request, sweep, calls, aborts, notes>>

----------------------------------------------------------------------------
(* clockOut                                                                *)

ClockOutRead(w) ==
    /\ record[DayOf(now)].in # None
    /\ record[DayOf(now)].out = None
    /\ Start(w, [Idle EXCEPT !.pc = "clockOut", !.at = now, !.in = record[DayOf(now)].in])
    /\ UNCHANGED <<now, record, request, sweep, aborts, notes>>

\* Fault: the hours are those since midnight.
ClockOutSinceMidnight(w) ==
    /\ handler[w].pc = "clockOut"
    /\ record' = [record EXCEPT ![DayOf(handler[w].at)].out = handler[w].at,
                                ![DayOf(handler[w].at)].hours = handler[w].at % SlotsPerDay]
    /\ Finish(w)
    /\ UNCHANGED <<now, request, sweep, calls, aborts, notes>>

\* The hours are those since the clock-in that was read.
ClockOutWrite(w) ==
    /\ handler[w].pc = "clockOut"
    /\ record' = [record EXCEPT ![DayOf(handler[w].at)].out = handler[w].at,
                                ![DayOf(handler[w].at)].hours = handler[w].at - handler[w].in]
    /\ Finish(w)
    /\ UNCHANGED <<now, request, sweep, calls, aborts, notes>>

----------------------------------------------------------------------------
(* submitRegularization, approveRegularization                             *)

\* One call; neither the day nor the times are compared with anything.
Submit(q, d, in, out) ==
    /\ request[q] = NoRequest
    /\ request' = [request EXCEPT ![q] = [status |-> "pending", day |-> d,
                                          in |-> in, out |-> out]]
    /\ UNCHANGED <<now, record, handler, sweep, calls, aborts, notes>>

\* Fault: findFirst without status pending.
DecideReadAnyStatus(w, q, decision) ==
    /\ request[q].status # "none"
    /\ Start(w, [Idle EXCEPT !.pc = "decide", !.on = q, !.decision = decision])
    /\ overlapped' = IF \E v \in Worker : handler[v].on = q
                     THEN overlapped \union {q} ELSE overlapped
    /\ UNCHANGED <<now, record, request, sweep, aborts, doubled, early>>

DecideRead(w, q, decision) ==
    /\ request[q].status = "pending"
    /\ Start(w, [Idle EXCEPT !.pc = "decide", !.on = q, !.decision = decision])
    /\ overlapped' = IF \E v \in Worker : handler[v].on = q
                     THEN overlapped \union {q} ELSE overlapped
    /\ UNCHANGED <<now, record, request, sweep, aborts, doubled, early>>

\* Fault: the record is not corrected.
DecideWriteOnly(w) ==
    /\ handler[w].pc = "decide"
    /\ request' = [request EXCEPT ![handler[w].on].status = handler[w].decision]
    /\ Finish(w)
    /\ UNCHANGED <<now, record, sweep, calls, aborts, notes>>

\* update by id: the status is not looked at again.
DecideWrite(w) ==
    /\ handler[w].pc = "decide"
    /\ request' = [request EXCEPT ![handler[w].on].status = handler[w].decision]
    /\ IF handler[w].decision = "approved"
       THEN handler' = [handler EXCEPT ![w].pc = "apply"]
       ELSE Finish(w)
    /\ UNCHANGED <<now, record, sweep, calls, aborts, notes>>

\* updateMany: no row for the day is no error.  The hours are left alone.
DecideApply(w) ==
    LET q == handler[w].on
        d == request[q].day IN
    /\ handler[w].pc = "apply"
    /\ IF record[d].status = "none"
       THEN /\ early' = early \union {q}
            /\ UNCHANGED record
       ELSE /\ record' = [record EXCEPT ![d].in = Or(request[q].in, @),
                                        ![d].out = Or(request[q].out, @),
                                        ![d].status = "present",
                                        ![d].by = q]
            /\ UNCHANGED early
    /\ Finish(w)
    /\ UNCHANGED <<now, request, sweep, calls, aborts, doubled, overlapped>>

----------------------------------------------------------------------------
(* markAbsentees                                                           *)

\* The timer of a replica fires at midnight; it works on the day before.
SweepStart(c) ==
    /\ sweep[c].pc = "asleep"
    /\ now > 0 /\ now = Midnight(DayOf(now))
    /\ DayOf(now) - 1 >= sweep[c].day
    /\ sweep' = [sweep EXCEPT ![c] = [pc |-> "read", day |-> DayOf(now) - 1]]
    /\ UNCHANGED <<now, record, request, handler, calls, aborts, notes>>

\* findMany on the day's rows: an employee who has one is left alone.
SweepRead(c) ==
    /\ sweep[c].pc = "read"
    /\ IF record[sweep[c].day].status = "none"
       THEN sweep' = [sweep EXCEPT ![c].pc = "mark"]
       ELSE sweep' = [sweep EXCEPT ![c] = [pc |-> "asleep", day |-> @.day + 1]]
    /\ UNCHANGED <<now, record, request, handler, calls, aborts, notes>>

\* Fault: a record that is there by now is replaced, not skipped.
SweepMarkReplaces(c) ==
    /\ sweep[c].pc = "mark"
    /\ record' = [record EXCEPT ![sweep[c].day].status = "absent"]
    /\ sweep' = [sweep EXCEPT ![c] = [pc |-> "asleep", day |-> @.day + 1]]
    /\ UNCHANGED <<now, request, handler, calls, aborts, notes>>

\* createMany with skipDuplicates on (employeeId, date).
SweepMark(c) ==
    LET d == sweep[c].day IN
    /\ sweep[c].pc = "mark"
    /\ record' = IF record[d].status = "none"
                 THEN [record EXCEPT ![d].status = "absent"] ELSE record
    /\ sweep' = [sweep EXCEPT ![c] = [pc |-> "asleep", day |-> d + 1]]
    /\ UNCHANGED <<now, request, handler, calls, aborts, notes>>

----------------------------------------------------------------------------
(* The environment.                                                        *)

Tick ==
    /\ now + 1 \in Times
    /\ now' = now + 1
    /\ UNCHANGED <<record, request, handler, sweep, calls, aborts, notes>>

Abort(w) ==
    /\ handler[w].pc # "idle"
    /\ aborts < MaxAborts
    /\ aborts' = aborts + 1
    /\ Finish(w)
    /\ UNCHANGED <<now, record, request, sweep, calls, notes>>

\* A call of the sweep rejects, or its replica restarts: the day is not
\* taken up again.
SweepAbort(c) ==
    /\ sweep[c].pc # "asleep"
    /\ aborts < MaxAborts
    /\ aborts' = aborts + 1
    /\ sweep' = [sweep EXCEPT ![c] = [pc |-> "asleep", day |-> @.day + 1]]
    /\ UNCHANGED <<now, record, request, handler, calls, notes>>

\* Times a request may ask for: those of its day.
TimesOf(d) == {t \in Times : DayOf(t) = d} \union {None}

Next ==
    \/ \E w \in Worker :
        \/ ClockInRead(w) \/ ClockInWrite(w) \/ ClockOutRead(w) \/ ClockOutWrite(w)
        \/ \E q \in Request, decision \in {"approved", "rejected"} : DecideRead(w, q, decision)
        \/ DecideWrite(w) \/ DecideApply(w)
        \/ Abort(w)
    \/ \E q \in Request, d \in Days : \E in, out \in TimesOf(d) : Submit(q, d, in, out)
    \/ \E c \in Replica : SweepStart(c) \/ SweepRead(c) \/ SweepMark(c) \/ SweepAbort(c)
    \/ Tick

Spec == Init /\ [][Next]_vars

----------------------------------------------------------------------------
Record == [status : {"none", "absent", "present"}, in : TimeOrNull, out : TimeOrNull,
           hours : Int \union {None}, by : Request \union {None}]

TypeOK ==
    /\ now \in Times
    /\ record \in [Days -> Record]
    /\ request \in [Request -> [status : {"none", "pending", "approved", "rejected"},
                                day : Days, in : TimeOrNull, out : TimeOrNull]]
    /\ handler \in [Worker -> [pc : {"idle", "clockIn", "clockOut", "decide", "apply"},
                               at : Times, in : TimeOrNull, on : Request \union {None},
                               decision : {"none", "approved", "rejected"}]]
    /\ sweep \in [Replica -> [pc : {"asleep", "read", "mark"}, day : 0..(LastDay + 1)]]
    /\ calls \in Nat /\ aborts \in Nat
    /\ doubled \subseteq Days /\ overlapped \subseteq Request /\ early \subseteq Request

Regularized(d) == record[d].by # None

\* markAbsentees of any replica, whatever it read before the clock-in landed,
\* never marks absent someone who clocked in, and a clock-in that lands after
\* the sweep turns the mark back.
ClockedInIsPresent == \A d \in Days : record[d].in # None => record[d].status = "present"

\* Also when two clock-ins or two clock-outs of a day race, the day does not
\* end before it began, unless an approver wrote other times.
OutNotBeforeIn ==
    \A d \in Days : (record[d].out # None /\ ~Regularized(d)) =>
        record[d].in # None /\ record[d].in =< record[d].out

\* The hours that are paid are those between the two times of the row, unless
\* two clock-ins raced or an approver wrote other times: those do not
\* recompute the hours.
HoursMatchTimes ==
    \A d \in Days : (record[d].hours # None /\ ~Regularized(d) /\ d \notin doubled) =>
        record[d].hours = record[d].out - record[d].in

\* With no handler in flight an approved regularization shows in the record:
\* no sweep, clock-in or clock-out takes the day back to absent.  Not so when
\* two decisions overlapped, a handler died, or the day had no record yet.
ApprovedShows ==
    (aborts = 0 /\ \A w \in Worker : handler[w] = Idle) =>
        \A q \in Request \ (overlapped \union early) :
            request[q].status = "approved" =>
                /\ record[request[q].day].status = "present"
                /\ Regularized(request[q].day)

\* A decided regularization is final unless two decisions overlapped
\* ("already processed").
DecisionIsFinal ==
    [][\A q \in Request \ overlapped' :
        request[q].status \in {"approved", "rejected"} => request'[q] = request[q]]_vars
=============================================================================
