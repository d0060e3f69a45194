--------------------------- MODULE AttendanceProofs --------------------------
(***************************************************************************)
(* Theorems about Attendance, for every set of workers, replicas and       *)
(* requests, and every length of the day.                                  *)
(***************************************************************************)
EXTENDS Attendance, TLAPS

Free(d) == record[d].by = None
Pending(w, pc, d) == handler[w].pc = pc /\ DayOf(handler[w].at) = d

\* What the rows and handlers hold besides is of no matter here.
Shape ==
    /\ DOMAIN record = Days
    /\ \A d \in Days : {"status", "in", "out", "hours", "by"} \subseteq DOMAIN record[d]
    /\ DOMAIN handler = Worker
    /\ \A w \in Worker : {"pc", "at", "on"} \subseteq DOMAIN handler[w]
    /\ now \in Int

\* A handler works on an instant that has passed, or on a request.
HandlerInv ==
    \A w \in Worker :
        /\ handler[w].pc \in {"clockIn", "clockOut"} =>
               handler[w].at \in Int /\ handler[w].at =< now
        /\ handler[w].pc \in {"decide", "apply"} => handler[w].on \in Request

\* The times of a row no approver has written.
TimesInv ==
    \A d \in Days : Free(d) =>
        /\ record[d].in \in Int \union {None} /\ record[d].out \in Int \union {None}
        /\ record[d].in # None => record[d].in =< now
        /\ record[d].out # None => record[d].in # None /\ record[d].in =< record[d].out

\* A pending clock-out found a clock-in.
OutInv ==
    \A d \in Days, w \in Worker : Free(d) /\ Pending(w, "clockOut", d) =>
        record[d].in # None /\ record[d].in =< handler[w].at

\* A pending clock-in was begun before every clock-out of its day.
InInv ==
    \A d \in Days, v \in Worker : Free(d) /\ Pending(v, "clockIn", d) =>
        /\ record[d].out # None => handler[v].at =< record[d].out
        /\ \A w \in Worker : Pending(w, "clockOut", d) => handler[v].at =< handler[w].at

DayInv == Shape /\ HandlerInv /\ ClockedInIsPresent /\ TimesInv /\ OutInv /\ InInv

\* However clock-ins, clock-outs, decisions and sweeps of one day interleave
\* and die: who clocked in is present, and the day does not end before it
\* began unless an approver wrote other times.
THEOREM DayIsSound == Spec => [](DayInv /\ ClockedInIsPresent /\ OutNotBeforeIn)
<1>1. Init => DayInv
  <2> SUFFICES ASSUME Init PROVE DayInv
    OBVIOUS
  <2>1. \A d \in Days : record[d] = NoRecord
    BY DEF Init
  <2>2. \A w \in Worker : handler[w] = Idle
    BY DEF Init
  <2>3. Shape
    BY <2>1, <2>2 DEF Init, Shape, NoRecord, Idle
  <2>4. \A d \in Days : record[d].in = None /\ record[d].out = None
    BY <2>1 DEF NoRecord
  <2>5. \A w \in Worker : handler[w].pc = "idle"
    BY <2>2 DEF Idle
  <2> QED
    BY <2>3, <2>4, <2>5
       DEF DayInv, HandlerInv, ClockedInIsPresent, TimesInv, OutInv, InInv, Pending
<1>2. DayInv /\ [Next]_vars => DayInv'
  <2> SUFFICES ASSUME DayInv, [Next]_vars PROVE DayInv'
    OBVIOUS
  <2>1. /\ Shape /\ HandlerInv /\ ClockedInIsPresent /\ TimesInv /\ OutInv /\ InInv
        /\ now \in Int
    BY DEF DayInv, Shape
  \* A step of handlers that only end or go on to apply.
  <2>2. ASSUME now' \in Int, now =< now', record' = record, DOMAIN handler' = Worker,
               \A w \in Worker : \/ handler'[w] = handler[w]
                                 \/ /\ {"pc", "at", "on"} \subseteq DOMAIN handler'[w]
                                    /\ handler'[w].pc = "idle"
                                 \/ /\ {"pc", "at", "on"} \subseteq DOMAIN handler'[w]
                                    /\ handler'[w].pc \in {"decide", "apply"}
                                    /\ handler'[w].on \in Request
        PROVE  DayInv'
    <3>1. Shape'
      BY <2>1, <2>2 DEF Shape
    <3>2. HandlerInv'
      BY <2>1, <2>2 DEF HandlerInv
    <3>3. \A w \in Worker : handler'[w].pc \in {"clockIn", "clockOut"} => handler'[w] = handler[w]
      BY <2>2
    <3>4. ClockedInIsPresent' /\ TimesInv'
      BY <2>1, <2>2 DEF ClockedInIsPresent, TimesInv, Free
    <3>5. OutInv' /\ InInv'
      BY <2>1, <2>2, <3>3 DEF OutInv, InInv, Free, Pending
    <3> QED
      BY <3>1, <3>2, <3>4, <3>5 DEF DayInv
  \* A step that ends a handler.
  <2>3. ASSUME NEW w \in Worker, Finish(w)
        PROVE  /\ DOMAIN handler' = Worker
               /\ \A v \in Worker \ {w} : handler'[v] = handler[v]
               /\ {"pc", "at", "on"} \subseteq DOMAIN handler'[w]
               /\ handler'[w].pc = "idle"
    <3>1. {"pc", "at", "on"} \subseteq DOMAIN Idle /\ Idle.pc = "idle"
      BY DEF Idle
    <3> QED
      BY <2>1, <2>3, <3>1 DEF Finish, Shape
  \* A step that begins one.
  <2>4. ASSUME NEW w \in Worker, NEW h, Start(w, h)
        PROVE  /\ DOMAIN handler' = Worker
               /\ \A v \in Worker \ {w} : handler'[v] = handler[v]
               /\ handler'[w] = h
    BY <2>1, <2>4 DEF Start, Shape
  <2>5. ASSUME NEW w \in Worker, ClockInRead(w) PROVE DayInv'
    <3> DEFINE h == [Idle EXCEPT !.pc = "clockIn", !.at = now]
    <3>1. {"pc", "at", "on"} \subseteq DOMAIN h /\ h.pc = "clockIn" /\ h.at = now
      BY DEF Idle
    <3>2. /\ Start(w, h) /\ now' = now /\ record' = record
          /\ record[DayOf(now)].in = None
      BY <2>5 DEF ClockInRead
    <3> HIDE DEF h
    <3>3. /\ DOMAIN handler' = Worker
          /\ \A v \in Worker \ {w} : handler'[v] = handler[v]
          /\ handler'[w] = h
      BY <2>4, <3>2
    <3>4. Shape' /\ HandlerInv'
      BY <2>1, <3>1, <3>2, <3>3 DEF Shape, HandlerInv
    <3>5. ClockedInIsPresent' /\ TimesInv'
      BY <2>1, <3>2 DEF ClockedInIsPresent, TimesInv, Free
    <3>6. \A d : \A v \in Worker : Pending(v, "clockOut", d)' =>
              Pending(v, "clockOut", d) /\ handler'[v] = handler[v]
      BY <3>1, <3>3 DEF Pending
    <3>7. OutInv'
      BY <2>1, <3>2, <3>6 DEF OutInv, Free
    <3>8. InInv'
      <4> SUFFICES ASSUME NEW d \in Days, NEW v \in Worker, Free(d), Pending(v, "clockIn", d)'
                   PROVE  /\ record[d].out # None => handler'[v].at =< record[d].out
                          /\ \A u \in Worker : Pending(u, "clockOut", d)' =>
                                 handler'[v].at =< handler'[u].at
        BY <3>2 DEF InInv, Free
      <4>1. CASE v = w
        <5>1. d = DayOf(now)
          BY <3>1, <3>3, <4>1 DEF Pending
        <5>2. record[d].out = None /\ \A u \in Worker : ~Pending(u, "clockOut", d)
          BY <2>1, <3>2, <5>1 DEF TimesInv, OutInv
        <5> QED
          BY <3>6, <5>2
      <4>2. CASE v # w
        <5>1. handler'[v] = handler[v] /\ Pending(v, "clockIn", d)
          BY <3>3, <4>2 DEF Pending
        <5> QED
          BY <2>1, <3>6, <5>1 DEF InInv
      <4> QED
        BY <4>1, <4>2
    <3> QED
      BY <3>4, <3>5, <3>7, <3>8 DEF DayInv
  <2>6. ASSUME NEW w \in Worker, ClockOutRead(w) PROVE DayInv'
    <3> DEFINE h == [Idle EXCEPT !.pc = "clockOut", !.at = now, !.in = record[DayOf(now)].in]
    <3>1. {"pc", "at", "on"} \subseteq DOMAIN h /\ h.pc = "clockOut" /\ h.at = now
      BY DEF Idle
    <3>2. /\ Start(w, h) /\ now' = now /\ record' = record
          /\ record[DayOf(now)].in # None
      BY <2>6 DEF ClockOutRead
    <3> HIDE DEF h
    <3>3. /\ DOMAIN handler' = Worker
          /\ \A v \in Worker \ {w} : handler'[v] = handler[v]
          /\ handler'[w] = h
      BY <2>4, <3>2
    <3>4. Shape' /\ HandlerInv'
      BY <2>1, <3>1, <3>2, <3>3 DEF Shape, HandlerInv
    <3>5. ClockedInIsPresent' /\ TimesInv'
      BY <2>1, <3>2 DEF ClockedInIsPresent, TimesInv, Free
    <3>6. \A d : \A v \in Worker : Pending(v, "clockIn", d)' =>
              Pending(v, "clockIn", d) /\ handler'[v] = handler[v] /\ handler[v].at =< now
      BY <2>1, <3>1, <3>3 DEF Pending, HandlerInv
    <3>7. \A d : \A v \in Worker : Pending(v, "clockOut", d)' =>
              \/ Pending(v, "clockOut", d) /\ handler'[v] = handler[v]
              \/ d = DayOf(now) /\ handler'[v].at = now
      BY <3>1, <3>3 DEF Pending
    <3>8. OutInv'
      BY <2>1, <3>2, <3>7 DEF OutInv, TimesInv, Free
    <3>9. InInv'
      BY <2>1, <3>2, <3>6, <3>7 DEF InInv, Free
    <3> QED
      BY <3>4, <3>5, <3>8, <3>9 DEF DayInv
  <2>7. ASSUME NEW w \in Worker, ClockInWrite(w) PROVE DayInv'
    <3>1. PICK t, D : /\ t \in Int /\ t = handler[w].at /\ D = DayOf(t) /\ t =< now
                      /\ handler[w].pc = "clockIn"
      BY <2>1, <2>7 DEF ClockInWrite, HandlerInv
    <3>2. /\ record' = [record EXCEPT ![D].in = t, ![D].status = "present"]
          /\ Finish(w) /\ now' = now
      BY <2>7, <3>1 DEF ClockInWrite
    <3>3. /\ DOMAIN record' = Days
          /\ \A d \in Days \ {D} : record'[d] = record[d]
          /\ D \in Days => /\ record'[D].in = t /\ record'[D].status = "present"
                           /\ record'[D].out = record[D].out /\ record'[D].by = record[D].by
                           /\ DOMAIN record'[D] = DOMAIN record[D]
      BY <2>1, <3>2 DEF Shape
    <3>4. \A v \in Worker : handler'[v].pc # "idle" => v # w /\ handler'[v] = handler[v]
      BY <2>3, <3>2
    <3>5. Shape'
      BY <2>1, <2>3, <3>2, <3>3 DEF Shape
    <3>6. HandlerInv'
      BY <2>1, <3>2, <3>4 DEF HandlerInv
    <3>7. ClockedInIsPresent'
      BY <2>1, <3>3 DEF ClockedInIsPresent
    <3>8. t # None
      BY <3>1, NoneAssumption
    <3>9. D \in Days /\ Free(D) =>
              /\ record[D].out # None => t =< record[D].out
              /\ \A v \in Worker : Pending(v, "clockOut", D) => t =< handler[v].at
      BY <2>1, <3>1 DEF InInv, Pending
    <3>10. TimesInv'
      <4> SUFFICES ASSUME NEW d \in Days, Free(d)'
                   PROVE  /\ record'[d].in \in Int \union {None} /\ record'[d].out \in Int \union {None}
                          /\ record'[d].in # None => record'[d].in =< now
                          /\ record'[d].out # None =>
                                 record'[d].in # None /\ record'[d].in =< record'[d].out
        BY <3>2 DEF TimesInv
      <4>1. CASE d = D
        <5>1. Free(D)
          BY <3>3, <4>1 DEF Free
        <5> QED
          BY <2>1, <3>1, <3>3, <3>8, <3>9, <4>1, <5>1 DEF TimesInv
      <4>2. CASE d # D
        BY <2>1, <3>3, <4>2 DEF TimesInv, Free
      <4> QED
        BY <4>1, <4>2
    <3>11. OutInv'
      BY <2>1, <3>3, <3>4, <3>8, <3>9 DEF OutInv, Free, Pending
    <3>12. InInv'
      BY <2>1, <3>3, <3>4 DEF InInv, Free, Pending
    <3> QED
      BY <3>5, <3>6, <3>7, <3>10, <3>11, <3>12 DEF DayInv
  <2>8. ASSUME NEW w \in Worker, ClockOutWrite(w) PROVE DayInv'
    <3>1. PICK t, D : /\ t \in Int /\ t = handler[w].at /\ D = DayOf(t)
                      /\ handler[w].pc = "clockOut"
      BY <2>1, <2>8 DEF ClockOutWrite, HandlerInv
    <3>2. PICK x : /\ record' = [record EXCEPT ![D].out = t, ![D].hours = x]
                   /\ Finish(w) /\ now' = now
      BY <2>8, <3>1 DEF ClockOutWrite
    <3>3. /\ DOMAIN record' = Days
          /\ \A d \in Days \ {D} : record'[d] = record[d]
          /\ D \in Days => /\ record'[D].in = record[D].in /\ record'[D].status = record[D].status
                           /\ record'[D].out = t /\ record'[D].by = record[D].by
                           /\ DOMAIN record'[D] = DOMAIN record[D]
      BY <2>1, <3>2 DEF Shape
    <3>4. \A v \in Worker : handler'[v].pc # "idle" => v # w /\ handler'[v] = handler[v]
      BY <2>3, <3>2
    <3>5. Shape'
      BY <2>1, <2>3, <3>2, <3>3 DEF Shape
    <3>6. HandlerInv'
      BY <2>1, <3>2, <3>4 DEF HandlerInv
    <3>7. ClockedInIsPresent'
      BY <2>1, <3>3 DEF ClockedInIsPresent
    <3>8. D \in Days /\ Free(D) =>
              /\ record[D].in # None /\ record[D].in =< t
              /\ \A v \in Worker : Pending(v, "clockIn", D) => handler[v].at =< t
      BY <2>1, <3>1 DEF OutInv, InInv, Pending
    <3>9. TimesInv'
      <4> SUFFICES ASSUME NEW d \in Days, Free(d)'
                   PROVE  /\ record'[d].in \in Int \union {None} /\ record'[d].out \in Int \union {None}
                          /\ record'[d].in # None => record'[d].in =< now
                          /\ record'[d].out # None =>
                                 record'[d].in # None /\ record'[d].in =< record'[d].out
        BY <3>2 DEF TimesInv
      <4>1. CASE d = D
        <5>1. Free(D)
          BY <3>3, <4>1 DEF Free
        <5> QED
          BY <2>1, <3>1, <3>3, <3>8, <4>1, <5>1 DEF TimesInv
      <4>2. CASE d # D
        BY <2>1, <3>3, <4>2 DEF TimesInv, Free
      <4> QED
        BY <4>1, <4>2
    <3>10. OutInv'
      BY <2>1, <3>3, <3>4 DEF OutInv, Free, Pending
    <3>11. InInv'
      BY <2>1, <3>3, <3>4, <3>8 DEF InInv, Free, Pending
    <3> QED
      BY <3>5, <3>6, <3>7, <3>9, <3>10, <3>11 DEF DayInv
  <2>9. ASSUME NEW w \in Worker, DecideApply(w) PROVE DayInv'
    <3>1. PICK q, D : q \in Request /\ q = handler[w].on /\ D = request[q].day
      BY <2>1, <2>9 DEF DecideApply, HandlerInv
    <3>2. /\ Finish(w) /\ now' = now
          /\ \/ record' = record
             \/ record' = [record EXCEPT ![D].in = Or(request[q].in, @),
                                         ![D].out = Or(request[q].out, @),
                                         ![D].status = "present", ![D].by = q]
      BY <2>9, <3>1 DEF DecideApply
    <3>3. CASE record' = record
      BY <2>1, <2>2, <2>3, <3>2, <3>3
    <3>4. CASE record' = [record EXCEPT ![D].in = Or(request[q].in, @),
                                        ![D].out = Or(request[q].out, @),
                                        ![D].status = "present", ![D].by = q]
      <4>1. /\ DOMAIN record' = Days
            /\ \A d \in Days \ {D} : record'[d] = record[d]
            /\ D \in Days => /\ record'[D].status = "present" /\ record'[D].by = q
                             /\ DOMAIN record'[D] = DOMAIN record[D]
        BY <2>1, <3>4 DEF Shape
      <4>2. \A v \in Worker : handler'[v].pc # "idle" => v # w /\ handler'[v] = handler[v]
        BY <2>3, <3>2
      <4>3. Shape' /\ HandlerInv'
        <5>1. Shape'
          BY <2>1, <2>3, <3>2, <4>1 DEF Shape
        <5>2. HandlerInv'
          BY <2>1, <3>2, <4>2 DEF HandlerInv
        <5> QED
          BY <5>1, <5>2
      <4>4. ClockedInIsPresent'
        BY <2>1, <4>1 DEF ClockedInIsPresent
      <4>5. \A d \in Days : Free(d)' => Free(d) /\ record'[d] = record[d]
        BY <3>1, <4>1, NoneAssumption DEF Free
      <4>6. TimesInv' /\ OutInv' /\ InInv'
        <5>1. TimesInv'
          BY <2>1, <3>2, <4>5 DEF TimesInv
        <5>2. OutInv'
          BY <2>1, <4>2, <4>5 DEF OutInv, Pending
        <5>3. InInv'
          BY <2>1, <4>2, <4>5 DEF InInv, Pending
        <5> QED
          BY <5>1, <5>2, <5>3
      <4> QED
        BY <4>3, <4>4, <4>6 DEF DayInv
    <3> QED
      BY <3>2, <3>3, <3>4
  <2>10. ASSUME NEW w \in Worker, NEW q \in Request, NEW decision, DecideRead(w, q, decision)
         PROVE  DayInv'
    <3> DEFINE h == [Idle EXCEPT !.pc = "decide", !.on = q, !.decision = decision]
    <3>1. {"pc", "at", "on"} \subseteq DOMAIN h /\ h.pc = "decide" /\ h.on = q
      BY DEF Idle
    <3>2. Start(w, h) /\ now' = now /\ record' = record
      BY <2>10 DEF DecideRead
    <3> HIDE DEF h
    <3> QED
      BY <2>1, <2>2, <2>4, <3>1, <3>2
  <2>11. ASSUME NEW w \in Worker, DecideWrite(w) PROVE DayInv'
    <3>1. handler[w].pc = "decide" /\ now' = now /\ record' = record
      BY <2>11 DEF DecideWrite
    <3>2. CASE Finish(w)
      BY <2>1, <2>2, <2>3, <3>1, <3>2
    <3>3. CASE handler' = [handler EXCEPT ![w].pc = "apply"]
      <4>1. /\ DOMAIN handler' = Worker
            /\ \A v \in Worker \ {w} : handler'[v] = handler[v]
            /\ DOMAIN handler'[w] = DOMAIN handler[w]
            /\ handler'[w].pc = "apply" /\ handler'[w].on = handler[w].on
        BY <2>1, <3>3 DEF Shape
      <4> QED
        BY <2>1, <2>2, <3>1, <4>1 DEF Shape, HandlerInv
    <3> QED
      BY <2>11, <3>2, <3>3 DEF DecideWrite
  <2>12. ASSUME NEW w \in Worker, Abort(w) PROVE DayInv'
    <3>1. Finish(w) /\ now' = now /\ record' = record
      BY <2>12 DEF Abort
    <3> QED
      BY <2>1, <2>2, <2>3, <3>1
  <2>13. ASSUME NEW c \in Replica, SweepMark(c) PROVE DayInv'
    <3>1. PICK D : D = sweep[c].day
      OBVIOUS
    <3>2. /\ handler' = handler /\ now' = now
          /\ \/ record' = record
             \/ /\ record[D].status = "none"
                /\ record' = [record EXCEPT ![D].status = "absent"]
      BY <2>13, <3>1 DEF SweepMark
    <3>3. CASE record' = record
      BY <2>1, <2>2, <3>2, <3>3 DEF Shape
    <3>4. CASE record[D].status = "none" /\ record' = [record EXCEPT ![D].status = "absent"]
      <4>1. /\ DOMAIN record' = Days
            /\ \A d \in Days \ {D} : record'[d] = record[d]
            /\ D \in Days => /\ record'[D].in = record[D].in /\ record'[D].out = record[D].out
                             /\ record'[D].by = record[D].by
                             /\ DOMAIN record'[D] = DOMAIN record[D]
        BY <2>1, <3>4 DEF Shape
      <4>2. Shape' /\ HandlerInv'
        BY <2>1, <3>2, <4>1 DEF Shape, HandlerInv
      <4>3. ClockedInIsPresent'
        BY <2>1, <3>4, <4>1 DEF ClockedInIsPresent
      <4>4. \A d \in Days : /\ record'[d].in = record[d].in /\ record'[d].out = record[d].out
                            /\ record'[d].by = record[d].by
        BY <4>1
      <4>5. TimesInv' /\ OutInv' /\ InInv'
        BY <2>1, <3>2, <4>4 DEF TimesInv, OutInv, InInv, Free, Pending
      <4> QED
        BY <4>2, <4>3, <4>5 DEF DayInv
    <3> QED
      BY <3>2, <3>3, <3>4
  \* The steps that touch neither the records nor the handlers.
  <2>14. ASSUME \/ UNCHANGED vars
                \/ Tick
                \/ \E q \in Request, d \in Days : \E in, out \in TimesOf(d) : Submit(q, d, in, out)
                \/ \E c \in Replica : SweepStart(c) \/ SweepRead(c) \/ SweepAbort(c)
         PROVE  DayInv'
    <3>1. handler' = handler /\ record' = record /\ (now' = now \/ now' = now + 1)
      BY <2>14 DEF vars, Tick, Submit, SweepStart, SweepRead, SweepAbort
    <3> QED
      BY <2>1, <2>2, <3>1 DEF Shape
  <2> QED
    BY <2>5, <2>6, <2>7, <2>8, <2>9, <2>10, <2>11, <2>12, <2>13, <2>14 DEF Next
<1>3. DayInv => ClockedInIsPresent /\ OutNotBeforeIn
  BY DEF DayInv, TimesInv, Free, OutNotBeforeIn, Regularized
<1> QED
  BY <1>1, <1>2, <1>3, PTL DEF Spec

----------------------------------------------------------------------------
\* On a day two clock-ins did not race for, a pending clock-in is alone and
\* the row has none yet, a pending clock-out holds the clock-in of the row,
\* and the hours are right.
SoleInv ==
    \A d \in Days \ doubled, v \in Worker : Free(d) /\ Pending(v, "clockIn", d) =>
        record[d].in = None /\ \A w \in Worker \ {v} : ~Pending(w, "clockIn", d)

HeldInv ==
    \A d \in Days \ doubled, w \in Worker : Free(d) /\ Pending(w, "clockOut", d) =>
        handler[w].in = record[d].in

RowInv ==
    \A d \in Days \ doubled : Free(d) /\ record[d].hours # None =>
        record[d].in # None /\ record[d].hours = record[d].out - record[d].in

HoursInv == SoleInv /\ HeldInv /\ RowInv

\* A handler that ends, and one that begins.
LEMMA HandlerMoves ==
    ASSUME Shape, NEW w \in Worker
    PROVE  /\ Finish(w) => /\ handler'[w].pc = "idle" /\ handler'[w].on = None
                           /\ \A v \in Worker \ {w} : handler'[v] = handler[v]
           /\ \A h : Start(w, h) => /\ handler'[w] = h
                                    /\ \A v \in Worker \ {w} : handler'[v] = handler[v]
<1>1. Idle.pc = "idle" /\ Idle.on = None
  BY DEF Idle
<1> QED
  BY <1>1 DEF Finish, Start, Shape

\* The hours of a day are those between its two times, however the clock-outs
\* of the day race, unless two clock-ins did or an approver wrote other times.
THEOREM HoursAreRight == Spec => []HoursMatchTimes
<1>1. Init => HoursInv
  <2> SUFFICES ASSUME Init PROVE HoursInv
    OBVIOUS
  <2>1. \A d \in Days : record[d].in = None /\ record[d].hours = None
    BY DEF Init, NoRecord
  <2>2. \A w \in Worker : handler[w].pc = "idle"
    BY DEF Init, Idle
  <2> QED
    BY <2>1, <2>2 DEF HoursInv, SoleInv, HeldInv, RowInv, Pending
<1>2. DayInv /\ HoursInv /\ [Next]_vars => HoursInv'
  <2> SUFFICES ASSUME DayInv, HoursInv, [Next]_vars PROVE HoursInv'
    OBVIOUS
  <2>1. Shape /\ HandlerInv /\ OutInv /\ SoleInv /\ HeldInv /\ RowInv
    BY DEF DayInv, HoursInv
  \* A step that leaves the times alone and begins no clock-in or clock-out.
  <2>2. ASSUME doubled \subseteq doubled',
               \A d \in Days : Free(d)' => /\ Free(d) /\ record'[d].in = record[d].in
                                           /\ record'[d].out = record[d].out
                                           /\ record'[d].hours = record[d].hours,
               \A w \in Worker : handler'[w] = handler[w]
                                 \/ handler'[w].pc \in {"idle", "decide", "apply"}
        PROVE  HoursInv'
    <3>1. \A d : \A w \in Worker : \A pc \in {"clockIn", "clockOut"} :
              Pending(w, pc, d)' => Pending(w, pc, d) /\ handler'[w] = handler[w]
      BY <2>2 DEF Pending
    <3>2. SoleInv'
      BY <2>1, <2>2, <3>1 DEF SoleInv
    <3>3. HeldInv'
      BY <2>1, <2>2, <3>1 DEF HeldInv
    <3>4. RowInv'
      BY <2>1, <2>2 DEF RowInv
    <3> QED
      BY <3>2, <3>3, <3>4 DEF HoursInv
  <2>3. ASSUME NEW w \in Worker, ClockInRead(w) PROVE HoursInv'
    <3> DEFINE h == [Idle EXCEPT !.pc = "clockIn", !.at = now]
    <3>1. h.pc = "clockIn" /\ h.at = now
      BY DEF Idle
    <3>2. /\ Start(w, h) /\ record' = record /\ record[DayOf(now)].in = None
          /\ doubled \subseteq doubled'
          /\ DayOf(now) \notin doubled' => \A v \in Worker : ~Pending(v, "clockIn", DayOf(now))
      BY <2>3 DEF ClockInRead, Pending
    <3> HIDE DEF h
    <3>3. handler'[w] = h /\ \A v \in Worker \ {w} : handler'[v] = handler[v]
      BY <2>1, <3>2, HandlerMoves
    <3>4. \A d : \A v \in Worker : /\ Pending(v, "clockOut", d)' =>
                                       Pending(v, "clockOut", d) /\ handler'[v] = handler[v]
                                   /\ Pending(v, "clockIn", d)' =>
                                       \/ v # w /\ Pending(v, "clockIn", d)
                                       \/ v = w /\ d = DayOf(now)
      BY <3>1, <3>3 DEF Pending
    <3>5. SoleInv'
      BY <2>1, <3>2, <3>4 DEF SoleInv, Free
    <3>6. HeldInv'
      BY <2>1, <3>2, <3>4 DEF HeldInv, Free
    <3>7. RowInv'
      BY <2>1, <3>2 DEF RowInv, Free
    <3> QED
      BY <3>5, <3>6, <3>7 DEF HoursInv
  <2>4. ASSUME NEW w \in Worker, ClockOutRead(w) PROVE HoursInv'
    <3> DEFINE h == [Idle EXCEPT !.pc = "clockOut", !.at = now, !.in = record[DayOf(now)].in]
    <3>1. h.pc = "clockOut" /\ h.at = now /\ h.in = record[DayOf(now)].in
      BY DEF Idle
    <3>2. Start(w, h) /\ record' = record /\ doubled' = doubled
      BY <2>4 DEF ClockOutRead, notes
    <3> HIDE DEF h
    <3>3. handler'[w] = h /\ \A v \in Worker \ {w} : handler'[v] = handler[v]
      BY <2>1, <3>2, HandlerMoves
    <3>4. \A d : \A v \in Worker : /\ Pending(v, "clockIn", d)' => Pending(v, "clockIn", d)
                                   /\ Pending(v, "clockOut", d)' =>
                                       \/ Pending(v, "clockOut", d) /\ handler'[v] = handler[v]
                                       \/ handler'[v].in = record[d].in
      BY <3>1, <3>3 DEF Pending
    <3>5. SoleInv'
      BY <2>1, <3>2, <3>4 DEF SoleInv, Free
    <3>6. HeldInv'
      BY <2>1, <3>2, <3>4 DEF HeldInv, Free
    <3>7. RowInv'
      BY <2>1, <3>2 DEF RowInv, Free
    <3> QED
      BY <3>5, <3>6, <3>7 DEF HoursInv
  <2>5. ASSUME NEW w \in Worker, ClockInWrite(w) PROVE HoursInv'
    <3>1. PICK t, D : /\ t = handler[w].at /\ D = DayOf(t) /\ t \in Int
                      /\ Pending(w, "clockIn", D)
      BY <2>1, <2>5 DEF ClockInWrite, HandlerInv, Pending
    <3>2. /\ record' = [record EXCEPT ![D].in = t, ![D].status = "present"]
          /\ Finish(w) /\ doubled' = doubled
      BY <2>5, <3>1 DEF ClockInWrite, notes
    <3>3. /\ \A d \in Days \ {D} : record'[d] = record[d]
          /\ D \in Days => /\ record'[D].in = t /\ record'[D].by = record[D].by
                           /\ record'[D].hours = record[D].hours
      BY <2>1, <3>2 DEF Shape
    <3>4. \A v \in Worker : handler'[v].pc # "idle" => v # w /\ handler'[v] = handler[v]
      BY <2>1, <3>2, HandlerMoves
    <3>5. \A d : \A v \in Worker :
              /\ Pending(v, "clockIn", d)' => v # w /\ Pending(v, "clockIn", d)
              /\ Pending(v, "clockOut", d)' =>
                     Pending(v, "clockOut", d) /\ handler'[v] = handler[v]
      BY <3>4 DEF Pending
    <3>6. \A d \in Days : Free(d)' => Free(d)
      BY <3>3 DEF Free
    <3>7. D \in Days \ doubled /\ Free(D) =>
              /\ record[D].in = None /\ record[D].hours = None
              /\ \A v \in Worker : ~Pending(v, "clockOut", D)
              /\ \A v \in Worker \ {w} : ~Pending(v, "clockIn", D)
      BY <2>1, <3>1 DEF SoleInv, OutInv, RowInv
    <3>8. SoleInv'
      <4> SUFFICES ASSUME NEW d \in Days \ doubled, NEW v \in Worker, Free(d),
                          v # w, Pending(v, "clockIn", d)
                   PROVE  /\ record'[d].in = None
                          /\ \A u \in Worker \ {v} : ~Pending(u, "clockIn", d)
        BY <3>2, <3>5, <3>6 DEF SoleInv
      <4>1. d # D
        BY <3>1, <3>7
      <4> QED
        BY <2>1, <3>3, <4>1 DEF SoleInv
    <3>9. HeldInv'
      <4> SUFFICES ASSUME NEW d \in Days \ doubled', NEW v \in Worker, Free(d)',
                          Pending(v, "clockOut", d)'
                   PROVE  handler'[v].in = record'[d].in
        BY DEF HeldInv
      <4>1. /\ d \in Days \ doubled /\ Free(d) /\ Pending(v, "clockOut", d)
            /\ handler'[v] = handler[v]
        BY <3>2, <3>5, <3>6
      <4>2. d # D
        BY <3>7, <4>1
      <4> QED
        BY <2>1, <3>3, <4>1, <4>2 DEF HeldInv
    <3>10. RowInv'
      BY <2>1, <3>2, <3>3, <3>6, <3>7 DEF RowInv
    <3> QED
      BY <3>8, <3>9, <3>10 DEF HoursInv
  <2>6. ASSUME NEW w \in Worker, ClockOutWrite(w) PROVE HoursInv'
    <3>1. PICK t, D : t = handler[w].at /\ D = DayOf(t) /\ Pending(w, "clockOut", D)
      BY <2>6 DEF ClockOutWrite, Pending
    <3>2. /\ record' = [record EXCEPT ![D].out = t, ![D].hours = t - handler[w].in]
          /\ Finish(w) /\ doubled' = doubled
      BY <2>6, <3>1 DEF ClockOutWrite, notes
    <3>3. /\ \A d \in Days \ {D} : record'[d] = record[d]
          /\ D \in Days => /\ record'[D].in = record[D].in /\ record'[D].by = record[D].by
                           /\ record'[D].out = t /\ record'[D].hours = t - handler[w].in
      BY <2>1, <3>2 DEF Shape
    <3>4. \A v \in Worker : handler'[v].pc # "idle" => v # w /\ handler'[v] = handler[v]
      BY <2>1, <3>2, HandlerMoves
    <3>5. \A d : \A v \in Worker :
              /\ Pending(v, "clockIn", d)' => Pending(v, "clockIn", d)
              /\ Pending(v, "clockOut", d)' =>
                     Pending(v, "clockOut", d) /\ handler'[v] = handler[v]
      BY <3>4 DEF Pending
    <3>6. D \in Days \ doubled /\ Free(D) => handler[w].in = record[D].in /\ record[D].in # None
      BY <2>1, <3>1 DEF HeldInv, OutInv
    <3>7. \A d \in Days : /\ Free(d)' => Free(d)
                          /\ record'[d].in = record[d].in
      BY <3>3 DEF Free
    <3>8. SoleInv'
      BY <2>1, <3>2, <3>5, <3>7 DEF SoleInv
    <3>9. HeldInv'
      <4> SUFFICES ASSUME NEW d \in Days \ doubled', NEW v \in Worker, Free(d)',
                          Pending(v, "clockOut", d)'
                   PROVE  handler'[v].in = record'[d].in
        BY DEF HeldInv
      <4>1. /\ d \in Days \ doubled /\ Free(d) /\ Pending(v, "clockOut", d)
            /\ handler'[v] = handler[v]
        BY <3>2, <3>5, <3>7
      <4> QED
        BY <2>1, <3>7, <4>1 DEF HeldInv
    <3>10. RowInv'
      <4> SUFFICES ASSUME NEW d \in Days \ doubled', Free(d)', record'[d].hours # None
                   PROVE  /\ record'[d].in # None
                          /\ record'[d].hours = record'[d].out - record'[d].in
        BY DEF RowInv
      <4>1. d \in Days \ doubled /\ Free(d) /\ record'[d].in = record[d].in
        BY <3>2, <3>7
      <4>2. CASE d = D
        BY <3>3, <3>6, <4>1, <4>2
      <4>3. CASE d # D
        <5>1. record'[d] = record[d]
          BY <3>3, <4>3
        <5> QED
          BY <2>1, <4>1, <5>1 DEF RowInv
      <4> QED
        BY <4>2, <4>3
    <3> QED
      BY <3>8, <3>9, <3>10 DEF HoursInv
  <2>7. ASSUME NEW w \in Worker, DecideApply(w) PROVE HoursInv'
    <3>1. PICK q, D : q \in Request /\ q = handler[w].on /\ D = request[q].day
      BY <2>1, <2>7 DEF DecideApply, HandlerInv
    <3>2. /\ Finish(w) /\ doubled' = doubled
          /\ \/ record' = record
             \/ record' = [record EXCEPT ![D].in = Or(request[q].in, @),
                                         ![D].out = Or(request[q].out, @),
                                         ![D].status = "present", ![D].by = q]
      BY <2>7, <3>1 DEF DecideApply
    <3>3. \A d \in Days : Free(d)' => Free(d) /\ record'[d] = record[d]
      <4>1. CASE record' = record
        BY <4>1 DEF Free
      <4>2. CASE record' = [record EXCEPT ![D].in = Or(request[q].in, @),
                                          ![D].out = Or(request[q].out, @),
                                          ![D].status = "present", ![D].by = q]
        BY <2>1, <3>1, <4>2, NoneAssumption DEF Shape, Free
      <4> QED
        BY <3>2, <4>1, <4>2
    <3>4. \A v \in Worker : handler'[v] = handler[v] \/ handler'[v].pc = "idle"
      BY <2>1, <3>2, HandlerMoves
    <3> QED
      BY <2>2, <3>2, <3>3, <3>4
  <2>8. ASSUME NEW c \in Replica, SweepMark(c) PROVE HoursInv'
    <3>1. /\ handler' = handler /\ doubled' = doubled
          /\ record' = record \/ record' = [record EXCEPT ![sweep[c].day].status = "absent"]
      BY <2>8 DEF SweepMark, notes
    <3>2. \A d \in Days : /\ record'[d].in = record[d].in /\ record'[d].out = record[d].out
                          /\ record'[d].hours = record[d].hours /\ record'[d].by = record[d].by
      BY <2>1, <3>1 DEF Shape
    <3> QED
      BY <2>2, <3>1, <3>2 DEF Free
  <2>9. ASSUME NEW w \in Worker, NEW q \in Request, NEW decision, DecideRead(w, q, decision)
        PROVE  HoursInv'
    <3> DEFINE h == [Idle EXCEPT !.pc = "decide", !.on = q, !.decision = decision]
    <3>1. h.pc = "decide"
      BY DEF Idle
    <3>2. Start(w, h) /\ record' = record /\ doubled' = doubled
      BY <2>9 DEF DecideRead
    <3> HIDE DEF h
    <3>3. handler'[w] = h /\ \A v \in Worker \ {w} : handler'[v] = handler[v]
      BY <2>1, <3>2, HandlerMoves
    <3> QED
      BY <2>2, <3>1, <3>2, <3>3 DEF Free
  <2>10. ASSUME NEW w \in Worker, DecideWrite(w) \/ Abort(w) PROVE HoursInv'
    <3>1. /\ record' = record /\ doubled' = doubled
          /\ Finish(w) \/ handler' = [handler EXCEPT ![w].pc = "apply"]
      BY <2>10 DEF DecideWrite, Abort, notes
    <3>2. \A v \in Worker : handler'[v] = handler[v] \/ handler'[v].pc \in {"idle", "apply"}
      BY <2>1, <3>1, HandlerMoves DEF Shape
    <3> QED
      BY <2>2, <3>1, <3>2 DEF Free
  <2>11. ASSUME \/ UNCHANGED vars
                \/ Tick
                \/ \E q \in Request, d \in Days : \E in, out \in TimesOf(d) : Submit(q, d, in, out)
                \/ \E c \in Replica : SweepStart(c) \/ SweepRead(c) \/ SweepAbort(c)
         PROVE  HoursInv'
    <3>1. handler' = handler /\ record' = record /\ doubled' = doubled
      BY <2>11 DEF vars, notes, Tick, Submit, SweepStart, SweepRead, SweepAbort
    <3> QED
      BY <2>2, <3>1 DEF Free
  <2> QED
    BY <2>3, <2>4, <2>5, <2>6, <2>7, <2>8, <2>9, <2>10, <2>11 DEF Next
<1>3. HoursInv => HoursMatchTimes
  BY DEF HoursInv, RowInv, HoursMatchTimes, Free, Regularized
<1> QED
  BY <1>1, <1>2, <1>3, DayIsSound, PTL DEF Spec

----------------------------------------------------------------------------
\* What the rows of requests hold besides is of no matter here.
RowsInv ==
    /\ DOMAIN request = Request
    /\ \A q \in Request : {"status", "day"} \subseteq DOMAIN request[q] /\ request[q].day \in Days
    /\ aborts \in Nat

\* Only a decision holds a request, and of a request two decisions did not
\* overlap on, it is the only one.
AloneInv ==
    /\ \A w \in Worker : handler[w].pc \notin {"decide", "apply"} => handler[w].on = None
    /\ \A v, w \in Worker :
           handler[v].on \in Request \ overlapped /\ handler[w].on = handler[v].on => v = w

\* What such a decision read still holds.
DecideInv ==
    \A w \in Worker : handler[w].on \in Request \ overlapped =>
        /\ handler[w].pc = "decide" => request[handler[w].on].status = "pending"
        /\ handler[w].pc = "apply" => request[handler[w].on].status = "approved"

RequestInv == RowsInv /\ AloneInv /\ DecideInv

\* However the decisions on a request interleave with everything else, the
\* first is final: only a request whose two decisions overlapped changes again.
THEOREM DecisionsAreFinal == Spec => []RequestInv /\ DecisionIsFinal
<1>1. Init => RequestInv
  <2> SUFFICES ASSUME Init PROVE RequestInv
    OBVIOUS
  <2>1. \A q \in Request : request[q] = NoRequest
    BY DEF Init
  <2>2. \A w \in Worker : handler[w].pc = "idle" /\ handler[w].on = None
    BY DEF Init, Idle
  <2>3. 0 \in Days
    BY BoundAssumption DEF Days
  <2>4. RowsInv
    BY <2>1, <2>3 DEF Init, RowsInv, NoRequest
  <2> QED
    BY <2>2, <2>4, NoneAssumption DEF RequestInv, AloneInv, DecideInv
<1>2. DayInv /\ RequestInv /\ [Next]_vars => RequestInv'
  <2> SUFFICES ASSUME DayInv, RequestInv, [Next]_vars PROVE RequestInv'
    OBVIOUS
  <2>1. Shape /\ HandlerInv /\ RowsInv /\ AloneInv /\ DecideInv
    BY DEF DayInv, RequestInv
  \* A step that begins no decision and decides nothing.
  <2>2. ASSUME RowsInv', overlapped \subseteq overlapped',
               \A q \in Request : request[q].status # "none" => request'[q] = request[q],
               \A w \in Worker : \/ handler'[w] = handler[w]
                                 \/ /\ handler'[w].pc \notin {"decide", "apply"}
                                    /\ handler'[w].on = None
        PROVE  RequestInv'
    <3>1. AloneInv'
      BY <2>1, <2>2, NoneAssumption DEF AloneInv
    <3>2. DecideInv'
      BY <2>1, <2>2, NoneAssumption DEF DecideInv
    <3> QED
      BY <2>2, <3>1, <3>2 DEF RequestInv
  <2>3. ASSUME request' = request, aborts' \in Nat PROVE RowsInv'
    BY <2>1, <2>3 DEF RowsInv
  <2>4. ASSUME NEW w \in Worker, ClockInRead(w) \/ ClockOutRead(w) PROVE RequestInv'
    <3> DEFINE h == [Idle EXCEPT !.pc = "clockIn", !.at = now]
               g == [Idle EXCEPT !.pc = "clockOut", !.at = now, !.in = record[DayOf(now)].in]
    <3>1. /\ h.pc = "clockIn" /\ h.on = None
          /\ g.pc = "clockOut" /\ g.on = None
      BY DEF Idle
    <3>2. /\ Start(w, h) \/ Start(w, g)
          /\ request' = request /\ overlapped' = overlapped /\ aborts' = aborts
      BY <2>4 DEF ClockInRead, ClockOutRead, notes
    <3> HIDE DEF h, g
    <3>3. /\ handler'[w] = h \/ handler'[w] = g
          /\ \A v \in Worker \ {w} : handler'[v] = handler[v]
      BY <2>1, <3>2, HandlerMoves
    <3>4. RowsInv'
      BY <2>1, <2>3, <3>2 DEF RowsInv
    <3> QED
      BY <2>2, <3>1, <3>2, <3>3, <3>4
  <2>5. ASSUME NEW w \in Worker, ClockInWrite(w) \/ ClockOutWrite(w) \/ DecideApply(w) \/ Abort(w)
        PROVE  RequestInv'
    <3>1. /\ Finish(w) /\ request' = request /\ overlapped' = overlapped
          /\ aborts' = aborts \/ aborts' = aborts + 1
      BY <2>5 DEF ClockInWrite, ClockOutWrite, DecideApply, Abort, notes
    <3>2. RowsInv'
      BY <2>1, <2>3, <3>1 DEF RowsInv
    <3> QED
      BY <2>1, <2>2, <3>1, <3>2, HandlerMoves
  <2>6. ASSUME NEW w \in Worker, NEW q \in Request, NEW decision, DecideRead(w, q, decision)
        PROVE  RequestInv'
    <3> DEFINE h == [Idle EXCEPT !.pc = "decide", !.on = q, !.decision = decision]
    <3>1. h.pc = "decide" /\ h.on = q
      BY DEF Idle
    <3>2. /\ Start(w, h) /\ request' = request /\ aborts' = aborts
          /\ request[q].status = "pending"
          /\ overlapped \subseteq overlapped'
          /\ q \notin overlapped' => \A v \in Worker : handler[v].on # q
      BY <2>6 DEF DecideRead
    <3> HIDE DEF h
    <3>3. handler'[w] = h /\ \A v \in Worker \ {w} : handler'[v] = handler[v]
      BY <2>1, <3>2, HandlerMoves
    <3>4. RowsInv'
      BY <2>1, <2>3, <3>2 DEF RowsInv
    <3>5. AloneInv'
      BY <2>1, <3>1, <3>2, <3>3 DEF AloneInv
    <3>6. DecideInv'
      BY <2>1, <3>1, <3>2, <3>3 DEF DecideInv
    <3> QED
      BY <3>4, <3>5, <3>6 DEF RequestInv
  <2>7. ASSUME NEW w \in Worker, DecideWrite(w) PROVE RequestInv'
    <3>1. PICK q \in Request : q = handler[w].on
      BY <2>1, <2>7 DEF DecideWrite, HandlerInv
    <3>2. /\ handler[w].pc = "decide" /\ overlapped' = overlapped /\ aborts' = aborts
          /\ request' = [request EXCEPT ![q].status = handler[w].decision]
          /\ IF handler[w].decision = "approved"
             THEN handler' = [handler EXCEPT ![w].pc = "apply"] ELSE Finish(w)
      BY <2>7, <3>1 DEF DecideWrite, notes
    <3>3. /\ DOMAIN request' = Request
          /\ \A p \in Request : DOMAIN request'[p] = DOMAIN request[p]
                                /\ request'[p].day = request[p].day
          /\ \A p \in Request \ {q} : request'[p] = request[p]
          /\ request'[q].status = handler[w].decision
      BY <2>1, <3>2 DEF RowsInv
    <3>4. /\ \A v \in Worker \ {w} : handler'[v] = handler[v]
          /\ \/ /\ handler'[w].pc = "apply" /\ handler'[w].on = q
                /\ handler[w].decision = "approved"
             \/ handler'[w].pc = "idle" /\ handler'[w].on = None
      <4>1. CASE handler' = [handler EXCEPT ![w].pc = "apply"] /\ handler[w].decision = "approved"
        BY <2>1, <3>1, <4>1 DEF Shape
      <4>2. CASE Finish(w)
        BY <2>1, <4>2, HandlerMoves
      <4> QED
        BY <3>2, <4>1, <4>2
    <3>5. RowsInv'
      BY <2>1, <3>2, <3>3 DEF RowsInv
    <3>6. AloneInv'
      BY <2>1, <3>1, <3>2, <3>4, NoneAssumption DEF AloneInv
    <3>7. \A v \in Worker \ {w} : handler[v].on \in Request \ overlapped => handler[v].on # q
      BY <2>1, <3>1 DEF AloneInv
    <3>8. DecideInv'
      BY <2>1, <3>1, <3>2, <3>3, <3>4, <3>7, NoneAssumption DEF DecideInv
    <3> QED
      BY <3>5, <3>6, <3>8 DEF RequestInv
  <2>8. ASSUME NEW q \in Request, NEW d \in Days, NEW in, NEW out, Submit(q, d, in, out)
        PROVE  RequestInv'
    <3> DEFINE row == [status |-> "pending", day |-> d, in |-> in, out |-> out]
    <3>1. /\ request[q] = NoRequest /\ request' = [request EXCEPT ![q] = row]
          /\ handler' = handler /\ overlapped' = overlapped /\ aborts' = aborts
      BY <2>8 DEF Submit, notes
    <3>2. request[q].status = "none"
      BY <3>1 DEF NoRequest
    <3>3. {"status", "day"} \subseteq DOMAIN row /\ row.day = d
      OBVIOUS
    <3> HIDE DEF row
    <3>4. RowsInv'
      BY <2>1, <3>1, <3>3 DEF RowsInv
    <3>5. \A p \in Request : request[p].status # "none" => request'[p] = request[p]
      BY <2>1, <3>1, <3>2 DEF RowsInv
    <3> QED
      BY <2>2, <3>1, <3>4, <3>5
  <2>9. ASSUME \/ UNCHANGED vars
               \/ Tick
               \/ \E c \in Replica : \/ SweepStart(c) \/ SweepRead(c)
                                     \/ SweepMark(c) \/ SweepAbort(c)
        PROVE  RequestInv'
    <3>1. /\ handler' = handler /\ request' = request /\ overlapped' = overlapped
          /\ aborts' = aborts \/ aborts' = aborts + 1
      BY <2>9 DEF vars, notes, Tick, SweepStart, SweepRead, SweepMark, SweepAbort
    <3>2. RowsInv'
      BY <2>1, <2>3, <3>1 DEF RowsInv
    <3> QED
      BY <2>2, <3>1, <3>2
  <2> QED
    BY <2>4, <2>5, <2>6, <2>7, <2>8, <2>9 DEF Next
\* A row that is decided changes only at the hands of a second decision.
<1> DEFINE Final == \A q \in Request \ overlapped' :
                        request[q].status \in {"approved", "rejected"} => request'[q] = request[q]
<1>3. DayInv /\ RequestInv /\ [Next]_vars => [Final]_vars
  <2> SUFFICES ASSUME DayInv, RequestInv, Next PROVE Final
    OBVIOUS
  <2>1. HandlerInv /\ RowsInv /\ DecideInv
    BY DEF DayInv, RequestInv
  <2>2. ASSUME NEW w \in Worker, DecideWrite(w) PROVE Final
    <3>1. PICK q \in Request : q = handler[w].on
      BY <2>1, <2>2 DEF DecideWrite, HandlerInv
    <3>2. /\ handler[w].pc = "decide" /\ overlapped' = overlapped
          /\ request' = [request EXCEPT ![q].status = handler[w].decision]
      BY <2>2, <3>1 DEF DecideWrite, notes
    <3>3. \A p \in Request \ {q} : request'[p] = request[p]
      BY <2>1, <3>2 DEF RowsInv
    <3>4. q \in overlapped \/ request[q].status = "pending"
      BY <2>1, <3>1, <3>2 DEF DecideInv
    <3> QED
      BY <3>2, <3>3, <3>4
  <2>3. ASSUME NEW q \in Request, NEW d \in Days, NEW in, NEW out, Submit(q, d, in, out)
        PROVE  Final
    <3>1. /\ request[q] = NoRequest
          /\ \E row : request' = [request EXCEPT ![q] = row]
      BY <2>3 DEF Submit
    <3> QED
      BY <2>1, <3>1 DEF RowsInv, NoRequest
  <2>4. ASSUME request' = request PROVE Final
    BY <2>4
  <2> HIDE DEF Final
  <2> QED
    BY <2>2, <2>3, <2>4
       DEF Next, ClockInRead, ClockInWrite, ClockOutRead, ClockOutWrite, DecideRead, DecideApply,
           Abort, SweepStart, SweepRead, SweepMark, SweepAbort, Tick
<1> QED
  BY <1>1, <1>2, <1>3, DayIsSound, PTL DEF Spec, DecisionIsFinal

----------------------------------------------------------------------------
Applying(q) == {w \in Worker : handler[w].pc = "apply" /\ handler[w].on = q}

\* An approval that no handler is still carrying out shows in the record.
ShownInv ==
    aborts = 0 =>
        \A q \in Request \ (overlapped \union early) :
            request[q].status = "approved" /\ Applying(q) = {} =>
                record[request[q].day].status = "present" /\ record[request[q].day].by # None

\* Once no handler is in flight an approved regularization shows in the
\* record: nothing takes the day back, whatever sweep, clock-in or other
\* decision wrote it since.
THEOREM ApprovalsShow == Spec => []ApprovedShows
<1>1. Init => ShownInv
  <2> SUFFICES ASSUME Init PROVE ShownInv
    OBVIOUS
  <2>1. \A q \in Request : request[q].status = "none"
    BY DEF Init, NoRequest
  <2> QED
    BY <2>1 DEF ShownInv
<1>2. DayInv /\ RequestInv /\ ShownInv /\ [Next]_vars => ShownInv'
  <2> SUFFICES ASSUME DayInv, RequestInv, ShownInv, [Next]_vars PROVE ShownInv'
    OBVIOUS
  <2>1. Shape /\ HandlerInv /\ RowsInv
    BY DEF DayInv, RequestInv
  \* A step that approves nothing, takes no day back and ends no approval.
  <2>2. ASSUME aborts' = aborts, overlapped \subseteq overlapped', early \subseteq early',
               \A q \in Request : request'[q].status = "approved" =>
                   request'[q] = request[q] \/ Applying(q)' # {},
               \A q \in Request : Applying(q) \subseteq Applying(q)',
               \A d \in Days : record[d].status = "present" /\ record[d].by # None =>
                   record'[d].status = "present" /\ record'[d].by # None
        PROVE  ShownInv'
    <3> SUFFICES ASSUME aborts = 0, NEW q \in Request \ (overlapped' \union early'),
                        request'[q].status = "approved", Applying(q)' = {}
                 PROVE  record'[request'[q].day].status = "present" /\ record'[request'[q].day].by # None
      BY <2>2 DEF ShownInv
    <3>1. request'[q] = request[q] /\ Applying(q) = {} /\ request[q].day \in Days
      BY <2>1, <2>2 DEF RowsInv
    <3>2. record[request[q].day].status = "present" /\ record[request[q].day].by # None
      BY <2>2, <3>1 DEF ShownInv
    <3> QED
      BY <2>2, <3>1, <3>2
  <2>3. ASSUME NEW w \in Worker, handler[w].pc # "apply",
               \A v \in Worker \ {w} : handler'[v] = handler[v]
        PROVE  \A q \in Request : Applying(q) \subseteq Applying(q)'
    BY <2>3 DEF Applying
  <2>4. ASSUME record' = record
        PROVE  \A d \in Days : record[d].status = "present" /\ record[d].by # None =>
                   record'[d].status = "present" /\ record'[d].by # None
    BY <2>4
  <2>5. ASSUME NEW w \in Worker, NEW h, Start(w, h), record' = record, request' = request,
               aborts' = aborts, overlapped \subseteq overlapped', early' = early
        PROVE  ShownInv'
    <3>1. handler[w].pc # "apply" /\ \A v \in Worker \ {w} : handler'[v] = handler[v]
      BY <2>1, <2>5, HandlerMoves DEF Start, Idle
    <3> QED
      BY <2>2, <2>3, <2>4, <2>5, <3>1
  <2>6. ASSUME NEW w \in Worker,
               \/ ClockInRead(w) \/ ClockOutRead(w)
               \/ \E q \in Request, decision \in {"approved", "rejected"} : DecideRead(w, q, decision)
        PROVE  ShownInv'
    <3>1. \E h : /\ Start(w, h) /\ record' = record /\ request' = request
                 /\ aborts' = aborts /\ overlapped \subseteq overlapped' /\ early' = early
      BY <2>6 DEF ClockInRead, ClockOutRead, DecideRead, notes
    <3> QED
      BY <2>5, <3>1
  <2>7. ASSUME NEW w \in Worker, ClockInWrite(w) \/ ClockOutWrite(w) PROVE ShownInv'
    <3>1. PICK D, t, x :
              \/ record' = [record EXCEPT ![D].in = t, ![D].status = "present"]
              \/ record' = [record EXCEPT ![D].out = t, ![D].hours = x]
      BY <2>7 DEF ClockInWrite, ClockOutWrite
    <3>2. /\ handler[w].pc # "apply" /\ Finish(w) /\ request' = request
          /\ aborts' = aborts /\ overlapped' = overlapped /\ early' = early
      BY <2>7 DEF ClockInWrite, ClockOutWrite, notes
    <3>3. \A d \in Days : record[d].status = "present" /\ record[d].by # None =>
              record'[d].status = "present" /\ record'[d].by # None
      <4>1. CASE record' = [record EXCEPT ![D].in = t, ![D].status = "present"]
        BY <2>1, <4>1 DEF Shape
      <4>2. CASE record' = [record EXCEPT ![D].out = t, ![D].hours = x]
        BY <2>1, <4>2 DEF Shape
      <4> QED
        BY <3>1, <4>1, <4>2
    <3>4. \A v \in Worker \ {w} : handler'[v] = handler[v]
      BY <2>1, <3>2, HandlerMoves
    <3> QED
      BY <2>2, <2>3, <3>2, <3>3, <3>4
  <2>8. ASSUME NEW w \in Worker, DecideWrite(w) PROVE ShownInv'
    <3>1. PICK p \in Request : p = handler[w].on
      BY <2>1, <2>8 DEF DecideWrite, HandlerInv
    <3>2. /\ handler[w].pc = "decide" /\ record' = record
          /\ aborts' = aborts /\ overlapped' = overlapped /\ early' = early
          /\ request' = [request EXCEPT ![p].status = handler[w].decision]
          /\ IF handler[w].decision = "approved"
             THEN handler' = [handler EXCEPT ![w].pc = "apply"] ELSE Finish(w)
      BY <2>8, <3>1 DEF DecideWrite, notes
    <3>3. /\ \A q \in Request \ {p} : request'[q] = request[q]
          /\ request'[p].status = handler[w].decision
      BY <2>1, <3>2 DEF RowsInv
    <3>4. \A v \in Worker \ {w} : handler'[v] = handler[v]
      BY <2>1, <3>2, HandlerMoves DEF Shape
    <3>5. handler[w].decision = "approved" => w \in Applying(p)'
      BY <2>1, <3>1, <3>2 DEF Shape, Applying
    <3> QED
      BY <2>2, <2>3, <2>4, <3>2, <3>3, <3>4, <3>5
  <2>9. ASSUME NEW w \in Worker, DecideApply(w) PROVE ShownInv'
    <3>1. PICK p \in Request : p = handler[w].on
      BY <2>1, <2>9 DEF DecideApply, HandlerInv
    <3>2. PICK D \in Days : D = request[p].day
      BY <2>1 DEF RowsInv
    <3>3. /\ Finish(w) /\ request' = request /\ aborts' = aborts /\ overlapped' = overlapped
          /\ \/ record' = record /\ early' = early \union {p}
             \/ /\ record' = [record EXCEPT ![D].in = Or(request[p].in, @),
                                            ![D].out = Or(request[p].out, @),
                                            ![D].status = "present", ![D].by = p]
                /\ early' = early
      BY <2>9, <3>1, <3>2 DEF DecideApply
    <3>4. \A q \in Request \ {p} : Applying(q) \subseteq Applying(q)'
      <4>1. \A v \in Worker \ {w} : handler'[v] = handler[v]
        BY <2>1, <3>3, HandlerMoves
      <4>2. \A q \in Request \ {p} : w \notin Applying(q)
        BY <3>1 DEF Applying
      <4> QED
        BY <4>1, <4>2 DEF Applying
    <3>5. \A d \in Days : record[d].status = "present" /\ record[d].by # None =>
              record'[d].status = "present" /\ record'[d].by # None
      <4>1. CASE record' = record
        BY <2>4, <4>1
      <4>2. CASE record' = [record EXCEPT ![D].in = Or(request[p].in, @),
                                          ![D].out = Or(request[p].out, @),
                                          ![D].status = "present", ![D].by = p]
        BY <2>1, <4>2, NoneAssumption DEF Shape
      <4> QED
        BY <3>3, <4>1, <4>2
    <3>6. p \notin early' => record'[D].status = "present" /\ record'[D].by # None
      <4>1. ASSUME p \notin early'
            PROVE  record' = [record EXCEPT ![D].in = Or(request[p].in, @),
                                            ![D].out = Or(request[p].out, @),
                                            ![D].status = "present", ![D].by = p]
        BY <3>3, <4>1
      <4> QED
        BY <2>1, <4>1, NoneAssumption DEF Shape
    <3> SUFFICES ASSUME aborts = 0, NEW q \in Request \ (overlapped \union early'),
                        request[q].status = "approved", Applying(q)' = {}
                 PROVE  record'[request[q].day].status = "present" /\ record'[request[q].day].by # None
      BY <3>3 DEF ShownInv
    <3>7. CASE q = p
      BY <3>2, <3>6, <3>7
    <3>8. CASE q # p
      <4>1. q \notin early /\ Applying(q) = {} /\ request[q].day \in Days
        BY <2>1, <3>3, <3>4, <3>8 DEF RowsInv
      <4>2. record[request[q].day].status = "present" /\ record[request[q].day].by # None
        BY <4>1 DEF ShownInv
      <4> QED
        BY <3>5, <4>1, <4>2
    <3> QED
      BY <3>7, <3>8
  <2>10. ASSUME NEW w \in Worker, Abort(w) PROVE ShownInv'
    BY <2>1, <2>10 DEF Abort, RowsInv, ShownInv
  <2>11. ASSUME NEW c \in Replica, SweepAbort(c) PROVE ShownInv'
    BY <2>1, <2>11 DEF SweepAbort, RowsInv, ShownInv
  <2>12. ASSUME NEW c \in Replica, SweepMark(c) PROVE ShownInv'
    <3>1. PICK D : D = sweep[c].day
      OBVIOUS
    <3>2. /\ handler' = handler /\ request' = request /\ aborts' = aborts
          /\ overlapped' = overlapped /\ early' = early
          /\ record' = IF record[D].status = "none"
                       THEN [record EXCEPT ![D].status = "absent"] ELSE record
      BY <2>12, <3>1 DEF SweepMark, notes
    <3>3. \A d \in Days : record[d].status = "present" /\ record[d].by # None =>
              record'[d].status = "present" /\ record'[d].by # None
      BY <2>1, <3>2 DEF Shape
    <3>4. \A q \in Request : Applying(q) \subseteq Applying(q)'
      BY <3>2 DEF Applying
    <3> QED
      BY <2>2, <3>2, <3>3, <3>4
  <2>13. ASSUME NEW q \in Request, NEW d \in Days, NEW in, NEW out, Submit(q, d, in, out)
         PROVE  ShownInv'
    <3>1. PICK row : /\ request' = [request EXCEPT ![q] = row] /\ row.status = "pending"
                     /\ handler' = handler /\ record' = record /\ aborts' = aborts
                     /\ overlapped' = overlapped /\ early' = early
      BY <2>13 DEF Submit, notes
    <3>2. \A p \in Request : request'[p].status = "approved" => request'[p] = request[p]
      BY <2>1, <3>1 DEF RowsInv
    <3>3. \A p \in Request : Applying(p) \subseteq Applying(p)'
      BY <3>1 DEF Applying
    <3> QED
      BY <2>2, <2>4, <3>1, <3>2, <3>3
  <2>14. ASSUME \/ UNCHANGED vars
                \/ Tick
                \/ \E c \in Replica : SweepStart(c) \/ SweepRead(c)
         PROVE  ShownInv'
    <3>1. /\ handler' = handler /\ request' = request /\ record' = record /\ aborts' = aborts
          /\ overlapped' = overlapped /\ early' = early
      BY <2>14 DEF vars, notes, Tick, SweepStart, SweepRead
    <3> QED
      BY <3>1 DEF ShownInv, Applying
  <2> QED
    BY <2>6, <2>7, <2>8, <2>9, <2>10, <2>11, <2>12, <2>13, <2>14 DEF Next
<1>3. ShownInv => ApprovedShows
  <2>1. (\A w \in Worker : handler[w] = Idle) => \A q \in Request : Applying(q) = {}
    BY DEF Applying, Idle
  <2> QED
    BY <2>1 DEF ShownInv, ApprovedShows, Regularized
<1> QED
  BY <1>1, <1>2, <1>3, DayIsSound, DecisionsAreFinal, PTL DEF Spec
=============================================================================
