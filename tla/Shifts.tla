------------------------------- MODULE Shifts -------------------------------
(***************************************************************************)
(* AttendanceService.assignShift: the rows of shift_assignments.  The      *)
(* assignments without an end are ended the day before the new one begins, *)
(* and the new one is inserted by a second call.                           *)
(***************************************************************************)
EXTENDS Services

CONSTANTS
    Slot,      \* primary keys of shift_assignments
    LastDate   \* bound: dates are 0..LastDate

ASSUME ShiftsAssumption ==
    IsFiniteSet(Slot) /\ LastDate \in Nat

ShiftDates == 0..LastDate
NoShift == [of |-> None, from |-> None, to |-> None]

ShiftsInit ==
    /\ office = "shifts"
    /\ db = [shift |-> [i \in Slot |-> NoShift]]
    /\ InitHandlers

\* The open-ended assignments of an employee.
Open(e) == {i \in Slot : db.shift[i].of = e /\ db.shift[i].to = None}

Assigning(e, from, to) == [pc |-> "assignShift", on |-> e, from |-> from, to |-> to]

\* Fault: only the assignments that began before the new one are ended.
EndEarlierShifts(w, e, from, to) ==
    /\ office = "shifts"
    /\ db' = [db EXCEPT !.shift = [i \in Slot |->
                 IF i \in Open(e) /\ @[i].from < from THEN [@[i] EXCEPT !.to = from - 1]
                 ELSE @[i]]]
    /\ Begin(w, Assigning(e, from, to))

\* updateMany: what is open now ends the day before, whenever it began.
EndOpenShifts(w, e, from, to) ==
    /\ office = "shifts"
    /\ db' = [db EXCEPT !.shift = [i \in Slot |->
                 IF i \in Open(e) THEN [@[i] EXCEPT !.to = from - 1] ELSE @[i]]]
    /\ Begin(w, Assigning(e, from, to))

InsertShift(w, i) ==
    LET h == handler[w] IN
    /\ At(w, "assignShift")
    /\ db.shift[i] = NoShift
    /\ db' = [db EXCEPT !.shift[i] = [of |-> h.on, from |-> h.from, to |-> h.to]]
    /\ Finish(w)

ShiftsStep(w) ==
    \/ \E e \in Employee, from \in ShiftDates, to \in ShiftDates \union {None} :
        EndOpenShifts(w, e, from, to)
    \/ \E i \in Slot : InsertShift(w, i)

ShiftsNext == \E w \in Worker : ShiftsStep(w) \/ Abort(w)
ShiftsSpec == ShiftsInit /\ [][ShiftsNext]_vars

----------------------------------------------------------------------------
ShiftRow == [of : Employee, from : ShiftDates, to : -1..LastDate \union {None}]

ShiftsTypeOK ==
    /\ db \in [shift : [Slot -> ShiftRow \union {NoShift}]]
    /\ handler \in [Worker -> [pc : {"idle"}, on : {None}]
           \union [pc : {"assignShift"}, on : Employee, from : ShiftDates,
                   to : ShiftDates \union {None}]]

\* An employee has one open-ended shift, in whatever order the dates of the
\* assignments come; as many as there are handlers when two assignments of
\* the employee overlapped, and never more.
OneOpenShift ==
    office = "shifts" => \A e \in Employee :
        Cardinality(Open(e)) =< IF e \in overlapped THEN Cardinality(Worker) ELSE 1
=============================================================================
