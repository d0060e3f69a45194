----------------------------- MODULE LossOfPay ------------------------------
(***************************************************************************)
(* Loss of pay (LOP): the days of a month for which processPayrollRun does *)
(* not pay an employee, computed from what the attendance and the leave    *)
(* modules left behind.  The month is 1..LastDay; a leave may reach over   *)
(* its ends.                                                               *)
(***************************************************************************)
EXTENDS Integers, FiniteSets, FiniteSetsExt

CONSTANTS
    LastDay,   \* days of the month
    MaxLeaves  \* bound: leave requests

Month == 1..LastDay
Dates == 0..(LastDay + 1)

ASSUME MonthAssumption == LastDay \in Nat \ {0}
ASSUME BoundAssumption == MaxLeaves \in Nat

VARIABLES
    attendance,  \* status of the employee's attendance record of each day
    approved     \* the approved leave requests

vars == <<attendance, approved>>

Leave == {l \in [id : 1..MaxLeaves, from : Dates, to : Dates, paid : BOOLEAN] :
             l.from =< l.to}
DaysOf(l) == l.from .. l.to

Init ==
    /\ attendance = [d \in Month |-> "none"]
    /\ approved = {}

\* clockIn; also the approved regularization of a day.
ClockIn(d) ==
    /\ attendance' = [attendance EXCEPT ![d] = "present"]
    /\ UNCHANGED approved

\* markAbsentees: whoever has no record, on any day of the week and on leave
\* or not.
MarkAbsent(d) ==
    /\ attendance[d] = "none"
    /\ attendance' = [attendance EXCEPT ![d] = "absent"]
    /\ UNCHANGED approved

\* LeaveService.approve: nothing is written to attendance.  Half days count
\* like whole ones here, and create refuses no second request for a day.
Approve(l) ==
    /\ \A m \in approved : m.id # l.id
    /\ approved' = approved \union {l}
    /\ UNCHANGED attendance

\* LeaveService.cancel of an approved request.
Cancel(l) ==
    /\ approved' = approved \ {l}
    /\ UNCHANGED attendance

Next ==
    \/ \E d \in Month : ClockIn(d) \/ MarkAbsent(d)
    \/ \E l \in approved : Cancel(l)
    \/ \E l \in Leave : Approve(l)

Spec == Init /\ [][Next]_vars

----------------------------------------------------------------------------
(* getAttendanceStats.                                                     *)

AbsentDays == {d \in Month : attendance[d] = "absent"}
\* Fault: a leave on the last day is missed.
ApprovedLeaveCountShort == Cardinality({l \in approved : l.from < LastDay /\ l.to >= 1})

ApprovedLeaveCount == Cardinality({l \in approved : l.from =< LastDay /\ l.to >= 1})
\* Fault: the distance, not the excess.
LopDaysDistance ==
    Max({Cardinality(AbsentDays) - ApprovedLeaveCount, ApprovedLeaveCount - Cardinality(AbsentDays)})

LopDays == Max({0, Cardinality(AbsentDays) - ApprovedLeaveCount})

----------------------------------------------------------------------------
TypeOK ==
    /\ attendance \in [Month -> {"none", "absent", "present"}]
    /\ approved \subseteq Leave

Uncovered == {d \in AbsentDays : ~\E l \in approved : l.paid /\ d \in DaysOf(l)}

\* For approved leaves of one paid day each, on different days the employee
\* was marked absent on, LOP is what the comment says it is.
ExactForSingleDays ==
    (/\ \A l \in approved : l.paid /\ l.from = l.to /\ l.from \in AbsentDays
     /\ \A l, m \in approved : l.from = m.from => l = m)
        => LopDays = Cardinality(Uncovered)

\* A day of presence less or a leave less never pays more: pay follows
\* attendance, in whatever order the records and the approvals arrive.
PayIsMonotone ==
    [][/\ AbsentDays \subseteq AbsentDays' /\ approved = approved' => LopDays =< LopDays'
       /\ approved \subseteq approved' /\ AbsentDays = AbsentDays' => LopDays >= LopDays']_vars

\* "LOP = absent days not covered by approved paid leave"
LopIsUncoveredAbsence == LopDays = Cardinality(Uncovered)
=============================================================================
