------------------------------ MODULE Learning ------------------------------
(***************************************************************************)
(* LearningService and the learning page: the rows of course_enrollments   *)
(* of one employee, who may have the page open more than once.  The page   *)
(* sends the progress IT shows, plus a quarter; the API stores what comes. *)
(*                                                                         *)
(* A worker is a page with the call it has in flight: its buttons are      *)
(* disabled until the answer is there.                                     *)
(***************************************************************************)
EXTENDS Services

CONSTANT Course  \* published courses

ASSUME LearningAssumption == None \notin Course

Done == 4  \* 100 percent, in quarters

NotEnrolled == [status |-> "none", progress |-> 0]

LearningInit ==
    /\ office = "learning"
    /\ db = [enrollment |-> [c \in Course |-> NotEnrolled]]
    /\ handler = [w \in Worker |-> Idle]
    /\ page = [w \in Worker |-> [shows |-> [c \in Course |-> NotEnrolled], wrote |-> {}]]
    /\ calls = 0 /\ aborts = 0 /\ overlapped = {}

\* Fault: the button is there for a course that shows as enrolled.
EnrollAgain(w, c) ==
    /\ office = "learning"
    /\ Start(w, [pc |-> "enroll", on |-> c])

\* The button of a course the page shows no enrollment for.
Enroll(w, c) ==
    /\ office = "learning"
    /\ page[w].shows[c] = NotEnrolled
    /\ Start(w, [pc |-> "enroll", on |-> c])

\* The call is executed; the page knows only after its next query.
Wrote(w) ==
    /\ page' = [page EXCEPT ![w].wrote = @ \union {handler[w].on}]
    /\ handler' = [handler EXCEPT ![w] = Idle]
    /\ UNCHANGED <<office, calls, aborts, overlapped>>

\* The upsert: an enrollment that is there gets its first status again.
EnrollUpsert(w) ==
    /\ At(w, "enroll")
    /\ db' = [db EXCEPT !.enrollment[handler[w].on].status = "enrolled"]
    /\ Wrote(w)

MarkProgress(w, c) ==
    /\ office = "learning"
    /\ page[w].shows[c] # NotEnrolled
    /\ Start(w, [pc |-> "progress", on |-> c,
                 to |-> IF page[w].shows[c].progress < Done
                        THEN page[w].shows[c].progress + 1 ELSE Done])

UpdateProgress(w) ==
    LET h == handler[w] IN
    /\ At(w, "progress")
    /\ db' = [db EXCEPT !.enrollment[h.on] =
                 [status |-> IF h.to >= Done THEN "completed" ELSE "in_progress",
                  progress |-> h.to]]
    /\ Wrote(w)

\* The query behind the page is fetched again: after a mutation, or when the
\* window gets the focus.
Refetch(w) ==
    /\ office = "learning"
    /\ page' = [page EXCEPT ![w].shows = db.enrollment]
    /\ UNCHANGED <<office, db, handler, calls, aborts, overlapped>>

LearningStep(w) ==
    \/ \E c \in Course : Enroll(w, c) \/ MarkProgress(w, c)
    \/ EnrollUpsert(w) \/ UpdateProgress(w) \/ Refetch(w)

LearningNext == \E w \in Worker : LearningStep(w) \/ Abort(w)
LearningSpec == LearningInit /\ [][LearningNext]_vars

----------------------------------------------------------------------------
EnrollmentRow == [status : {"none", "enrolled", "in_progress", "completed"}, progress : 0..Done]

LearningTypeOK ==
    /\ db \in [enrollment : [Course -> EnrollmentRow]]
    /\ page \in [Worker -> [shows : [Course -> EnrollmentRow], wrote : SUBSET Course]]
    /\ handler \in [Worker -> [pc : {"idle"}, on : {None}] \union [pc : {"enroll"}, on : Course]
           \union [pc : {"progress"}, on : Course, to : 1..Done]]

\* As long as a learner works on a course from one page, its progress never
\* falls and a completed course stays completed, however late the page's
\* queries are and whichever answers it misses.  A second page that shows
\* the course as it was takes it back.
ProgressIsKept ==
    [][office = "learning" => \A c \in Course :
        (\A v, w \in Worker : c \in page'[v].wrote \intersect page'[w].wrote => v = w) =>
            LET old == db.enrollment[c]
                new == db'.enrollment[c] IN
            /\ old.progress =< new.progress
            /\ old.status = "completed" => new.status = "completed"]_vars
=============================================================================
