---------------------------- MODULE Performance -----------------------------
(***************************************************************************)
(* PerformanceService: the goals of an employee in one cycle, whose        *)
(* weights may not add up to more than 100 percent, the check-ins on them, *)
(* and the manager's review of the employee, which HR may override.        *)
(***************************************************************************)
EXTENDS Services, FiniteSetsExt

CONSTANTS
    Goal,     \* primary keys of goals
    Full,     \* 100 percent, in units of the smallest weight
    Weights,  \* weights that are asked for
    Ratings   \* ratings, and actual values of check-ins

ASSUME PerformanceAssumption ==
    /\ IsFiniteSet(Goal) /\ None \notin Goal
    /\ Full \in Nat /\ Weights \subseteq 0..Full /\ Weights # {}

NoGoal == [of |-> None, weight |-> 0, actual |-> None, latest |-> None]

PerformanceInit ==
    /\ office = "performance"
    /\ db = [goal |-> [g \in Goal |-> NoGoal], rating |-> [e \in Employee |-> None]]
    /\ InitHandlers

GoalsOf(e) == {g \in Goal : db.goal[g].of = e}
TotalWeight(e) == MapThenSumSet(LAMBDA g : db.goal[g].weight, GoalsOf(e))

\* Fault: the room that is left is not reduced by the new goal.
CreateGoalReadBefore(w, e, weight) ==
    /\ office = "performance"
    /\ TotalWeight(e) < Full
    /\ Start(w, [pc |-> "createGoal", on |-> e, weight |-> weight])

CreateGoalRead(w, e, weight) ==
    /\ office = "performance"
    /\ TotalWeight(e) + weight =< Full
    /\ Start(w, [pc |-> "createGoal", on |-> e, weight |-> weight])

CreateGoalInsert(w, g) ==
    LET h == handler[w] IN
    /\ At(w, "createGoal")
    /\ db.goal[g] = NoGoal
    /\ db' = [db EXCEPT !.goal[g] = [NoGoal EXCEPT !.of = h.on, !.weight = h.weight]]
    /\ Finish(w)

\* The goal is found, and the check-in is inserted; a goal keeps its latest.
\* A check-in that is only a note is no more than that.
CheckIn(w, g, value) ==
    /\ office = "performance"
    /\ db.goal[g] # NoGoal
    /\ db' = [db EXCEPT !.goal[g].latest = value]
    /\ Begin(w, [pc |-> "checkIn", on |-> g, value |-> value])

CheckInUpdateGoal(w) ==
    LET h == handler[w] IN
    /\ At(w, "checkIn")
    /\ db' = [db EXCEPT !.goal[h.on].actual = h.value]
    /\ Finish(w)

\* findFirst on the key of the review; `read` is whether there is one.
ReviewRead(w, e, rating) ==
    /\ office = "performance"
    /\ Start(w, [pc |-> "review", on |-> e, rating |-> rating,
                 read |-> db.rating[e] # None])

\* The update of a review that is there, submitted or overridden, or the
\* insert, which is refused when the key has been taken meanwhile.
ReviewWrite(w) ==
    LET h == handler[w] IN
    /\ At(w, "review")
    /\ db' = IF h.read \/ db.rating[h.on] = None THEN [db EXCEPT !.rating[h.on] = h.rating] ELSE db
    /\ Finish(w)

OverrideRead(w, e, rating) ==
    /\ office = "performance"
    /\ db.rating[e] # None
    /\ Start(w, [pc |-> "override", on |-> e, rating |-> rating])

OverrideWrite(w) ==
    LET h == handler[w] IN
    /\ At(w, "override")
    /\ db' = [db EXCEPT !.rating[h.on] = h.rating]
    /\ Finish(w)

PerformanceStep(w) ==
    \/ \E e \in Employee :
        \/ \E weight \in Weights : CreateGoalRead(w, e, weight)
        \/ \E rating \in Ratings : ReviewRead(w, e, rating) \/ OverrideRead(w, e, rating)
    \/ \E g \in Goal : CreateGoalInsert(w, g) \/ \E value \in Ratings : CheckIn(w, g, value)
    \/ CheckInUpdateGoal(w) \/ ReviewWrite(w) \/ OverrideWrite(w)

PerformanceNext == \E w \in Worker : PerformanceStep(w) \/ Abort(w)
PerformanceSpec == PerformanceInit /\ [][PerformanceNext]_vars

----------------------------------------------------------------------------
PerformanceTypeOK ==
    /\ db \in [goal : [Goal -> [of : Employee \union {None}, weight : 0..Full,
                                actual : Ratings \union {None}, latest : Ratings \union {None}]],
               rating : [Employee -> Ratings \union {None}]]
    /\ handler \in [Worker -> [pc : {"idle"}, on : {None}]
           \union [pc : {"createGoal"}, on : Employee, weight : Weights]
           \union [pc : {"checkIn"}, on : Goal, value : Ratings]
           \union [pc : {"review"}, on : Employee, rating : Ratings, read : BOOLEAN]
           \union [pc : {"override"}, on : Employee, rating : Ratings]]

\* The goals of an employee weigh at most 100 percent; when creations
\* overlapped they may weigh more, by one goal of the largest weight for each
\* handler beyond the first, and never by more.
WeightBounded ==
    office = "performance" => \A e \in Employee :
        TotalWeight(e) =< IF e \in overlapped THEN Full + (Cardinality(Worker) - 1) * Max(Weights)
                          ELSE Full
=============================================================================
