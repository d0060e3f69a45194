----------------------------- MODULE Employees ------------------------------
(***************************************************************************)
(* EmployeeService: the rows of employees and the user accounts made for   *)
(* them.  create inserts the account and the employee in two calls, with a *)
(* code taken from a count of the rows; update writes any column; the      *)
(* organisation chart is built from the managers of the active employees.  *)
(***************************************************************************)
EXTENDS Services

CONSTANTS
    Email,   \* work e-mail addresses
    Founder  \* one of them: that of the first employee of the seed

ASSUME EmployeesAssumption == Founder \in Email /\ IsFiniteSet(Employee)

\* `renamed` is auxiliary: the address was changed.
NoEmployee == [email |-> None, user |-> None, code |-> 0, status |-> "none",
               deleted |-> FALSE, manager |-> None, renamed |-> FALSE]

\* The seed: an account and an active employee without a manager.
EmployeesInit ==
    /\ office = "employees"
    /\ \E p \in Employee :
        db = [user |-> {Founder},
              employee |-> [q \in Employee |-> IF q # p THEN NoEmployee ELSE
                  [NoEmployee EXCEPT !.email = Founder, !.user = Founder, !.code = 1,
                                     !.status = "active"]]]
    /\ InitHandlers

Rows == {p \in Employee : db.employee[p] # NoEmployee}
Live == {p \in Rows : ~db.employee[p].deleted}

\* No live employee has the address.
CreateRead(w, e) ==
    /\ office = "employees"
    /\ \A p \in Live : db.employee[p].email # e
    /\ Start(w, [pc |-> "count", on |-> "code", email |-> e, code |-> 0])

\* Fault: the codes of deleted employees are given again.
CreateCountLive(w) ==
    /\ At(w, "count")
    /\ UNCHANGED db
    /\ Goto(w, [handler[w] EXCEPT !.pc = "insertUser", !.code = Cardinality(Live) + 1])

\* The code is one more than there are rows, deleted or not.
CreateCount(w) ==
    /\ At(w, "count")
    /\ UNCHANGED db
    /\ Goto(w, [handler[w] EXCEPT !.pc = "insertUser", !.code = Cardinality(Rows) + 1])

InsertUser(w) ==
    LET h == handler[w] IN
    /\ At(w, "insertUser")
    /\ h.email \notin db.user
    /\ db' = [db EXCEPT !.user = @ \union {h.email}]
    /\ Goto(w, [h EXCEPT !.pc = "insertEmployee"])

\* Addresses and codes are unique, those of deleted employees included.
Unique(h) == \A p \in Rows : db.employee[p].email # h.email /\ db.employee[p].code # h.code

InsertEmployee(w, p) ==
    LET h == handler[w] IN
    /\ At(w, "insertEmployee")
    /\ db.employee[p] = NoEmployee
    /\ Unique(h)
    /\ db' = [db EXCEPT !.employee[p] = [NoEmployee EXCEPT !.email = h.email, !.user = h.email,
                                         !.code = h.code, !.status = "probation"]]
    /\ Finish(w)

\* A unique key is taken: create throws, and the account stays.
InsertRefused(w) ==
    LET h == handler[w] IN
    /\ \/ At(w, "insertUser") /\ h.email \in db.user
       \/ At(w, "insertEmployee") /\ ~Unique(h)
    /\ UNCHANGED db
    /\ Finish(w)

UpdateRead(w, p, change) ==
    /\ office = "employees"
    /\ p \in Live
    /\ change.column = "manager" => change.value \in Rows
    /\ Start(w, [pc |-> "update", on |-> p, change |-> change])

\* Only the columns that were sent change; the account is left alone.
UpdateWrite(w) ==
    LET h == handler[w]
        row == db.employee[h.on] IN
    /\ At(w, "update")
    /\ db' = CASE h.change.column = "manager" ->
                    [db EXCEPT !.employee[h.on].manager = h.change.value]
               [] h.change.column = "status" ->
                    [db EXCEPT !.employee[h.on].status = h.change.value]
               [] h.change.column = "email" ->
                    IF \E p \in Rows \ {h.on} : db.employee[p].email = h.change.value THEN db
                    ELSE [db EXCEPT !.employee[h.on].email = h.change.value,
                                    !.employee[h.on].renamed = TRUE]
    /\ Finish(w)

DeleteRead(w, p) ==
    /\ office = "employees"
    /\ p \in Live
    /\ Start(w, [pc |-> "softDelete", on |-> p])

DeleteWrite(w) ==
    /\ At(w, "softDelete")
    /\ db' = [db EXCEPT !.employee[handler[w].on].deleted = TRUE,
                        !.employee[handler[w].on].status = "terminated"]
    /\ Finish(w)

Changes == [column : {"manager"}, value : Employee] \union [column : {"email"}, value : Email]
               \union [column : {"status"}, value : {"active"}]

EmployeesStep(w) ==
    \/ \E e \in Email : CreateRead(w, e)
    \/ \E p \in Employee : InsertEmployee(w, p) \/ DeleteRead(w, p)
                           \/ \E change \in Changes : UpdateRead(w, p, change)
    \/ CreateCount(w) \/ InsertUser(w) \/ InsertRefused(w) \/ UpdateWrite(w) \/ DeleteWrite(w)

EmployeesNext == \E w \in Worker : EmployeesStep(w) \/ Abort(w)
EmployeesSpec == EmployeesInit /\ [][EmployeesNext]_vars

----------------------------------------------------------------------------
(* getOrgChart.                                                            *)

\* The employees on the chart, which are not those on probation.
Shown == {p \in Live : db.employee[p].status = "active"}

\* Fault: a root is who has no manager, be the manager on the chart or not.
RootsWithoutManager == {p \in Shown : db.employee[p].manager = None}
Roots == {p \in Shown : db.employee[p].manager \notin Shown}

\* The nodes of the trees that hang from the roots, down to depth n.
Charted[n \in Nat] ==
    IF n = 0 THEN Roots
    ELSE Charted[n - 1] \union {p \in Shown : db.employee[p].manager \in Charted[n - 1]}

OrgChart == Charted[Cardinality(Employee)]

\* The managers above everybody, up to n of them; those on the chart count.
Above[n \in Nat] ==
    [p \in Employee |->
        IF n = 0 \/ db.employee[p].manager \notin Shown THEN {}
        ELSE {db.employee[p].manager} \union Above[n - 1][db.employee[p].manager]]

----------------------------------------------------------------------------
EmployeesTypeOK ==
    /\ db \in [user : SUBSET Email,
               employee : [Employee -> [email : Email \union {None}, user : Email \union {None},
                   code : Nat, status : {"none", "probation", "active", "terminated"},
                   deleted : BOOLEAN, manager : Employee \union {None},
                   renamed : BOOLEAN]]]
    /\ \A w \in Worker : handler[w].pc \in {"idle", "count", "insertUser", "insertEmployee",
                                            "update", "softDelete"}

\* Every account is somebody's: an account that no employee has and no create
\* is about to give to one blocks its address for ever.  This takes a create
\* that died, two creates that overlapped and drew one code, or an employee
\* whose address was changed, which the account does not follow.
AccountsAreOwned ==
    office = "employees" =>
        \/ aborts > 0 \/ "code" \in overlapped
        \/ \E p \in Rows : db.employee[p].renamed
        \/ \A u \in db.user : \/ \E p \in Rows : db.employee[p].user = u
                              \/ \E w \in Worker : At(w, "insertEmployee") /\ handler[w].email = u

\* The chart leaves nobody out but those whose managers lead in a circle:
\* also who reports to somebody deleted or on probation is on it.
ChartIsComplete ==
    office = "employees" => \A p \in Shown :
        p \notin OrgChart <=> \E q \in Above[Cardinality(Employee)][p] \union {p} :
                                  q \in Above[Cardinality(Employee)][q]
=============================================================================
