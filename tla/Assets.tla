------------------------------- MODULE Assets -------------------------------
(***************************************************************************)
(* AssetsService: the rows of assets and asset_assignments.  An asset is   *)
(* out while one of its assignments has no returnedAt.                     *)
(***************************************************************************)
EXTENDS Services

CONSTANTS
    Asset,       \* asset codes
    Assignment   \* primary keys of asset_assignments

ASSUME AssetsAssumption == None \notin Asset /\ IsFiniteSet(Assignment)

NoAssignment == [of |-> None, returned |-> FALSE]

AssetsInit ==
    /\ office = "assets"
    /\ db = [asset |-> {}, assignment |-> [i \in Assignment |-> NoAssignment]]
    /\ InitHandlers

\* The assignments of a that are not returned.
Out(a) == {i \in Assignment : db.assignment[i] = [of |-> a, returned |-> FALSE]}

\* One insert; (tenantId, assetCode) is unique.
CreateAsset(a) ==
    /\ office = "assets"
    /\ a \notin db.asset
    /\ db' = [db EXCEPT !.asset = @ \union {a}]
    /\ Call

\* Fault: assign does not look for an assignment that is out.
AssignReadUnchecked(w, a) ==
    /\ office = "assets"
    /\ a \in db.asset
    /\ Start(w, [pc |-> "assign", on |-> a])

\* Promise.all of the asset, the employee and the assignment that is out.
AssignRead(w, a) ==
    /\ office = "assets"
    /\ a \in db.asset
    /\ Out(a) = {}
    /\ Start(w, [pc |-> "assign", on |-> a])

AssignCreate(w, i) ==
    /\ At(w, "assign")
    /\ db.assignment[i] = NoAssignment
    /\ db' = [db EXCEPT !.assignment[i] = [of |-> handler[w].on, returned |-> FALSE]]
    /\ Finish(w)

ReturnRead(w, i) ==
    /\ office = "assets"
    /\ db.assignment[i].of # None
    /\ ~db.assignment[i].returned
    /\ Start(w, [pc |-> "return", on |-> i])

\* update by id: a second return is written again.
ReturnWrite(w) ==
    /\ At(w, "return")
    /\ db' = [db EXCEPT !.assignment[handler[w].on].returned = TRUE]
    /\ Finish(w)

AssetsStep(w) ==
    \/ \E a \in Asset : AssignRead(w, a)
    \/ \E i \in Assignment : AssignCreate(w, i) \/ ReturnRead(w, i)
    \/ ReturnWrite(w)

AssetsNext ==
    \/ \E a \in Asset : CreateAsset(a)
    \/ \E w \in Worker : AssetsStep(w) \/ Abort(w)

AssetsSpec == AssetsInit /\ [][AssetsNext]_vars

----------------------------------------------------------------------------
AssetsTypeOK ==
    /\ office = "assets"
    /\ db \in [asset : SUBSET Asset,
               assignment : [Assignment -> [of : Asset \union {None}, returned : BOOLEAN]]]
    /\ handler \in [Worker -> [pc : {"idle"}, on : {None}] \union [pc : {"assign"}, on : Asset]
                               \union [pc : {"return"}, on : Assignment]]
    /\ calls \in Nat /\ aborts \in Nat

\* An asset is with one employee at a time; with as many as there are
\* handlers when two assigns of it overlapped, and never with more.
HoldersBounded ==
    office = "assets" => \A a \in Asset :
        Cardinality(Out(a)) =< IF a \in overlapped THEN Cardinality(Worker) ELSE 1
=============================================================================
