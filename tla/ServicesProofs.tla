---------------------------- MODULE ServicesProofs ---------------------------
(***************************************************************************)
(* Theorems about the smaller services, for every set of handlers and rows.*)
(*                                                                         *)
(* Assets, Shifts and Performance check for, or end, an open row in one    *)
(* call and insert a new one in the next.  The invariants count what is in *)
(* the rows of a key together with the handlers that are about to insert:  *)
(* an insert moves one from the handlers to the rows, and a handler only   *)
(* begins when there is room.                                              *)
(*                                                                         *)
(* In the others a handler or a page reads a row, waits, and writes what   *)
(* it makes of the copy.  What a copy is worth depends on whether the      *)
(* handler was alone with the row: the invariants say that the copy of a   *)
(* handler whose row was never overlapped is still what the row holds.     *)
(*                                                                         *)
(* Each theorem is about one office; the last one, OneOffice, carries them *)
(* over to the specification of all of them.                               *)
(***************************************************************************)
EXTENDS Backoffice, Sums

----------------------------------------------------------------------------
(* Cardinalities.                                                          *)

\* What a key may have: one row or insert, unless handlers overlapped on it.
Limit(key) == IF key \in overlapped THEN Cardinality(Worker) ELSE 1

Inserting(pc, key) == {w \in Worker : handler[w].pc = pc /\ handler[w].on = key}

\* A set of handlers is finite, and no larger than that of all of them.
LEMMA WorkerCount ==
    ASSUME NEW S \in SUBSET Worker
    PROVE  /\ IsFiniteSet(S)
           /\ Cardinality(S) \in Nat /\ Cardinality(Worker) \in Nat
           /\ Cardinality(S) =< Cardinality(Worker)
           /\ S # {} => Cardinality(S) >= 1 /\ Cardinality(Worker) >= 1
<1>1. S \subseteq Worker /\ IsFiniteSet(Worker)
  BY ServicesAssumption
<1>2. /\ IsFiniteSet(S)
      /\ Cardinality(S) \in Nat /\ Cardinality(Worker) \in Nat
      /\ Cardinality(S) =< Cardinality(Worker)
  BY <1>1, FS_Subset, FS_CardinalityType
<1>3. S # {} => Cardinality(S) # 0
  BY <1>2, FS_EmptySet
<1> QED
  BY <1>2, <1>3

\* A handler on a row begins: it is the only one on the row, or the row is
\* overlapped from now on.  It ends, by its last write or by dying: it inserts
\* no more.
LEMMA InsertingSteps ==
    ASSUME NEW w \in Worker, NEW pc, NEW key, \E D : handler \in [Worker -> D]
    PROVE  /\ Inserting(pc, key) \subseteq Worker
           /\ \A h : Begin(w, h) /\ key # None =>
                  /\ Inserting(pc, key)' = IF h.pc = pc /\ h.on = key
                                           THEN Inserting(pc, key) \union {w}
                                           ELSE Inserting(pc, key)
                  /\ key \in overlapped => key \in overlapped'
                  /\ (h.on = key /\ key \notin overlapped') => Inserting(pc, key) = {}
           /\ (Finish(w) \/ Abort(w)) /\ pc # "idle" =>
                  /\ Inserting(pc, key)' = Inserting(pc, key) \ {w}
                  /\ overlapped' = overlapped
<1>1. ASSUME NEW h, Begin(w, h), key # None
      PROVE  /\ Inserting(pc, key)' = IF h.pc = pc /\ h.on = key
                                      THEN Inserting(pc, key) \union {w}
                                      ELSE Inserting(pc, key)
             /\ key \in overlapped => key \in overlapped'
             /\ (h.on = key /\ key \notin overlapped') => Inserting(pc, key) = {}
  <2>1. handler[w].on = None
    BY <1>1 DEF Begin, Idle
  <2>2. handler' = [handler EXCEPT ![w] = h] /\ handler'[w] = h
    BY <1>1 DEF Begin
  <2>3. \A v \in Worker : v # w => handler'[v] = handler[v]
    BY <2>2
  <2>4. w \notin Inserting(pc, key)
    BY <1>1, <2>1 DEF Inserting
  <2>5. Inserting(pc, key)' = {v \in Worker : handler'[v].pc = pc /\ handler'[v].on = key}
    BY DEF Inserting
  <2>6. Inserting(pc, key)' = IF h.pc = pc /\ h.on = key
                              THEN Inserting(pc, key) \union {w} ELSE Inserting(pc, key)
    BY <2>2, <2>3, <2>4, <2>5 DEF Inserting
  <2>7. key \in overlapped => key \in overlapped'
    BY <1>1 DEF Begin
  <2>8. (h.on = key /\ key \notin overlapped') => Inserting(pc, key) = {}
    BY <1>1 DEF Begin, Inserting
  <2> QED
    BY <2>6, <2>7, <2>8
<1>2. ASSUME Finish(w) \/ Abort(w), pc # "idle"
      PROVE  Inserting(pc, key)' = Inserting(pc, key) \ {w} /\ overlapped' = overlapped
  <2>1. handler' = [handler EXCEPT ![w] = Idle] /\ overlapped' = overlapped
    BY <1>2 DEF Finish, Goto, Abort
  <2>2. \A v \in Worker : v # w => handler'[v] = handler[v]
    BY <2>1
  <2>3. handler'[w].pc = "idle"
    BY <2>1 DEF Idle
  <2>4. Inserting(pc, key)' = {v \in Worker : handler'[v].pc = pc /\ handler'[v].on = key}
    BY DEF Inserting
  <2> QED
    BY <1>2, <2>1, <2>2, <2>3, <2>4 DEF Inserting
<1>3. Inserting(pc, key) \subseteq Worker
  BY DEF Inserting
<1> QED
  BY <1>1, <1>2, <1>3

\* What every step has to show of a key: its open rows R and inserting
\* handlers S become Q and T.
LEMMA WithinLimit ==
    ASSUME NEW key, NEW R, NEW S, NEW Q, NEW T, Worker # {},
           IsFiniteSet(R), S \subseteq Worker, T \subseteq Worker,
           Cardinality(R) + Cardinality(S) =< Limit(key),
           key \in overlapped => key \in overlapped',
           \/ Q \subseteq R /\ T \subseteq S
           \/ Q = {} /\ T = {}
           \/ \E w \in Worker : Q = {} /\ T = S \union {w} /\ (key \notin overlapped' => S = {})
           \/ \E x, y : x \notin R /\ y \in S /\ Q = R \union {x} /\ T = S \ {y}
    PROVE  Cardinality(Q) + Cardinality(T) =< Limit(key)'
\* A row opens as its handler ends: the sum of the two stays.
<1>1. ASSUME NEW R1, NEW S1, IsFiniteSet(R1), IsFiniteSet(S1),
             NEW x, x \notin R1, NEW y \in S1
      PROVE  Cardinality(R1 \union {x}) + Cardinality(S1 \ {y})
                 = Cardinality(R1) + Cardinality(S1)
  <2>1. Cardinality(R1) \in Nat /\ Cardinality(S1) \in Nat
    BY <1>1, FS_CardinalityType
  <2>2. Cardinality(R1 \union {x}) = Cardinality(R1) + 1
    BY <1>1, FS_AddElement
  <2>3. Cardinality(S1 \ {y}) = Cardinality(S1) - 1
    BY <1>1, FS_RemoveElement
  <2> QED
    BY <2>1, <2>2, <2>3
\* With fewer rows and handlers the sum is not larger.
<1>2. ASSUME NEW R1, NEW S1, IsFiniteSet(R1), IsFiniteSet(S1),
             NEW Q1 \in SUBSET R1, NEW T1 \in SUBSET S1
      PROVE  /\ Cardinality(Q1) \in Nat /\ Cardinality(T1) \in Nat
             /\ Cardinality(R1) \in Nat /\ Cardinality(S1) \in Nat
             /\ Cardinality(Q1) + Cardinality(T1) =< Cardinality(R1) + Cardinality(S1)
  <2>1. Cardinality(Q1) =< Cardinality(R1) /\ Cardinality(T1) =< Cardinality(S1)
    BY <1>2, FS_Subset
  <2>2. IsFiniteSet(Q1) /\ IsFiniteSet(T1)
    BY <1>2, FS_Subset
  <2>3. /\ Cardinality(R1) \in Nat /\ Cardinality(S1) \in Nat
        /\ Cardinality(Q1) \in Nat /\ Cardinality(T1) \in Nat
    BY <1>2, <2>2, FS_CardinalityType
  <2> QED
    BY <2>1, <2>3
<1>3. IsFiniteSet(S) /\ IsFiniteSet(T) /\ Cardinality(T) \in Nat
      /\ Cardinality(T) =< Cardinality(Worker) /\ Cardinality(Worker) \in Nat
  BY WorkerCount
<1>4. /\ Limit(key) \in Nat /\ Limit(key)' \in Nat
      /\ Limit(key) =< Limit(key)'
  <2>1. Cardinality(Worker) \in Nat /\ Cardinality(Worker) >= 1
    BY WorkerCount
  <2>2. Limit(key)' = IF key \in overlapped' THEN Cardinality(Worker) ELSE 1
    BY DEF Limit
  <2> QED
    BY <2>1, <2>2 DEF Limit
<1>5. Cardinality({}) = 0
  BY FS_EmptySet
<1>6. Limit(key)' = IF key \in overlapped' THEN Cardinality(Worker) ELSE 1
  BY DEF Limit
<1>7. CASE Q \subseteq R /\ T \subseteq S
  <2>1. /\ Cardinality(Q) \in Nat /\ Cardinality(R) \in Nat /\ Cardinality(S) \in Nat
        /\ Cardinality(Q) + Cardinality(T) =< Cardinality(R) + Cardinality(S)
    BY <1>2, <1>3, <1>7
  <2> QED
    BY <1>3, <1>4, <2>1
<1>8. CASE Q = {} /\ T = {}
  BY <1>4, <1>5, <1>8
<1>9. ASSUME NEW w \in Worker, Q = {}, T = S \union {w}, key \notin overlapped' => S = {}
      PROVE  Cardinality(Q) + Cardinality(T) =< Limit(key)'
  <2>1. CASE key \in overlapped'
    BY <1>3, <1>5, <1>6, <1>9, <2>1
  <2>2. CASE key \notin overlapped'
    <3>1. T = {w}
      BY <1>9, <2>2
    <3>2. Cardinality(T) = 1
      BY <3>1, FS_Singleton
    <3> QED
      BY <1>5, <1>6, <1>9, <2>2, <3>2
  <2> QED
    BY <2>1, <2>2
<1>10. ASSUME NEW x, NEW y, x \notin R, y \in S, Q = R \union {x}, T = S \ {y}
      PROVE  Cardinality(Q) + Cardinality(T) =< Limit(key)'
  <2>1. Cardinality(Q) + Cardinality(T) = Cardinality(R) + Cardinality(S)
    BY <1>1, <1>3, <1>10
  <2>2. Cardinality(R) \in Nat /\ Cardinality(S) \in Nat
    BY <1>3, FS_CardinalityType
  <2> QED
    BY <1>4, <2>1, <2>2
<1> QED
  BY <1>7, <1>8, <1>9, <1>10

----------------------------------------------------------------------------
(* Assets.                                                                 *)

AssetsInv ==
    /\ AssetsTypeOK
    /\ \A a \in Asset : Cardinality(Out(a)) + Cardinality(Inserting("assign", a)) =< Limit(a)

\* Whatever handlers of AssetsService overlap or die, an asset is with one
\* employee at a time, and with at most one per handler when two assigns of
\* it overlapped.
THEOREM OneHolder == AssetsSpec => []HoldersBounded
<1>0. /\ \A a \in Asset : Out(a) \subseteq Assignment /\ IsFiniteSet(Out(a))
      /\ \A a \in Asset :
             Out(a)' = {i \in Assignment : db'.assignment[i] = [of |-> a, returned |-> FALSE]}
  <2>1. \A a \in Asset : Out(a) \subseteq Assignment
    BY DEF Out
  <2> QED
    BY <2>1, AssetsAssumption, FS_Subset DEF Out
<1>1. AssetsInv => HoldersBounded
  <2> SUFFICES ASSUME AssetsInv, NEW a \in Asset PROVE Cardinality(Out(a)) =< Limit(a)
    BY DEF HoldersBounded, Limit
  <2>1. Cardinality(Out(a)) \in Nat
    BY <1>0, FS_CardinalityType
  <2>2. Cardinality(Inserting("assign", a)) \in Nat
    BY WorkerCount DEF Inserting
  <2>3. Limit(a) \in Nat
    BY WorkerCount DEF Limit
  <2> QED
    BY <2>1, <2>2, <2>3 DEF AssetsInv
<1>2. AssetsInit => AssetsInv
  <2> SUFFICES ASSUME AssetsInit PROVE AssetsInv
    OBVIOUS
  <2>1. AssetsTypeOK
    BY DEF AssetsInit, InitHandlers, AssetsTypeOK, NoAssignment, Idle
  <2>2. ASSUME NEW a \in Asset
        PROVE  Cardinality(Out(a)) + Cardinality(Inserting("assign", a)) =< Limit(a)
    <3>1. Out(a) = {} /\ Inserting("assign", a) = {}
      BY AssetsAssumption DEF AssetsInit, InitHandlers, Out, NoAssignment, Inserting, Idle
    <3>2. Cardinality({}) = 0
      BY FS_EmptySet
    <3>3. Limit(a) = 1
      BY DEF Limit, AssetsInit, InitHandlers
    <3> QED
      BY <3>1, <3>2, <3>3
  <2> QED
    BY <2>1, <2>2 DEF AssetsInv
<1>3. AssetsInv /\ [AssetsNext]_vars => AssetsInv'
  <2> SUFFICES ASSUME AssetsInv, [AssetsNext]_vars PROVE AssetsInv'
    OBVIOUS
  <2>1. AssetsTypeOK /\ AssetsTypeOK'
    <3> SUFFICES AssetsTypeOK /\ [AssetsNext]_vars => AssetsTypeOK'
      BY DEF AssetsInv
    <3> SUFFICES ASSUME AssetsTypeOK, [AssetsNext]_vars PROVE AssetsTypeOK'
      OBVIOUS
    <3>1. CASE UNCHANGED vars
      BY <3>1 DEF vars, AssetsTypeOK
    <3>2. ASSUME NEW a \in Asset, CreateAsset(a) PROVE AssetsTypeOK'
      BY <3>2 DEF CreateAsset, Call, AssetsTypeOK
    <3>3. ASSUME NEW w \in Worker, NEW a \in Asset, AssignRead(w, a) PROVE AssetsTypeOK'
      BY <3>3 DEF AssignRead, Start, Begin, AssetsTypeOK
    <3>4. ASSUME NEW w \in Worker, NEW i \in Assignment, AssignCreate(w, i) PROVE AssetsTypeOK'
      <4>1. handler[w].on \in Asset
        BY <3>4 DEF AssignCreate, At, AssetsTypeOK
      <4> QED
        BY <3>4, <4>1 DEF AssignCreate, Finish, Goto, Idle, AssetsTypeOK
    <3>5. ASSUME NEW w \in Worker, NEW i \in Assignment, ReturnRead(w, i) PROVE AssetsTypeOK'
      BY <3>5 DEF ReturnRead, Start, Begin, AssetsTypeOK
    <3>6. ASSUME NEW w \in Worker, ReturnWrite(w) PROVE AssetsTypeOK'
      <4>1. PICK i \in Assignment : i = handler[w].on
        BY <3>6 DEF ReturnWrite, At, AssetsTypeOK
      <4> DEFINE Row == [of : Asset \union {None}, returned : BOOLEAN]
      <4>2. PICK a \in SUBSET Asset : \E f \in [Assignment -> Row] :
                db = [asset |-> a, assignment |-> f]
        BY DEF AssetsTypeOK
      <4>3. PICK f \in [Assignment -> Row] : db = [asset |-> a, assignment |-> f]
        BY <4>2
      <4>4. [f EXCEPT ![i].returned = TRUE] \in [Assignment -> Row]
        <5>1. [f[i] EXCEPT !.returned = TRUE] \in Row
          OBVIOUS
        <5> QED
          BY <5>1
      <4>5. db' \in [asset : SUBSET Asset, assignment : [Assignment -> Row]]
        <5>1. db' = [asset |-> a, assignment |-> [f EXCEPT ![i].returned = TRUE]]
          BY <3>6, <4>1, <4>3 DEF ReturnWrite
        <5> HIDE DEF Row
        <5> QED
          BY <4>4, <5>1
      <4>6. handler' = [handler EXCEPT ![w] = Idle] /\ UNCHANGED <<office, calls, aborts>>
        BY <3>6 DEF ReturnWrite, Finish, Goto
      <4> QED
        BY <4>5, <4>6 DEF Idle, AssetsTypeOK
    <3>7. ASSUME NEW w \in Worker, Abort(w) PROVE AssetsTypeOK'
      BY <3>7 DEF Abort, Idle, AssetsTypeOK
    <3> QED
      BY <3>1, <3>2, <3>3, <3>4, <3>5, <3>6, <3>7 DEF AssetsNext, AssetsStep
  <2>2. SUFFICES ASSUME NEW a \in Asset
                 PROVE  Cardinality(Out(a)') + Cardinality(Inserting("assign", a)') =< Limit(a)'
    BY <2>1 DEF AssetsInv
  <2> DEFINE R == Out(a)
             S == Inserting("assign", a)
  <2>3. /\ IsFiniteSet(R) /\ S \subseteq Worker
        /\ Cardinality(R) + Cardinality(S) =< Limit(a)
        /\ a # None
        /\ \E D : handler \in [Worker -> D]
    BY <2>1, <1>0, AssetsAssumption DEF AssetsInv, Inserting, AssetsTypeOK
  <2>4. CASE UNCHANGED vars
    BY <2>1, <2>3, <2>4 DEF vars, Out, Inserting, Limit
  <2>5. ASSUME NEW b \in Asset, CreateAsset(b)
        PROVE  Cardinality(R') + Cardinality(S') =< Limit(a)'
    <3>1. db'.assignment = db.assignment /\ handler' = handler /\ overlapped' = overlapped
      BY <2>1, <2>5 DEF CreateAsset, Call, AssetsTypeOK
    <3>2. R' = R /\ S' = S /\ Limit(a)' = Limit(a)
      BY <3>1, <1>0 DEF Out, Inserting, Limit
    <3> QED
      BY <2>3, <3>2
  <2>6. ASSUME NEW w \in Worker, NEW b \in Asset, AssignRead(w, b)
        PROVE  Cardinality(R') + Cardinality(S') =< Limit(a)'
    <3>1. Begin(w, [pc |-> "assign", on |-> b]) /\ db' = db /\ Out(b) = {}
      BY <2>6 DEF AssignRead, Start
    <3>2. R' = R
      BY <3>1, <1>0 DEF Out
    <3>3. /\ S' = IF b = a THEN S \union {w} ELSE S
          /\ a \in overlapped => a \in overlapped'
          /\ (b = a /\ a \notin overlapped') => S = {}
      BY <2>3, <3>1, InsertingSteps
    <3>4. S' \subseteq Worker
      BY <2>3, <3>3
    <3> HIDE DEF R, S
    <3>5. CASE b = a
      BY <2>3, <3>1, <3>2, <3>3, <3>4, <3>5, WithinLimit DEF R
    <3>6. CASE b # a
      BY <2>3, <3>2, <3>3, <3>4, <3>6, WithinLimit
    <3> QED
      BY <3>5, <3>6
  <2>7. ASSUME NEW w \in Worker, NEW i \in Assignment, AssignCreate(w, i)
        PROVE  Cardinality(R') + Cardinality(S') =< Limit(a)'
    <3>1. PICK b \in Asset : handler[w].on = b
      BY <2>1, <2>7 DEF AssignCreate, At, AssetsTypeOK
    <3>2. /\ db.assignment[i] = NoAssignment
          /\ db' = [db EXCEPT !.assignment[i] = [of |-> b, returned |-> FALSE]]
          /\ Finish(w) /\ handler[w].pc = "assign"
      BY <2>7, <3>1 DEF AssignCreate, At
    <3>3. S' = S \ {w} /\ overlapped' = overlapped
      BY <2>3, <3>2, InsertingSteps
    <3>4. i \notin R
      BY <2>3, <3>2 DEF Out, NoAssignment
    <3>5. R' = IF b = a THEN R \union {i} ELSE R
      <4>1. \A j \in Assignment :
                db'.assignment[j] =
                    IF j = i THEN [of |-> b, returned |-> FALSE] ELSE db.assignment[j]
        BY <2>1, <3>2 DEF AssetsTypeOK
      <4>2. [of |-> b, returned |-> FALSE] = [of |-> a, returned |-> FALSE] <=> b = a
        OBVIOUS
      <4>3. R' = {j \in Assignment : db'.assignment[j] = [of |-> a, returned |-> FALSE]}
        BY <1>0
      <4> QED
        BY <3>4, <4>1, <4>2, <4>3 DEF Out
    <3>6. b = a => w \in S
      BY <3>1, <3>2 DEF Inserting
    <3>7. S' \subseteq Worker /\ S' \subseteq S
      BY <2>3, <3>3
    <3> HIDE DEF R, S
    <3>8. CASE b = a
      BY <2>3, <3>3, <3>4, <3>5, <3>6, <3>7, <3>8, WithinLimit
    <3>9. CASE b # a
      BY <2>3, <3>3, <3>5, <3>7, <3>9, WithinLimit
    <3> QED
      BY <3>8, <3>9
  <2>8. ASSUME NEW w \in Worker, NEW i \in Assignment, ReturnRead(w, i)
        PROVE  Cardinality(R') + Cardinality(S') =< Limit(a)'
    <3>1. Begin(w, [pc |-> "return", on |-> i]) /\ db' = db
      BY <2>8 DEF ReturnRead, Start
    <3>2. R' = R
      BY <3>1, <1>0 DEF Out
    <3>3. S' = S /\ (a \in overlapped => a \in overlapped')
      BY <2>3, <3>1, InsertingSteps
    <3> HIDE DEF R, S
    <3> QED
      BY <2>3, <3>2, <3>3, WithinLimit
  <2>9. ASSUME NEW w \in Worker, ReturnWrite(w)
        PROVE  Cardinality(R') + Cardinality(S') =< Limit(a)'
    <3>1. PICK i \in Assignment : handler[w].on = i
      BY <2>1, <2>9 DEF ReturnWrite, At, AssetsTypeOK
    <3>2. db' = [db EXCEPT !.assignment[i].returned = TRUE]
      BY <2>9, <3>1 DEF ReturnWrite
    <3>3. S' = S \ {w} /\ overlapped' = overlapped
      <4>1. Finish(w) /\ handler[w].pc = "return"
        BY <2>9 DEF ReturnWrite, At
      <4> QED
        BY <2>3, <4>1, InsertingSteps
    <3>4. R' \subseteq R
      BY <2>1, <3>2, <1>0 DEF Out, AssetsTypeOK
    <3>5. S' \subseteq Worker /\ S' \subseteq S
      BY <2>3, <3>3
    <3> HIDE DEF R, S
    <3> QED
      BY <2>3, <3>3, <3>4, <3>5, WithinLimit
  <2>10. ASSUME NEW w \in Worker, Abort(w)
         PROVE  Cardinality(R') + Cardinality(S') =< Limit(a)'
    <3>1. S' = S \ {w} /\ overlapped' = overlapped
      BY <2>3, <2>10, InsertingSteps
    <3>2. R' = R
      BY <2>10, <1>0 DEF Abort, Out
    <3>3. S' \subseteq Worker /\ S' \subseteq S
      BY <2>3, <3>1
    <3> HIDE DEF R, S
    <3> QED
      BY <2>3, <3>1, <3>2, <3>3, WithinLimit
  <2> QED
    BY <2>4, <2>5, <2>6, <2>7, <2>8, <2>9, <2>10 DEF AssetsNext, AssetsStep
<1> QED
  BY <1>1, <1>2, <1>3, PTL DEF AssetsSpec

----------------------------------------------------------------------------
(* Shifts.                                                                 *)

ShiftsInv ==
    /\ ShiftsTypeOK
    /\ \A e \in Employee :
           Cardinality(Open(e)) + Cardinality(Inserting("assignShift", e)) =< Limit(e)

\* Whatever calls of assignShift overlap or die, and in whatever order their
\* dates come, an employee has one open-ended shift, and at most one per
\* handler when two assignments of the employee overlapped.
THEOREM OneShift == ShiftsSpec => []OneOpenShift
<1>0. /\ \A e \in Employee : Open(e) \subseteq Slot /\ IsFiniteSet(Open(e))
      /\ \A e \in Employee :
             Open(e)' = {i \in Slot : db'.shift[i].of = e /\ db'.shift[i].to = None}
  <2>1. \A e \in Employee : Open(e) \subseteq Slot
    BY DEF Open
  <2> QED
    BY <2>1, ShiftsAssumption, FS_Subset DEF Open
\* What a call of assignShift has checked its arguments to be, and the two
\* writes it makes of them.
<1>4. ASSUME ShiftsTypeOK, NEW w \in Worker
      PROVE  /\ \A e \in Employee, from \in ShiftDates, to \in ShiftDates \union {None} :
                  EndOpenShifts(w, e, from, to) =>
                      /\ ShiftsTypeOK'
                      /\ \A i \in Slot : i \notin Open(e) => db'.shift[i] = db.shift[i]
                      /\ \A i \in Open(e) : db'.shift[i].to # None /\ db'.shift[i].of = e
                      /\ Begin(w, [pc |-> "assignShift", on |-> e, from |-> from, to |-> to])
             /\ \A i \in Slot : InsertShift(w, i) =>
                      /\ ShiftsTypeOK'
                      /\ db'.shift[i].of = handler[w].on
                      /\ \A j \in Slot \ {i} : db'.shift[j] = db.shift[j]
  <2>1. ASSUME NEW e \in Employee, NEW from \in ShiftDates, NEW to \in ShiftDates \union {None},
               EndOpenShifts(w, e, from, to)
        PROVE  /\ ShiftsTypeOK'
               /\ \A i \in Slot : i \notin Open(e) => db'.shift[i] = db.shift[i]
               /\ \A i \in Open(e) : db'.shift[i].to # None /\ db'.shift[i].of = e
               /\ Begin(w, [pc |-> "assignShift", on |-> e, from |-> from, to |-> to])
    <3> DEFINE h == [pc |-> "assignShift", on |-> e, from |-> from, to |-> to]
    <3>1. Begin(w, h)
      BY <2>1 DEF EndOpenShifts, Assigning
    <3>2. db' = [shift |-> [i \in Slot |->
                   IF i \in Open(e) THEN [db.shift[i] EXCEPT !.to = from - 1] ELSE db.shift[i]]]
      BY <1>4, <2>1 DEF EndOpenShifts, ShiftsTypeOK
    <3>3. from - 1 \in -1..LastDate /\ from - 1 # None
      BY ShiftsAssumption, ServicesAssumption DEF ShiftDates
    <3>4. \A i \in Open(e) : i \in Slot /\ db.shift[i] \in ShiftRow /\ db.shift[i].of = e
      BY <1>4, ServicesAssumption DEF Open, ShiftsTypeOK, NoShift
    <3>5. \A i \in Slot : db'.shift[i] =
                   IF i \in Open(e) THEN [db.shift[i] EXCEPT !.to = from - 1] ELSE db.shift[i]
      BY <3>2
    <3>6. \A i \in Open(e) : /\ db'.shift[i].to = from - 1 /\ db'.shift[i].of = e
                             /\ db'.shift[i] \in ShiftRow
      BY <3>3, <3>4, <3>5 DEF ShiftRow
    <3>7. db' \in [shift : [Slot -> ShiftRow \union {NoShift}]]
      BY <1>4, <3>2, <3>5, <3>6 DEF ShiftsTypeOK
    <3>8. handler' \in [Worker -> [pc : {"idle"}, on : {None}]
             \union [pc : {"assignShift"}, on : Employee, from : ShiftDates,
                     to : ShiftDates \union {None}]]
      BY <1>4, <3>1 DEF Begin, ShiftsTypeOK
    <3> QED
      BY <3>1, <3>3, <3>5, <3>6, <3>7, <3>8 DEF ShiftsTypeOK
  <2>2. ASSUME NEW i \in Slot, InsertShift(w, i)
        PROVE  /\ ShiftsTypeOK'
               /\ db'.shift[i].of = handler[w].on
               /\ \A j \in Slot \ {i} : db'.shift[j] = db.shift[j]
    <3>1. /\ handler[w].on \in Employee /\ handler[w].from \in ShiftDates
          /\ handler[w].to \in ShiftDates \union {None}
      BY <1>4, <2>2 DEF InsertShift, At, ShiftsTypeOK
    <3> DEFINE row == [of |-> handler[w].on, from |-> handler[w].from, to |-> handler[w].to]
    <3>2. row \in ShiftRow
      BY <3>1, ShiftsAssumption DEF ShiftRow, ShiftDates
    <3>3. db' = [db EXCEPT !.shift[i] = row]
      BY <2>2 DEF InsertShift
    <3> HIDE DEF row
    <3>4. db' \in [shift : [Slot -> ShiftRow \union {NoShift}]] /\ db'.shift[i] = row
      BY <1>4, <3>2, <3>3 DEF ShiftsTypeOK
    <3>5. \A j \in Slot \ {i} : db'.shift[j] = db.shift[j]
      BY <3>3 DEF ShiftsTypeOK
    <3>6. handler' \in [Worker -> [pc : {"idle"}, on : {None}]
             \union [pc : {"assignShift"}, on : Employee, from : ShiftDates,
                     to : ShiftDates \union {None}]]
      BY <1>4, <2>2 DEF InsertShift, Finish, Goto, Idle, ShiftsTypeOK
    <3> QED
      BY <3>4, <3>5, <3>6 DEF ShiftsTypeOK, row
  <2> QED
    BY <2>1, <2>2
<1>1. ShiftsInv => OneOpenShift
  <2> SUFFICES ASSUME ShiftsInv, NEW e \in Employee PROVE Cardinality(Open(e)) =< Limit(e)
    BY DEF OneOpenShift, Limit
  <2>1. Cardinality(Open(e)) \in Nat
    BY <1>0, FS_CardinalityType
  <2>2. Cardinality(Inserting("assignShift", e)) \in Nat
    BY WorkerCount DEF Inserting
  <2>3. Limit(e) \in Nat
    BY WorkerCount DEF Limit
  <2> QED
    BY <2>1, <2>2, <2>3 DEF ShiftsInv
<1>2. ShiftsInit => ShiftsInv
  <2> SUFFICES ASSUME ShiftsInit PROVE ShiftsInv
    OBVIOUS
  <2>1. ShiftsTypeOK
    BY DEF ShiftsInit, InitHandlers, ShiftsTypeOK, Idle
  <2>2. ASSUME NEW e \in Employee
        PROVE  Cardinality(Open(e)) + Cardinality(Inserting("assignShift", e)) =< Limit(e)
    <3>1. Open(e) = {} /\ Inserting("assignShift", e) = {}
      BY ServicesAssumption DEF ShiftsInit, InitHandlers, Open, NoShift, Inserting, Idle
    <3>2. Cardinality({}) = 0
      BY FS_EmptySet
    <3>3. Limit(e) = 1
      BY DEF Limit, ShiftsInit, InitHandlers
    <3> QED
      BY <3>1, <3>2, <3>3
  <2> QED
    BY <2>1, <2>2 DEF ShiftsInv
<1>3. ShiftsInv /\ [ShiftsNext]_vars => ShiftsInv'
  <2> SUFFICES ASSUME ShiftsInv, [ShiftsNext]_vars PROVE ShiftsInv'
    OBVIOUS
  <2>1. ShiftsTypeOK
    BY DEF ShiftsInv
  <2>2. ShiftsTypeOK'
    <3>1. CASE UNCHANGED vars
      BY <2>1, <3>1 DEF vars, ShiftsTypeOK
    <3>2. ASSUME NEW w \in Worker, Abort(w) PROVE ShiftsTypeOK'
      BY <2>1, <3>2 DEF Abort, Idle, ShiftsTypeOK
    <3> QED
      BY <2>1, <3>1, <3>2, <1>4 DEF ShiftsNext, ShiftsStep
  <2>3. SUFFICES ASSUME NEW e \in Employee
                 PROVE  Cardinality(Open(e)') + Cardinality(Inserting("assignShift", e)')
                            =< Limit(e)'
    BY <2>2 DEF ShiftsInv
  <2> DEFINE R == Open(e)
             S == Inserting("assignShift", e)
  <2>4. /\ IsFiniteSet(R) /\ S \subseteq Worker
        /\ Cardinality(R) + Cardinality(S) =< Limit(e)
        /\ e # None
        /\ \E D : handler \in [Worker -> D]
    BY <2>1, <1>0, ServicesAssumption DEF ShiftsInv, Inserting, ShiftsTypeOK
  <2>5. CASE UNCHANGED vars
    BY <2>1, <2>4, <2>5 DEF vars, Open, Inserting, Limit
  <2>6. ASSUME NEW w \in Worker, NEW f \in Employee, NEW from \in ShiftDates,
               NEW to \in ShiftDates \union {None}, EndOpenShifts(w, f, from, to)
        PROVE  Cardinality(R') + Cardinality(S') =< Limit(e)'
    <3>1. /\ \A i \in Slot : i \notin Open(f) => db'.shift[i] = db.shift[i]
          /\ \A i \in Open(f) : db'.shift[i].to # None /\ db'.shift[i].of = f
          /\ Begin(w, [pc |-> "assignShift", on |-> f, from |-> from, to |-> to])
      BY <1>4, <2>1, <2>6
    <3>2. /\ S' = IF f = e THEN S \union {w} ELSE S
          /\ e \in overlapped => e \in overlapped'
          /\ (f = e /\ e \notin overlapped') => S = {}
      BY <2>4, <3>1, InsertingSteps
    <3>3. S' \subseteq Worker
      BY <2>4, <3>2
    <3>4. CASE f = e
      <4>1. R' = {}
        BY <3>1, <3>4, <1>0 DEF Open
      <4> HIDE DEF R, S
      <4> QED
        BY <2>4, <3>2, <3>3, <3>4, <4>1, WithinLimit
    <3>5. CASE f # e
      <4>1. R' \subseteq R
        BY <3>1, <3>5, <1>0 DEF Open
      <4> HIDE DEF R, S
      <4> QED
        BY <2>4, <3>2, <3>3, <3>5, <4>1, WithinLimit
    <3> QED
      BY <3>4, <3>5
  <2>7. ASSUME NEW w \in Worker, NEW i \in Slot, InsertShift(w, i)
        PROVE  Cardinality(R') + Cardinality(S') =< Limit(e)'
    <3>1. /\ db'.shift[i].of = handler[w].on
          /\ \A j \in Slot \ {i} : db'.shift[j] = db.shift[j]
          /\ db.shift[i] = NoShift
          /\ Finish(w) /\ handler[w].pc = "assignShift"
      BY <2>1, <2>7, <1>4 DEF InsertShift, At
    <3>2. S' = S \ {w} /\ overlapped' = overlapped
      BY <2>4, <3>1, InsertingSteps
    <3>3. i \notin R
      BY <2>4, <3>1 DEF Open, NoShift
    <3>4. R' \subseteq R \union {i}
      BY <3>1, <1>0 DEF Open
    <3>5. i \in R' => handler[w].on = e
      BY <1>0, <3>1
    <3>6. handler[w].on = e => w \in S
      BY <3>1 DEF Inserting
    <3>7. R \subseteq R'
      BY <3>1, <3>3, <1>0 DEF Open
    <3>8. S' \subseteq Worker /\ S' \subseteq S
      BY <2>4, <3>2
    <3> HIDE DEF R, S
    <3>9. CASE i \in R'
      <4>1. R' = R \union {i} /\ w \in S
        BY <3>4, <3>5, <3>6, <3>7, <3>9
      <4> QED
        BY <2>4, <3>2, <3>3, <3>8, <4>1, WithinLimit
    <3>10. CASE i \notin R'
      <4>1. R' \subseteq R
        BY <3>4, <3>10
      <4> QED
        BY <2>4, <3>2, <3>8, <4>1, WithinLimit
    <3> QED
      BY <3>9, <3>10
  <2>8. ASSUME NEW w \in Worker, Abort(w)
        PROVE  Cardinality(R') + Cardinality(S') =< Limit(e)'
    <3>1. S' = S \ {w} /\ overlapped' = overlapped
      <4> HIDE DEF R, S
      <4>1. \E D : handler \in [Worker -> D]
        BY <2>4
      <4>2. /\ Inserting("assignShift", e)' = Inserting("assignShift", e) \ {w}
            /\ overlapped' = overlapped
        BY <2>8, <4>1, InsertingSteps
      <4> QED
        BY <4>2 DEF S
    <3>2. R' = R
      BY <2>8, <1>0 DEF Abort, Open
    <3>3. S' \subseteq Worker /\ S' \subseteq S
      BY <2>4, <3>1
    <3> HIDE DEF R, S
    <3> QED
      BY <2>4, <3>1, <3>2, <3>3, WithinLimit
  <2> QED
    BY <2>5, <2>6, <2>7, <2>8 DEF ShiftsNext, ShiftsStep
<1> QED
  BY <1>1, <1>2, <1>3, PTL DEF ShiftsSpec

----------------------------------------------------------------------------
(* Performance.                                                            *)

\* What the goals of e weigh, and what the goals weigh that handlers are
\* about to insert for e.
Weighs(e) == [g \in Goal |-> IF db.goal[g].of = e THEN db.goal[g].weight ELSE 0]
Promises(e) == [w \in Worker |-> IF handler[w].pc = "createGoal" /\ handler[w].on = e
                                 THEN handler[w].weight ELSE 0]

Room(e) == IF e \in overlapped THEN Full + (Cardinality(Worker) - 1) * Max(Weights) ELSE Full

WeightsInv ==
    /\ PerformanceTypeOK
    /\ \A e \in Employee : SumOf(Weighs(e), Goal) + SumOf(Promises(e), Worker) =< Room(e)

\* Whatever handlers of PerformanceService overlap or die, the goals of an
\* employee weigh at most 100 percent, and at most one goal more for each
\* handler but one when calls about the employee overlapped.
THEOREM WeightsFit == PerformanceSpec => []WeightBounded
<1> DEFINE M == Max(Weights)
           W == Cardinality(Worker)
\* The heaviest weight.
<1>1. M \in Nat /\ \A k \in Weights : k \in Nat /\ k =< M
  <2> DEFINE T == {Full - k : k \in Weights}
  <2>0. \A k \in Weights : k \in Nat /\ Full - k \in Nat
    BY PerformanceAssumption
  <2>1. T \subseteq Nat /\ T # {}
    BY <2>0, PerformanceAssumption
  <2>2. PICK k \in Weights : \A n \in T : Full - k =< n
    BY <2>1, LeastNatural
  <2>3. \A j \in Weights : k >= j
    <3> SUFFICES ASSUME NEW j \in Weights PROVE k >= j
      OBVIOUS
    <3>1. Full - k =< Full - j
      BY <2>2
    <3> QED
      BY <2>0, <3>1, PerformanceAssumption
  <2>4. M \in Weights /\ \A j \in Weights : M >= j
    BY <2>3 DEF Max
  <2> QED
    BY <2>0, <2>4
<1>2. /\ W \in Nat /\ IsFiniteSet(Worker) /\ IsFiniteSet(Goal) /\ Full \in Nat
      /\ \A w \in Worker : Cardinality(Worker \ {w}) = W - 1 /\ W - 1 \in Nat
  <2>1. \A w \in Worker : Cardinality(Worker \ {w}) = W - 1 /\ Cardinality(Worker \ {w}) \in Nat
    BY ServicesAssumption, FS_RemoveElement, FS_CardinalityType
  <2> QED
    BY <2>1, ServicesAssumption, PerformanceAssumption, FS_CardinalityType
\* A sum is at most the number of its summands times the largest.
<1>3. ASSUME NEW S, IsFiniteSet(S), NEW f, \A x \in S : f[x] \in Nat /\ f[x] =< M
      PROVE  SumOf(f, S) \in Nat /\ SumOf(f, S) =< Cardinality(S) * M
  <2> DEFINE Fits(s) == SumOf(f, s) =< Cardinality(s) * M
             F == {s \in SUBSET S : ~Fits(s)}
  <2>1. ASSUME NEW s \in F, \A x \in s : s \ {x} \notin F PROVE FALSE
    <3>1. IsFiniteSet(s) /\ Cardinality(s) \in Nat
      BY <1>3, FS_Subset, FS_CardinalityType
    <3>2. CASE s = {}
      <4>1. SumOf(f, s) = 0 /\ Cardinality(s) = 0
        BY <3>1, <3>2, FS_EmptySet, SumUnfold
      <4> HIDE DEF M
      <4>2. 0 * M = 0
        BY <1>1
      <4> QED
        BY <2>1, <4>1, <4>2
    <3>3. CASE s # {}
      <4>1. PICK x \in s : TRUE
        BY <3>3
      <4> DEFINE t == s \ {x}
      <4>2. Fits(t) /\ t \in SUBSET S
        BY <2>1
      <4>3. Cardinality(s) - 1 = Cardinality(t)
        BY <3>1, FS_RemoveElement
      <4>4. SumOf(f, s) = f[x] + SumOf(f, t) /\ SumOf(f, s) \in Int
        BY <1>3, <3>1, SumRemove
      <4>5. SumOf(f, t) \in Int
        BY <1>3, <4>2, FS_Subset, SumRemove
      <4>6. f[x] \in Nat /\ f[x] =< M
        BY <1>3
      <4> HIDE DEF t, M
      <4>7. (Cardinality(s) - 1) * M + M = Cardinality(s) * M
        BY <1>1, <3>1
      <4>8. (Cardinality(s) - 1) * M \in Int /\ Cardinality(s) * M \in Int
        BY <1>1, <3>1
      <4>9. SumOf(f, t) =< (Cardinality(s) - 1) * M
        BY <4>2, <4>3
      <4>10. SumOf(f, s) =< Cardinality(s) * M
        BY <1>1, <4>4, <4>5, <4>6, <4>7, <4>8, <4>9
      <4> QED
        BY <2>1, <4>10
    <3> QED
      BY <3>2, <3>3
  <2>2. F = {}
    BY <1>3, <2>1, SmallestSet
  <2> QED
    BY <1>3, <2>2, SumRemove
\* The sum the code computes is the one that is reasoned about here.
<1>4. ASSUME PerformanceTypeOK, NEW e \in Employee
      PROVE  TotalWeight(e) = SumOf(Weighs(e), Goal)
  <2> DEFINE T == GoalsOf(e)
             weights == [g \in T |-> db.goal[g].weight]
             Adds(iter) == iter = [s \in SUBSET T |->
                               IF s = {} THEN 0
                               ELSE LET x == First(s) IN db.goal[x].weight + iter[s \ {x}]]
             J == CHOOSE iter : Adds(iter)
  <2>1. TotalWeight(e) = J[T]
    BY DEF TotalWeight, MapThenSumSet, MapThenFoldSet, First
  <2>2. /\ T \in SUBSET Goal
        /\ \A g \in Goal : Weighs(e)[g] \in Int
        /\ \A g \in T : Weighs(e)[g] = weights[g]
        /\ \A g \in Goal \ T : Weighs(e)[g] = 0
    BY <1>2, <1>4 DEF GoalsOf, Weighs, PerformanceTypeOK
  <2>3. IsFiniteSet(T)
    BY <1>2, <2>2, FS_Subset
  <2>4. \A s \in SUBSET T : s # {} => weights[First(s)] = db.goal[First(s)].weight
    BY DEF First
  <2>5. \A iter : Iterates(iter, weights, T) <=> Adds(iter)
    BY <2>4 DEF Iterates
  <2>6. Adds(J)
    <3>1. \E iter : Adds(iter)
      BY <2>3, <2>5, SumUnfold
    <3> HIDE DEF Adds
    <3> QED
      BY <3>1
  <2> HIDE DEF T, weights, Adds, J
  <2>7. J[T] = SumOf(weights, T)
    BY <2>3, <2>5, <2>6, SumUnfold
  <2>8. SumOf(Weighs(e), Goal) = SumOf(weights, T)
    BY <1>2, <2>2, SumAgree
  <2> QED
    BY <2>1, <2>7, <2>8
<1>5. ASSUME PerformanceTypeOK, NEW e \in Employee
      PROVE  /\ \A g \in Goal : Weighs(e)[g] \in Nat
             /\ \A w \in Worker : Promises(e)[w] \in Nat /\ Promises(e)[w] =< M
             /\ SumOf(Weighs(e), Goal) \in Nat /\ SumOf(Promises(e), Worker) \in Nat
  <2>1. \A g \in Goal : Weighs(e)[g] \in Nat
    BY <1>2, <1>5 DEF Weighs, PerformanceTypeOK
  <2>2. \A w \in Worker : handler[w].pc = "createGoal" => handler[w].weight \in Weights
    BY <1>5 DEF PerformanceTypeOK
  <2>3. \A w \in Worker : Promises(e)[w] \in Nat /\ Promises(e)[w] =< M
    BY <1>1, <2>2 DEF Promises
  <2> QED
    BY <1>2, <2>1, <2>3, SumRemove
<1>6. WeightsInv => WeightBounded
  <2> SUFFICES ASSUME WeightsInv, NEW e \in Employee PROVE TotalWeight(e) =< Room(e)
    BY DEF WeightBounded, Room
  <2>1. /\ PerformanceTypeOK
        /\ SumOf(Weighs(e), Goal) + SumOf(Promises(e), Worker) =< Room(e)
    BY DEF WeightsInv
  <2>2. Room(e) \in Int
    BY <1>1, <1>2 DEF Room
  <2>3. TotalWeight(e) = SumOf(Weighs(e), Goal)
    BY <1>4, <2>1
  <2> QED
    BY <1>5, <2>1, <2>2, <2>3
<1>7. PerformanceInit => WeightsInv
  <2> SUFFICES ASSUME PerformanceInit PROVE WeightsInv
    OBVIOUS
  <2>1. PerformanceTypeOK
    BY <1>2 DEF PerformanceInit, InitHandlers, PerformanceTypeOK, NoGoal, Idle
  <2>2. ASSUME NEW e \in Employee
        PROVE  SumOf(Weighs(e), Goal) + SumOf(Promises(e), Worker) =< Room(e)
    <3>1. /\ \A g \in Goal : Weighs(e)[g] = 0
          /\ \A w \in Worker : Promises(e)[w] = 0
          /\ Room(e) = Full
      BY DEF PerformanceInit, InitHandlers, NoGoal, Idle, Weighs, Promises, Room
    <3>2. SumOf(Weighs(e), Goal) = 0 /\ SumOf(Promises(e), Worker) = 0
      BY <1>2, <3>1, SumRemove
    <3> QED
      BY <1>2, <3>1, <3>2
  <2> QED
    BY <2>1, <2>2 DEF WeightsInv
<1>8. WeightsInv /\ [PerformanceNext]_vars => WeightsInv'
  <2> SUFFICES ASSUME WeightsInv, [PerformanceNext]_vars PROVE WeightsInv'
    OBVIOUS
  <2>1. /\ PerformanceTypeOK
        /\ db \in [goal : [Goal -> [of : Employee \union {None}, weight : 0..Full,
                           actual : Ratings \union {None}, latest : Ratings \union {None}]],
                   rating : [Employee -> Ratings \union {None}]]
        /\ \E D : handler \in [Worker -> D]
    BY DEF WeightsInv, PerformanceTypeOK
  <2> DEFINE Held(e) == SumOf(Weighs(e), Goal) + SumOf(Promises(e), Worker) =< Room(e)
  <2>2. ASSUME NEW e \in Employee
        PROVE  /\ Held(e) /\ e # None
               /\ Room(e) \in Int /\ Full + (W - 1) * M \in Int
               /\ Worker # {} => Full =< Full + (W - 1) * M
    <3>1. e # None /\ Held(e)
      BY ServicesAssumption DEF WeightsInv
    <3> HIDE DEF M, W
    <3>2. /\ (W - 1) * M \in Int
          /\ W - 1 \in Nat => (W - 1) * M >= 0
      <4>1. \A a, b \in Int : a * b \in Int /\ (a \in Nat /\ b \in Nat => a * b >= 0)
        OBVIOUS
      <4> QED
        BY <1>1, <1>2, <4>1
    <3> DEFINE N == (W - 1) * M
    <3>3. Room(e) = IF e \in overlapped THEN Full + N ELSE Full
      BY DEF Room, M, W
    <3>4. Worker # {} => W - 1 \in Nat
      BY <1>2
    <3>5. N \in Int /\ (Worker # {} => N >= 0)
      BY <3>2, <3>4
    <3>6. /\ Full + N \in Int /\ Room(e) \in Int
          /\ Worker # {} => Full =< Full + N
      <4> HIDE DEF N
      <4> QED
        BY <1>2, <3>3, <3>5
    <3> QED
      BY <3>1, <3>6
  \* The weights of goals and the handlers of goals stay.
  <2>3. ASSUME PerformanceTypeOK', overlapped \subseteq overlapped', Worker # {},
               \A e \in Employee : Weighs(e)' = Weighs(e) /\ Promises(e)' = Promises(e)
        PROVE  WeightsInv'
    <3>1. ASSUME NEW e \in Employee PROVE Held(e)'
      <4>1. Room(e) =< Room(e)' /\ Room(e)' \in Int
        BY <1>2, <2>2, <2>3 DEF Room
      <4>2. SumOf(Weighs(e), Goal) \in Nat /\ SumOf(Promises(e), Worker) \in Nat
        BY <1>5, <2>1
      <4>3. SumOf(Weighs(e)', Goal) + SumOf(Promises(e)', Worker) =< Room(e)'
        BY <2>2, <2>3, <4>1, <4>2
      <4> QED
        BY <4>3
    <3> QED
      BY <2>3, <3>1 DEF WeightsInv
  \* A handler begins that is about to insert no goal.
  <2>4. ASSUME NEW w \in Worker, NEW h, Begin(w, h), h.pc # "createGoal", PerformanceTypeOK',
               \A g \in Goal : /\ db'.goal[g].of = db.goal[g].of
                               /\ db'.goal[g].weight = db.goal[g].weight
        PROVE  WeightsInv'
    <3>1. handler[w] = Idle /\ handler' = [handler EXCEPT ![w] = h] /\ overlapped \subseteq overlapped'
      BY <2>4 DEF Begin
    <3>2. ASSUME NEW e \in Employee PROVE Weighs(e)' = Weighs(e) /\ Promises(e)' = Promises(e)
      BY <2>1, <2>4, <3>1 DEF Weighs, Promises, Idle
    <3> QED
      BY <2>3, <2>4, <3>1, <3>2
  \* A handler ends without having inserted a goal.
  <2>5. ASSUME NEW w \in Worker, Finish(w) \/ Abort(w), PerformanceTypeOK',
               \A g \in Goal : /\ db'.goal[g].of = db.goal[g].of
                               /\ db'.goal[g].weight = db.goal[g].weight
        PROVE  WeightsInv'
    <3>1. handler' = [handler EXCEPT ![w] = Idle] /\ overlapped' = overlapped
      BY <2>5 DEF Finish, Goto, Abort
    <3>2. ASSUME NEW e \in Employee PROVE Held(e)'
      <4>1. Weighs(e)' = Weighs(e)
        BY <2>5 DEF Weighs
      <4>2. /\ \A v \in Worker \ {w} : Promises(e)'[v] = Promises(e)[v]
            /\ Promises(e)'[w] = 0
        BY <2>1, <3>1 DEF Promises, Idle
      <4>3. /\ \A v \in Worker : Promises(e)[v] \in Int /\ Promises(e)[v] >= 0
            /\ SumOf(Weighs(e), Goal) \in Nat /\ SumOf(Promises(e), Worker) \in Nat
        BY <1>5, <2>1
      <4>4. SumOf(Promises(e)', Worker) = SumOf(Promises(e), Worker) - Promises(e)[w]
        <5> DEFINE f == Promises(e)
                   g == Promises(e)'
        <5>1. \A v \in Worker : f[v] \in Int /\ g[v] \in Int
          BY <4>2, <4>3
        <5>2. \A v \in Worker \ {w} : f[v] = g[v]
          BY <4>2
        <5>3. g[w] = 0
          BY <4>2
        <5>4. SumOf(f, Worker) \in Int /\ f[w] \in Int
          BY <4>3
        <5> HIDE DEF f, g
        <5>5. SumOf(g, Worker) = SumOf(f, Worker) - f[w] + g[w]
          BY <1>2, <5>1, <5>2, SumUpdate
        <5>6. SumOf(g, Worker) = SumOf(f, Worker) - f[w]
          BY <5>3, <5>4, <5>5
        <5> QED
          BY <5>6 DEF f, g
      <4>5. Room(e)' = Room(e)
        BY <3>1 DEF Room
      <4>6. SumOf(Weighs(e)', Goal) + SumOf(Promises(e)', Worker) =< Room(e)'
        BY <2>2, <4>1, <4>3, <4>4, <4>5
      <4> QED
        BY <4>6
    <3> QED
      BY <2>5, <3>2 DEF WeightsInv
  <2>6. ASSUME NEW w \in Worker, NEW f \in Employee, NEW k \in Weights, CreateGoalRead(w, f, k),
               PerformanceTypeOK'
        PROVE  WeightsInv'
    <3> DEFINE h == [pc |-> "createGoal", on |-> f, weight |-> k]
    <3>1. /\ handler[w] = Idle /\ handler' = [handler EXCEPT ![w] = h] /\ db' = db
          /\ TotalWeight(f) + k =< Full /\ Begin(w, h)
          /\ overlapped \subseteq overlapped'
          /\ k \in Nat /\ k =< M
      BY <1>1, <2>6 DEF CreateGoalRead, Start, Begin
    <3>2. ASSUME NEW e \in Employee PROVE Held(e)'
      <4>1. /\ Weighs(e)' = Weighs(e)
            /\ \A v \in Worker \ {w} : Promises(e)'[v] = Promises(e)[v]
            /\ Promises(e)[w] = 0
            /\ Promises(e)'[w] = IF e = f THEN k ELSE 0
        BY <2>1, <3>1 DEF Weighs, Promises, Idle
      <4>2. /\ \A v \in Worker : Promises(e)[v] \in Nat /\ Promises(e)[v] =< M
            /\ SumOf(Weighs(e), Goal) \in Nat /\ SumOf(Promises(e), Worker) \in Nat
        BY <1>5, <2>1
      <4>3. Room(e) =< Room(e)' /\ Room(e)' \in Int
        BY <1>2, <2>2, <3>1 DEF Room
      <4>4. CASE e # f
        <5>1. Promises(e)' = Promises(e)
          BY <4>1, <4>4 DEF Promises
        <5>2. SumOf(Weighs(e)', Goal) + SumOf(Promises(e)', Worker) =< Room(e)'
          BY <2>2, <4>1, <4>2, <4>3, <5>1
        <5> QED
          BY <5>2
      <4>5. CASE e = f
        <5> DEFINE p == Promises(e)
                   q == Promises(e)'
        <5>1. SumOf(q, Worker) = SumOf(p, Worker) + k
          <6>1. \A v \in Worker : p[v] \in Int /\ q[v] \in Int
            BY <3>1, <4>1, <4>2
          <6>2. \A v \in Worker \ {w} : p[v] = q[v]
            BY <4>1
          <6>3. p[w] = 0 /\ q[w] = k /\ SumOf(p, Worker) \in Int
            BY <4>1, <4>2, <4>5
          <6> HIDE DEF p, q
          <6>4. SumOf(q, Worker) = SumOf(p, Worker) - p[w] + q[w]
            BY <1>2, <6>1, <6>2, SumUpdate
          <6> QED
            BY <3>1, <6>3, <6>4
        <5>2. SumOf(Weighs(e), Goal) + k =< Full
          BY <1>4, <2>1, <3>1, <4>5
        \* Nobody else is about to insert a goal, or the others have weights
        \* of at most M each.
        <5>3. CASE e \notin overlapped'
          <6>1. \A v \in Worker : handler[v].on # e
            BY <3>1, <4>5, <5>3 DEF Begin
          <6>2. \A v \in Worker : p[v] = 0
            BY <6>1 DEF Promises
          <6>3. SumOf(p, Worker) = 0
            <7> HIDE DEF p
            <7> QED
              BY <1>2, <6>2, SumRemove
          <6>4. Room(e)' = Full
            BY <5>3 DEF Room
          <6>5. SumOf(Weighs(e)', Goal) + SumOf(q, Worker) =< Room(e)'
            BY <3>1, <4>1, <4>2, <5>1, <5>2, <6>3, <6>4
          <6> QED
            BY <6>5
        <5>4. CASE e \in overlapped'
          <6> DEFINE O == Worker \ {w}
          <6>1. SumOf(p, Worker) = p[w] + SumOf(p, O) /\ p[w] = 0
            <7>1. p[w] = 0 /\ \A v \in Worker : p[v] \in Int
              BY <4>1, <4>2
            <7> HIDE DEF p
            <7> QED
              BY <1>2, <7>1, SumRemove
          <6>2. /\ SumOf(p, O) \in Nat /\ SumOf(p, O) =< Cardinality(O) * M
                /\ Cardinality(O) = W - 1
            <7>1. IsFiniteSet(O) /\ \A v \in O : p[v] \in Nat /\ p[v] =< M
              BY <1>2, <4>2, FS_RemoveElement
            <7> HIDE DEF p, O, M
            <7>2. SumOf(p, O) \in Nat /\ SumOf(p, O) =< Cardinality(O) * M
              BY <1>3, <7>1
            <7> QED
              BY <1>2, <7>2 DEF O
          <6>3. Room(e)' = Full + (W - 1) * M
            BY <5>4 DEF Room
          <6> DEFINE N == (W - 1) * M
          <6>4. SumOf(p, Worker) =< N /\ N \in Int
            <7>1. Full + N \in Int /\ Full \in Int
              BY <1>2, <2>2
            <7>2. N \in Int
              BY <1>1, <1>2
            <7> HIDE DEF N
            <7>3. SumOf(p, O) =< N
              BY <6>2 DEF N
            <7> QED
              BY <6>1, <6>2, <7>2, <7>3
          <6> HIDE DEF N
          <6>5. Room(e)' = Full + N
            BY <6>3 DEF N
          <6>6. SumOf(Weighs(e)', Goal) + SumOf(q, Worker) =< Room(e)'
            BY <1>2, <3>1, <4>1, <4>2, <5>1, <5>2, <6>4, <6>5
          <6> QED
            BY <6>6
        <5> QED
          BY <5>3, <5>4
      <4> QED
        BY <4>4, <4>5
    <3> QED
      BY <2>6, <3>2 DEF WeightsInv
  \* The weight of the goal moves from the handler to the row.
  <2>7. ASSUME NEW w \in Worker, NEW i \in Goal, CreateGoalInsert(w, i), PerformanceTypeOK'
        PROVE  WeightsInv'
    <3>1. PICK f \in Employee, k \in Weights :
              handler[w].pc = "createGoal" /\ handler[w].on = f /\ handler[w].weight = k
      BY <2>1, <2>7 DEF CreateGoalInsert, At, PerformanceTypeOK
    <3>2. /\ handler' = [handler EXCEPT ![w] = Idle] /\ overlapped' = overlapped
          /\ db' = [db EXCEPT !.goal[i] = [NoGoal EXCEPT !.of = f, !.weight = k]]
          /\ db.goal[i] = NoGoal
          /\ k \in Nat
      BY <1>1, <2>7, <3>1 DEF CreateGoalInsert, Finish, Goto
    <3>3. /\ \A j \in Goal \ {i} : db'.goal[j] = db.goal[j]
          /\ db'.goal[i].of = f /\ db'.goal[i].weight = k
          /\ db.goal[i].of = None
      BY <2>1, <3>2 DEF NoGoal
    <3>4. ASSUME NEW e \in Employee PROVE Held(e)'
      <4> DEFINE p == Promises(e)
                 q == Promises(e)'
                 a == Weighs(e)
                 b == Weighs(e)'
                 n == IF e = f THEN k ELSE 0
      <4>1. /\ \A v \in Worker \ {w} : p[v] = q[v]
            /\ p[w] = n /\ q[w] = 0
        BY <2>1, <3>1, <3>2 DEF Promises, Idle
      <4>2. /\ \A j \in Goal \ {i} : a[j] = b[j]
            /\ a[i] = 0 /\ b[i] = n
        BY <2>2, <3>3 DEF Weighs
      <4>3. /\ \A v \in Worker : p[v] \in Int
            /\ \A j \in Goal : a[j] \in Int
            /\ SumOf(a, Goal) \in Int /\ SumOf(p, Worker) \in Int
        BY <1>5, <2>1
      <4>4. n \in Int
        BY <3>2
      <4>5. SumOf(a, Goal) + SumOf(p, Worker) =< Room(e) /\ Room(e) \in Int
        BY <2>2
      <4>6. Room(e)' = Room(e)
        BY <3>2 DEF Room
      <4> HIDE DEF p, q, a, b, n
      <4>7. SumOf(q, Worker) = SumOf(p, Worker) - p[w] + q[w]
        <5>1. \A v \in Worker : p[v] \in Int /\ q[v] \in Int
          BY <4>1, <4>3, <4>4
        <5> QED
          BY <1>2, <4>1, <5>1, SumUpdate
      <4>8. SumOf(b, Goal) = SumOf(a, Goal) - a[i] + b[i]
        <5>1. \A j \in Goal : a[j] \in Int /\ b[j] \in Int
          BY <4>2, <4>3, <4>4
        <5>2. \A j \in Goal \ {i} : a[j] = b[j]
          BY <4>2
        <5>3. IsFiniteSet(Goal)
          BY <1>2
        <5> QED
          BY <5>1, <5>2, <5>3, SumUpdate
      <4>9. SumOf(b, Goal) + SumOf(q, Worker) =< Room(e)'
        BY <4>1, <4>2, <4>3, <4>4, <4>5, <4>6, <4>7, <4>8
      <4> QED
        BY <4>9 DEF b, q
    <3> QED
      BY <2>7, <3>4 DEF WeightsInv
  <2>8. PerformanceTypeOK'
    <3> DEFINE Handlers == [Worker -> [pc : {"idle"}, on : {None}]
                   \union [pc : {"createGoal"}, on : Employee, weight : Weights]
                   \union [pc : {"checkIn"}, on : Goal, value : Ratings]
                   \union [pc : {"review"}, on : Employee, rating : Ratings, read : BOOLEAN]
                   \union [pc : {"override"}, on : Employee, rating : Ratings]]
               Row == [of : Employee \union {None}, weight : 0..Full,
                       actual : Ratings \union {None}, latest : Ratings \union {None}]
               Tables == [goal : [Goal -> Row], rating : [Employee -> Ratings \union {None}]]
    <3>1. handler \in Handlers /\ db \in Tables
      BY <2>1 DEF PerformanceTypeOK
    <3>2. SUFFICES handler' \in Handlers /\ db' \in Tables
      BY DEF PerformanceTypeOK
    <3>3. ASSUME NEW w \in Worker, Finish(w) \/ Abort(w) PROVE handler' \in Handlers
      BY <3>1, <3>3 DEF Finish, Goto, Abort, Idle
    <3>4. ASSUME NEW w \in Worker, NEW f \in Employee, NEW k \in Weights, CreateGoalRead(w, f, k)
          PROVE  handler' \in Handlers /\ db' \in Tables
      BY <3>1, <3>4 DEF CreateGoalRead, Start, Begin
    <3>5. ASSUME NEW w \in Worker, NEW f \in Employee, NEW k \in Ratings,
                 ReviewRead(w, f, k) \/ OverrideRead(w, f, k)
          PROVE  handler' \in Handlers /\ db' \in Tables
      <4>1. PICK h : /\ \/ h \in [pc : {"review"}, on : Employee, rating : Ratings, read : BOOLEAN]
                        \/ h \in [pc : {"override"}, on : Employee, rating : Ratings]
                     /\ Start(w, h)
        <5>1. \A b \in BOOLEAN : [pc |-> "review", on |-> f, rating |-> k, read |-> b] \in
                  [pc : {"review"}, on : Employee, rating : Ratings, read : BOOLEAN]
          OBVIOUS
        <5>2. (db.rating[f] # None) \in BOOLEAN
          OBVIOUS
        <5>3. CASE ReviewRead(w, f, k)
          BY <5>1, <5>2, <5>3 DEF ReviewRead
        <5>4. CASE OverrideRead(w, f, k)
          BY <5>4 DEF OverrideRead
        <5> QED
          BY <3>5, <5>3, <5>4
      <4> QED
        BY <3>1, <4>1 DEF Start, Begin
    <3>6. ASSUME NEW w \in Worker, NEW g \in Goal, CreateGoalInsert(w, g)
          PROVE  handler' \in Handlers /\ db' \in Tables
      <4>1. PICK f \in Employee, k \in Weights : handler[w].on = f /\ handler[w].weight = k
        BY <3>1, <3>6 DEF CreateGoalInsert, At
      <4>2. [NoGoal EXCEPT !.of = f, !.weight = k] \in Row
        BY PerformanceAssumption DEF NoGoal
      <4>3. db' = [db EXCEPT !.goal[g] = [NoGoal EXCEPT !.of = f, !.weight = k]]
        BY <3>6, <4>1 DEF CreateGoalInsert
      <4>4. db' \in Tables
        BY <3>1, <4>2, <4>3
      <4> QED
        BY <3>3, <3>6, <4>4 DEF CreateGoalInsert
    <3>7. ASSUME NEW g \in Goal, NEW k \in Ratings,
                 db' = [db EXCEPT !.goal[g].latest = k] \/ db' = [db EXCEPT !.goal[g].actual = k]
          PROVE  /\ db' \in Tables
                 /\ \A j \in Goal : /\ db'.goal[j].of = db.goal[j].of
                                    /\ db'.goal[j].weight = db.goal[j].weight
      <4>1. [db.goal[g] EXCEPT !.latest = k] \in Row /\ [db.goal[g] EXCEPT !.actual = k] \in Row
        BY <3>1
      <4>2. PICK row \in Row : /\ db' = [db EXCEPT !.goal[g] = row]
                               /\ row.of = db.goal[g].of /\ row.weight = db.goal[g].weight
        BY <3>1, <3>7, <4>1
      <4> HIDE DEF Row
      <4> QED
        BY <3>1, <4>2
    <3>8. ASSUME NEW w \in Worker, NEW g \in Goal, NEW k \in Ratings, CheckIn(w, g, k)
          PROVE  handler' \in Handlers /\ db' \in Tables
      BY <3>1, <3>7, <3>8 DEF CheckIn, Begin
    <3>9. ASSUME NEW w \in Worker, CheckInUpdateGoal(w)
          PROVE  handler' \in Handlers /\ db' \in Tables
      <4>1. handler[w].on \in Goal /\ handler[w].value \in Ratings
        BY <3>1, <3>9 DEF CheckInUpdateGoal, At
      <4> QED
        BY <3>3, <3>7, <3>9, <4>1 DEF CheckInUpdateGoal
    <3>10. ASSUME NEW w \in Worker, ReviewWrite(w) \/ OverrideWrite(w)
          PROVE  handler' \in Handlers /\ db' \in Tables
      <4>1. handler[w].on \in Employee /\ handler[w].rating \in Ratings
        BY <3>1, <3>10 DEF ReviewWrite, OverrideWrite, At
      <4>2. db' = db \/ db' = [db EXCEPT !.rating[handler[w].on] = handler[w].rating]
        BY <3>10 DEF ReviewWrite, OverrideWrite
      <4> QED
        BY <3>1, <3>3, <3>10, <4>1, <4>2 DEF ReviewWrite, OverrideWrite
    <3>11. CASE UNCHANGED vars
      BY <3>1, <3>11 DEF vars
    <3>12. ASSUME NEW w \in Worker, Abort(w) PROVE handler' \in Handlers /\ db' \in Tables
      BY <3>1, <3>3, <3>12 DEF Abort
    <3> HIDE DEF Handlers, Tables
    <3> QED
      BY <3>4, <3>5, <3>6, <3>8, <3>9, <3>10, <3>11, <3>12 DEF PerformanceNext, PerformanceStep
  <2> DEFINE SameWeights == \A g \in Goal : /\ db'.goal[g].of = db.goal[g].of
                                            /\ db'.goal[g].weight = db.goal[g].weight
  \* What check-ins write leaves the weights alone.
  <2>9. ASSUME NEW g \in Goal, NEW k,
               db' = [db EXCEPT !.goal[g].latest = k] \/ db' = [db EXCEPT !.goal[g].actual = k]
        PROVE  SameWeights
    <3>1. PICK row : /\ db' = [db EXCEPT !.goal[g] = row]
                     /\ row.of = db.goal[g].of /\ row.weight = db.goal[g].weight
      BY <2>1, <2>9
    <3> QED
      BY <2>1, <3>1
  <2>10. ASSUME NEW w \in Worker, NEW f \in Employee, NEW k \in Ratings,
                ReviewRead(w, f, k) \/ OverrideRead(w, f, k)
         PROVE  WeightsInv'
    BY <2>4, <2>8, <2>10 DEF ReviewRead, OverrideRead, Start
  <2>11. ASSUME NEW w \in Worker, NEW g \in Goal, NEW k \in Ratings, CheckIn(w, g, k)
         PROVE  WeightsInv'
    BY <2>4, <2>8, <2>9, <2>11 DEF CheckIn
  <2>12. ASSUME NEW w \in Worker, CheckInUpdateGoal(w) PROVE WeightsInv'
    <3>1. handler[w].on \in Goal
      BY <2>1, <2>12 DEF CheckInUpdateGoal, At, PerformanceTypeOK
    <3>2. SameWeights
      BY <2>9, <2>12, <3>1 DEF CheckInUpdateGoal
    <3> QED
      BY <2>5, <2>8, <2>12, <3>2 DEF CheckInUpdateGoal
  <2>13. ASSUME NEW w \in Worker, ReviewWrite(w) \/ OverrideWrite(w) PROVE WeightsInv'
    <3>1. SameWeights
      BY <2>1, <2>13 DEF ReviewWrite, OverrideWrite
    <3> QED
      BY <2>5, <2>8, <2>13, <3>1 DEF ReviewWrite, OverrideWrite
  <2>14. ASSUME NEW w \in Worker, Abort(w) PROVE WeightsInv'
    BY <2>5, <2>8, <2>14 DEF Abort
  <2>15. CASE UNCHANGED vars
    <3>1. ASSUME NEW e \in Employee PROVE Held(e)'
      <4>1. /\ Weighs(e)' = Weighs(e) /\ Promises(e)' = Promises(e) /\ Room(e)' = Room(e)
        BY <2>15 DEF vars, Weighs, Promises, Room
      <4> QED
        BY <2>2, <4>1
    <3> QED
      BY <2>8, <3>1 DEF WeightsInv
  <2> QED
    BY <2>6, <2>7, <2>8, <2>10, <2>11, <2>12, <2>13, <2>14, <2>15
    DEF PerformanceNext, PerformanceStep
<1> QED
  BY <1>6, <1>7, <1>8, PTL DEF PerformanceSpec
----------------------------------------------------------------------------
(* Copies.                                                                 *)

Alone ==
    \A v, w \in Worker : (v # w /\ handler[v].on = handler[w].on /\ handler[v].on # None)
                            => handler[v].on \in overlapped

\* Two handlers on one row are noted when the second of them begins.
LEMMA AloneStep ==
    ASSUME Alone, NEW D, handler \in [Worker -> D], NEW w \in Worker
    PROVE  /\ \A h : Begin(w, h) => /\ Alone' /\ overlapped \subseteq overlapped'
                                    /\ handler' = [handler EXCEPT ![w] = h]
           /\ Finish(w) \/ Abort(w) => /\ Alone' /\ overlapped' = overlapped
                                       /\ handler' = [handler EXCEPT ![w] = Idle]
<1>1. ASSUME NEW h, Begin(w, h)
      PROVE  Alone' /\ overlapped \subseteq overlapped' /\ handler' = [handler EXCEPT ![w] = h]
  <2>1. /\ handler' = [handler EXCEPT ![w] = h] /\ overlapped \subseteq overlapped'
        /\ \A v \in Worker : handler[v].on = h.on => h.on \in overlapped'
    BY <1>1 DEF Begin
  <2>2. \A v \in Worker : handler'[v] = IF v = w THEN h ELSE handler[v]
    BY <2>1
  <2> QED
    BY <2>1, <2>2 DEF Alone
<1>2. ASSUME Finish(w) \/ Abort(w)
      PROVE  Alone' /\ overlapped' = overlapped /\ handler' = [handler EXCEPT ![w] = Idle]
  <2>1. handler' = [handler EXCEPT ![w] = Idle] /\ overlapped' = overlapped
    BY <1>2 DEF Finish, Goto, Abort
  <2>2. \A v \in Worker : handler'[v] = IF v = w THEN Idle ELSE handler[v]
    BY <2>1
  <2> QED
    BY <2>1, <2>2 DEF Alone, Idle
<1> QED
  BY <1>1, <1>2

----------------------------------------------------------------------------
(* Expenses.                                                               *)

ClaimCopy(w) ==
    LET h == handler[w] IN
    h.on \notin overlapped =>
        /\ h.pc = "submit" => db.claim[h.on].status = "draft"
        /\ h.pc = "decide" => db.claim[h.on] = h.read /\ h.read # NoClaim

ExpensesInv == ExpensesTypeOK /\ Alone /\ \A w \in Worker : ClaimCopy(w)

\* As long as no two calls about a claim overlap, no order of submissions and
\* decisions, and no death of a handler, takes a decision or its date away.
THEOREM DecisionsStay == ExpensesSpec => DecisionsAreKept
<1> DEFINE Kept == office = "expenses" => \A c \in Claim \ overlapped' :
        LET old == db.claim[c]
            new == db'.claim[c] IN
        /\ Decided(old) => Decided(new)
        /\ old.approved => new.approved
        /\ old.paid => new.paid
<1>1. ExpensesInit => ExpensesInv
  BY DEF ExpensesInit, InitHandlers, ExpensesInv, ExpensesTypeOK, ClaimRow, NoClaim, Idle,
         Alone, ClaimCopy
<1>2. ExpensesInv /\ [ExpensesNext]_vars => ExpensesInv' /\ [Kept]_vars
  <2> SUFFICES ASSUME ExpensesInv, [ExpensesNext]_vars
               PROVE  ExpensesInv' /\ Kept
    OBVIOUS
  <2>1. /\ ExpensesTypeOK /\ Alone /\ \A w \in Worker : ClaimCopy(w)
        /\ \E D : handler \in [Worker -> D]
        /\ NoClaim \in ClaimRow
    BY DEF ExpensesInv, ExpensesTypeOK, ClaimRow, NoClaim
  <2>2. CASE UNCHANGED vars
    BY <2>1, <2>2 DEF vars, ExpensesInv, ExpensesTypeOK, Alone, ClaimCopy
  <2>3. ASSUME NEW c \in Claim, CreateClaim(c) PROVE ExpensesInv' /\ Kept
    <3>1. /\ db' = [db EXCEPT !.claim[c].status = "draft"] /\ db.claim[c] = NoClaim
          /\ handler' = handler /\ overlapped' = overlapped
      BY <2>3 DEF CreateClaim, Call
    <3>2. /\ ExpensesTypeOK'
          /\ \A b \in Claim \ {c} : db'.claim[b] = db.claim[b]
      BY <2>1, <3>1 DEF ExpensesTypeOK, ClaimRow
    <3>3. ASSUME NEW w \in Worker PROVE ClaimCopy(w)'
      BY <2>1, <3>1, <3>2 DEF ClaimCopy, ExpensesTypeOK, NoClaim
    <3> QED
      BY <2>1, <3>1, <3>2, <3>3 DEF ExpensesInv, Alone, NoClaim, Decided, Decisions
  <2>4. ASSUME NEW w \in Worker, NEW h, Start(w, h), h.on \in Claim,
               \/ h = [pc |-> "submit", on |-> h.on] /\ db.claim[h.on].status = "draft"
               \/ /\ h.decision \in Decisions /\ db.claim[h.on] # NoClaim
                  /\ h = [pc |-> "decide", on |-> h.on, decision |-> h.decision,
                          read |-> db.claim[h.on]]
        PROVE  ExpensesInv' /\ Kept
    <3>1. /\ Alone' /\ overlapped \subseteq overlapped' /\ db' = db
          /\ handler' = [handler EXCEPT ![w] = h]
      BY <2>1, <2>4, AloneStep DEF Start
    <3>2. db.claim[h.on] \in ClaimRow
      BY <2>1, <2>4 DEF ExpensesTypeOK
    <3>3. ExpensesTypeOK'
      BY <2>1, <2>4, <3>1, <3>2 DEF ExpensesTypeOK
    <3>4. ASSUME NEW v \in Worker PROVE ClaimCopy(v)'
      BY <2>1, <2>4, <3>1 DEF ClaimCopy, ExpensesTypeOK
    <3> QED
      BY <3>1, <3>3, <3>4 DEF ExpensesInv
  <2>5. ASSUME NEW w \in Worker, Finish(w), NEW c \in Claim, handler[w].on = c, NEW row \in ClaimRow,
               db' = [db EXCEPT !.claim[c] = row],
               c \notin overlapped => /\ Decided(db.claim[c]) => Decided(row)
                                      /\ db.claim[c].approved => row.approved
                                      /\ db.claim[c].paid => row.paid
        PROVE  ExpensesInv' /\ Kept
    <3>1. Alone' /\ overlapped' = overlapped /\ handler' = [handler EXCEPT ![w] = Idle]
      BY <2>1, <2>5, AloneStep
    <3>2. \A b \in Claim : db'.claim[b] = IF b = c THEN row ELSE db.claim[b]
      BY <2>1, <2>5 DEF ExpensesTypeOK
    <3>3. ExpensesTypeOK'
      BY <2>1, <2>5, <3>1 DEF ExpensesTypeOK, Idle
    <3>4. ASSUME NEW v \in Worker PROVE ClaimCopy(v)'
      <4>1. CASE v = w
        BY <2>1, <3>1, <4>1 DEF ClaimCopy, Idle, ExpensesTypeOK
      <4>2. CASE v # w
        <5>1. handler'[v] = handler[v] /\ (handler[v].on = c => c \in overlapped)
          BY <2>1, <2>5, <3>1, <4>2, ExpensesAssumption DEF Alone
        <5>2. handler[v].pc \in {"submit", "decide"} => handler[v].on \in Claim
          BY <2>1 DEF ExpensesTypeOK
        <5> QED
          BY <2>1, <3>1, <3>2, <5>1, <5>2 DEF ClaimCopy
      <4> QED
        BY <4>1, <4>2
    <3> QED
      BY <2>5, <3>1, <3>2, <3>3, <3>4 DEF ExpensesInv
  <2>6. ASSUME NEW w \in Worker, SubmitWrite(w) PROVE ExpensesInv' /\ Kept
    <3>1. PICK c \in Claim : handler[w].on = c
      BY <2>1, <2>6 DEF SubmitWrite, At, ExpensesTypeOK
    <3> DEFINE row == [db.claim[c] EXCEPT !.status = "submitted"]
    <3>2. row \in ClaimRow /\ db' = [db EXCEPT !.claim[c] = row] /\ Finish(w)
      BY <2>1, <2>6, <3>1 DEF SubmitWrite, ExpensesTypeOK, ClaimRow
    <3>3. c \notin overlapped => db.claim[c].status = "draft"
      BY <2>1, <2>6, <3>1 DEF SubmitWrite, At, ClaimCopy
    <3>4. /\ row.approved = db.claim[c].approved /\ row.paid = db.claim[c].paid
          /\ c \notin overlapped => ~Decided(db.claim[c])
      BY <2>1, <3>3 DEF Decided, Decisions, ExpensesTypeOK, ClaimRow
    <3> HIDE DEF row
    <3> QED
      BY <2>5, <3>1, <3>2, <3>4
  <2>7. ASSUME NEW w \in Worker, DecideStamp(w) PROVE ExpensesInv' /\ Kept
    <3>1. /\ handler[w].on \in Claim /\ handler[w].decision \in Decisions
          /\ handler[w].read \in ClaimRow
      BY <2>1, <2>7 DEF DecideStamp, At, ExpensesTypeOK
    <3>2. PICK c \in Claim : handler[w].on = c
      BY <3>1
    <3> DEFINE row == [status |-> handler[w].decision,
                       approved |-> handler[w].decision = "approved" \/ handler[w].read.approved,
                       paid |-> handler[w].decision = "paid" \/ handler[w].read.paid]
    <3>3. row \in ClaimRow
      BY <3>1 DEF ClaimRow
    <3>4. db' = [db EXCEPT !.claim[c] = row] /\ Finish(w)
      BY <2>7, <3>2 DEF DecideStamp
    <3>5. c \notin overlapped => db.claim[c] = handler[w].read
      BY <2>1, <2>7, <3>2 DEF DecideStamp, At, ClaimCopy
    <3>6. /\ Decided(row)
          /\ handler[w].read.approved => row.approved
          /\ handler[w].read.paid => row.paid
      BY <3>1 DEF Decided
    <3> HIDE DEF row
    <3> QED
      BY <2>5, <3>2, <3>3, <3>4, <3>5, <3>6
  <2>8. ASSUME NEW w \in Worker, Abort(w) PROVE ExpensesInv' /\ Kept
    <3>1. /\ Alone' /\ overlapped' = overlapped /\ db' = db
          /\ handler' = [handler EXCEPT ![w] = Idle]
      BY <2>1, <2>8, AloneStep DEF Abort
    <3>2. ExpensesTypeOK' /\ \A v \in Worker : ClaimCopy(v)'
      BY <2>1, <3>1 DEF ExpensesTypeOK, ClaimCopy, Idle
    <3> QED
      BY <3>1, <3>2 DEF ExpensesInv
  <2>9. ASSUME NEW w \in Worker, NEW c \in Claim, SubmitRead(w, c) PROVE ExpensesInv' /\ Kept
    <3> DEFINE h == [pc |-> "submit", on |-> c]
    <3>1. Start(w, h) /\ h.on = c /\ db.claim[c].status = "draft"
      BY <2>9 DEF SubmitRead
    <3> QED
      BY <2>4, <3>1
  <2>10. ASSUME NEW w \in Worker, NEW c \in Claim, NEW d \in Decisions, DecideClaim(w, c, d)
         PROVE  ExpensesInv' /\ Kept
    <3> DEFINE h == [pc |-> "decide", on |-> c, decision |-> d, read |-> db.claim[c]]
    <3>1. Start(w, h) /\ h.on = c /\ h.decision = d /\ db.claim[c] # NoClaim
      BY <2>10 DEF DecideClaim
    <3> QED
      BY <2>4, <3>1
  <2> QED
    BY <2>2, <2>3, <2>6, <2>7, <2>8, <2>9, <2>10 DEF ExpensesNext, ExpensesStep
<1> QED
  BY <1>1, <1>2, PTL DEF ExpensesSpec, DecisionsAreKept
----------------------------------------------------------------------------
(* Onboarding.                                                             *)

SessionCopy(w) ==
    LET h == handler[w] IN
    (h.pc = "saveStep" /\ h.on \notin overlapped) =>
        db.session[h.on] = h.read /\ h.read # NoSession

OnboardingInv == OnboardingTypeOK /\ Alone /\ \A w \in Worker : SessionCopy(w)

\* Unless two calls about a session overlap, no order of saves and
\* completions, and no death of a handler, drops a step from its document.
THEOREM StepsStay == OnboardingSpec => StepsAreKept
<1> DEFINE Kept == office = "onboarding" => \A s \in OnboardingSession \ overlapped' :
        db.session[s].data \subseteq db'.session[s].data
<1>1. OnboardingInit => OnboardingInv
  BY OnboardingAssumption
  DEF OnboardingInit, InitHandlers, OnboardingInv, OnboardingTypeOK, SessionRow, NoSession,
      Idle, Alone, SessionCopy
<1>2. OnboardingInv /\ [OnboardingNext]_vars => OnboardingInv' /\ [Kept]_vars
  <2> SUFFICES ASSUME OnboardingInv, [OnboardingNext]_vars
               PROVE  OnboardingInv' /\ Kept
    OBVIOUS
  <2>0. TotalSteps \in Nat /\ TotalSteps >= 1 /\ TotalSteps \in 0..TotalSteps
    BY OnboardingAssumption
  <2>1. /\ OnboardingTypeOK /\ Alone /\ \A w \in Worker : SessionCopy(w)
        /\ \E D : handler \in [Worker -> D]
    BY DEF OnboardingInv, OnboardingTypeOK
  <2>2. CASE UNCHANGED vars
    BY <2>1, <2>2 DEF vars, OnboardingInv, OnboardingTypeOK, Alone, SessionCopy
  <2>3. ASSUME NEW s \in OnboardingSession, CreateSession(s) PROVE OnboardingInv' /\ Kept
    <3>1. /\ db' = [db EXCEPT !.session[s].step = 1] /\ db.session[s] = NoSession
          /\ handler' = handler /\ overlapped' = overlapped
      BY <2>3 DEF CreateSession, Call
    <3>2. /\ OnboardingTypeOK'
          /\ db'.session[s].data = db.session[s].data
          /\ \A r \in OnboardingSession \ {s} : db'.session[r] = db.session[r]
      BY <2>0, <2>1, <3>1 DEF OnboardingTypeOK, SessionRow
    <3>3. ASSUME NEW w \in Worker PROVE SessionCopy(w)'
      BY <2>1, <3>1, <3>2 DEF SessionCopy, OnboardingTypeOK
    <3> QED
      BY <2>1, <3>1, <3>2, <3>3 DEF OnboardingInv, Alone
  <2>4. ASSUME NEW w \in Worker, NEW h, Start(w, h), h.on \in OnboardingSession,
               \/ h = [pc |-> "complete", on |-> h.on]
               \/ /\ h.step \in Steps /\ h.mark \in BOOLEAN /\ db.session[h.on] # NoSession
                  /\ h = [pc |-> "saveStep", on |-> h.on, step |-> h.step, mark |-> h.mark,
                          read |-> db.session[h.on]]
        PROVE  OnboardingInv' /\ Kept
    <3>1. /\ Alone' /\ overlapped \subseteq overlapped' /\ db' = db
          /\ handler' = [handler EXCEPT ![w] = h]
      BY <2>1, <2>4, AloneStep DEF Start
    <3>2. db.session[h.on] \in SessionRow
      BY <2>1, <2>4 DEF OnboardingTypeOK
    <3>3. OnboardingTypeOK'
      BY <2>1, <2>4, <3>1, <3>2 DEF OnboardingTypeOK
    <3>4. ASSUME NEW v \in Worker PROVE SessionCopy(v)'
      BY <2>1, <2>4, <3>1 DEF SessionCopy, OnboardingTypeOK
    <3> QED
      BY <3>1, <3>3, <3>4 DEF OnboardingInv
  <2>5. ASSUME NEW w \in Worker, Finish(w), NEW s \in OnboardingSession, handler[w].on = s,
               NEW row \in SessionRow, db' = [db EXCEPT !.session[s] = row],
               s \notin overlapped => db.session[s].data \subseteq row.data
        PROVE  OnboardingInv' /\ Kept
    <3>1. Alone' /\ overlapped' = overlapped /\ handler' = [handler EXCEPT ![w] = Idle]
      BY <2>1, <2>5, AloneStep
    <3>2. \A r \in OnboardingSession : db'.session[r] = IF r = s THEN row ELSE db.session[r]
      BY <2>1, <2>5 DEF OnboardingTypeOK
    <3>3. OnboardingTypeOK'
      BY <2>1, <2>5, <3>1 DEF OnboardingTypeOK, Idle
    <3>4. ASSUME NEW v \in Worker PROVE SessionCopy(v)'
      <4>1. CASE v = w
        BY <2>1, <3>1, <4>1 DEF SessionCopy, Idle, OnboardingTypeOK
      <4>2. CASE v # w
        <5>1. handler'[v] = handler[v] /\ (handler[v].on = s => s \in overlapped)
          BY <2>1, <2>5, <3>1, <4>2, OnboardingAssumption DEF Alone
        <5>2. handler[v].pc = "saveStep" => handler[v].on \in OnboardingSession
          BY <2>1 DEF OnboardingTypeOK
        <5> QED
          BY <2>1, <3>1, <3>2, <5>1, <5>2 DEF SessionCopy
      <4> QED
        BY <4>1, <4>2
    <3> QED
      BY <2>5, <3>1, <3>2, <3>3, <3>4 DEF OnboardingInv
  <2>6. ASSUME NEW w \in Worker, SaveStepWrite(w) PROVE OnboardingInv' /\ Kept
    <3>1. /\ handler[w].on \in OnboardingSession /\ handler[w].step \in Steps
          /\ handler[w].mark \in BOOLEAN /\ handler[w].read \in SessionRow
      BY <2>1, <2>6 DEF SaveStepWrite, At, OnboardingTypeOK
    <3>2. PICK s \in OnboardingSession : handler[w].on = s
      BY <3>1
    <3>3. NextStep(handler[w]) \in 0..TotalSteps
      BY <2>0, <3>1 DEF NextStep, SessionRow, Steps
    <3> DEFINE row == [step |-> NextStep(handler[w]),
                       data |-> handler[w].read.data \union {handler[w].step},
                       complete |-> NextStep(handler[w]) >= TotalSteps /\ handler[w].mark]
    <3>4. row \in SessionRow /\ handler[w].read.data \subseteq row.data
      BY <3>1, <3>3 DEF SessionRow
    <3>5. db' = [db EXCEPT !.session[s] = row] /\ Finish(w)
      BY <2>6, <3>2 DEF SaveStepWrite
    <3>6. s \notin overlapped => db.session[s] = handler[w].read
      BY <2>1, <2>6, <3>2 DEF SaveStepWrite, At, SessionCopy
    <3> HIDE DEF row
    <3> QED
      BY <2>5, <3>2, <3>4, <3>5, <3>6
  <2>7. ASSUME NEW w \in Worker, CompleteWrite(w) PROVE OnboardingInv' /\ Kept
    <3>1. PICK s \in OnboardingSession : handler[w].on = s
      BY <2>1, <2>7 DEF CompleteWrite, At, OnboardingTypeOK
    <3> DEFINE row == [db.session[s] EXCEPT !.step = TotalSteps, !.complete = TRUE]
    <3>2. db' = [db EXCEPT !.session[s] = row] /\ Finish(w)
      BY <2>1, <2>7, <3>1 DEF CompleteWrite, OnboardingTypeOK, SessionRow
    <3>3. row \in SessionRow /\ row.data = db.session[s].data
      BY <2>0, <2>1 DEF OnboardingTypeOK, SessionRow
    <3> HIDE DEF row
    <3> QED
      BY <2>5, <3>1, <3>2, <3>3
  <2>8. ASSUME NEW w \in Worker, Abort(w) PROVE OnboardingInv' /\ Kept
    <3>1. /\ Alone' /\ overlapped' = overlapped /\ db' = db
          /\ handler' = [handler EXCEPT ![w] = Idle]
      BY <2>1, <2>8, AloneStep DEF Abort
    <3>2. OnboardingTypeOK' /\ \A v \in Worker : SessionCopy(v)'
      BY <2>1, <3>1 DEF OnboardingTypeOK, SessionCopy, Idle
    <3> QED
      BY <3>1, <3>2 DEF OnboardingInv
  <2>9. ASSUME NEW w \in Worker, NEW s \in OnboardingSession, CompleteRead(w, s)
        PROVE  OnboardingInv' /\ Kept
    <3> DEFINE h == [pc |-> "complete", on |-> s]
    <3>1. Start(w, h) /\ h.on = s
      BY <2>9 DEF CompleteRead
    <3> QED
      BY <2>4, <3>1
  <2>10. ASSUME NEW w \in Worker, NEW s \in OnboardingSession, NEW step \in Steps,
                NEW mark \in BOOLEAN, SaveStepRead(w, s, step, mark)
         PROVE  OnboardingInv' /\ Kept
    <3> DEFINE h == [pc |-> "saveStep", on |-> s, step |-> step, mark |-> mark,
                     read |-> db.session[s]]
    <3>1. Start(w, h) /\ h.on = s /\ h.step = step /\ h.mark = mark /\ db.session[s] # NoSession
      BY <2>10 DEF SaveStepRead
    <3> QED
      BY <2>4, <3>1
  <2> QED
    BY <2>2, <2>3, <2>6, <2>7, <2>8, <2>9, <2>10 DEF OnboardingNext, OnboardingStep
<1> QED
  BY <1>1, <1>2, PTL DEF OnboardingSpec, StepsAreKept
----------------------------------------------------------------------------
(* Recruitment.                                                            *)

\* The stages an application in `stage` went through, itself included.
Through(stage) ==
    CASE stage = "applied"   -> {"applied"}
      [] stage = "screening" -> {"applied", "screening"}
      [] stage = "interview" -> {"applied", "screening", "interview"}
      [] stage = "offer"     -> {"applied", "screening", "interview", "offer"}
      [] stage = "hired"     -> {"applied", "screening", "interview", "offer", "hired"}
      [] OTHER               -> {}

\* The trail only grows, so what a handler has read of it stays true.
RowInOrder(row) ==
    /\ Through(row.stage) \subseteq row.trail
    /\ row.hired => Through("hired") \subseteq row.trail
    /\ row.offer # "none" => Through("offer") \subseteq row.trail

HandlerInOrder(w) ==
    LET h == handler[w] IN
    /\ h.pc = "moveStage" => /\ CanMove(h.from, h.to)
                             /\ Through(h.from) \subseteq db.application[h.on].trail
    /\ h.pc = "offer" => Through("offer") \subseteq db.application[h.on].trail

Ended(row) == row.hired \/ row.rejected

\* Handlers that are alone with an application work on its present stage, and
\* an application that has ended stays at one of the last stages.
ApplicationCopy(w) ==
    LET h == handler[w] IN
    h.on \notin overlapped =>
        /\ h.pc = "moveStage" => db.application[h.on].stage = h.from
        /\ h.pc = "offer" => db.application[h.on].stage = "offer"

RecruitmentInv ==
    /\ RecruitmentTypeOK /\ Alone
    /\ \A a \in Application :
          /\ RowInOrder(db.application[a])
          /\ (a \notin overlapped /\ Ended(db.application[a])) =>
                  db.application[a].stage \in {"hired", "rejected"}
    /\ \A w \in Worker : HandlerInOrder(w) /\ ApplicationCopy(w)

\* However stale the stage a move has read, nobody is hired or offered a
\* contract without the stages before; and unless two calls about an
\* application overlap, its rejection or hiring is final.
THEOREM StagesInOrder == RecruitmentSpec => []NoStageIsSkipped /\ OutcomeIsFinal
<1> DEFINE Final == office = "recruitment" => \A a \in Application \ overlapped' :
        LET old == db.application[a]
            new == db'.application[a] IN
        (old.hired \/ old.rejected) => [new EXCEPT !.rounds = old.rounds] = old
<1>1. RecruitmentInit => RecruitmentInv
  BY RecruitmentAssumption
  DEF RecruitmentInit, InitHandlers, RecruitmentInv, RecruitmentTypeOK, ApplicationRow,
      NoApplication, Idle, Alone, RowInOrder, HandlerInOrder, ApplicationCopy, Through, Ended
<1>2. RecruitmentInv => NoStageIsSkipped
  BY DEF RecruitmentInv, NoStageIsSkipped, RowInOrder, Through
<1>3. RecruitmentInv /\ [RecruitmentNext]_vars => RecruitmentInv' /\ [Final]_vars
  <2> SUFFICES ASSUME RecruitmentInv, [RecruitmentNext]_vars
               PROVE  RecruitmentInv' /\ Final
    OBVIOUS
  <2>1. /\ RecruitmentTypeOK /\ Alone
        /\ \E D : handler \in [Worker -> D]
        /\ \A w \in Worker : HandlerInOrder(w) /\ ApplicationCopy(w)
        /\ \A a \in Application :
              /\ db.application[a] \in ApplicationRow
              /\ RowInOrder(db.application[a])
              /\ (a \notin overlapped /\ Ended(db.application[a])) =>
                      db.application[a].stage \in {"hired", "rejected"}
    BY DEF RecruitmentInv, RecruitmentTypeOK
  <2>2. CASE UNCHANGED vars
    BY <2>1, <2>2 DEF vars, RecruitmentInv, RecruitmentTypeOK, Alone, HandlerInOrder,
                      ApplicationCopy, ApplicationRow
  <2>3. ASSUME NEW a \in Application, Apply(a) PROVE RecruitmentInv' /\ Final
    <3> DEFINE row == [NoApplication EXCEPT !.stage = "applied", !.trail = {"applied"}]
    <3>1. /\ db' = [db EXCEPT !.application[a] = row] /\ db.application[a] = NoApplication
          /\ handler' = handler /\ overlapped' = overlapped
      BY <2>1, <2>3 DEF Apply, Call, RecruitmentTypeOK
    <3>2. row \in ApplicationRow /\ RowInOrder(row) /\ ~Ended(row)
          /\ NoApplication.trail = {} /\ NoApplication.stage = "none" /\ ~Ended(NoApplication)
      BY DEF ApplicationRow, NoApplication, RowInOrder, Through, Ended, Stages
    <3> HIDE DEF row
    <3>3. \A b \in Application : db'.application[b] = IF b = a THEN row ELSE db.application[b]
      BY <2>1, <3>1 DEF RecruitmentTypeOK
    <3>4. RecruitmentTypeOK'
      BY <2>1, <3>1, <3>2 DEF RecruitmentTypeOK
    <3>5. ASSUME NEW w \in Worker PROVE HandlerInOrder(w)' /\ ApplicationCopy(w)'
      <4>1. handler[w].pc \in {"moveStage", "offer"} => handler[w].on \in Application
        BY <2>1 DEF RecruitmentTypeOK
      <4>2. handler[w].pc = "moveStage" => Through(handler[w].from) # {}
        BY <2>1 DEF HandlerInOrder, CanMove, Following, Through
      <4>3. handler[w].pc \in {"moveStage", "offer"} => handler[w].on # a
        BY <2>1, <3>1, <3>2, <4>2 DEF HandlerInOrder, Through
      <4> QED
        BY <2>1, <3>1, <3>3, <4>1, <4>3 DEF HandlerInOrder, ApplicationCopy
    <3> QED
      BY <2>1, <3>1, <3>2, <3>3, <3>4, <3>5 DEF RecruitmentInv, Alone, Ended, ApplicationRow
  <2>4. ASSUME NEW w \in Worker, NEW h, Start(w, h), h.on \in Application,
               \/ /\ h.from = db.application[h.on].stage /\ CanMove(h.from, h.to) /\ h.to \in Stages
                  /\ h = [pc |-> "moveStage", on |-> h.on, from |-> h.from, to |-> h.to]
               \/ h.round \in Round /\ h = [pc |-> "schedule", on |-> h.on, round |-> h.round]
               \/ db.application[h.on].stage = "offer" /\ h = [pc |-> "offer", on |-> h.on]
        PROVE  RecruitmentInv' /\ Final
    <3>1. /\ Alone' /\ overlapped \subseteq overlapped' /\ db' = db
          /\ handler' = [handler EXCEPT ![w] = h]
      BY <2>1, <2>4, AloneStep DEF Start
    <3>2. \A v \in Worker : handler'[v] = IF v = w THEN h ELSE handler[v]
      BY <2>1, <3>1
    <3>3. CanMove(h.from, h.to) => h.from \in Stages
      BY DEF CanMove, Following, Stages
    <3>4. RecruitmentTypeOK'
      BY <2>1, <2>4, <3>1, <3>3 DEF RecruitmentTypeOK
    <3>5. ASSUME NEW v \in Worker PROVE HandlerInOrder(v)' /\ ApplicationCopy(v)'
      BY <2>1, <2>4, <3>1, <3>2 DEF HandlerInOrder, ApplicationCopy, RowInOrder
    <3>6. Final
      BY <2>1, <3>1 DEF ApplicationRow
    <3> QED
      BY <2>1, <3>1, <3>4, <3>5, <3>6 DEF RecruitmentInv
  \* Every last write replaces one row by one with a trail as long or longer.
  <2>5. ASSUME NEW w \in Worker, Finish(w), NEW a \in Application, handler[w].on = a,
               NEW row \in ApplicationRow, db' = [db EXCEPT !.application[a] = row],
               db.application[a].trail \subseteq row.trail, RowInOrder(row),
               a \notin overlapped =>
                   /\ Ended(row) => row.stage \in {"hired", "rejected"}
                   /\ Ended(db.application[a]) =>
                          [row EXCEPT !.rounds = db.application[a].rounds] = db.application[a]
        PROVE  RecruitmentInv' /\ Final
    <3>1. Alone' /\ overlapped' = overlapped /\ handler' = [handler EXCEPT ![w] = Idle]
      BY <2>1, <2>5, AloneStep
    <3>2. /\ \A b \in Application :
                db'.application[b] = IF b = a THEN row ELSE db.application[b]
          /\ db' \in [application : [Application -> ApplicationRow]]
      BY <2>1, <2>5 DEF RecruitmentTypeOK
    <3>3. RecruitmentTypeOK'
      BY <2>1, <3>1, <3>2 DEF RecruitmentTypeOK, Idle
    <3>4. ASSUME NEW v \in Worker PROVE HandlerInOrder(v)' /\ ApplicationCopy(v)'
      <4>1. CASE v = w
        BY <2>1, <3>1, <4>1 DEF HandlerInOrder, ApplicationCopy, Idle
      <4>2. CASE v # w
        <5>1. /\ handler'[v] = handler[v]
              /\ handler[v].on = a => a \in overlapped
          BY <2>1, <2>5, <3>1, <4>2, RecruitmentAssumption DEF Alone
        <5>2. handler[v].pc \in {"moveStage", "offer"} => handler[v].on \in Application
          BY <2>1 DEF RecruitmentTypeOK
        <5>3. HandlerInOrder(v)'
          BY <2>1, <2>5, <3>2, <5>1, <5>2 DEF HandlerInOrder
        <5>4. ApplicationCopy(v)'
          BY <2>1, <2>5, <3>1, <3>2, <5>1, <5>2 DEF ApplicationCopy
        <5> QED
          BY <5>3, <5>4
      <4> QED
        BY <4>1, <4>2
    <3>5. Final
      BY <2>1, <2>5, <3>1, <3>2 DEF Ended, ApplicationRow
    <3> QED
      BY <2>1, <2>5, <3>1, <3>2, <3>3, <3>4, <3>5 DEF RecruitmentInv
  <2>6. ASSUME NEW w \in Worker, MoveWrite(w) PROVE RecruitmentInv' /\ Final
    <3>1. /\ handler[w].on \in Application /\ handler[w].to \in Stages
          /\ handler[w].pc = "moveStage"
      BY <2>1, <2>6 DEF MoveWrite, At, RecruitmentTypeOK
    <3>2. PICK a \in Application : handler[w].on = a
      BY <3>1
    <3>3. PICK to \in Stages : handler[w].to = to
      BY <3>1
    <3>0. PICK old \in ApplicationRow : old = db.application[a]
      BY <2>1
    <3> DEFINE row == [old EXCEPT !.stage = to, !.trail = @ \union {to},
                                  !.hired = @ \/ to = "hired",
                                  !.rejected = @ \/ to = "rejected"]
    <3>4. db' = [db EXCEPT !.application[a] = row] /\ Finish(w)
      <4>1. /\ db' = [db EXCEPT !.application[a].stage = to,
                                !.application[a].trail = @ \union {to},
                                !.application[a].hired = @ \/ to = "hired",
                                !.application[a].rejected = @ \/ to = "rejected"]
            /\ Finish(w)
        BY <2>6, <3>2, <3>3 DEF MoveWrite
      <4>2. PICK f \in [Application -> ApplicationRow] : db = [application |-> f]
        BY <2>1 DEF RecruitmentTypeOK
      <4>3. f[a] = old /\ DOMAIN f = Application
        BY <3>0, <4>2
      <4>4. db' = [application |-> [f EXCEPT ![a].stage = to, ![a].trail = @ \union {to},
                                             ![a].hired = @ \/ to = "hired",
                                             ![a].rejected = @ \/ to = "rejected"]]
        BY <4>1, <4>2
      <4>5. [f EXCEPT ![a].stage = to, ![a].trail = @ \union {to},
                      ![a].hired = @ \/ to = "hired",
                      ![a].rejected = @ \/ to = "rejected"] = [f EXCEPT ![a] = row]
        BY <4>3
      <4> HIDE DEF row
      <4>6. [db EXCEPT !.application[a] = row] = [application |-> [f EXCEPT ![a] = row]]
        BY <4>2
      <4> QED
        BY <4>1, <4>4, <4>5, <4>6
    <3>5. CanMove(handler[w].from, to) /\ Through(handler[w].from) \subseteq old.trail
          /\ (a \notin overlapped => old.stage = handler[w].from)
      BY <2>1, <3>0, <3>1, <3>2, <3>3 DEF HandlerInOrder, ApplicationCopy
    <3>6. Through(to) \subseteq Through(handler[w].from) \union {to}
      BY <3>5 DEF CanMove, Following, Through
    <3>7. RowInOrder(old)
      BY <2>1, <3>0
    <3>8. row \in ApplicationRow /\ old.trail \subseteq row.trail
      BY DEF ApplicationRow
    <3>9. RowInOrder(row)
      BY <3>5, <3>6, <3>7 DEF RowInOrder, ApplicationRow
    <3>10. a \notin overlapped => ~Ended(old)
      <4>1. handler[w].from \notin {"hired", "rejected"}
        BY <3>5 DEF CanMove, Following
      <4> QED
        BY <2>1, <3>0, <3>5, <4>1
    <3>11. a \notin overlapped => (Ended(row) => row.stage \in {"hired", "rejected"})
      BY <3>7, <3>10 DEF Ended, ApplicationRow
    <3> HIDE DEF row
    <3> QED
      BY <2>5, <3>0, <3>2, <3>4, <3>8, <3>9, <3>10, <3>11
  <2>7. ASSUME NEW w \in Worker, ScheduleCreate(w) PROVE RecruitmentInv' /\ Final
    <3>1. handler[w].on \in Application /\ handler[w].round \in Round
      BY <2>1, <2>7 DEF ScheduleCreate, At, RecruitmentTypeOK
    <3>2. PICK a \in Application : handler[w].on = a
      BY <3>1
    <3>3. PICK n \in Round : handler[w].round = n
      BY <3>1
    <3>4. PICK old \in ApplicationRow : old = db.application[a]
      BY <2>1
    <3> DEFINE row == [old EXCEPT !.rounds[n] = "scheduled"]
    <3>5. Finish(w) /\ (db' = [db EXCEPT !.application[a] = row] \/ db' = db)
      BY <2>1, <2>7, <3>2, <3>3, <3>4 DEF ScheduleCreate, RecruitmentTypeOK
    <3>6. db = [db EXCEPT !.application[a] = old]
      BY <2>1, <3>4 DEF RecruitmentTypeOK
    <3>7. PICK new \in {row, old} : db' = [db EXCEPT !.application[a] = new]
      BY <3>5, <3>6
    <3>8. /\ new \in ApplicationRow
          /\ new.stage = old.stage /\ new.trail = old.trail /\ new.hired = old.hired
          /\ new.rejected = old.rejected /\ new.offer = old.offer
          /\ [new EXCEPT !.rounds = old.rounds] = old
      BY <3>7 DEF ApplicationRow
    <3>9. RowInOrder(new) /\ (Ended(new) <=> Ended(old))
      BY <2>1, <3>4, <3>8 DEF RowInOrder, Ended
    <3> QED
      BY <2>1, <2>5, <3>2, <3>4, <3>5, <3>7, <3>8, <3>9
  <2>8. ASSUME NEW w \in Worker, OfferUpsert(w) PROVE RecruitmentInv' /\ Final
    <3>1. PICK a \in Application : handler[w].on = a
      BY <2>1, <2>8 DEF OfferUpsert, At, RecruitmentTypeOK
    <3>2. PICK old \in ApplicationRow : old = db.application[a]
      BY <2>1
    <3> DEFINE row == [old EXCEPT !.offer = IF @ = "none" THEN "draft" ELSE @]
    <3>3. /\ row \in ApplicationRow
          /\ row.stage = old.stage /\ row.trail = old.trail /\ row.hired = old.hired
          /\ row.rejected = old.rejected
      BY DEF ApplicationRow
    <3>4. /\ Through("offer") \subseteq old.trail
          /\ a \notin overlapped => old.stage = "offer"
      BY <2>1, <2>8, <3>1, <3>2 DEF OfferUpsert, At, HandlerInOrder, ApplicationCopy
    <3>5. Finish(w) /\ db' = [db EXCEPT !.application[a] = row]
      BY <2>1, <2>8, <3>1, <3>2 DEF OfferUpsert, RecruitmentTypeOK, ApplicationRow
    <3> HIDE DEF row
    <3>6. RowInOrder(row) /\ (Ended(row) <=> Ended(old))
      BY <2>1, <3>2, <3>3, <3>4 DEF RowInOrder, Ended
    <3>7. a \notin overlapped => ~Ended(old)
      BY <2>1, <3>2, <3>4
    <3> QED
      BY <2>5, <3>1, <3>2, <3>3, <3>5, <3>6, <3>7
  <2>9. ASSUME NEW w \in Worker, Abort(w) PROVE RecruitmentInv' /\ Final
    <3>1. /\ Alone' /\ overlapped' = overlapped /\ db' = db
          /\ handler' = [handler EXCEPT ![w] = Idle]
      BY <2>1, <2>9, AloneStep DEF Abort
    <3>2. \A v \in Worker : handler'[v] = IF v = w THEN Idle ELSE handler[v]
      BY <2>1, <3>1
    <3>3. RecruitmentTypeOK' /\ \A v \in Worker : HandlerInOrder(v)' /\ ApplicationCopy(v)'
      BY <2>1, <3>1, <3>2 DEF RecruitmentTypeOK, HandlerInOrder, ApplicationCopy, Idle
    <3>4. Final
      BY <2>1, <3>1 DEF ApplicationRow
    <3> QED
      BY <2>1, <3>1, <3>3, <3>4 DEF RecruitmentInv
  <2>10. ASSUME NEW w \in Worker, NEW a \in Application, NEW to \in Stages, MoveRead(w, a, to)
         PROVE  RecruitmentInv' /\ Final
    <3> DEFINE h == [pc |-> "moveStage", on |-> a, from |-> db.application[a].stage, to |-> to]
    <3>1. /\ Start(w, h) /\ h.on = a /\ h.to = to /\ h.from = db.application[a].stage
          /\ CanMove(h.from, h.to)
      BY <2>10 DEF MoveRead
    <3> QED
      BY <2>4, <3>1
  <2>11. ASSUME NEW w \in Worker, NEW a \in Application, NEW n \in Round, ScheduleRead(w, a, n)
         PROVE  RecruitmentInv' /\ Final
    <3> DEFINE h == [pc |-> "schedule", on |-> a, round |-> n]
    <3>1. Start(w, h) /\ h.on = a /\ h.round = n
      BY <2>11 DEF ScheduleRead
    <3> QED
      BY <2>4, <3>1
  <2>12. ASSUME NEW w \in Worker, NEW a \in Application, OfferRead(w, a)
         PROVE  RecruitmentInv' /\ Final
    <3> DEFINE h == [pc |-> "offer", on |-> a]
    <3>1. Start(w, h) /\ h.on = a /\ db.application[a].stage = "offer"
      BY <2>12 DEF OfferRead
    <3> QED
      BY <2>4, <3>1
  <2> QED
    BY <2>2, <2>3, <2>6, <2>7, <2>8, <2>9, <2>10, <2>11, <2>12
    DEF RecruitmentNext, RecruitmentStep
<1> QED
  BY <1>1, <1>2, <1>3, PTL DEF RecruitmentSpec, OutcomeIsFinal
----------------------------------------------------------------------------
(* Mfa.                                                                    *)

\* The scanned secrets only grow: a code that was right for the secret of a
\* user stays right as long as the secret does.
MfaInv ==
    /\ MfaTypeOK /\ Alone /\ FactorIsHeld /\ office = "mfa"
    /\ \A w \in Worker : LET h == handler[w] IN
           (h.pc = "confirm" /\ h.on \notin overlapped) =>
               db.user[h.on].secret \in db.app \union db.late

\* No order of setups, confirmations and disablings, and no death of a
\* handler, leaves a user with a factor the user's app does not have, unless
\* two of them overlapped or a setup replaced the secret of a factor in use.
THEOREM FactorStaysHeld == MfaSpec => []FactorIsHeld
<1>1. MfaInit => MfaInv
  BY DEF MfaInit, InitHandlers, MfaInv, MfaTypeOK, Alone, FactorIsHeld, Idle
<1>2. MfaInv /\ [MfaNext]_vars => MfaInv'
  <2> SUFFICES ASSUME MfaInv, [MfaNext]_vars PROVE MfaInv'
    OBVIOUS
  <2> DEFINE Good(e) == db.user[e].secret \in db.app \union db.late
             Users == [Employee -> [enabled : BOOLEAN, secret : Secret \union {None}]]
  <2>1. /\ MfaTypeOK /\ Alone /\ office = "mfa"
        /\ \E D : handler \in [Worker -> D]
        /\ \A e \in Employee \ overlapped : db.user[e].enabled => Good(e)
        /\ \A w \in Worker : (handler[w].pc = "confirm" /\ handler[w].on \notin overlapped)
                                => Good(handler[w].on)
        /\ \A w \in Worker : handler[w].pc = "confirm" => handler[w].on \in Employee
        /\ None \notin Employee
    BY ServicesAssumption DEF MfaInv, MfaTypeOK, FactorIsHeld
  <2>2. CASE UNCHANGED vars
    BY <2>1, <2>2 DEF vars, MfaInv, MfaTypeOK, Alone, FactorIsHeld
  <2>3. ASSUME NEW w \in Worker, NEW e \in Employee, NEW pc \in {"setup", "confirm", "disable"},
               Start(w, [pc |-> pc, on |-> e]), pc = "confirm" => Verified(e)
        PROVE  MfaInv'
    <3>1. /\ Alone' /\ overlapped \subseteq overlapped' /\ db' = db /\ page' = page
          /\ handler' = [handler EXCEPT ![w] = [pc |-> pc, on |-> e]] /\ office' = office
      BY <2>1, <2>3, AloneStep DEF Start, Begin
    <3>2. MfaTypeOK'
      BY <2>1, <3>1 DEF MfaTypeOK
    <3> QED
      BY <2>1, <2>3, <3>1, <3>2 DEF MfaInv, FactorIsHeld, Verified
  \* A write about e leaves the users of other rows and their handlers alone.
  <2>4. ASSUME NEW w \in Worker, NEW e \in Employee, handler[w].on = e, handler[w].pc # "idle",
               handler' = [handler EXCEPT ![w] = Idle], overlapped' = overlapped, Alone',
               MfaTypeOK', office' = office,
               db.app \subseteq db'.app, db.late \subseteq db'.late,
               \A f \in Employee \ {e} : db'.user[f] = db.user[f],
               e \notin overlapped => (db'.user[e].enabled => Good(e)')
        PROVE  MfaInv'
    <3>1. ASSUME NEW v \in Worker, handler'[v].pc = "confirm", handler'[v].on \notin overlapped
          PROVE  db'.user[handler'[v].on].secret \in db'.app \union db'.late
      <4>1. v # w /\ handler'[v] = handler[v]
        BY <2>1, <2>4, <3>1 DEF Idle
      <4>2. PICK f \in Employee : handler[v].on = f
        BY <2>1, <3>1, <4>1
      <4>3. f # e /\ Good(f)
        BY <2>1, <2>4, <3>1, <4>1, <4>2 DEF Alone
      <4> QED
        BY <2>4, <4>1, <4>2, <4>3
    <3>2. \A f \in Employee \ overlapped : db'.user[f].enabled => Good(f)'
      BY <2>1, <2>4
    <3> QED
      BY <2>1, <2>4, <3>1, <3>2 DEF MfaInv, FactorIsHeld
  <2>5. ASSUME NEW w \in Worker, NEW s \in Secret, SetupWrite(w, s) PROVE MfaInv'
    <3>1. PICK e \in Employee : handler[w].on = e
      BY <2>1, <2>5 DEF SetupWrite, At, MfaTypeOK
    <3>2. PICK u \in Users, drawn \in SUBSET Secret, late \in SUBSET Secret, app \in SUBSET Secret :
              db = [user |-> u, drawn |-> drawn, late |-> late, app |-> app]
      BY <2>1 DEF MfaTypeOK
    <3>3. /\ db' = [user |-> [u EXCEPT ![e].secret = s], drawn |-> drawn \union {s},
                    late |-> IF u[e].enabled THEN late \union {s} ELSE late, app |-> app]
          /\ page' = [page EXCEPT ![w] = s]
          /\ handler' = [handler EXCEPT ![w] = Idle]
          /\ UNCHANGED <<office, calls, aborts, overlapped>>
      BY <2>5, <3>1, <3>2 DEF SetupWrite
    <3>4. /\ db'.app = db.app /\ db.late \subseteq db'.late
          /\ \A f \in Employee \ {e} : db'.user[f] = db.user[f]
          /\ db'.user[e].enabled = db.user[e].enabled /\ db'.user[e].secret = s
          /\ db.user[e].enabled => s \in db'.late
      BY <3>2, <3>3
    <3>5. MfaTypeOK'
      BY <2>1, <3>2, <3>3 DEF MfaTypeOK, Idle
    <3>6. Alone'
      BY <2>1, <3>3 DEF Alone, Idle
    <3>7. handler[w].pc # "idle"
      BY <2>5 DEF SetupWrite, At
    <3>8. db'.user[e].enabled => Good(e)'
      BY <3>4
    <3> QED
      BY <2>4, <3>1, <3>3, <3>4, <3>5, <3>6, <3>7, <3>8
  <2>6. ASSUME NEW w \in Worker, NEW scanned \in BOOLEAN, Look(w, scanned) PROVE MfaInv'
    <3>1. PICK p \in Secret : page[w] = p
      BY <2>1, <2>6 DEF Look, MfaTypeOK
    <3>2. /\ db' = db \/ db' = [db EXCEPT !.app = @ \union {p}]
          /\ page' = [page EXCEPT ![w] = None]
          /\ UNCHANGED <<office, handler, calls, aborts, overlapped>>
      BY <2>6, <3>1 DEF Look
    <3>3. db'.user = db.user /\ db'.late = db.late /\ db.app \subseteq db'.app
      BY <2>1, <3>2 DEF MfaTypeOK
    <3>4. MfaTypeOK'
      BY <2>1, <3>1, <3>2 DEF MfaTypeOK
    <3>5. Alone'
      BY <2>1, <3>2 DEF Alone
    <3> QED
      BY <2>1, <3>2, <3>3, <3>4, <3>5 DEF MfaInv, FactorIsHeld
  <2>7. ASSUME NEW w \in Worker, ConfirmWrite(w) PROVE MfaInv'
    <3>1. PICK e \in Employee : handler[w].on = e
      BY <2>1, <2>7 DEF ConfirmWrite, At
    <3>2. db' = [db EXCEPT !.user[e].enabled = TRUE] /\ Finish(w) /\ handler[w].pc = "confirm"
      BY <2>7, <3>1 DEF ConfirmWrite, At
    <3>3. Alone' /\ overlapped' = overlapped /\ handler' = [handler EXCEPT ![w] = Idle]
      BY <2>1, <3>2, AloneStep
    <3>4. /\ db'.app = db.app /\ db'.late = db.late
          /\ \A f \in Employee \ {e} : db'.user[f] = db.user[f]
          /\ db'.user[e].secret = db.user[e].secret
      BY <2>1, <3>2 DEF MfaTypeOK
    <3>5. MfaTypeOK' /\ office' = office
      <4>1. db' \in [user : Users, drawn : SUBSET Secret, late : SUBSET Secret, app : SUBSET Secret]
        <5>1. PICK u \in Users, drawn \in SUBSET Secret, late \in SUBSET Secret,
                   app \in SUBSET Secret :
                  db = [user |-> u, drawn |-> drawn, late |-> late, app |-> app]
          BY <2>1 DEF MfaTypeOK
        <5>2. db' = [user |-> [u EXCEPT ![e].enabled = TRUE],
                     drawn |-> drawn, late |-> late, app |-> app]
          BY <3>2, <5>1
        <5>3. [u EXCEPT ![e].enabled = TRUE] \in Users
          OBVIOUS
        <5> QED
          BY <5>2, <5>3
      <4>2. page' = page /\ office' = office
        BY <3>2 DEF Finish, Goto
      <4> QED
        BY <2>1, <3>3, <4>1, <4>2 DEF MfaTypeOK, Idle
    <3>6. e \notin overlapped => Good(e)'
      BY <2>1, <3>1, <3>2, <3>4
    <3> QED
      BY <2>4, <3>1, <3>2, <3>3, <3>4, <3>5, <3>6
  <2>8. ASSUME NEW w \in Worker, DisableWrite(w) PROVE MfaInv'
    <3>1. PICK e \in Employee : handler[w].on = e
      BY <2>1, <2>8 DEF DisableWrite, At, MfaTypeOK
    <3>2. /\ db' = [db EXCEPT !.user[e] = [enabled |-> FALSE, secret |-> None]] /\ Finish(w)
          /\ handler[w].pc = "disable"
      BY <2>8, <3>1 DEF DisableWrite, At
    <3>3. Alone' /\ overlapped' = overlapped /\ handler' = [handler EXCEPT ![w] = Idle]
      BY <2>1, <3>2, AloneStep
    <3>4. /\ db'.app = db.app /\ db'.late = db.late
          /\ \A f \in Employee \ {e} : db'.user[f] = db.user[f]
          /\ ~db'.user[e].enabled
      BY <2>1, <3>2 DEF MfaTypeOK
    <3>5. MfaTypeOK' /\ office' = office
      <4>1. [enabled |-> FALSE, secret |-> None] \in [enabled : BOOLEAN, secret : Secret \union {None}]
        OBVIOUS
      <4> QED
        BY <2>1, <3>2, <4>1 DEF MfaTypeOK, Finish, Goto, Idle
    <3> QED
      BY <2>4, <3>1, <3>2, <3>3, <3>4, <3>5
  <2>9. ASSUME NEW w \in Worker, Abort(w) PROVE MfaInv'
    <3>1. /\ Alone' /\ overlapped' = overlapped /\ db' = db /\ page' = page /\ office' = office
          /\ handler' = [handler EXCEPT ![w] = Idle]
      BY <2>1, <2>9, AloneStep DEF Abort
    <3>2. MfaTypeOK'
      BY <2>1, <3>1 DEF MfaTypeOK, Idle
    <3> QED
      BY <2>1, <3>1, <3>2 DEF MfaInv, FactorIsHeld, Idle
  <2>10. ASSUME NEW w \in Worker, NEW e \in Employee,
                SetupRead(w, e) \/ ConfirmRead(w, e) \/ DisableRead(w, e)
         PROVE  MfaInv'
    BY <2>3, <2>10 DEF SetupRead, ConfirmRead, DisableRead
  <2> QED
    BY <2>2, <2>5, <2>6, <2>7, <2>8, <2>9, <2>10 DEF MfaNext, MfaStep
<1>3. MfaInv => FactorIsHeld
  BY DEF MfaInv
<1> QED
  BY <1>1, <1>2, <1>3, PTL DEF MfaSpec

----------------------------------------------------------------------------
(* Learning.                                                               *)

\* Nobody but w has written the progress of c.
OnlyWriter(w, c) == \A v \in Worker \ {w} : c \notin page[v].wrote

\* What the page of the only writer shows is at most one step behind, what it
\* is about to write is not behind, and it only enrolls what has no progress.
ShowsCopy(w, c) ==
    LET row == db.enrollment[c]
        shown == page[w].shows[c]
        h == handler[w] IN
    /\ shown.progress =< row.progress /\ row.progress =< shown.progress + 1
    /\ row = NotEnrolled => shown = NotEnrolled
    /\ shown = NotEnrolled \/ (h.pc = "enroll" /\ h.on = c) =>
           row.progress = 0 /\ row.status # "completed"
    /\ h.pc = "progress" /\ h.on = c =>
           /\ shown # NotEnrolled
           /\ row.progress =< h.to /\ h.to =< shown.progress + 1

LearningInv ==
    /\ LearningTypeOK
    /\ \A c \in Course : db.enrollment[c].status = "completed" => db.enrollment[c].progress = Done
    /\ \A w \in Worker, c \in Course : OnlyWriter(w, c) => ShowsCopy(w, c)

\* From one page the progress of a course never falls and a completed course
\* stays completed, however late the page's queries are.
THEOREM ProgressStays == LearningSpec => ProgressIsKept
<1> DEFINE Kept == office = "learning" => \A c \in Course :
        (\A v, w \in Worker : c \in page'[v].wrote \intersect page'[w].wrote => v = w) =>
            LET old == db.enrollment[c]
                new == db'.enrollment[c] IN
            /\ old.progress =< new.progress
            /\ old.status = "completed" => new.status = "completed"
<1>0. NotEnrolled \in EnrollmentRow /\ NotEnrolled.progress = 0 /\ NotEnrolled.status = "none"
      /\ Done = 4
  BY DEF NotEnrolled, EnrollmentRow, Done
<1>1. LearningInit => LearningInv
  <2> SUFFICES ASSUME LearningInit PROVE LearningInv
    OBVIOUS
  <2>1. /\ \A c \in Course : db.enrollment[c] = NotEnrolled
        /\ \A w \in Worker : handler[w] = Idle /\ page[w].wrote = {}
        /\ \A w \in Worker, c \in Course : page[w].shows[c] = NotEnrolled
    BY DEF LearningInit
  <2>2. LearningTypeOK
    BY <1>0 DEF LearningInit, LearningTypeOK, Idle
  <2>3. ASSUME NEW w \in Worker, NEW c \in Course PROVE ShowsCopy(w, c)
    BY <1>0, <2>1 DEF ShowsCopy, Idle
  <2> QED
    BY <1>0, <2>1, <2>2, <2>3 DEF LearningInv
<1>2. LearningInv /\ [LearningNext]_vars => LearningInv' /\ [Kept]_vars
  <2> SUFFICES ASSUME LearningInv, [LearningNext]_vars PROVE LearningInv' /\ Kept
    OBVIOUS
  <2>1. /\ LearningTypeOK
        /\ db \in [enrollment : [Course -> EnrollmentRow]]
        /\ page \in [Worker -> [shows : [Course -> EnrollmentRow], wrote : SUBSET Course]]
        /\ handler \in [Worker -> [pc : {"idle"}, on : {None}] \union [pc : {"enroll"}, on : Course]
                \union [pc : {"progress"}, on : Course, to : 1..Done]]
        /\ \A c \in Course : db.enrollment[c].status = "completed" => db.enrollment[c].progress = Done
        /\ \A w \in Worker, c \in Course : OnlyWriter(w, c) => ShowsCopy(w, c)
    BY DEF LearningInv, LearningTypeOK
  <2>2. /\ \A c \in Course : db.enrollment[c] \in EnrollmentRow /\ db.enrollment[c].progress \in 0..4
        /\ \A w \in Worker, c \in Course : /\ page[w].shows[c] \in EnrollmentRow
                                           /\ page[w].shows[c].progress \in 0..4
    BY <1>0, <2>1 DEF EnrollmentRow
  \* A step that writes no progress.
  <2>3. ASSUME db' = db, LearningTypeOK',
               \A w \in Worker, c \in Course : OnlyWriter(w, c)' => OnlyWriter(w, c),
               \A w \in Worker, c \in Course : ShowsCopy(w, c) => ShowsCopy(w, c)'
        PROVE  LearningInv' /\ Kept
    <3>1. Kept
      BY <2>2, <2>3
    <3>2. LearningInv'
      BY <2>1, <2>3 DEF LearningInv
    <3> QED
      BY <3>1, <3>2
  <2>4. ASSUME NEW w \in Worker, NEW h, Start(w, h),
               \/ h \in [pc : {"enroll"}, on : Course] /\ page[w].shows[h.on] = NotEnrolled
               \/ /\ h \in [pc : {"progress"}, on : Course, to : 1..Done]
                  /\ page[w].shows[h.on] # NotEnrolled
                  /\ h.to = IF page[w].shows[h.on].progress < Done
                            THEN page[w].shows[h.on].progress + 1 ELSE Done
        PROVE  LearningInv' /\ Kept
    <3>1. /\ db' = db /\ page' = page /\ handler' = [handler EXCEPT ![w] = h]
      BY <2>4 DEF Start, Begin
    <3>2. LearningTypeOK'
      BY <2>1, <2>4, <3>1 DEF LearningTypeOK
    <3>3. \A v \in Worker, c \in Course : OnlyWriter(v, c)' <=> OnlyWriter(v, c)
      BY <3>1 DEF OnlyWriter
    <3>4. ASSUME NEW v \in Worker, NEW c \in Course, ShowsCopy(v, c) PROVE ShowsCopy(v, c)'
      <4>1. CASE v = w
        <5>1. handler'[w] = h /\ page'[w] = page[w]
          BY <2>1, <3>1
        <5>2. /\ page[w].shows[c].progress \in 0..4 /\ db.enrollment[c].progress \in 0..4
              /\ db.enrollment[c].progress =< page[w].shows[c].progress + 1
          BY <2>2, <3>4, <4>1 DEF ShowsCopy
        <5>3. CASE h.pc = "enroll"
          <6>1. h.on = c => page[w].shows[c] = NotEnrolled
            BY <2>4, <5>3
          <6> QED
            BY <3>1, <3>4, <4>1, <5>1, <5>3, <6>1 DEF ShowsCopy
        <5>4. CASE h.pc = "progress"
          <6>1. h.on = c => /\ page[w].shows[c] # NotEnrolled
                            /\ h.to = IF page[w].shows[c].progress < Done
                                      THEN page[w].shows[c].progress + 1 ELSE Done
            BY <2>4, <5>4
          <6>2. h.on = c => /\ page[w].shows[c] # NotEnrolled
                            /\ db.enrollment[c].progress =< h.to
                            /\ h.to =< page[w].shows[c].progress + 1
            BY <1>0, <5>2, <6>1
          <6> QED
            BY <3>1, <3>4, <4>1, <5>1, <5>4, <6>2 DEF ShowsCopy
        <5> QED
          BY <2>4, <5>3, <5>4
      <4>2. CASE v # w
        BY <2>1, <3>1, <3>4, <4>2 DEF ShowsCopy
      <4> QED
        BY <4>1, <4>2
    <3> QED
      BY <2>3, <3>1, <3>2, <3>3, <3>4
  <2>5. ASSUME NEW w \in Worker, NEW c \in Course, Enroll(w, c) PROVE LearningInv' /\ Kept
    <3> DEFINE h == [pc |-> "enroll", on |-> c]
    <3>1. Start(w, h) /\ h \in [pc : {"enroll"}, on : Course] /\ page[w].shows[h.on] = NotEnrolled
      BY <2>5 DEF Enroll
    <3> HIDE DEF h
    <3> QED
      BY <2>4, <3>1
  <2>6. ASSUME NEW w \in Worker, NEW c \in Course, MarkProgress(w, c) PROVE LearningInv' /\ Kept
    <3> DEFINE to == IF page[w].shows[c].progress < Done
                     THEN page[w].shows[c].progress + 1 ELSE Done
               h == [pc |-> "progress", on |-> c, to |-> to]
    <3>1. to \in 1..Done
      BY <1>0, <2>2
    <3>2. Start(w, h) /\ page[w].shows[c] # NotEnrolled
      BY <2>6 DEF MarkProgress
    <3>3. h \in [pc : {"progress"}, on : Course, to : 1..Done] /\ h.on = c /\ h.to = to
      BY <3>1
    <3> HIDE DEF h
    <3> QED
      BY <2>4, <3>2, <3>3
  \* The handler of w writes a row of c.
  <2>7. ASSUME NEW w \in Worker, NEW c \in Course, NEW row \in EnrollmentRow,
               handler[w].pc # "idle", handler[w].on = c, Wrote(w),
               db' = [db EXCEPT !.enrollment[c] = row],
               row.status = "completed" => row.progress = Done,
               row # NotEnrolled,
               OnlyWriter(w, c) =>
                   /\ db.enrollment[c].progress =< row.progress
                   /\ db.enrollment[c].status = "completed" => row.status = "completed"
                   /\ row.progress =< page[w].shows[c].progress + 1
                   /\ page[w].shows[c] = NotEnrolled => row.progress = 0 /\ row.status # "completed"
        PROVE  LearningInv' /\ Kept
    <3>1. /\ handler' = [handler EXCEPT ![w] = Idle]
          /\ page' = [page EXCEPT ![w].wrote = @ \union {c}]
      BY <2>7 DEF Wrote
    <3>2. /\ \A b \in Course : db'.enrollment[b] = IF b = c THEN row ELSE db.enrollment[b]
          /\ \A v \in Worker : /\ page'[v].shows = page[v].shows
                               /\ page'[v].wrote = IF v = w THEN page[w].wrote \union {c}
                                                   ELSE page[v].wrote
          /\ \A v \in Worker : handler'[v] = IF v = w THEN Idle ELSE handler[v]
      BY <2>1, <2>7, <3>1
    <3>3. LearningTypeOK'
      <4>1. db' \in [enrollment : [Course -> EnrollmentRow]]
        BY <2>1, <2>7
      <4>2. page' \in [Worker -> [shows : [Course -> EnrollmentRow], wrote : SUBSET Course]]
        BY <2>1, <3>1
      <4> QED
        BY <2>1, <3>1, <4>1, <4>2 DEF LearningTypeOK, Idle
    <3>4. ASSUME NEW v \in Worker, NEW b \in Course, OnlyWriter(v, b)' PROVE ShowsCopy(v, b)'
      <4>1. OnlyWriter(v, b) /\ (b = c => v = w)
        BY <3>2, <3>4 DEF OnlyWriter
      <4>2. ShowsCopy(v, b)
        BY <2>1, <4>1
      <4>3. CASE b = c
        BY <1>0, <2>2, <2>7, <3>2, <4>1, <4>2, <4>3 DEF ShowsCopy, Idle, EnrollmentRow
      <4>4. CASE b # c /\ v = w
        BY <3>2, <4>2, <4>4 DEF ShowsCopy, Idle
      <4>5. CASE b # c /\ v # w
        BY <3>2, <4>2, <4>5 DEF ShowsCopy
      <4> QED
        BY <4>3, <4>4, <4>5
    <3>5. Kept
      <4> SUFFICES ASSUME NEW b \in Course,
                          \A u, v \in Worker : b \in page'[u].wrote \intersect page'[v].wrote => u = v
                   PROVE  /\ db.enrollment[b].progress =< db'.enrollment[b].progress
                          /\ db.enrollment[b].status = "completed" =>
                                 db'.enrollment[b].status = "completed"
        OBVIOUS
      <4>1. CASE b = c
        <5>1. OnlyWriter(w, c)
          BY <3>2, <4>1 DEF OnlyWriter
        <5> QED
          BY <2>7, <3>2, <4>1, <5>1
      <4>2. CASE b # c
        BY <2>2, <3>2, <4>2
      <4> QED
        BY <4>1, <4>2
    <3>6. \A b \in Course : db'.enrollment[b].status = "completed" => db'.enrollment[b].progress = Done
      BY <2>1, <2>7, <3>2
    <3> QED
      BY <3>3, <3>4, <3>5, <3>6 DEF LearningInv
  <2>8. ASSUME NEW w \in Worker, EnrollUpsert(w) PROVE LearningInv' /\ Kept
    <3>1. PICK c \in Course : handler[w].on = c /\ handler[w].pc = "enroll"
      BY <2>1, <2>8 DEF EnrollUpsert, At
    <3> DEFINE row == [db.enrollment[c] EXCEPT !.status = "enrolled"]
    <3>2. /\ row \in EnrollmentRow /\ row.status = "enrolled"
          /\ row.progress = db.enrollment[c].progress
      BY <2>2 DEF EnrollmentRow
    <3>3. db' = [db EXCEPT !.enrollment[c] = row] /\ Wrote(w)
      BY <2>1, <2>8, <3>1 DEF EnrollUpsert
    <3>4. OnlyWriter(w, c) => ShowsCopy(w, c)
      BY <2>1
    <3>5. OnlyWriter(w, c) => /\ db.enrollment[c].progress = 0
                              /\ db.enrollment[c].status # "completed"
      BY <3>1, <3>4 DEF ShowsCopy
    <3> HIDE DEF row
    <3> QED
      BY <1>0, <2>2, <2>7, <3>1, <3>2, <3>3, <3>5
  <2>9. ASSUME NEW w \in Worker, UpdateProgress(w) PROVE LearningInv' /\ Kept
    <3>1. PICK c \in Course, to \in 1..Done :
              handler[w].on = c /\ handler[w].pc = "progress" /\ handler[w].to = to
      BY <2>1, <2>9 DEF UpdateProgress, At
    <3> DEFINE row == [status |-> IF to >= Done THEN "completed" ELSE "in_progress",
                       progress |-> to]
    <3>2. /\ row \in EnrollmentRow /\ row.progress = to
          /\ row.status = "completed" <=> to = Done
          /\ row # NotEnrolled
      BY <1>0, <3>1 DEF EnrollmentRow
    <3>3. db' = [db EXCEPT !.enrollment[c] = row] /\ Wrote(w)
      BY <2>9, <3>1 DEF UpdateProgress
    <3>4. OnlyWriter(w, c) => ShowsCopy(w, c)
      BY <2>1
    <3>5. OnlyWriter(w, c) => /\ db.enrollment[c].progress =< to
                              /\ to =< page[w].shows[c].progress + 1
                              /\ page[w].shows[c] # NotEnrolled
      BY <3>1, <3>4 DEF ShowsCopy
    <3>6. db.enrollment[c].status = "completed" => db.enrollment[c].progress = 4
      BY <1>0, <2>1
    <3> HIDE DEF row
    <3> QED
      BY <1>0, <2>2, <2>7, <3>1, <3>2, <3>3, <3>5, <3>6
  <2>10. ASSUME NEW w \in Worker, Refetch(w) PROVE LearningInv' /\ Kept
    <3>1. /\ page' = [page EXCEPT ![w].shows = db.enrollment]
          /\ db' = db /\ handler' = handler
      BY <2>10 DEF Refetch
    <3>2. \A v \in Worker : /\ page'[v].wrote = page[v].wrote
                            /\ page'[v].shows = IF v = w THEN db.enrollment ELSE page[v].shows
      BY <2>1, <3>1
    <3>3. LearningTypeOK'
      <4>1. page' \in [Worker -> [shows : [Course -> EnrollmentRow], wrote : SUBSET Course]]
        BY <2>1, <3>1
      <4> QED
        BY <2>1, <3>1, <4>1 DEF LearningTypeOK
    <3>4. ASSUME NEW v \in Worker, NEW c \in Course, ShowsCopy(v, c) PROVE ShowsCopy(v, c)'
      <4>1. CASE v = w
        <5>1. /\ page'[w].shows[c] = db.enrollment[c]
              /\ handler'[w] = handler[w] /\ db'.enrollment[c] = db.enrollment[c]
          BY <3>1, <3>2
        <5>2. /\ db.enrollment[c].progress \in 0..4 /\ page[w].shows[c].progress \in 0..4
              /\ page[w].shows[c].progress =< db.enrollment[c].progress
              /\ db.enrollment[c] = NotEnrolled => page[w].shows[c] = NotEnrolled
          BY <2>2, <3>4, <4>1 DEF ShowsCopy
        <5>3. ASSUME handler[w].pc = "progress", handler[w].on = c
              PROVE  /\ db.enrollment[c] # NotEnrolled
                     /\ db.enrollment[c].progress =< handler[w].to
                     /\ handler[w].to =< db.enrollment[c].progress + 1
          <6>1. handler[w].to \in 1..Done
            BY <2>1, <5>3
          <6>2. /\ page[w].shows[c] # NotEnrolled
                /\ db.enrollment[c].progress =< handler[w].to
                /\ handler[w].to =< page[w].shows[c].progress + 1
            BY <3>4, <4>1, <5>3 DEF ShowsCopy
          <6> QED
            BY <1>0, <5>2, <6>1, <6>2
        <5>4. db.enrollment[c] = NotEnrolled \/ (handler[w].pc = "enroll" /\ handler[w].on = c) =>
                  db.enrollment[c].progress = 0 /\ db.enrollment[c].status # "completed"
          BY <1>0, <3>4, <4>1 DEF ShowsCopy
        <5> QED
          BY <4>1, <5>1, <5>2, <5>3, <5>4 DEF ShowsCopy
      <4>2. CASE v # w
        BY <3>1, <3>2, <3>4, <4>2 DEF ShowsCopy
      <4> QED
        BY <4>1, <4>2
    <3>5. \A v \in Worker, c \in Course : OnlyWriter(v, c)' <=> OnlyWriter(v, c)
      BY <3>2 DEF OnlyWriter
    <3> QED
      BY <2>3, <3>1, <3>3, <3>4, <3>5
  <2>11. ASSUME NEW w \in Worker, Abort(w) PROVE LearningInv' /\ Kept
    <3>1. handler' = [handler EXCEPT ![w] = Idle] /\ db' = db /\ page' = page
      BY <2>11 DEF Abort
    <3>2. LearningTypeOK'
      BY <2>1, <3>1 DEF LearningTypeOK, Idle
    <3>3. \A v \in Worker : handler'[v] = IF v = w THEN Idle ELSE handler[v]
      BY <2>1, <3>1
    <3>4. ASSUME NEW v \in Worker, NEW c \in Course, ShowsCopy(v, c) PROVE ShowsCopy(v, c)'
      BY <3>1, <3>3, <3>4 DEF ShowsCopy, Idle
    <3>5. \A v \in Worker, c \in Course : OnlyWriter(v, c)' <=> OnlyWriter(v, c)
      BY <3>1 DEF OnlyWriter
    <3> QED
      BY <2>3, <3>1, <3>2, <3>4, <3>5
  <2>12. CASE UNCHANGED vars
    <3>1. db' = db /\ page' = page /\ handler' = handler
      BY <2>12 DEF vars
    <3>2. LearningTypeOK' /\ \A w \in Worker, c \in Course : /\ OnlyWriter(w, c)' <=> OnlyWriter(w, c)
                                                             /\ ShowsCopy(w, c)' <=> ShowsCopy(w, c)
      BY <2>1, <3>1 DEF LearningTypeOK, OnlyWriter, ShowsCopy
    <3> QED
      BY <2>3, <3>1, <3>2
  <2> QED
    BY <2>5, <2>6, <2>8, <2>9, <2>10, <2>11, <2>12 DEF LearningNext, LearningStep
<1> QED
  BY <1>1, <1>2, PTL DEF LearningSpec, ProgressIsKept

----------------------------------------------------------------------------
(* Employees.                                                              *)

Creating == {"count", "insertUser", "insertEmployee"}

EmployeeRow == [email : Email \union {None}, user : Email \union {None}, code : Nat,
                status : {"none", "probation", "active", "terminated"}, deleted : BOOLEAN,
                manager : Employee \union {None}, renamed : BOOLEAN]

\* What handlers hold, and that rows stay: the one a handler has read is there.
EmployeesHold ==
    /\ db \in [user : SUBSET Email, employee : [Employee -> EmployeeRow]]
    /\ aborts \in Nat
    /\ handler \in [Worker -> [pc : {"idle"}, on : {None}]
           \union [pc : Creating, on : {"code"}, email : Email, code : Nat]
           \union [pc : {"update"}, on : Employee, change : Changes]
           \union [pc : {"softDelete"}, on : Employee]]
    /\ \A w \in Worker : handler[w].pc \in {"update", "softDelete"} => handler[w].on \in Rows

Excused == aborts > 0 \/ "code" \in overlapped \/ \E p \in Rows : db.employee[p].renamed

\* One create is in flight at most, and the code it drew is free; a row has
\* the address of its account; an account waits for a row of its create.
OneCreate ==
    /\ \A v, w \in Worker :
           handler[v].pc \in Creating /\ handler[w].pc \in Creating => v = w
    /\ \A w \in Worker : handler[w].pc \in {"insertUser", "insertEmployee"} =>
           handler[w].code = Cardinality(Rows) + 1
    /\ \A w \in Worker : handler[w].pc = "insertEmployee" => handler[w].email \in db.user
    /\ \A w \in Worker, p \in Rows : handler[w].pc = "insertEmployee" =>
           db.employee[p].email # handler[w].email

RowsOwn ==
    /\ \A p \in Rows : /\ db.employee[p].email = db.employee[p].user
                       /\ db.employee[p].user \in db.user
                       /\ db.employee[p].code \in 1..Cardinality(Rows)
    /\ \A u \in db.user :
           \/ \E p \in Rows : db.employee[p].user = u
           \/ \E w \in Worker : handler[w].pc = "insertEmployee" /\ handler[w].email = u

AccountsInv == EmployeesHold /\ (Excused \/ (OneCreate /\ RowsOwn))

\* Every account is somebody's, or about to be, unless a create died, two
\* overlapped, or an address was changed.
THEOREM AccountsStayOwned == EmployeesSpec => []AccountsAreOwned
<1>1. AccountsInv => AccountsAreOwned
  BY DEF AccountsInv, Excused, RowsOwn, AccountsAreOwned, At
<1>2. \A S \in SUBSET Employee : IsFiniteSet(S) /\ Cardinality(S) \in Nat
  BY EmployeesAssumption, FS_Subset, FS_CardinalityType
<1>3. NoEmployee \in EmployeeRow /\ NoEmployee.renamed = FALSE /\ NoEmployee.deleted = FALSE
      /\ NoEmployee.manager = None /\ NoEmployee.status = "none" /\ NoEmployee.email = None
      /\ NoEmployee.user = None /\ NoEmployee.code = 0
  BY DEF NoEmployee, EmployeeRow
<1>4. EmployeesInit => AccountsInv
  <2> SUFFICES ASSUME EmployeesInit PROVE AccountsInv
    OBVIOUS
  <2>1. PICK p \in Employee :
            db = [user |-> {Founder}, employee |-> [q \in Employee |-> IF q # p THEN NoEmployee ELSE
                  [NoEmployee EXCEPT !.email = Founder, !.user = Founder, !.code = 1,
                                     !.status = "active"]]]
    BY DEF EmployeesInit
  <2> DEFINE row == [NoEmployee EXCEPT !.email = Founder, !.user = Founder, !.code = 1,
                                       !.status = "active"]
  <2>2. /\ row \in EmployeeRow /\ row # NoEmployee /\ row.email = Founder /\ row.user = Founder
        /\ row.code = 1
    BY EmployeesAssumption DEF NoEmployee, EmployeeRow
  <2>3. /\ db.user = {Founder} /\ db.employee[p] = row
        /\ \A q \in Employee \ {p} : db.employee[q] = NoEmployee
    BY <2>1
  <2>4. EmployeesHold
    BY <1>3, <2>1, <2>2, EmployeesAssumption
    DEF EmployeesInit, InitHandlers, EmployeesHold, Idle
  <2>5. OneCreate
    BY DEF EmployeesInit, InitHandlers, Idle, OneCreate, Creating
  <2> HIDE DEF row
  <2>6. Rows = {p}
    BY <2>2, <2>3 DEF Rows
  <2>7. Cardinality(Rows) = 1
    BY <2>6, FS_Singleton
  <2>8. RowsOwn
    BY <2>2, <2>3, <2>6, <2>7 DEF RowsOwn
  <2> QED
    BY <2>4, <2>5, <2>8 DEF AccountsInv
<1>5. AccountsInv /\ [EmployeesNext]_vars => AccountsInv'
  <2> SUFFICES ASSUME AccountsInv, [EmployeesNext]_vars PROVE AccountsInv'
    OBVIOUS
  <2>1. /\ EmployeesHold
        /\ db \in [user : SUBSET Email, employee : [Employee -> EmployeeRow]]
        /\ aborts \in Nat
        /\ handler \in [Worker -> [pc : {"idle"}, on : {None}]
               \union [pc : Creating, on : {"code"}, email : Email, code : Nat]
               \union [pc : {"update"}, on : Employee, change : Changes]
               \union [pc : {"softDelete"}, on : Employee]]
        /\ \A w \in Worker : handler[w].pc \in {"update", "softDelete"} => handler[w].on \in Rows
        /\ Excused \/ (OneCreate /\ RowsOwn)
    BY DEF AccountsInv, EmployeesHold
  <2>2. \A w \in Worker : handler[w].pc \in Creating <=>
            handler[w].pc \in {"count", "insertUser", "insertEmployee"}
    BY DEF Creating
  \* The tables are written but for the columns that matter.
  <2>3. ASSUME EmployeesHold',
               \A p \in Employee : /\ db.employee[p] = NoEmployee <=> db'.employee[p] = NoEmployee
                                   /\ db.employee[p].renamed => db'.employee[p].renamed
                                   /\ db'.employee[p].email = db.employee[p].email
                                   /\ db'.employee[p].user = db.employee[p].user
                                   /\ db'.employee[p].code = db.employee[p].code,
               db'.user = db.user, aborts' = aborts, overlapped \subseteq overlapped',
               \A w \in Worker :
                   \/ handler'[w] = handler[w]
                   \/ handler[w].pc \notin Creating /\ handler'[w].pc \notin Creating
        PROVE  AccountsInv'
    <3>1. Rows' = Rows
      BY <2>3 DEF Rows
    <3>2. Excused => Excused'
      BY <2>3, <3>1 DEF Excused, Rows
    <3>3. OneCreate => OneCreate'
      BY <2>3, <3>1 DEF OneCreate, Rows, Creating
    <3>4. RowsOwn => RowsOwn'
      <4> SUFFICES ASSUME RowsOwn PROVE RowsOwn'
        OBVIOUS
      <4>1. \A p \in Rows : /\ db'.employee[p].email = db'.employee[p].user
                            /\ db'.employee[p].user \in db'.user
                            /\ db'.employee[p].code \in 1..Cardinality(Rows)
        BY <2>3 DEF RowsOwn, Rows
      <4>2. ASSUME NEW u \in db'.user
            PROVE  \/ \E p \in Rows : db'.employee[p].user = u
                   \/ \E w \in Worker : handler'[w].pc = "insertEmployee" /\ handler'[w].email = u
        <5>1. CASE \E p \in Rows : db.employee[p].user = u
          BY <2>3, <5>1 DEF Rows
        <5>2. CASE \E w \in Worker : handler[w].pc = "insertEmployee" /\ handler[w].email = u
          <6>1. PICK w \in Worker : handler[w].pc = "insertEmployee" /\ handler[w].email = u
            BY <5>2
          <6>2. handler'[w] = handler[w]
            BY <2>3, <6>1 DEF Creating
          <6> QED
            BY <6>1, <6>2
        <5> QED
          BY <2>3, <4>2, <5>1, <5>2 DEF RowsOwn
      <4> QED
        BY <3>1, <4>1, <4>2 DEF RowsOwn
    <3> QED
      BY <2>1, <2>3, <3>2, <3>3, <3>4 DEF AccountsInv
  <2>4. ASSUME NEW w \in Worker, NEW e \in Email, CreateRead(w, e) PROVE AccountsInv'
    <3> DEFINE h == [pc |-> "count", on |-> "code", email |-> e, code |-> 0]
    <3>1. /\ handler[w] = Idle /\ handler' = [handler EXCEPT ![w] = h]
          /\ db' = db /\ aborts' = aborts /\ overlapped \subseteq overlapped'
          /\ "code" \notin overlapped' => \A v \in Worker : handler[v].on # "code"
      BY <2>4 DEF CreateRead, Start, Begin
    <3>2. Rows' = Rows /\ \A v \in Worker \ {w} : handler'[v] = handler[v]
      BY <2>1, <3>1 DEF Rows
    <3>3. handler'[w] = h /\ handler[w].pc = "idle"
      BY <2>1, <3>1 DEF Idle
    <3>4. EmployeesHold'
      <4>1. h \in [pc : Creating, on : {"code"}, email : Email, code : Nat]
        BY DEF Creating
      <4> HIDE DEF h
      <4> QED
        BY <2>1, <3>1, <3>2, <3>3, <4>1 DEF EmployeesHold, Creating
    <3>5. Excused => Excused'
      BY <3>1, <3>2 DEF Excused
    <3>6. ASSUME OneCreate, RowsOwn, ~Excused' PROVE OneCreate' /\ RowsOwn'
      <4>1. \A v \in Worker : handler[v].pc \notin Creating
        BY <2>1, <3>1, <3>6 DEF Excused, Creating
      <4>2. \A v \in Worker : /\ v # w => handler'[v].pc \notin Creating
                              /\ handler'[v].pc \notin {"insertUser", "insertEmployee"}
                              /\ handler[v].pc # "insertEmployee"
        BY <2>2, <3>2, <3>3, <4>1
      <4> HIDE DEF h
      <4> QED
        BY <3>1, <3>2, <3>6, <4>2 DEF OneCreate, RowsOwn
    <3> QED
      BY <2>1, <3>4, <3>5, <3>6 DEF AccountsInv
  \* The handler of a create goes on.
  <2>5. ASSUME NEW w \in Worker, NEW h, handler[w].pc \in Creating, Goto(w, h),
               h \in [pc : Creating, on : {"code"}, email : Email, code : Nat] \/ h = Idle
        PROVE  /\ handler'[w] = h /\ aborts' = aborts /\ overlapped' = overlapped
               /\ \A v \in Worker \ {w} : handler'[v] = handler[v]
               /\ OneCreate => \A v \in Worker \ {w} : handler[v].pc \notin Creating
               /\ OneCreate => \A v \in Worker \ {w} : handler[v].pc # "insertEmployee"
               /\ /\ db' \in [user : SUBSET Email, employee : [Employee -> EmployeeRow]]
                  /\ Rows \subseteq Rows'
                  => EmployeesHold'
    <3>1. handler' = [handler EXCEPT ![w] = h] /\ aborts' = aborts /\ overlapped' = overlapped
      BY <2>5 DEF Goto
    <3>2. handler'[w] = h /\ \A v \in Worker \ {w} : handler'[v] = handler[v]
      BY <2>1, <3>1
    <3>3. OneCreate => \A v \in Worker \ {w} : handler[v].pc \notin Creating
      BY <2>5 DEF OneCreate
    <3>4. h.pc \notin {"update", "softDelete"}
      BY <2>5 DEF Idle, Creating
    <3>5. handler' \in [Worker -> [pc : {"idle"}, on : {None}]
               \union [pc : Creating, on : {"code"}, email : Email, code : Nat]
               \union [pc : {"update"}, on : Employee, change : Changes]
               \union [pc : {"softDelete"}, on : Employee]]
      BY <2>1, <2>5, <3>1 DEF Idle
    <3>6. /\ db' \in [user : SUBSET Email, employee : [Employee -> EmployeeRow]]
          /\ Rows \subseteq Rows'
          => EmployeesHold'
      BY <2>1, <3>1, <3>2, <3>4, <3>5 DEF EmployeesHold
    <3> QED
      BY <2>2, <3>1, <3>2, <3>3, <3>6
  <2>6. ASSUME NEW w \in Worker, CreateCount(w) PROVE AccountsInv'
    <3> DEFINE h == [handler[w] EXCEPT !.pc = "insertUser", !.code = Cardinality(Rows) + 1]
    <3>1. /\ handler[w].pc = "count"
          /\ handler[w] \in [pc : Creating, on : {"code"}, email : Email, code : Nat]
      BY <2>1, <2>6 DEF CreateCount, At, Creating
    <3>2. Goto(w, h) /\ db' = db /\ Rows' = Rows /\ handler[w].pc \in Creating
      BY <2>6, <3>1 DEF CreateCount, Rows, Creating
    <3>3. Cardinality(Rows) \in Nat
      BY <1>2 DEF Rows
    <3>4. h \in [pc : Creating, on : {"code"}, email : Email, code : Nat]
          /\ h.pc = "insertUser" /\ h.code = Cardinality(Rows) + 1
      <4> DEFINE n == Cardinality(Rows) + 1
      <4>1. n \in Nat /\ "insertUser" \in Creating
        BY <3>3 DEF Creating
      <4> HIDE DEF n
      <4>2. [handler[w] EXCEPT !.pc = "insertUser", !.code = n] \in
                [pc : Creating, on : {"code"}, email : Email, code : Nat]
        BY <3>1, <4>1
      <4>3. /\ [handler[w] EXCEPT !.pc = "insertUser", !.code = n].pc = "insertUser"
            /\ [handler[w] EXCEPT !.pc = "insertUser", !.code = n].code = n
        BY <3>1
      <4> QED
        BY <4>2, <4>3 DEF n
    <3> HIDE DEF h
    <3>5. /\ handler'[w] = h /\ aborts' = aborts /\ overlapped' = overlapped
          /\ \A v \in Worker \ {w} : handler'[v] = handler[v]
          /\ OneCreate => \A v \in Worker \ {w} : handler[v].pc \notin Creating
          /\ OneCreate => \A v \in Worker \ {w} : handler[v].pc # "insertEmployee"
          /\ EmployeesHold'
      BY <2>1, <2>5, <3>2, <3>4
    <3>6. Excused => Excused'
      BY <3>2, <3>5 DEF Excused
    <3>7. ASSUME OneCreate, RowsOwn PROVE OneCreate' /\ RowsOwn'
      <4>1. \A v \in Worker \ {w} : handler'[v].pc \notin {"count", "insertUser", "insertEmployee"}
        BY <2>2, <3>5, <3>7
      <4>2. \A v \in Worker : handler'[v].pc # "insertEmployee" /\ handler[v].pc # "insertEmployee"
        BY <3>1, <3>4, <3>5, <4>1
      <4>3. OneCreate'
        BY <3>2, <3>4, <3>5, <4>1, <4>2 DEF OneCreate, Creating
      <4>4. RowsOwn'
        BY <3>2, <3>7, <4>2 DEF RowsOwn
      <4> QED
        BY <4>3, <4>4
    <3> QED
      BY <2>1, <3>5, <3>6, <3>7 DEF AccountsInv
  <2>7. ASSUME NEW w \in Worker, InsertUser(w) PROVE AccountsInv'
    <3>1. PICK e \in Email, n \in Nat :
              handler[w] = [pc |-> "insertUser", on |-> "code", email |-> e, code |-> n]
      BY <2>1, <2>7 DEF InsertUser, At, Creating
    <3> DEFINE h == [pc |-> "insertEmployee", on |-> "code", email |-> e, code |-> n]
    <3>2. Goto(w, h) /\ handler[w].pc \in Creating
      <4>1. [handler[w] EXCEPT !.pc = "insertEmployee"] = h
        BY <3>1
      <4> HIDE DEF h
      <4> QED
        BY <2>7, <3>1, <4>1 DEF InsertUser, Creating
    <3>3. /\ db' \in [user : SUBSET Email, employee : [Employee -> EmployeeRow]]
          /\ db'.user = db.user \union {e} /\ db'.employee = db.employee
          /\ e \notin db.user
      BY <2>1, <2>7, <3>1 DEF InsertUser
    <3>4. Rows' = Rows
      BY <3>3 DEF Rows
    <3>5. h \in [pc : Creating, on : {"code"}, email : Email, code : Nat]
          /\ h.pc = "insertEmployee" /\ h.code = n /\ h.email = e
      BY DEF Creating
    <3> HIDE DEF h
    <3>6. /\ handler'[w] = h /\ aborts' = aborts /\ overlapped' = overlapped
          /\ \A v \in Worker \ {w} : handler'[v] = handler[v]
          /\ OneCreate => \A v \in Worker \ {w} : handler[v].pc \notin Creating
          /\ OneCreate => \A v \in Worker \ {w} : handler[v].pc # "insertEmployee"
          /\ EmployeesHold'
      BY <2>1, <2>5, <3>2, <3>3, <3>4, <3>5
    <3>7. Excused => Excused'
      BY <3>3, <3>4, <3>6 DEF Excused
    <3>8. ASSUME OneCreate, RowsOwn PROVE OneCreate' /\ RowsOwn'
      <4>1. \A v \in Worker \ {w} : handler'[v].pc \notin {"count", "insertUser", "insertEmployee"}
        BY <2>2, <3>6, <3>8
      <4>2. n = Cardinality(Rows) + 1 /\ \A p \in Rows : db.employee[p].email # e
        BY <3>1, <3>3, <3>8 DEF OneCreate, RowsOwn
      <4>3. OneCreate'
        BY <3>3, <3>4, <3>5, <3>6, <4>1, <4>2 DEF OneCreate, Creating
      <4>4. \A v \in Worker : handler[v].pc # "insertEmployee"
        BY <3>1, <3>6, <3>8
      <4>5. RowsOwn'
        BY <3>3, <3>4, <3>5, <3>6, <3>8, <4>4 DEF RowsOwn
      <4> QED
        BY <4>3, <4>5
    <3> QED
      BY <2>1, <3>6, <3>7, <3>8 DEF AccountsInv
  <2>8. ASSUME NEW w \in Worker, NEW p \in Employee, InsertEmployee(w, p) PROVE AccountsInv'
    <3>1. PICK e \in Email, n \in Nat :
              handler[w] = [pc |-> "insertEmployee", on |-> "code", email |-> e, code |-> n]
      BY <2>1, <2>8 DEF InsertEmployee, At, Creating
    <3> DEFINE row == [NoEmployee EXCEPT !.email = e, !.user = e, !.code = n,
                                         !.status = "probation"]
    <3>2. row \in EmployeeRow /\ row # NoEmployee
          /\ row.email = e /\ row.user = e /\ row.code = n
      BY DEF NoEmployee, EmployeeRow
    <3>3. db' = [db EXCEPT !.employee[p] = row] /\ db.employee[p] = NoEmployee
      BY <2>8, <3>1 DEF InsertEmployee
    <3> HIDE DEF row
    <3>4. /\ db' \in [user : SUBSET Email, employee : [Employee -> EmployeeRow]]
          /\ db'.user = db.user /\ db'.employee[p] = row
          /\ \A q \in Employee \ {p} : db'.employee[q] = db.employee[q]
      BY <2>1, <3>2, <3>3
    <3>5. Rows' = Rows \union {p} /\ p \notin Rows
      BY <3>2, <3>3, <3>4 DEF Rows
    <3>6. Cardinality(Rows') = Cardinality(Rows) + 1 /\ Cardinality(Rows) \in Nat
      <4>1. IsFiniteSet(Rows) /\ Cardinality(Rows) \in Nat
        BY <1>2 DEF Rows
      <4> QED
        BY <3>5, <4>1, FS_AddElement
    <3>7. /\ handler'[w] = Idle /\ aborts' = aborts /\ overlapped' = overlapped
          /\ \A v \in Worker \ {w} : handler'[v] = handler[v]
          /\ OneCreate => \A v \in Worker \ {w} : handler[v].pc \notin Creating
          /\ OneCreate => \A v \in Worker \ {w} : handler[v].pc # "insertEmployee"
          /\ EmployeesHold'
      <4>1. Goto(w, Idle) /\ handler[w].pc \in Creating
        BY <2>8, <3>1 DEF InsertEmployee, Finish, Creating
      <4> QED
        BY <2>1, <2>5, <3>4, <3>5, <4>1
    <3>8. Excused => Excused'
      BY <3>4, <3>5, <3>7 DEF Excused, Rows
    <3>9. ASSUME OneCreate, RowsOwn PROVE OneCreate' /\ RowsOwn'
      <4>1. \A v \in Worker : handler'[v].pc \notin {"count", "insertUser", "insertEmployee"}
        BY <2>2, <3>7, <3>9 DEF Idle
      <4>2. OneCreate'
        BY <4>1 DEF OneCreate, Creating
      <4>3. e \in db.user /\ n = Cardinality(Rows) + 1
        BY <3>1, <3>9 DEF OneCreate
      <4>4. ASSUME NEW q \in Rows'
            PROVE  /\ db'.employee[q].email = db'.employee[q].user
                   /\ db'.employee[q].user \in db'.user
                   /\ db'.employee[q].code \in 1..(Cardinality(Rows) + 1)
        <5>1. CASE q = p
          BY <3>2, <3>4, <3>6, <4>3, <5>1
        <5>2. CASE q # p
          <6>1. q \in Rows /\ q \in Employee
            BY <3>5, <5>2 DEF Rows
          <6> QED
            BY <3>4, <3>6, <3>9, <5>2, <6>1 DEF RowsOwn
        <5> QED
          BY <5>1, <5>2
      <4>5. ASSUME NEW u \in db.user PROVE \E q \in Rows' : db'.employee[q].user = u
        <5>1. CASE \E q \in Rows : db.employee[q].user = u
          <6>1. PICK q \in Rows : db.employee[q].user = u
            BY <5>1
          <6>2. q \in Employee \ {p} /\ q \in Rows'
            BY <3>5 DEF Rows
          <6> QED
            BY <3>4, <6>1, <6>2
        <5>2. CASE u = e
          BY <3>2, <3>4, <3>5, <5>2
        <5> QED
          BY <3>1, <3>7, <3>9, <5>1, <5>2 DEF RowsOwn
      <4>6. RowsOwn'
        BY <3>4, <3>6, <4>4, <4>5 DEF RowsOwn
      <4> QED
        BY <4>2, <4>6
    <3> QED
      BY <2>1, <3>7, <3>8, <3>9 DEF AccountsInv
  \* A refused insert leaves nothing behind: the account was there before,
  \* and a row is only refused when handlers overlapped.
  <2>9. ASSUME NEW w \in Worker, InsertRefused(w) PROVE AccountsInv'
    <3>1. PICK e \in Email, n \in Nat, pc \in Creating :
              handler[w] = [pc |-> pc, on |-> "code", email |-> e, code |-> n]
      BY <2>1, <2>9 DEF InsertRefused, At, Creating
    <3>2. db' = db /\ Rows' = Rows /\ Goto(w, Idle)
      BY <2>9 DEF InsertRefused, Finish, Rows
    <3>3. /\ handler'[w] = Idle /\ aborts' = aborts /\ overlapped' = overlapped
          /\ \A v \in Worker \ {w} : handler'[v] = handler[v]
          /\ OneCreate => \A v \in Worker \ {w} : handler[v].pc \notin Creating
          /\ OneCreate => \A v \in Worker \ {w} : handler[v].pc # "insertEmployee"
          /\ EmployeesHold'
      BY <2>1, <2>5, <3>1, <3>2
    <3>4. Excused => Excused'
      BY <3>2, <3>3 DEF Excused
    <3>5. ASSUME OneCreate, RowsOwn PROVE OneCreate' /\ RowsOwn'
      <4>1. \A v \in Worker : handler'[v].pc \notin {"count", "insertUser", "insertEmployee"}
        BY <2>2, <3>3, <3>5 DEF Idle
      <4>2. OneCreate'
        BY <4>1 DEF OneCreate, Creating
      <4>3. pc # "insertEmployee"
        <5> SUFFICES ASSUME pc = "insertEmployee" PROVE FALSE
          OBVIOUS
        <5>1. n = Cardinality(Rows) + 1 /\ \A p \in Rows : db.employee[p].email # e
          BY <3>1, <3>5 DEF OneCreate
        <5>2. Cardinality(Rows) \in Nat /\ \A p \in Rows : db.employee[p].code \in 1..Cardinality(Rows)
          BY <1>2, <3>5 DEF RowsOwn, Rows
        <5>3. \A p \in Rows : db.employee[p].code # n
          BY <5>1, <5>2
        <5> QED
          BY <2>9, <3>1, <5>1, <5>3 DEF InsertRefused, At, Unique
      <4>4. \A v \in Worker : handler[v].pc # "insertEmployee"
        BY <3>1, <3>3, <3>5, <4>3
      <4>5. RowsOwn'
        BY <3>2, <3>5, <4>4 DEF RowsOwn
      <4> QED
        BY <4>2, <4>5
    <3> QED
      BY <2>1, <3>3, <3>4, <3>5 DEF AccountsInv
  \* A handler that creates nothing begins.
  <2>10. ASSUME NEW w \in Worker, NEW h, Start(w, h), h.on \in Rows,
                \/ h \in [pc : {"update"}, on : Employee, change : Changes]
                \/ h \in [pc : {"softDelete"}, on : Employee]
         PROVE  AccountsInv'
    <3>1. /\ handler[w] = Idle /\ handler' = [handler EXCEPT ![w] = h]
          /\ db' = db /\ aborts' = aborts /\ overlapped \subseteq overlapped'
      BY <2>10 DEF Start, Begin
    <3>2. /\ handler'[w] = h /\ \A v \in Worker \ {w} : handler'[v] = handler[v]
          /\ handler[w].pc \notin Creating /\ h.pc \notin Creating
          /\ Rows' = Rows
      BY <2>1, <2>10, <3>1 DEF Idle, Creating, Rows
    <3>3. EmployeesHold'
      <4>1. handler' \in [Worker -> [pc : {"idle"}, on : {None}]
               \union [pc : Creating, on : {"code"}, email : Email, code : Nat]
               \union [pc : {"update"}, on : Employee, change : Changes]
               \union [pc : {"softDelete"}, on : Employee]]
        BY <2>1, <2>10, <3>1
      <4> QED
        BY <2>1, <2>10, <3>1, <3>2, <4>1 DEF EmployeesHold
    <3> QED
      BY <2>3, <3>1, <3>2, <3>3
  \* A handler that creates nothing writes a row.
  <2>11. ASSUME NEW w \in Worker, handler[w].pc \in {"update", "softDelete"}, Finish(w),
                NEW row \in EmployeeRow, db' = [db EXCEPT !.employee[handler[w].on] = row],
                row # NoEmployee,
                LET old == db.employee[handler[w].on] IN
                    /\ old.renamed => row.renamed
                    /\ \/ row.renamed
                       \/ row.email = old.email /\ row.user = old.user /\ row.code = old.code
         PROVE  AccountsInv'
    <3>1. PICK p \in Employee : p = handler[w].on /\ p \in Rows
      BY <2>1, <2>11 DEF Rows
    <3>2. /\ handler' = [handler EXCEPT ![w] = Idle]
          /\ aborts' = aborts /\ overlapped' = overlapped
      BY <2>11 DEF Finish, Goto
    <3>3. /\ db' \in [user : SUBSET Email, employee : [Employee -> EmployeeRow]]
          /\ db'.user = db.user /\ db'.employee[p] = row
          /\ \A q \in Employee \ {p} : db'.employee[q] = db.employee[q]
      BY <2>1, <2>11, <3>1
    <3>4. Rows' = Rows
      BY <2>11, <3>1, <3>3 DEF Rows
    <3>5. /\ handler'[w] = Idle /\ \A v \in Worker \ {w} : handler'[v] = handler[v]
          /\ handler[w].pc \notin Creating /\ handler'[w].pc \notin Creating
      BY <2>1, <2>11, <3>2 DEF Idle, Creating
    <3>6. EmployeesHold'
      <4>1. handler' \in [Worker -> [pc : {"idle"}, on : {None}]
               \union [pc : Creating, on : {"code"}, email : Email, code : Nat]
               \union [pc : {"update"}, on : Employee, change : Changes]
               \union [pc : {"softDelete"}, on : Employee]]
        BY <2>1, <3>2 DEF Idle
      <4>2. handler'[w].pc = "idle"
        BY <3>5 DEF Idle
      <4> QED
        BY <2>1, <3>2, <3>3, <3>4, <3>5, <4>1, <4>2 DEF EmployeesHold
    <3>7. CASE row.renamed
      <4>1. Excused'
        BY <3>1, <3>3, <3>4, <3>7 DEF Excused
      <4> QED
        BY <3>6, <4>1 DEF AccountsInv
    <3>8. CASE ~row.renamed
      <4>1. ASSUME NEW q \in Employee
            PROVE  /\ db.employee[q] = NoEmployee <=> db'.employee[q] = NoEmployee
                   /\ db.employee[q].renamed => db'.employee[q].renamed
                   /\ db'.employee[q].email = db.employee[q].email
                   /\ db'.employee[q].user = db.employee[q].user
                   /\ db'.employee[q].code = db.employee[q].code
        <5>1. CASE q = p
          BY <2>11, <3>1, <3>3, <3>8, <5>1 DEF Rows
        <5>2. CASE q # p
          BY <3>3, <5>2
        <5> QED
          BY <5>1, <5>2
      <4> QED
        BY <2>3, <3>2, <3>3, <3>5, <3>6, <4>1
    <3> QED
      BY <3>7, <3>8
  <2>12. ASSUME NEW w \in Worker, NEW p \in Employee, NEW change \in Changes,
                UpdateRead(w, p, change)
         PROVE  AccountsInv'
    <3>1. p \in Rows
      BY <2>12 DEF UpdateRead, Live
    <3> QED
      BY <2>10, <2>12, <3>1 DEF UpdateRead
  <2>13. ASSUME NEW w \in Worker, NEW p \in Employee, DeleteRead(w, p) PROVE AccountsInv'
    <3>1. p \in Rows
      BY <2>13 DEF DeleteRead, Live
    <3> QED
      BY <2>10, <2>13, <3>1 DEF DeleteRead
  <2>14. ASSUME NEW w \in Worker, DeleteWrite(w) PROVE AccountsInv'
    <3>1. PICK p \in Employee : p = handler[w].on /\ p \in Rows /\ handler[w].pc = "softDelete"
      BY <2>1, <2>14 DEF DeleteWrite, At, Rows
    <3> DEFINE old == db.employee[p]
               row == [old EXCEPT !.deleted = TRUE, !.status = "terminated"]
    <3>2. old \in EmployeeRow
      BY <2>1
    <3>3. /\ row \in EmployeeRow /\ row # NoEmployee /\ (old.renamed => row.renamed)
          /\ row.email = old.email /\ row.user = old.user /\ row.code = old.code
      BY <1>3, <3>2 DEF EmployeeRow
    <3>4. db' = [db EXCEPT !.employee[p] = row]
      BY <2>1, <2>14, <3>1 DEF DeleteWrite
    <3> HIDE DEF row
    <3> QED
      BY <2>11, <2>14, <3>1, <3>3, <3>4 DEF DeleteWrite
  <2>15. ASSUME NEW w \in Worker, UpdateWrite(w) PROVE AccountsInv'
    <3>1. PICK p \in Employee : p = handler[w].on /\ p \in Rows /\ handler[w].pc = "update"
      BY <2>1, <2>15 DEF UpdateWrite, At, Rows
    <3> DEFINE old == db.employee[p]
               change == handler[w].change
    <3>2. old \in EmployeeRow /\ old # NoEmployee /\ change \in Changes
      BY <2>1, <3>1 DEF Rows, Creating
    <3>3. None \notin Employee
      BY ServicesAssumption
    <3>4. CASE change.column = "manager"
      <4> DEFINE row == [old EXCEPT !.manager = change.value]
      <4>1. change.value \in Employee
        BY <3>2, <3>4 DEF Changes
      <4>2. /\ row \in EmployeeRow /\ row # NoEmployee /\ (old.renamed => row.renamed)
            /\ row.email = old.email /\ row.user = old.user /\ row.code = old.code
        BY <1>3, <3>2, <3>3, <4>1 DEF EmployeeRow
      <4>3. db' = [db EXCEPT !.employee[p] = row]
        BY <2>1, <2>15, <3>1, <3>4 DEF UpdateWrite
      <4> HIDE DEF row, change
      <4> QED
        BY <2>11, <2>15, <3>1, <4>2, <4>3 DEF UpdateWrite
    <3>5. CASE change.column = "status"
      <4> DEFINE row == [old EXCEPT !.status = change.value]
      <4>1. change.value = "active"
        BY <3>2, <3>5 DEF Changes
      <4>2. /\ row \in EmployeeRow /\ row # NoEmployee /\ (old.renamed => row.renamed)
            /\ row.email = old.email /\ row.user = old.user /\ row.code = old.code
        BY <1>3, <3>2, <4>1 DEF EmployeeRow
      <4>3. db' = [db EXCEPT !.employee[p] = row]
        BY <2>1, <2>15, <3>1, <3>5 DEF UpdateWrite
      <4> HIDE DEF row, change
      <4> QED
        BY <2>11, <2>15, <3>1, <4>2, <4>3 DEF UpdateWrite
    <3>6. CASE change.column = "email"
      <4> DEFINE row == [old EXCEPT !.email = change.value, !.renamed = TRUE]
      <4>1. change.value \in Email
        BY <3>2, <3>6 DEF Changes
      <4>2. row \in EmployeeRow /\ row # NoEmployee /\ row.renamed = TRUE
        BY <1>3, <3>2, <4>1 DEF EmployeeRow
      <4>3. db' = db \/ db' = [db EXCEPT !.employee[p].email = change.value,
                                         !.employee[p].renamed = TRUE]
        BY <2>15, <3>1, <3>6 DEF UpdateWrite
      <4>4. [db EXCEPT !.employee[p].email = change.value, !.employee[p].renamed = TRUE]
                = [db EXCEPT !.employee[p] = row]
        BY <2>1
      <4>5. db = [db EXCEPT !.employee[p] = old]
        BY <2>1
      <4> HIDE DEF row, change
      <4>6. CASE db' = db
        <5>1. db' = [db EXCEPT !.employee[p] = old]
          BY <4>5, <4>6
        <5> HIDE DEF old
        <5> QED
          BY <2>11, <2>15, <3>1, <3>2, <5>1 DEF UpdateWrite, old
      <4>7. CASE db' = [db EXCEPT !.employee[p] = row]
        BY <2>11, <2>15, <3>1, <4>2, <4>7 DEF UpdateWrite
      <4> QED
        BY <4>3, <4>4, <4>6, <4>7
    <3> QED
      BY <3>2, <3>4, <3>5, <3>6 DEF Changes
  <2>16. ASSUME NEW w \in Worker, Abort(w) PROVE AccountsInv'
    <3>1. /\ handler' = [handler EXCEPT ![w] = Idle] /\ db' = db /\ aborts' = aborts + 1
          /\ Rows' = Rows
      BY <2>16 DEF Abort, Rows
    <3>2. Excused'
      BY <2>1, <3>1 DEF Excused
    <3>3. EmployeesHold'
      <4>1. \A v \in Worker : handler'[v].pc = "idle" \/ handler'[v] = handler[v]
        BY <2>1, <3>1 DEF Idle
      <4>2. handler' \in [Worker -> [pc : {"idle"}, on : {None}]
               \union [pc : Creating, on : {"code"}, email : Email, code : Nat]
               \union [pc : {"update"}, on : Employee, change : Changes]
               \union [pc : {"softDelete"}, on : Employee]]
        BY <2>1, <3>1 DEF Idle
      <4> QED
        BY <2>1, <3>1, <4>1, <4>2 DEF EmployeesHold
    <3> QED
      BY <3>2, <3>3 DEF AccountsInv
  <2>17. CASE UNCHANGED vars
    <3>1. /\ db' = db /\ handler' = handler
          /\ aborts' = aborts /\ overlapped' = overlapped
      BY <2>17 DEF vars
    <3>2. EmployeesHold' /\ (Excused => Excused')
      BY <2>1, <3>1 DEF EmployeesHold, Excused, Rows
    <3>3. OneCreate => OneCreate'
      BY <3>1 DEF OneCreate, Rows
    <3>4. RowsOwn => RowsOwn'
      BY <3>1 DEF RowsOwn, Rows
    <3> QED
      BY <2>1, <3>2, <3>3, <3>4 DEF AccountsInv
  <2> QED
    BY <2>4, <2>6, <2>7, <2>8, <2>9, <2>12, <2>13, <2>14, <2>15, <2>16, <2>17
    DEF EmployeesNext, EmployeesStep
<1> QED
  BY <1>1, <1>4, <1>5, PTL DEF EmployeesSpec
----------------------------------------------------------------------------
(* The chart.                                                              *)

\* A recursion over the naturals has a solution.
LEMMA Recursion ==
    ASSUME NEW X, NEW base \in X, NEW step \in [X -> X]
    PROVE  \E it \in [Nat -> X] : it[0] = base /\ \A n \in Nat : it[n + 1] = step[it[n]]
<1> DEFINE Upto(n, g) == /\ g \in [Nat -> X] /\ g[0] = base
                         /\ \A k \in Nat : k < n => g[k + 1] = step[g[k]]
           T == {n \in Nat : ~\E g : Upto(n, g)}
<1>1. ASSUME T # {} PROVE FALSE
  <2>1. PICK m \in Nat : m \in T /\ \A n \in T : m =< n
    BY <1>1, LeastNatural
  <2>2. CASE m = 0
    <3>1. Upto(0, [k \in Nat |-> base])
      OBVIOUS
    <3> QED
      BY <2>1, <2>2, <3>1
  <2>3. CASE m # 0
    <3>1. PICK l \in Nat : m = l + 1
      BY <2>3
    <3>2. PICK g : Upto(l, g)
      <4>1. l < m
        BY <3>1
      <4> HIDE DEF T
      <4>2. l \notin T
        BY <2>1, <4>1
      <4> QED
        BY <4>2 DEF T
    <3> DEFINE h == [k \in Nat |-> IF k = m THEN step[g[l]] ELSE g[k]]
    <3>3. h \in [Nat -> X]
      BY <3>2
    <3>4. h[0] = base
      BY <2>3, <3>2
    <3>5. ASSUME NEW k \in Nat, k < m PROVE h[k + 1] = step[h[k]]
      <4>1. h[k] = g[k]
        BY <3>5
      <4>2. CASE k < l
        <5>1. h[k + 1] = g[k + 1]
          BY <3>1, <4>2
        <5> QED
          BY <3>2, <4>1, <4>2, <5>1
      <4>3. CASE k = l
        BY <3>1, <4>1, <4>3
      <4> QED
        BY <3>1, <3>5, <4>2, <4>3
    <3> HIDE DEF h
    <3>6. Upto(m, h)
      BY <3>3, <3>4, <3>5
    <3> QED
      BY <2>1, <3>6
  <2> QED
    BY <2>2, <2>3
\* Two solutions agree.
<1>2. ASSUME NEW i \in Nat, NEW g, NEW h, Upto(i, g), Upto(i + 1, h) PROVE g[i] = h[i]
  <2> DEFINE D == {k \in Nat : k =< i /\ g[k] # h[k]}
  <2>1. ASSUME NEW k \in D, \A n \in D : k =< n PROVE FALSE
    <3>1. k # 0
      BY <1>2
    <3>2. PICK l \in Nat : k = l + 1
      BY <3>1
    <3>3. g[l] = h[l]
      BY <2>1, <3>2
    <3>4. g[l + 1] = step[g[l]] /\ h[l + 1] = step[h[l]]
      BY <1>2, <3>2
    <3> QED
      BY <3>2, <3>3, <3>4
  <2>2. D \subseteq Nat
    OBVIOUS
  <2>3. D = {}
    BY <2>1, <2>2, LeastNatural
  <2> QED
    BY <2>3
<1> DEFINE G(n) == CHOOSE g : Upto(n, g)
<1>3. \A n \in Nat : Upto(n, G(n))
  BY <1>1
<1> DEFINE it == [n \in Nat |-> G(n)[n]]
<1>4. it \in [Nat -> X] /\ it[0] = base
  BY <1>3
<1>5. ASSUME NEW n \in Nat PROVE it[n + 1] = step[it[n]]
  <2>0. n + 1 \in Nat
    OBVIOUS
  <2> HIDE DEF G
  <2>1. Upto(n, G(n)) /\ Upto(n + 1, G(n + 1))
    <3> HIDE DEF Upto
    <3> QED
      BY <1>3, <2>0
  <2>2. G(n)[n] = G(n + 1)[n]
    BY <1>2, <2>1
  <2>3. G(n + 1)[n + 1] = step[G(n + 1)[n]]
    BY <2>1
  <2> QED
    BY <2>0, <2>1, <2>2, <2>3
<1> HIDE DEF it
<1> QED
  BY <1>4, <1>5

Manager(p) == db.employee[p].manager

\* Whatever the managers are, the chart leaves out those and only those above
\* whom, or who themselves, lead in a circle.
THEOREM ChartLeavesOutCircles == EmployeesSpec => []ChartIsComplete
<1> SUFFICES ChartIsComplete
  BY PTL
\* The recursions behind the chart and the managers above somebody.
<1>1. /\ Charted[0] = Roots
      /\ \A n \in Nat : Charted[n + 1] = Charted[n] \union {p \in Shown : Manager(p) \in Charted[n]}
      /\ \A n \in Nat : Above[n] = [p \in Employee |-> Above[n][p]]
      /\ \A p \in Employee : Above[0][p] = {}
      /\ \A p \in Employee, n \in Nat :
             Above[n + 1][p] = IF Manager(p) \notin Shown THEN {}
                               ELSE {Manager(p)} \union Above[n][Manager(p)]
  <2>0. Shown \subseteq Employee /\ Roots \subseteq Employee
    BY DEF Shown, Live, Rows, Roots
  <2> DEFINE step == [s \in SUBSET Employee |-> s \union {p \in Shown : Manager(p) \in s}]
  <2>11. \E it \in [Nat -> SUBSET Employee] :
             it[0] = Roots /\ \A n \in Nat : it[n + 1] = step[it[n]]
    <3>1. step \in [SUBSET Employee -> SUBSET Employee] /\ Roots \in SUBSET Employee
      BY <2>0
    <3> HIDE DEF step
    <3>2. PICK X : X = SUBSET Employee
      OBVIOUS
    <3>3. step \in [X -> X] /\ Roots \in X
      BY <3>1, <3>2
    <3>4. PICK it \in [Nat -> X] : it[0] = Roots /\ \A n \in Nat : it[n + 1] = step[it[n]]
      BY <3>3, Recursion
    <3> QED
      BY <3>2, <3>4
  <2> DEFINE up == [g \in [Employee -> SUBSET Employee] |->
                      [p \in Employee |-> IF Manager(p) \notin Shown THEN {}
                                          ELSE {Manager(p)} \union g[Manager(p)]]]
  <2>12. \E ab \in [Nat -> [Employee -> SUBSET Employee]] :
             ab[0] = [p \in Employee |-> {}] /\ \A n \in Nat : ab[n + 1] = up[ab[n]]
    <3>1. /\ up \in [[Employee -> SUBSET Employee] -> [Employee -> SUBSET Employee]]
          /\ [p \in Employee |-> {}] \in [Employee -> SUBSET Employee]
      BY <2>0
    <3> HIDE DEF up
    <3>2. PICK Tables : Tables = [Employee -> SUBSET Employee]
      OBVIOUS
    <3>3. PICK base : base = [p \in Employee |-> {}]
      OBVIOUS
    <3>4. PICK grow : grow = up
      OBVIOUS
    <3>6. grow \in [Tables -> Tables] /\ base \in Tables
      BY <3>1, <3>2, <3>3, <3>4
    <3>5. PICK tab \in [Nat -> Tables] :
              tab[0] = base /\ \A n \in Nat : tab[n + 1] = grow[tab[n]]
      BY <3>6, Recursion
    <3> QED
      BY <3>2, <3>3, <3>4, <3>5
  <2>1. PICK it \in [Nat -> SUBSET Employee] : it[0] = Roots /\ \A n \in Nat : it[n + 1] = step[it[n]]
    BY <2>11
  <2> DEFINE Body(f, n) == IF n = 0 THEN Roots
                           ELSE f[n - 1] \union {p \in Shown : db.employee[p].manager \in f[n - 1]}
  <2>2. it = [n \in Nat |-> Body(it, n)]
    <3>1. ASSUME NEW n \in Nat PROVE it[n] = Body(it, n)
      <4>1. CASE n = 0
        BY <2>1, <4>1
      <4>2. CASE n # 0
        <5>1. n - 1 \in Nat /\ (n - 1) + 1 = n
          BY <4>2
        <5>2. it[n] = step[it[n - 1]] /\ it[n - 1] \in SUBSET Employee
          BY <2>1, <5>1
        <5> QED
          BY <4>2, <5>2 DEF Manager
      <4> QED
        BY <4>1, <4>2
    <3> HIDE DEF Body
    <3> QED
      BY <3>1
  <2>3. Charted = [n \in Nat |-> Body(Charted, n)]
    <3>1. Charted = CHOOSE f : f = [n \in Nat |-> Body(f, n)]
      BY DEF Charted
    <3> HIDE DEF Body
    <3> QED
      BY <2>2, <3>1
  <2>4. /\ Charted[0] = Roots
        /\ \A n \in Nat : Charted[n + 1] = Charted[n] \union {p \in Shown : Manager(p) \in Charted[n]}
    <3>1. \A n \in Nat : Charted[n] = Body(Charted, n)
      <4> HIDE DEF Body
      <4> QED
        BY <2>3
    <3>2. ASSUME NEW n \in Nat
          PROVE  Charted[n + 1] = Charted[n] \union {p \in Shown : Manager(p) \in Charted[n]}
      <4>1. n + 1 \in Nat /\ n + 1 # 0 /\ (n + 1) - 1 = n
        OBVIOUS
      <4>2. Charted[n + 1] = Body(Charted, n + 1)
        BY <3>1, <4>1
      <4> QED
        BY <4>1, <4>2 DEF Manager
    <3> QED
      BY <3>1, <3>2
  \* The managers above everybody, up to some of them.
  <2>5. PICK ab \in [Nat -> [Employee -> SUBSET Employee]] :
            ab[0] = [p \in Employee |-> {}] /\ \A n \in Nat : ab[n + 1] = up[ab[n]]
    BY <2>12
  <2> DEFINE Rest(f, n) == [p \in Employee |-> IF n = 0 \/ db.employee[p].manager \notin Shown THEN {}
                               ELSE {db.employee[p].manager} \union f[n - 1][db.employee[p].manager]]
  <2>6. ab = [n \in Nat |-> Rest(ab, n)]
    <3>1. ASSUME NEW n \in Nat PROVE ab[n] = Rest(ab, n)
      <4>1. CASE n = 0
        BY <2>5, <4>1
      <4>2. CASE n # 0
        <5>1. n - 1 \in Nat /\ (n - 1) + 1 = n
          BY <4>2
        <5>2. ab[n] = up[ab[n - 1]] /\ ab[n - 1] \in [Employee -> SUBSET Employee]
          BY <2>5, <5>1
        <5> QED
          BY <4>2, <5>2 DEF Manager
      <4> QED
        BY <4>1, <4>2
    <3> HIDE DEF Rest
    <3> QED
      BY <3>1
  <2>7. Above = [n \in Nat |-> Rest(Above, n)]
    <3>1. Above = CHOOSE f : f = [n \in Nat |-> Rest(f, n)]
      BY DEF Above
    <3> HIDE DEF Rest
    <3> QED
      BY <2>6, <3>1
  <2>8. ASSUME NEW n \in Nat PROVE Above[n] = Rest(Above, n)
    <3> HIDE DEF Rest
    <3> QED
      BY <2>7
  <2>9. /\ \A n \in Nat : Above[n] = [p \in Employee |-> Above[n][p]]
        /\ \A p \in Employee : Above[0][p] = {}
    BY <2>8
  <2>10. ASSUME NEW p \in Employee, NEW n \in Nat
         PROVE  Above[n + 1][p] = IF Manager(p) \notin Shown THEN {}
                                  ELSE {Manager(p)} \union Above[n][Manager(p)]
    <3>1. n + 1 \in Nat /\ n + 1 # 0 /\ (n + 1) - 1 = n
      OBVIOUS
    <3>2. Above[n + 1] = Rest(Above, n + 1)
      <4> HIDE DEF Rest
      <4> QED
        BY <2>8, <3>1
    <3> QED
      BY <3>1, <3>2 DEF Manager
  <2> QED
    BY <2>4, <2>9, <2>10
\* The iteration of a monotone step that grows a subset of a finite set ends
\* within as many steps as the set has elements.
<1> DEFINE Grows(S, it, step) ==
               /\ \A n \in Nat : it[n] \in SUBSET S /\ it[n + 1] = step[it[n]]
               /\ \A s, t \in SUBSET S : s \subseteq t => step[s] \subseteq step[t]
               /\ it[0] \subseteq it[1]
<1>2. ASSUME NEW S, IsFiniteSet(S), NEW it, NEW step, Grows(S, it, step)
      PROVE  it[Cardinality(S) + 1] = it[Cardinality(S)]
  <2>1. PICK last \in Nat : last = Cardinality(S)
    BY <1>2, FS_CardinalityType
  <2>2. \A n \in Nat : IsFiniteSet(it[n]) /\ Cardinality(it[n]) \in Nat /\ Cardinality(it[n]) =< last
    BY <1>2, <2>1, FS_Subset, FS_CardinalityType
  <2>3. \A n \in Nat : it[n] \subseteq it[n + 1]
    <3> DEFINE T == {n \in Nat : ~(it[n] \subseteq it[n + 1])}
    <3>1. ASSUME NEW n \in T, \A k \in T : n =< k PROVE FALSE
      <4>1. n # 0
        BY <1>2
      <4>2. PICK l \in Nat : n = l + 1
        BY <1>2, <4>1
      <4>3. it[l] \subseteq it[l + 1]
        BY <3>1, <4>2
      <4>4. it[l + 1] = step[it[l]] /\ it[n + 1] = step[it[l + 1]]
        BY <1>2, <4>2
      <4>5. it[l] \in SUBSET S /\ it[l + 1] \in SUBSET S
        BY <1>2
      <4>6. it[n] \subseteq it[n + 1]
        BY <1>2, <4>2, <4>3, <4>4, <4>5
      <4> QED
        BY <4>6
    <3>2. T \subseteq Nat
      OBVIOUS
    <3> HIDE DEF T
    <3>3. T = {}
      BY <3>1, <3>2, LeastNatural
    <3> QED
      BY <3>3 DEF T
  \* As long as it has not ended, it has grown with every step.
  <2>4. ASSUME it[last + 1] # it[last] PROVE FALSE
    <3>1. ASSUME NEW n \in Nat, n =< last, it[n + 1] = it[n] PROVE FALSE
      <4> DEFINE T == {k \in Nat : n =< k /\ it[k + 1] # it[k]}
      <4>1. ASSUME NEW k \in T, \A l \in T : k =< l PROVE FALSE
        <5>0. k \in Nat /\ n =< k /\ k # n
          BY <3>1
        <5>1. PICK l \in Nat : k = l + 1 /\ n =< l
          BY <5>0
        <5>2. it[l + 1] = it[l]
          BY <4>1, <5>1
        <5> QED
          BY <1>2, <5>1, <5>2
      <4>2. T \subseteq Nat
        OBVIOUS
      <4>3. T = {}
        BY <4>1, <4>2, LeastNatural
      <4> QED
        BY <2>4, <3>1, <4>3
    <3> DEFINE T == {n \in Nat : n =< last + 1 /\ Cardinality(it[n]) < n}
    <3>2. ASSUME NEW n \in T, \A k \in T : n =< k PROVE FALSE
      <4>1. n \in Nat /\ n # 0
        BY <2>2
      <4>2. PICK l \in Nat : n = l + 1
        BY <4>1
      <4>3. l =< last /\ Cardinality(it[l]) >= l
        BY <2>2, <3>2, <4>2
      <4>4. it[l] \subseteq it[n] /\ it[l] # it[n]
        BY <2>3, <3>1, <4>2, <4>3
      <4>5. Cardinality(it[l]) < Cardinality(it[n])
        <5>1. PICK a, b : a = it[l] /\ b = it[n]
          OBVIOUS
        <5>2. a \subseteq b /\ a # b /\ IsFiniteSet(b)
          BY <2>2, <4>4, <5>1
        <5>3. Cardinality(a) =< Cardinality(b) /\ Cardinality(a) # Cardinality(b)
          BY <5>2, FS_Subset
        <5>4. PICK i \in Nat, j \in Nat : i = Cardinality(a) /\ j = Cardinality(b)
          BY <2>2, <5>1
        <5>5. i < j
          BY <5>3, <5>4
        <5> QED
          BY <5>1, <5>4, <5>5
      <4> QED
        BY <2>2, <4>2, <4>3, <4>5
    <3>3. T \subseteq Nat
      OBVIOUS
    <3>4. T = {}
      BY <3>2, <3>3, LeastNatural
    <3>5. last + 1 \in Nat
      OBVIOUS
    <3> QED
      <4>1. ~(Cardinality(it[last + 1]) < last + 1)
        BY <3>4, <3>5
      <4>2. PICK c \in Nat : c = Cardinality(it[last + 1]) /\ c =< last
        BY <2>2, <3>5
      <4> QED
        BY <4>1, <4>2
  <2> QED
    BY <2>1, <2>4
<1> DEFINE N == Cardinality(Employee)
           Circle(p) == p \in Above[N][p]
<1>3. /\ Shown \subseteq Employee /\ IsFiniteSet(Employee) /\ N \in Nat
      /\ Roots = {p \in Shown : Manager(p) \notin Shown}
  BY EmployeesAssumption, FS_CardinalityType DEF Shown, Live, Rows, Roots, Manager
<1>4. \A n \in Nat : Charted[n] \in SUBSET Shown /\ Above[n] \in [Employee -> SUBSET Employee]
  <2>0. \A n \in Nat : n # 0 => \E m \in Nat : n = m + 1
    <3>1. ASSUME NEW n \in Nat, n # 0 PROVE n - 1 \in Nat /\ n = (n - 1) + 1
      BY <3>1
    <3> QED
      BY <3>1
  <2> DEFINE T == {n \in Nat : ~(/\ Charted[n] \in SUBSET Shown
                                 /\ Above[n] \in [Employee -> SUBSET Employee])}
  <2>1. ASSUME NEW n \in T, \A m \in T : n =< m PROVE FALSE
    <3>1. CASE n = 0
      <4> HIDE DEF T
      <4>1. Above[0] = [p \in Employee |-> {}] /\ Charted[0] = Roots
        BY <1>1
      <4>2. Above[0] \in [Employee -> SUBSET Employee]
        BY <4>1
      <4>3. Charted[0] \in SUBSET Shown
        BY <1>3, <4>1
      <4> QED
        BY <3>1, <4>2, <4>3 DEF T
    <3>2. CASE n # 0
      <4>0. n \in Nat
        OBVIOUS
      <4>1. PICK m \in Nat : n = m + 1
        <5> HIDE DEF T
        <5> QED
          BY <2>0, <3>2, <4>0
      <4>2. m \notin T
        <5>1. ~(n =< m)
          BY <4>1
        <5> HIDE DEF T
        <5> QED
          BY <2>1, <5>1
      <4>3. Charted[m] \in SUBSET Shown /\ Above[m] \in [Employee -> SUBSET Employee]
        BY <4>2
      <4>4. Charted[n] \in SUBSET Shown
        BY <1>1, <4>1, <4>3
      <4>5. \A p \in Employee : Above[n][p] \in SUBSET Employee
        <5>1. ASSUME NEW p \in Employee PROVE Above[m + 1][p] \in SUBSET Employee
          <6>1. Above[m + 1][p] = IF Manager(p) \notin Shown THEN {}
                                  ELSE {Manager(p)} \union Above[m][Manager(p)]
            BY <1>1
          <6>2. CASE Manager(p) \in Shown
            <7>1. Manager(p) \in Employee /\ Above[m][Manager(p)] \in SUBSET Employee
              BY <1>3, <4>3, <6>2
            <7> QED
              BY <6>1, <6>2, <7>1
          <6>3. CASE Manager(p) \notin Shown
            BY <6>1, <6>3
          <6> QED
            BY <6>2, <6>3
        <5> QED
          BY <4>1, <5>1
      <4>6. Above[n] = [p \in Employee |-> Above[n][p]]
        BY <1>1
      <4>7. Above[n] \in [Employee -> SUBSET Employee]
        BY <4>5, <4>6
      <4> QED
        BY <4>4, <4>7
    <3> QED
      BY <3>1, <3>2
  <2>2. T \subseteq Nat
    OBVIOUS
  <2>3. T = {}
    BY <2>1, <2>2, LeastNatural
  <2> QED
    BY <2>3
<1> HIDE DEF N
\* After as many rounds as there are employees the chart is closed.
<1>5. Charted[N + 1] = Charted[N]
  <2> DEFINE step == [s \in SUBSET Employee |-> s \union {p \in Shown : Manager(p) \in s}]
  <2>1. \A n \in Nat : Charted[n] \in SUBSET Employee /\ Charted[n + 1] = step[Charted[n]]
    BY <1>1, <1>3, <1>4
  <2>2. \A s, u \in SUBSET Employee : s \subseteq u => step[s] \subseteq step[u]
    OBVIOUS
  <2>3. Charted[0] \subseteq Charted[1]
    <3>1. Charted[0] \in SUBSET Employee /\ Charted[0 + 1] = step[Charted[0]]
      BY <2>1
    <3> QED
      BY <3>1
  <2> HIDE DEF step
  <2>4. Grows(Employee, Charted, step)
    BY <2>1, <2>2, <2>3
  <2> HIDE DEF Grows
  <2>5. Charted[Cardinality(Employee) + 1] = Charted[Cardinality(Employee)]
    BY <1>2, <1>3, <2>4
  <2> QED
    BY <2>5 DEF N
\* So are those below anybody, and with them the managers above.
<1>6. ASSUME NEW p \in Employee PROVE Above[N + 1][p] = Above[N][p]
  <2>1. ASSUME NEW q \in Employee PROVE q \in Above[N + 1][p] <=> q \in Above[N][p]
    <3> DEFINE below == [n \in Nat |-> {x \in Employee : q \in Above[n][x]}]
               step == [s \in SUBSET Employee |->
                           {x \in Employee : /\ Manager(x) \in Shown
                                             /\ q = Manager(x) \/ Manager(x) \in s}]
    <3>1. ASSUME NEW n \in Nat
          PROVE  below[n] \in SUBSET Employee /\ below[n + 1] = step[below[n]]
      <4>1. n + 1 \in Nat
        OBVIOUS
      <4>2. below[n] = {x \in Employee : q \in Above[n][x]}
            /\ below[n + 1] = {x \in Employee : q \in Above[n + 1][x]}
        BY <4>1
      <4>3. \A x \in Employee : q \in Above[n + 1][x] <=>
                /\ Manager(x) \in Shown
                /\ q = Manager(x) \/ Manager(x) \in {y \in Employee : q \in Above[n][y]}
        <5> SUFFICES ASSUME NEW x \in Employee
                     PROVE  q \in Above[n + 1][x] <=>
                                /\ Manager(x) \in Shown
                                /\ \/ q = Manager(x)
                                   \/ Manager(x) \in {y \in Employee : q \in Above[n][y]}
          OBVIOUS
        <5>1. Above[n + 1][x] = IF Manager(x) \notin Shown THEN {}
                                ELSE {Manager(x)} \union Above[n][Manager(x)]
          BY <1>1
        <5>2. CASE Manager(x) \in Shown
          BY <1>3, <5>1, <5>2
        <5>3. CASE Manager(x) \notin Shown
          BY <5>1, <5>3
        <5> QED
          BY <5>2, <5>3
      <4>4. step[below[n]] = {x \in Employee : /\ Manager(x) \in Shown
                                               /\ q = Manager(x) \/ Manager(x) \in below[n]}
        BY <4>2
      <4> QED
        BY <4>2, <4>3, <4>4
    <3>2. \A s, u \in SUBSET Employee : s \subseteq u => step[s] \subseteq step[u]
      OBVIOUS
    <3>3. below[0] \subseteq below[1]
      BY <1>1
    <3>4. N + 1 \in Nat /\ N \in Nat
      BY <1>3
    <3>5. /\ q \in Above[N + 1][p] <=> p \in below[N + 1]
          /\ q \in Above[N][p] <=> p \in below[N]
      BY <3>4
    <3> HIDE DEF below, step
    <3>6. Grows(Employee, below, step)
      BY <3>1, <3>2, <3>3
    <3> HIDE DEF Grows
    <3>7. below[Cardinality(Employee) + 1] = below[Cardinality(Employee)]
      BY <1>2, <1>3, <3>6
    <3> QED
      BY <3>5, <3>7 DEF N
  <2>2. Above[N + 1][p] \subseteq Employee /\ Above[N][p] \subseteq Employee
    <3>1. N + 1 \in Nat
      BY <1>3
    <3> QED
      BY <1>3, <1>4, <3>1
  <2> QED
    BY <2>1, <2>2
<1>7. \A p \in Employee : Above[N][p] = IF Manager(p) \notin Shown THEN {}
                                        ELSE {Manager(p)} \union Above[N][Manager(p)]
  BY <1>1, <1>3, <1>6
<1>8. PICK R : R = Above[N]
  OBVIOUS
<1>9. R \in [Employee -> SUBSET Employee]
  BY <1>3, <1>4, <1>8
<1>10. \A p \in Employee : /\ Manager(p) \notin Shown => R[p] = {}
                           /\ Manager(p) \in Shown => R[p] = {Manager(p)} \union R[Manager(p)]
  BY <1>7, <1>8
\* Nobody on the chart leads, or is led, in a circle: at the least depth.
<1>11. ASSUME NEW p \in OrgChart, NEW q \in R[p] \union {p}, q \in R[q] PROVE FALSE
  <2> DEFINE T == {n \in Nat : \E x \in Charted[n] : \E y \in R[x] \union {x} : y \in R[y]}
  <2>1. ASSUME NEW n \in T, \A m \in T : n =< m PROVE FALSE
    <3>1. PICK x \in Charted[n], y \in Employee : y \in R[x] \union {x} /\ y \in R[y]
      BY <1>3, <1>4, <1>9
    <3>2. x \in Shown /\ x \in Employee
      BY <1>3, <1>4
    <3>3. CASE n = 0
      <4>1. Manager(x) \notin Shown
        BY <1>1, <1>3, <3>3
      <4>2. R[x] = {}
        BY <1>10, <3>2, <4>1
      <4>3. y = x
        BY <3>1, <4>2
      <4> QED
        BY <3>1, <4>2, <4>3
    <3>4. CASE n # 0
      <4>1. PICK m \in Nat : n = m + 1
        BY <3>4
      <4>2. m \notin T
        BY <2>1, <4>1
      <4>3. x \notin Charted[m]
        BY <3>1, <4>2
      <4>4. Manager(x) \in Charted[m] /\ Manager(x) \in Shown
        BY <1>1, <1>4, <3>2, <4>1, <4>3
      <4>5. ASSUME NEW z \in R[Manager(x)] \union {Manager(x)} PROVE z \notin R[z]
        BY <4>2, <4>4
      <4>6. R[x] = {Manager(x)} \union R[Manager(x)]
        BY <1>10, <3>2, <4>4
      <4>7. y = x
        BY <3>1, <4>5, <4>6
      <4> QED
        BY <3>1, <4>5, <4>6, <4>7
    <3> QED
      BY <3>3, <3>4
  <2>2. T \subseteq Nat
    OBVIOUS
  <2>3. N \in T
    BY <1>3, <1>11 DEF OrgChart, N
  <2> QED
    BY <2>1, <2>2, <2>3, LeastNatural
\* Whoever is not on it leads to a circle: to whoever has the fewest above.
<1>12. ASSUME NEW p \in Shown, p \notin OrgChart PROVE \E q \in R[p] \union {p} : q \in R[q]
  <2> DEFINE U == Shown \ OrgChart
             Q == {q \in U : R[q] \subseteq R[p] /\ q \in R[p] \union {p}}
             T == {n \in Nat : \E q \in Q : Cardinality(R[q]) = n}
  <2>1. ASSUME NEW x \in U PROVE Manager(x) \in U
    <3>1. Roots \subseteq OrgChart
      <4> DEFINE A == {n \in Nat : ~(Roots \subseteq Charted[n])}
      <4>1. ASSUME NEW n \in A, \A k \in A : n =< k PROVE FALSE
        <5>1. n # 0
          BY <1>1
        <5>2. PICK k \in Nat : n = k + 1
          BY <5>1
        <5>3. k \notin A
          BY <4>1, <5>2
        <5> QED
          BY <1>1, <5>2, <5>3
      <4>2. A \subseteq Nat
        OBVIOUS
      <4>3. A = {}
        BY <4>1, <4>2, LeastNatural
      <4> QED
        BY <1>3, <4>3 DEF OrgChart, N
    <3>2. {y \in Shown : Manager(y) \in OrgChart} \subseteq OrgChart
      BY <1>3, <1>5, <1>1 DEF OrgChart, N
    <3> QED
      BY <1>3, <3>1, <3>2
  <2>2. ASSUME NEW q \in Q PROVE Manager(q) \in Q /\ R[q] = {Manager(q)} \union R[Manager(q)]
    BY <1>3, <1>10, <2>1
  <2>3. \A q \in U : IsFiniteSet(R[q]) /\ Cardinality(R[q]) \in Nat
    BY <1>3, <1>9, FS_Subset, FS_CardinalityType
  <2>4. p \in Q
    BY <1>12
  <2>5. T # {} /\ T \subseteq Nat
    BY <2>3, <2>4
  <2>6. PICK n \in T : \A m \in T : n =< m
    BY <2>5, LeastNatural
  <2>7. PICK q \in Q : Cardinality(R[q]) = n
    BY <2>6
  <2> DEFINE m == Manager(q)
  <2>8. m \in Q /\ R[q] = {m} \union R[m]
    BY <2>2
  <2>9. Cardinality(R[m]) >= Cardinality(R[q])
    BY <2>3, <2>6, <2>7, <2>8
  <2>10. R[m] = R[q]
    <3>1. R[m] \subseteq R[q] /\ IsFiniteSet(R[q])
      BY <2>3, <2>8
    <3>2. Cardinality(R[m]) =< Cardinality(R[q])
      BY <3>1, FS_Subset
    <3>3. Cardinality(R[m]) = Cardinality(R[q])
      <4>1. PICK i \in Nat, j \in Nat : i = Cardinality(R[m]) /\ j = Cardinality(R[q])
        BY <2>3, <2>7, <2>8
      <4> QED
        BY <2>9, <3>2, <4>1
    <3> QED
      BY <3>1, <3>3, FS_Subset
  <2> QED
    BY <2>8, <2>10
<1> QED
  BY <1>3, <1>8, <1>11, <1>12 DEF ChartIsComplete, N

----------------------------------------------------------------------------
(* One office at a time.                                                   *)

\* Where a handler of the office o may be.
Belongs(o, pc) ==
    \/ o = "assets" /\ pc \in {"assign", "return"}
    \/ o = "expenses" /\ pc \in {"submit", "decide"}
    \/ o = "onboarding" /\ pc \in {"saveStep", "complete"}
    \/ o = "shifts" /\ pc \in {"assignShift"}
    \/ o = "recruitment" /\ pc \in {"moveStage", "schedule", "offer"}
    \/ o = "performance" /\ pc \in {"createGoal", "checkIn", "review", "override"}
    \/ o = "learning" /\ pc \in {"enroll", "progress"}
    \/ o = "employees" /\ pc \in {"count", "insertUser", "insertEmployee", "update", "softDelete"}
    \/ o = "mfa" /\ pc \in {"setup", "confirm", "disable"}
    \/ o = "pages" /\ pc \in {"sent", "admitted"}

\* Nobody works for another office.
OfficeInv ==
    /\ \E D : handler \in [Worker -> D]
    /\ \A w \in Worker : /\ "pc" \in DOMAIN handler[w]
                         /\ handler[w] = Idle \/ Belongs(office, handler[w].pc)

\* The handler w goes on in the office o.
Works(w, o) ==
    /\ office = o /\ office' = o
    /\ \/ handler' = handler
       \/ \E h : /\ handler' = [handler EXCEPT ![w] = h]
                 /\ "pc" \in DOMAIN h
                 /\ h = Idle \/ Belongs(o, h.pc)

\* A behaviour of all the offices is one of the office it starts in, and what
\* was shown of each one holds of it: no handler does a step of another.
THEOREM OneOffice ==
    Spec => /\ [](HoldersBounded /\ OneOpenShift /\ WeightBounded /\ NoStageIsSkipped)
            /\ [](FactorIsHeld /\ AccountsAreOwned /\ ChartIsComplete)
            /\ DecisionsAreKept /\ StepsAreKept /\ OutcomeIsFinal /\ ProgressIsKept
<1>1. ASSUME OfficeInv, NEW w \in Worker, NEW o, Works(w, o)
      PROVE  OfficeInv' /\ office = o /\ office' = office
  <2>1. office' = office /\ office = o
    BY <1>1 DEF Works
  <2>2. CASE handler' = handler
    BY <1>1, <2>1, <2>2 DEF OfficeInv
  <2>3. ASSUME NEW h, handler' = [handler EXCEPT ![w] = h],
               "pc" \in DOMAIN h, h = Idle \/ Belongs(o, h.pc)
        PROVE  OfficeInv'
    <3>1. PICK D : handler \in [Worker -> D]
      BY <1>1 DEF OfficeInv
    <3>2. handler' \in [Worker -> D \union {h}]
      BY <2>3, <3>1
    <3>3. ASSUME NEW v \in Worker
          PROVE  /\ "pc" \in DOMAIN handler'[v]
                 /\ handler'[v] = Idle \/ Belongs(office', handler'[v].pc)
      <4>1. handler'[v] = IF v = w THEN h ELSE handler[v]
        BY <2>3, <3>1
      <4>2. CASE v = w
        BY <2>1, <2>3, <4>1, <4>2
      <4>3. CASE v # w
        BY <1>1, <2>1, <4>1, <4>3 DEF OfficeInv
      <4> QED
        BY <4>2, <4>3
    <3> QED
      BY <3>2, <3>3 DEF OfficeInv
  <2> QED
    BY <1>1, <2>1, <2>2, <2>3 DEF Works
<1>2. ASSUME NEW w \in Worker, NEW o, NEW h, Begin(w, h), office = o,
             "pc" \in DOMAIN h, Belongs(o, h.pc)
      PROVE  Works(w, o)
  <2>1. office' = office /\ handler' = [handler EXCEPT ![w] = h]
    BY <1>2 DEF Begin
  <2> QED
    BY <1>2, <2>1 DEF Works
<1>3. ASSUME OfficeInv, NEW w \in Worker, NEW o, NEW pc, NEW h, At(w, pc), Belongs(o, pc),
             office' = office, handler' = [handler EXCEPT ![w] = h],
             "pc" \in DOMAIN h, h = Idle \/ Belongs(o, h.pc)
      PROVE  Works(w, o)
  <2>1. Belongs(office, pc)
    <3>1. handler[w] = Idle \/ Belongs(office, handler[w].pc)
      BY <1>3 DEF OfficeInv
    <3>2. pc # "idle" /\ handler[w].pc = pc
      BY <1>3 DEF Belongs, At
    <3>3. handler[w] # Idle
      BY <3>2 DEF Idle
    <3> QED
      BY <3>1, <3>2, <3>3
  <2>2. office = o
    BY <1>3, <2>1 DEF Belongs
  <2> QED
    BY <1>3, <2>2 DEF Works
<1>4. ASSUME OfficeInv, NEW w \in Worker, NEW o, NEW pc, At(w, pc), Belongs(o, pc),
             office' = office, handler' = [handler EXCEPT ![w] = Idle]
      PROVE  Works(w, o)
  <2>1. "pc" \in DOMAIN Idle
    BY DEF Idle
  <2> QED
    BY <1>3, <1>4, <2>1
\* Each office's own steps.
<1>5. ASSUME OfficeInv, AssetsNext
      PROVE  OfficeInv' /\ office' = office /\ (office = "assets" \/ \E w \in Worker : Abort(w))
  <2>1. ASSUME NEW w \in Worker, AssetsStep(w) PROVE Works(w, "assets")
    <3>1. Belongs("assets", "assign") /\ Belongs("assets", "return")
      BY DEF Belongs
    <3>2. ASSUME NEW a \in Asset, AssignRead(w, a) PROVE Works(w, "assets")
      BY <1>2, <2>1, <3>1, <3>2 DEF AssignRead, Start
    <3>3. ASSUME NEW i \in Assignment, AssignCreate(w, i) PROVE Works(w, "assets")
      BY <1>4, <1>5, <2>1, <3>1, <3>3 DEF AssignCreate, Finish, Goto
    <3>4. ASSUME NEW i \in Assignment, ReturnRead(w, i) PROVE Works(w, "assets")
      BY <1>2, <2>1, <3>1, <3>4 DEF ReturnRead, Start
    <3>5. ASSUME ReturnWrite(w) PROVE Works(w, "assets")
      BY <1>4, <1>5, <2>1, <3>1, <3>5 DEF ReturnWrite, Finish, Goto
    <3> QED
      BY <2>1, <3>2, <3>3, <3>4, <3>5 DEF AssetsStep
  <2>2. ASSUME NEW w \in Worker, Abort(w) PROVE OfficeInv' /\ office' = office
    <3>1. Works(w, office)
      BY <2>2 DEF Abort, Works, Idle
    <3> QED
      BY <1>1, <1>5, <3>1
  <2>3. ASSUME NEW a \in Asset, CreateAsset(a) PROVE OfficeInv' /\ office = "assets" /\ office' = office
    <3>1. office = "assets" /\ office' = office /\ handler' = handler
      BY <2>3 DEF CreateAsset, Call
    <3> QED
      BY <1>5, <3>1 DEF OfficeInv
  <2> QED
    BY <1>1, <1>5, <2>1, <2>2, <2>3 DEF AssetsNext
<1>6. ASSUME OfficeInv, ExpensesNext
      PROVE  OfficeInv' /\ office' = office /\ (office = "expenses" \/ \E w \in Worker : Abort(w))
  <2>1. ASSUME NEW w \in Worker, ExpensesStep(w) PROVE Works(w, "expenses")
    <3>1. Belongs("expenses", "submit") /\ Belongs("expenses", "decide")
      BY DEF Belongs
    <3>2. ASSUME NEW c \in Claim, SubmitRead(w, c) PROVE Works(w, "expenses")
      BY <1>2, <2>1, <3>1, <3>2 DEF SubmitRead, Start
    <3>3. ASSUME NEW c \in Claim, NEW d \in Decisions, DecideClaim(w, c, d) PROVE Works(w, "expenses")
      BY <1>2, <2>1, <3>1, <3>3 DEF DecideClaim, Start
    <3>4. ASSUME SubmitWrite(w) PROVE Works(w, "expenses")
      BY <1>4, <1>6, <2>1, <3>1, <3>4 DEF SubmitWrite, Finish, Goto
    <3>5. ASSUME DecideStamp(w) PROVE Works(w, "expenses")
      BY <1>4, <1>6, <2>1, <3>1, <3>5 DEF DecideStamp, Finish, Goto
    <3> QED
      BY <2>1, <3>2, <3>3, <3>4, <3>5 DEF ExpensesStep
  <2>2. ASSUME NEW w \in Worker, Abort(w) PROVE OfficeInv' /\ office' = office
    <3>1. Works(w, office)
      BY <2>2 DEF Abort, Works, Idle
    <3> QED
      BY <1>1, <1>6, <3>1
  <2>3. ASSUME NEW c \in Claim, CreateClaim(c) PROVE OfficeInv' /\ office = "expenses" /\ office' = office
    <3>1. office = "expenses" /\ office' = office /\ handler' = handler
      BY <2>3 DEF CreateClaim, Call
    <3> QED
      BY <1>6, <3>1 DEF OfficeInv
  <2> QED
    BY <1>1, <1>6, <2>1, <2>2, <2>3 DEF ExpensesNext
<1>7. ASSUME OfficeInv, OnboardingNext
      PROVE  OfficeInv' /\ office' = office /\ (office = "onboarding" \/ \E w \in Worker : Abort(w))
  <2>1. ASSUME NEW w \in Worker, OnboardingStep(w) PROVE Works(w, "onboarding")
    <3>1. Belongs("onboarding", "saveStep") /\ Belongs("onboarding", "complete")
      BY DEF Belongs
    <3>2. ASSUME NEW s \in OnboardingSession, NEW step \in Steps, NEW mark \in BOOLEAN, SaveStepRead(w, s, step, mark) PROVE Works(w, "onboarding")
      BY <1>2, <2>1, <3>1, <3>2 DEF SaveStepRead, Start
    <3>3. ASSUME NEW s \in OnboardingSession, CompleteRead(w, s) PROVE Works(w, "onboarding")
      BY <1>2, <2>1, <3>1, <3>3 DEF CompleteRead, Start
    <3>4. ASSUME SaveStepWrite(w) PROVE Works(w, "onboarding")
      BY <1>4, <1>7, <2>1, <3>1, <3>4 DEF SaveStepWrite, Finish, Goto
    <3>5. ASSUME CompleteWrite(w) PROVE Works(w, "onboarding")
      BY <1>4, <1>7, <2>1, <3>1, <3>5 DEF CompleteWrite, Finish, Goto
    <3> QED
      BY <2>1, <3>2, <3>3, <3>4, <3>5 DEF OnboardingStep
  <2>2. ASSUME NEW w \in Worker, Abort(w) PROVE OfficeInv' /\ office' = office
    <3>1. Works(w, office)
      BY <2>2 DEF Abort, Works, Idle
    <3> QED
      BY <1>1, <1>7, <3>1
  <2>3. ASSUME NEW s \in OnboardingSession, CreateSession(s) PROVE OfficeInv' /\ office = "onboarding" /\ office' = office
    <3>1. office = "onboarding" /\ office' = office /\ handler' = handler
      BY <2>3 DEF CreateSession, Call
    <3> QED
      BY <1>7, <3>1 DEF OfficeInv
  <2> QED
    BY <1>1, <1>7, <2>1, <2>2, <2>3 DEF OnboardingNext
<1>8. ASSUME OfficeInv, ShiftsNext
      PROVE  OfficeInv' /\ office' = office /\ (office = "shifts" \/ \E w \in Worker : Abort(w))
  <2>1. ASSUME NEW w \in Worker, ShiftsStep(w) PROVE Works(w, "shifts")
    <3>1. Belongs("shifts", "assignShift")
      BY DEF Belongs
    <3>2. ASSUME NEW e \in Employee, NEW from \in ShiftDates, NEW to \in ShiftDates \union {None}, EndOpenShifts(w, e, from, to) PROVE Works(w, "shifts")
      BY <1>2, <2>1, <3>1, <3>2 DEF EndOpenShifts, Assigning
    <3>3. ASSUME NEW i \in Slot, InsertShift(w, i) PROVE Works(w, "shifts")
      BY <1>4, <1>8, <2>1, <3>1, <3>3 DEF InsertShift, Finish, Goto
    <3> QED
      BY <2>1, <3>2, <3>3 DEF ShiftsStep
  <2>2. ASSUME NEW w \in Worker, Abort(w) PROVE OfficeInv' /\ office' = office
    <3>1. Works(w, office)
      BY <2>2 DEF Abort, Works, Idle
    <3> QED
      BY <1>1, <1>8, <3>1
  <2> QED
    BY <1>1, <1>8, <2>1, <2>2 DEF ShiftsNext
<1>9. ASSUME OfficeInv, RecruitmentNext
      PROVE  OfficeInv' /\ office' = office /\ (office = "recruitment" \/ \E w \in Worker : Abort(w))
  <2>1. ASSUME NEW w \in Worker, RecruitmentStep(w) PROVE Works(w, "recruitment")
    <3>1. /\ Belongs("recruitment", "moveStage")
          /\ Belongs("recruitment", "schedule")
          /\ Belongs("recruitment", "offer")
      BY DEF Belongs
    <3>2. ASSUME NEW a \in Application, NEW to \in Stages, MoveRead(w, a, to) PROVE Works(w, "recruitment")
      BY <1>2, <2>1, <3>1, <3>2 DEF MoveRead, Start
    <3>3. ASSUME NEW a \in Application, NEW n \in Round, ScheduleRead(w, a, n) PROVE Works(w, "recruitment")
      BY <1>2, <2>1, <3>1, <3>3 DEF ScheduleRead, Start
    <3>4. ASSUME NEW a \in Application, OfferRead(w, a) PROVE Works(w, "recruitment")
      BY <1>2, <2>1, <3>1, <3>4 DEF OfferRead, Start
    <3>5. ASSUME MoveWrite(w) PROVE Works(w, "recruitment")
      BY <1>4, <1>9, <2>1, <3>1, <3>5 DEF MoveWrite, Finish, Goto
    <3>6. ASSUME ScheduleCreate(w) PROVE Works(w, "recruitment")
      BY <1>4, <1>9, <2>1, <3>1, <3>6 DEF ScheduleCreate, Finish, Goto
    <3>7. ASSUME OfferUpsert(w) PROVE Works(w, "recruitment")
      BY <1>4, <1>9, <2>1, <3>1, <3>7 DEF OfferUpsert, Finish, Goto
    <3> QED
      BY <2>1, <3>2, <3>3, <3>4, <3>5, <3>6, <3>7 DEF RecruitmentStep
  <2>2. ASSUME NEW w \in Worker, Abort(w) PROVE OfficeInv' /\ office' = office
    <3>1. Works(w, office)
      BY <2>2 DEF Abort, Works, Idle
    <3> QED
      BY <1>1, <1>9, <3>1
  <2>3. ASSUME NEW a \in Application, Apply(a) PROVE OfficeInv' /\ office = "recruitment" /\ office' = office
    <3>1. office = "recruitment" /\ office' = office /\ handler' = handler
      BY <2>3 DEF Apply, Call
    <3> QED
      BY <1>9, <3>1 DEF OfficeInv
  <2> QED
    BY <1>1, <1>9, <2>1, <2>2, <2>3 DEF RecruitmentNext
<1>10. ASSUME OfficeInv, PerformanceNext
       PROVE  OfficeInv' /\ office' = office /\ (office = "performance" \/ \E w \in Worker : Abort(w))
  <2>1. ASSUME NEW w \in Worker, PerformanceStep(w) PROVE Works(w, "performance")
    <3>1. /\ Belongs("performance", "createGoal")
          /\ Belongs("performance", "checkIn")
          /\ Belongs("performance", "review")
          /\ Belongs("performance", "override")
      BY DEF Belongs
    <3>2. ASSUME NEW e \in Employee, NEW weight \in Weights, CreateGoalRead(w, e, weight) PROVE Works(w, "performance")
      BY <1>2, <2>1, <3>1, <3>2 DEF CreateGoalRead, Start
    <3>3. ASSUME NEW e \in Employee, NEW rating \in Ratings, ReviewRead(w, e, rating) PROVE Works(w, "performance")
      BY <1>2, <2>1, <3>1, <3>3 DEF ReviewRead, Start
    <3>4. ASSUME NEW e \in Employee, NEW rating \in Ratings, OverrideRead(w, e, rating) PROVE Works(w, "performance")
      BY <1>2, <2>1, <3>1, <3>4 DEF OverrideRead, Start
    <3>5. ASSUME NEW g \in Goal, CreateGoalInsert(w, g) PROVE Works(w, "performance")
      BY <1>4, <1>10, <2>1, <3>1, <3>5 DEF CreateGoalInsert, Finish, Goto
    <3>6. ASSUME NEW g \in Goal, NEW value \in Ratings, CheckIn(w, g, value) PROVE Works(w, "performance")
      BY <1>2, <2>1, <3>1, <3>6 DEF CheckIn
    <3>7. ASSUME CheckInUpdateGoal(w) PROVE Works(w, "performance")
      BY <1>4, <1>10, <2>1, <3>1, <3>7 DEF CheckInUpdateGoal, Finish, Goto
    <3>8. ASSUME ReviewWrite(w) PROVE Works(w, "performance")
      BY <1>4, <1>10, <2>1, <3>1, <3>8 DEF ReviewWrite, Finish, Goto
    <3>9. ASSUME OverrideWrite(w) PROVE Works(w, "performance")
      BY <1>4, <1>10, <2>1, <3>1, <3>9 DEF OverrideWrite, Finish, Goto
    <3> QED
      BY <2>1, <3>2, <3>3, <3>4, <3>5, <3>6, <3>7, <3>8, <3>9 DEF PerformanceStep
  <2>2. ASSUME NEW w \in Worker, Abort(w) PROVE OfficeInv' /\ office' = office
    <3>1. Works(w, office)
      BY <2>2 DEF Abort, Works, Idle
    <3> QED
      BY <1>1, <1>10, <3>1
  <2> QED
    BY <1>1, <1>10, <2>1, <2>2 DEF PerformanceNext
<1>11. ASSUME OfficeInv, LearningNext
       PROVE  OfficeInv' /\ office' = office /\ (office = "learning" \/ \E w \in Worker : Abort(w))
  <2>1. ASSUME NEW w \in Worker, LearningStep(w) PROVE Works(w, "learning")
    <3>1. Belongs("learning", "enroll") /\ Belongs("learning", "progress")
      BY DEF Belongs
    <3>2. ASSUME NEW c \in Course, Enroll(w, c) PROVE Works(w, "learning")
      BY <1>2, <2>1, <3>1, <3>2 DEF Enroll, Start
    <3>3. ASSUME NEW c \in Course, MarkProgress(w, c) PROVE Works(w, "learning")
      BY <1>2, <2>1, <3>1, <3>3 DEF MarkProgress, Start
    <3>4. ASSUME EnrollUpsert(w) PROVE Works(w, "learning")
      BY <1>4, <1>11, <2>1, <3>1, <3>4 DEF EnrollUpsert, Wrote
    <3>5. ASSUME UpdateProgress(w) PROVE Works(w, "learning")
      BY <1>4, <1>11, <2>1, <3>1, <3>5 DEF UpdateProgress, Wrote
    <3>6. ASSUME Refetch(w) PROVE Works(w, "learning")
      BY <3>6 DEF Refetch, Works
    <3> QED
      BY <2>1, <3>2, <3>3, <3>4, <3>5, <3>6 DEF LearningStep
  <2>2. ASSUME NEW w \in Worker, Abort(w) PROVE OfficeInv' /\ office' = office
    <3>1. Works(w, office)
      BY <2>2 DEF Abort, Works, Idle
    <3> QED
      BY <1>1, <1>11, <3>1
  <2> QED
    BY <1>1, <1>11, <2>1, <2>2 DEF LearningNext
<1>12. ASSUME OfficeInv, EmployeesNext
       PROVE  OfficeInv' /\ office' = office /\ (office = "employees" \/ \E w \in Worker : Abort(w))
  <2>1. ASSUME NEW w \in Worker, EmployeesStep(w) PROVE Works(w, "employees")
    <3>1. /\ Belongs("employees", "count")
          /\ Belongs("employees", "insertUser")
          /\ Belongs("employees", "insertEmployee")
          /\ Belongs("employees", "update")
          /\ Belongs("employees", "softDelete")
      BY DEF Belongs
    <3>2. ASSUME NEW e \in Email, CreateRead(w, e) PROVE Works(w, "employees")
      BY <1>2, <2>1, <3>1, <3>2 DEF CreateRead, Start
    <3>3. ASSUME NEW p \in Employee, InsertEmployee(w, p) PROVE Works(w, "employees")
      BY <1>4, <1>12, <2>1, <3>1, <3>3 DEF InsertEmployee, Finish, Goto
    <3>4. ASSUME NEW p \in Employee, DeleteRead(w, p) PROVE Works(w, "employees")
      BY <1>2, <2>1, <3>1, <3>4 DEF DeleteRead, Start
    <3>5. ASSUME NEW p \in Employee, NEW change \in Changes, UpdateRead(w, p, change) PROVE Works(w, "employees")
      BY <1>2, <2>1, <3>1, <3>5 DEF UpdateRead, Start
    <3>6. ASSUME CreateCount(w) PROVE Works(w, "employees")
      <4>1. PICK h : h = [handler[w] EXCEPT !.pc = "insertUser", !.code = Cardinality(Rows) + 1]
        OBVIOUS
      <4>2. /\ At(w, "count") /\ office' = office
            /\ handler' = [handler EXCEPT ![w] = h]
        BY <3>6, <4>1 DEF CreateCount, Goto
      <4>3. h.pc = "insertUser" /\ "pc" \in DOMAIN h
        <5>1. "pc" \in DOMAIN handler[w]
          BY <1>12 DEF OfficeInv
        <5> QED
          BY <4>1, <5>1
      <4> QED
        BY <1>3, <1>12, <3>1, <4>2, <4>3
    <3>7. ASSUME InsertUser(w) PROVE Works(w, "employees")
      <4>1. PICK h : h = [handler[w] EXCEPT !.pc = "insertEmployee"]
        OBVIOUS
      <4>2. /\ At(w, "insertUser") /\ office' = office
            /\ handler' = [handler EXCEPT ![w] = h]
        BY <3>7, <4>1 DEF InsertUser, Goto
      <4>3. h.pc = "insertEmployee" /\ "pc" \in DOMAIN h
        <5>1. "pc" \in DOMAIN handler[w]
          BY <1>12 DEF OfficeInv
        <5> QED
          BY <4>1, <5>1
      <4> QED
        BY <1>3, <1>12, <3>1, <4>2, <4>3
    <3>8. ASSUME InsertRefused(w) PROVE Works(w, "employees")
      BY <1>4, <1>12, <2>1, <3>1, <3>8 DEF InsertRefused, Finish, Goto
    <3>9. ASSUME UpdateWrite(w) PROVE Works(w, "employees")
      BY <1>4, <1>12, <2>1, <3>1, <3>9 DEF UpdateWrite, Finish, Goto
    <3>10. ASSUME DeleteWrite(w) PROVE Works(w, "employees")
      BY <1>4, <1>12, <2>1, <3>1, <3>10 DEF DeleteWrite, Finish, Goto
    <3> QED
      BY <2>1, <3>2, <3>3, <3>4, <3>5, <3>6, <3>7, <3>8, <3>9, <3>10 DEF EmployeesStep
  <2>2. ASSUME NEW w \in Worker, Abort(w) PROVE OfficeInv' /\ office' = office
    <3>1. Works(w, office)
      BY <2>2 DEF Abort, Works, Idle
    <3> QED
      BY <1>1, <1>12, <3>1
  <2> QED
    BY <1>1, <1>12, <2>1, <2>2 DEF EmployeesNext
<1>13. ASSUME OfficeInv, MfaNext
       PROVE  OfficeInv' /\ office' = office /\ (office = "mfa" \/ \E w \in Worker : Abort(w))
  <2>1. ASSUME NEW w \in Worker, MfaStep(w) PROVE Works(w, "mfa")
    <3>1. Belongs("mfa", "setup") /\ Belongs("mfa", "confirm") /\ Belongs("mfa", "disable")
      BY DEF Belongs
    <3>2. ASSUME NEW e \in Employee, SetupRead(w, e) PROVE Works(w, "mfa")
      BY <1>2, <2>1, <3>1, <3>2 DEF SetupRead, Start
    <3>3. ASSUME NEW e \in Employee, ConfirmRead(w, e) PROVE Works(w, "mfa")
      BY <1>2, <2>1, <3>1, <3>3 DEF ConfirmRead, Start
    <3>4. ASSUME NEW e \in Employee, DisableRead(w, e) PROVE Works(w, "mfa")
      BY <1>2, <2>1, <3>1, <3>4 DEF DisableRead, Start
    <3>5. ASSUME NEW s \in Secret, SetupWrite(w, s) PROVE Works(w, "mfa")
      BY <1>4, <1>13, <2>1, <3>1, <3>5 DEF SetupWrite
    <3>6. ASSUME NEW scanned \in BOOLEAN, Look(w, scanned) PROVE Works(w, "mfa")
      BY <3>6 DEF Look, Works
    <3>7. ASSUME ConfirmWrite(w) PROVE Works(w, "mfa")
      BY <1>4, <1>13, <2>1, <3>1, <3>7 DEF ConfirmWrite, Finish, Goto
    <3>8. ASSUME DisableWrite(w) PROVE Works(w, "mfa")
      BY <1>4, <1>13, <2>1, <3>1, <3>8 DEF DisableWrite, Finish, Goto
    <3> QED
      BY <2>1, <3>2, <3>3, <3>4, <3>5, <3>6, <3>7, <3>8 DEF MfaStep
  <2>2. ASSUME NEW w \in Worker, Abort(w) PROVE OfficeInv' /\ office' = office
    <3>1. Works(w, office)
      BY <2>2 DEF Abort, Works, Idle
    <3> QED
      BY <1>1, <1>13, <3>1
  <2> QED
    BY <1>1, <1>13, <2>1, <2>2 DEF MfaNext
<1>14. ASSUME OfficeInv, PagesNext
       PROVE  OfficeInv' /\ office' = office /\ (office = "pages" \/ \E w \in Worker : Abort(w))
  <2>1. ASSUME NEW w \in Worker, PagesStep(w) PROVE Works(w, "pages")
    <3>1. Belongs("pages", "sent") /\ Belongs("pages", "admitted")
      BY DEF Belongs
    <3>2. ASSUME NEW role \in Everyone, NEW p \in Pages, Visit(w, role, p) PROVE Works(w, "pages")
      BY <3>2 DEF Visit, Works
    <3>3. ASSUME NEW name \in CallNames, Request(w, name) PROVE Works(w, "pages")
      BY <1>2, <2>1, <3>1, <3>3 DEF Request, Start
    <3>4. ASSUME Guard(w) PROVE Works(w, "pages")
      <4>1. PICK h : h = [handler[w] EXCEPT !.pc = "admitted"]
        OBVIOUS
      <4>2. /\ At(w, "sent") /\ office' = office
            /\ handler' = [handler EXCEPT ![w] = h]
        BY <3>4, <4>1 DEF Guard, Goto
      <4>3. h.pc = "admitted" /\ "pc" \in DOMAIN h
        <5>1. "pc" \in DOMAIN handler[w]
          BY <1>14 DEF OfficeInv
        <5> QED
          BY <4>1, <5>1
      <4> QED
        BY <1>3, <1>14, <3>1, <4>2, <4>3
    <3>5. ASSUME Forbid(w) PROVE Works(w, "pages")
      BY <1>4, <1>14, <2>1, <3>1, <3>5 DEF Forbid, Answered
    <3>6. ASSUME Refuse(w) PROVE Works(w, "pages")
      BY <1>4, <1>14, <2>1, <3>1, <3>6 DEF Refuse, Answered
    <3>7. ASSUME Serve(w) PROVE Works(w, "pages")
      BY <1>4, <1>14, <2>1, <3>1, <3>7 DEF Serve, Answered
    <3> QED
      BY <2>1, <3>2, <3>3, <3>4, <3>5, <3>6, <3>7 DEF PagesStep
  <2>2. ASSUME NEW w \in Worker, Abort(w) PROVE OfficeInv' /\ office' = office
    <3>1. Works(w, office)
      BY <2>2 DEF Abort, Works, Idle
    <3> QED
      BY <1>1, <1>14, <3>1
  <2> QED
    BY <1>1, <1>14, <2>1, <2>2 DEF PagesNext
\* So the office never changes, and nobody does a step of another.
<1>15. ASSUME NEW w \in Worker, Abort(w)
       PROVE  /\ AssetsNext /\ ExpensesNext /\ OnboardingNext /\ ShiftsNext
              /\ RecruitmentNext /\ PerformanceNext /\ LearningNext /\ EmployeesNext
              /\ MfaNext /\ PagesNext
  BY <1>15 DEF AssetsNext, ExpensesNext, OnboardingNext, ShiftsNext, RecruitmentNext,
               PerformanceNext, LearningNext, EmployeesNext, MfaNext, PagesNext
<1>16. ASSUME OfficeInv, [Next]_vars PROVE OfficeInv' /\ office' = office
  <2>1. CASE UNCHANGED vars
    BY <1>16, <2>1 DEF OfficeInv, vars
  <2>2. CASE Next
    BY <1>5, <1>6, <1>7, <1>8, <1>9, <1>10, <1>11, <1>12, <1>13, <1>14,
       <1>16, <2>2 DEF Next
  <2> QED
    BY <1>16, <2>1, <2>2
<1>17. ASSUME OfficeInv, [Next]_vars
       PROVE  /\ office = "assets" => [AssetsNext]_vars
              /\ office = "expenses" => [ExpensesNext]_vars
              /\ office = "onboarding" => [OnboardingNext]_vars
              /\ office = "shifts" => [ShiftsNext]_vars
              /\ office = "recruitment" => [RecruitmentNext]_vars
              /\ office = "performance" => [PerformanceNext]_vars
              /\ office = "learning" => [LearningNext]_vars
              /\ office = "employees" => [EmployeesNext]_vars
              /\ office = "mfa" => [MfaNext]_vars
  <2>1. CASE UNCHANGED vars
    BY <2>1
  <2>2. CASE Next
    BY <1>5, <1>6, <1>7, <1>8, <1>9, <1>10, <1>11, <1>12, <1>13, <1>14,
       <1>15, <1>17, <2>2 DEF Next
  <2> QED
    BY <1>17, <2>1, <2>2
<1>18. Init => OfficeInv
  <2> SUFFICES ASSUME Init PROVE handler = [w \in Worker |-> Idle]
    <3>1. ASSUME handler = [w \in Worker |-> Idle] PROVE OfficeInv
      <4>1. handler \in [Worker -> {Idle}]
        BY <3>1
      <4>2. \A w \in Worker : handler[w] = Idle /\ "pc" \in DOMAIN handler[w]
        BY <3>1 DEF Idle
      <4> QED
        BY <4>1, <4>2 DEF OfficeInv
    <3> QED
      BY <3>1
  <2> QED
    BY DEF Init, AssetsInit, ExpensesInit, OnboardingInit, ShiftsInit, RecruitmentInit,
           PerformanceInit, LearningInit, EmployeesInit, MfaInit, PagesInit, InitHandlers
<1>19. Init => /\ office = "assets" => AssetsInit
               /\ office = "expenses" => ExpensesInit
               /\ office = "onboarding" => OnboardingInit
               /\ office = "shifts" => ShiftsInit
               /\ office = "recruitment" => RecruitmentInit
               /\ office = "performance" => PerformanceInit
               /\ office = "learning" => LearningInit
               /\ office = "employees" => EmployeesInit
               /\ office = "mfa" => MfaInit
  BY DEF Init, AssetsInit, ExpensesInit, OnboardingInit, ShiftsInit, RecruitmentInit,
         PerformanceInit, LearningInit, EmployeesInit, MfaInit, PagesInit
<1>20. Spec => []OfficeInv
  BY <1>18, <1>16, PTL DEF Spec
<1>21. Spec => []HoldersBounded
  <2>1. office = "assets" /\ Init => AssetsInit
    BY <1>19
  <2>2. office = "assets" /\ OfficeInv /\ [Next]_vars => [AssetsNext]_vars /\ (office = "assets")'
    BY <1>16, <1>17
  <2>3. ~(office = "assets") /\ OfficeInv /\ [Next]_vars => ~(office = "assets")'
    BY <1>16
  <2>4. ~(office = "assets") => HoldersBounded
    BY DEF HoldersBounded
  <2> QED
    BY <1>20, <2>1, <2>2, <2>3, <2>4, OneHolder, PTL DEF Spec, AssetsSpec
<1>22. Spec => DecisionsAreKept
  <2>1. office = "expenses" /\ Init => ExpensesInit
    BY <1>19
  <2>2. office = "expenses" /\ OfficeInv /\ [Next]_vars => [ExpensesNext]_vars /\ (office = "expenses")'
    BY <1>16, <1>17
  <2>3. ~(office = "expenses") /\ OfficeInv /\ [Next]_vars => ~(office = "expenses")'
    BY <1>16
  <2> QED
    BY <1>20, <2>1, <2>2, <2>3, DecisionsStay, PTL DEF Spec, ExpensesSpec, DecisionsAreKept
<1>23. Spec => StepsAreKept
  <2>1. office = "onboarding" /\ Init => OnboardingInit
    BY <1>19
  <2>2. office = "onboarding" /\ OfficeInv /\ [Next]_vars => [OnboardingNext]_vars /\ (office = "onboarding")'
    BY <1>16, <1>17
  <2>3. ~(office = "onboarding") /\ OfficeInv /\ [Next]_vars => ~(office = "onboarding")'
    BY <1>16
  <2> QED
    BY <1>20, <2>1, <2>2, <2>3, StepsStay, PTL DEF Spec, OnboardingSpec, StepsAreKept
<1>24. Spec => []OneOpenShift
  <2>1. office = "shifts" /\ Init => ShiftsInit
    BY <1>19
  <2>2. office = "shifts" /\ OfficeInv /\ [Next]_vars => [ShiftsNext]_vars /\ (office = "shifts")'
    BY <1>16, <1>17
  <2>3. ~(office = "shifts") /\ OfficeInv /\ [Next]_vars => ~(office = "shifts")'
    BY <1>16
  <2>4. ~(office = "shifts") => OneOpenShift
    BY DEF OneOpenShift
  <2> QED
    BY <1>20, <2>1, <2>2, <2>3, <2>4, OneShift, PTL DEF Spec, ShiftsSpec
<1>25. Spec => []NoStageIsSkipped /\ OutcomeIsFinal
  <2>1. office = "recruitment" /\ Init => RecruitmentInit
    BY <1>19
  <2>2. office = "recruitment" /\ OfficeInv /\ [Next]_vars => [RecruitmentNext]_vars /\ (office = "recruitment")'
    BY <1>16, <1>17
  <2>3. ~(office = "recruitment") /\ OfficeInv /\ [Next]_vars => ~(office = "recruitment")'
    BY <1>16
  <2>4. ~(office = "recruitment") => NoStageIsSkipped
    BY DEF NoStageIsSkipped
  <2> QED
    BY <1>20, <2>1, <2>2, <2>3, <2>4, StagesInOrder, PTL DEF Spec, RecruitmentSpec, OutcomeIsFinal
<1>26. Spec => []WeightBounded
  <2>1. office = "performance" /\ Init => PerformanceInit
    BY <1>19
  <2>2. office = "performance" /\ OfficeInv /\ [Next]_vars => [PerformanceNext]_vars /\ (office = "performance")'
    BY <1>16, <1>17
  <2>3. ~(office = "performance") /\ OfficeInv /\ [Next]_vars => ~(office = "performance")'
    BY <1>16
  <2>4. ~(office = "performance") => WeightBounded
    BY DEF WeightBounded
  <2> QED
    BY <1>20, <2>1, <2>2, <2>3, <2>4, WeightsFit, PTL DEF Spec, PerformanceSpec
<1>27. Spec => ProgressIsKept
  <2>1. office = "learning" /\ Init => LearningInit
    BY <1>19
  <2>2. office = "learning" /\ OfficeInv /\ [Next]_vars => [LearningNext]_vars /\ (office = "learning")'
    BY <1>16, <1>17
  <2>3. ~(office = "learning") /\ OfficeInv /\ [Next]_vars => ~(office = "learning")'
    BY <1>16
  <2> QED
    BY <1>20, <2>1, <2>2, <2>3, ProgressStays, PTL DEF Spec, LearningSpec, ProgressIsKept
<1>28. Spec => []AccountsAreOwned /\ []ChartIsComplete
  <2>1. office = "employees" /\ Init => EmployeesInit
    BY <1>19
  <2>2. office = "employees" /\ OfficeInv /\ [Next]_vars => [EmployeesNext]_vars /\ (office = "employees")'
    BY <1>16, <1>17
  <2>3. ~(office = "employees") /\ OfficeInv /\ [Next]_vars => ~(office = "employees")'
    BY <1>16
  <2>4. ~(office = "employees") => AccountsAreOwned /\ ChartIsComplete
    BY DEF AccountsAreOwned, ChartIsComplete
  <2> QED
    BY <1>20, <2>1, <2>2, <2>3, <2>4, AccountsStayOwned, ChartLeavesOutCircles, PTL
    DEF Spec, EmployeesSpec
<1>29. Spec => []FactorIsHeld
  <2>1. office = "mfa" /\ Init => MfaInit
    BY <1>19
  <2>2. office = "mfa" /\ OfficeInv /\ [Next]_vars => [MfaNext]_vars /\ (office = "mfa")'
    BY <1>16, <1>17
  <2>3. ~(office = "mfa") /\ OfficeInv /\ [Next]_vars => ~(office = "mfa")'
    BY <1>16
  <2>4. ~(office = "mfa") => FactorIsHeld
    BY DEF FactorIsHeld
  <2> QED
    BY <1>20, <2>1, <2>2, <2>3, <2>4, FactorStaysHeld, PTL DEF Spec, MfaSpec
<1> QED
  BY <1>21, <1>22, <1>23, <1>24, <1>25, <1>26, <1>27, <1>28, <1>29, PTL
=============================================================================
