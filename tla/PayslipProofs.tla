--------------------------- MODULE PayslipProofs ----------------------------
(***************************************************************************)
(* Theorems about LossOfPay and Payslip, for every length of the month and *)
(* every number of leaves and contracts.  The amounts are integers of any  *)
(* size; what is assumed of the calendar is Payslip's CalendarAssumption.  *)
(***************************************************************************)
EXTENDS Payslip, FiniteSetTheorems, TLAPS

----------------------------------------------------------------------------
(* Loss of pay.                                                            *)

\* The records of the month and the leaves that were approved so far.
RecordsInv == TypeOK /\ IsFiniteSet(approved)

\* The leaves that getAttendanceStats counts.
Counted(leaves) == {l \in leaves : l.from =< LastDay /\ l.to >= 1}

\* More absences are more days, and more leaves fewer of them.
LEMMA LopOrder ==
    ASSUME NEW A, NEW B, B \subseteq Month, A \subseteq B,
           NEW L, NEW M, IsFiniteSet(M), L \subseteq M
    PROVE  LET days(a, l) == Max({0, Cardinality(a) - Cardinality(Counted(l))}) IN
           /\ days(A, L) \in Nat /\ days(A, M) =< days(A, L) /\ days(A, L) =< days(B, L)
           /\ Cardinality(A) >= Cardinality(Counted(L)) =>
                  days(A, L) = Cardinality(A) - Cardinality(Counted(L))
<1>1. IsFiniteSet(Month)
  BY MonthAssumption, FS_Interval DEF Month
<1>2. IsFiniteSet(B)
  BY <1>1, FS_Subset
<1>3. IsFiniteSet(A) /\ Cardinality(A) =< Cardinality(B)
  BY <1>2, FS_Subset
<1>4. Counted(L) \subseteq Counted(M) /\ Counted(M) \subseteq M
  BY DEF Counted
<1>5. IsFiniteSet(Counted(M))
  BY <1>4, FS_Subset
<1>6. IsFiniteSet(Counted(L)) /\ Cardinality(Counted(L)) =< Cardinality(Counted(M))
  BY <1>4, <1>5, FS_Subset
<1>7. /\ Cardinality(A) \in Nat /\ Cardinality(B) \in Nat
      /\ Cardinality(Counted(L)) \in Nat /\ Cardinality(Counted(M)) \in Nat
  BY <1>2, <1>3, <1>5, <1>6, FS_CardinalityType
<1>8. \A n \in Int : Max({0, n}) = IF n > 0 THEN n ELSE 0
  BY DEF Max
<1>9. /\ Cardinality(A) - Cardinality(Counted(L)) \in Int
      /\ Cardinality(A) - Cardinality(Counted(M)) \in Int
      /\ Cardinality(B) - Cardinality(Counted(L)) \in Int
  BY <1>7
<1> HIDE DEF Counted
<1> QED
  BY <1>3, <1>6, <1>7, <1>8, <1>9

\* For leaves of one paid day each, on different days of absence, the days
\* without pay are the absences no leave covers, for every month.  That the
\* records are well-typed and the approvals finitely many is the invariant.
THEOREM SingleDaysAreExact == Spec => [](RecordsInv /\ ExactForSingleDays)
<1>1. Init => RecordsInv
  BY FS_EmptySet DEF Init, RecordsInv, TypeOK
<1>2. RecordsInv /\ [Next]_vars => RecordsInv'
  <2> SUFFICES ASSUME RecordsInv, [Next]_vars PROVE RecordsInv'
    OBVIOUS
  <2>1. attendance \in [Month -> {"none", "absent", "present"}]
        /\ approved \subseteq Leave /\ IsFiniteSet(approved)
    BY DEF RecordsInv, TypeOK
  <2>2. ASSUME NEW d \in Month, ClockIn(d) \/ MarkAbsent(d) PROVE RecordsInv'
    BY <2>1, <2>2 DEF ClockIn, MarkAbsent, RecordsInv, TypeOK
  <2>3. ASSUME NEW l \in Leave, Approve(l) PROVE RecordsInv'
    <3>1. approved' = approved \union {l} /\ attendance' = attendance
      BY <2>3 DEF Approve
    <3>2. IsFiniteSet(approved')
      BY <2>1, <3>1, FS_AddElement
    <3> QED
      BY <2>1, <3>1, <3>2 DEF RecordsInv, TypeOK
  <2>4. ASSUME NEW l \in approved, Cancel(l) PROVE RecordsInv'
    <3>1. approved' = approved \ {l} /\ attendance' = attendance
      BY <2>4 DEF Cancel
    <3>2. IsFiniteSet(approved')
      BY <2>1, <3>1, FS_RemoveElement
    <3> QED
      BY <2>1, <3>1, <3>2 DEF RecordsInv, TypeOK
  <2>5. CASE UNCHANGED vars
    BY <2>1, <2>5 DEF vars, RecordsInv, TypeOK
  <2> QED
    BY <2>2, <2>3, <2>4, <2>5 DEF Next
<1>3. RecordsInv => ExactForSingleDays
  <2> SUFFICES ASSUME RecordsInv,
                      \A l \in approved : l.paid /\ l.from = l.to /\ l.from \in AbsentDays,
                      \A l, m \in approved : l.from = m.from => l = m
               PROVE  LopDays = Cardinality(Uncovered)
    BY DEF ExactForSingleDays
  <2> DEFINE Covered == {d \in AbsentDays : \E l \in approved : l.from = d}
             at == [l \in approved |-> l.from]
  <2>1. IsFiniteSet(approved) /\ AbsentDays \subseteq Month /\ IsFiniteSet(AbsentDays)
    BY MonthAssumption, FS_Interval, FS_Subset DEF RecordsInv, AbsentDays, Month
  <2>2. Counted(approved) = approved
    <3>1. \A l \in approved : l.from =< LastDay /\ l.to >= 1
      <4> SUFFICES ASSUME NEW l \in approved PROVE l.from =< LastDay /\ l.to >= 1
        OBVIOUS
      <4>1. l.from = l.to /\ l.from \in Month
        BY <2>1
      <4> QED
        BY <4>1, MonthAssumption DEF Month
    <3> QED
      BY <3>1 DEF Counted
  <2>3. at \in Bijection(approved, Covered)
    <3>1. at \in [approved -> Covered]
      OBVIOUS
    <3>2. \A l, m \in approved : at[l] = at[m] => l = m
      OBVIOUS
    <3>3. \A d \in Covered : \E l \in approved : at[l] = d
      OBVIOUS
    <3> HIDE DEF at, Covered
    <3> QED
      BY <3>1, <3>2, <3>3 DEF Bijection, Injection, Surjection, IsInjective
  <2>4. Cardinality(Covered) = Cardinality(approved) /\ IsFiniteSet(Covered)
    BY <2>1, <2>3, FS_Bijection DEF ExistsBijection
  <2>5. Uncovered = AbsentDays \ Covered
    <3>1. \A d \in AbsentDays, l \in approved : l.paid /\ d \in DaysOf(l) <=> l.from = d
      BY <2>1 DEF DaysOf, Month, RecordsInv, TypeOK, Leave, Dates
    <3> QED
      BY <3>1 DEF Uncovered
  <2>6. Covered \subseteq AbsentDays /\ AbsentDays \intersect Covered = Covered
    OBVIOUS
  <2> HIDE DEF Covered
  <2>7. /\ Cardinality(Uncovered) = Cardinality(AbsentDays) - Cardinality(Covered)
        /\ Cardinality(Covered) =< Cardinality(AbsentDays)
        /\ Cardinality(Covered) \in Nat /\ Cardinality(AbsentDays) \in Nat
    <3>1. Cardinality(AbsentDays \ Covered)
              = Cardinality(AbsentDays) - Cardinality(AbsentDays \intersect Covered)
      BY <2>1, FS_Difference
    <3>2. Cardinality(Covered) =< Cardinality(AbsentDays)
      BY <2>1, <2>6, FS_Subset
    <3>3. Cardinality(Covered) \in Nat /\ Cardinality(AbsentDays) \in Nat
      BY <2>1, <2>4, FS_CardinalityType
    <3> QED
      BY <2>5, <2>6, <3>1, <3>2, <3>3
  <2>8. LopDays = Max({0, Cardinality(AbsentDays) - Cardinality(Counted(approved))})
    BY DEF LopDays, ApprovedLeaveCount, Counted
  <2>9. LopDays = Cardinality(AbsentDays) - Cardinality(Counted(approved))
    BY <2>1, <2>2, <2>4, <2>7, <2>8, LopOrder
  <2> QED
    BY <2>2, <2>4, <2>7, <2>9
<1> QED
  BY <1>1, <1>2, <1>3, PTL DEF Spec

\* Whatever order records and approvals arrive in, an absence more or a leave
\* less is never fewer days without pay.
THEOREM MonotoneInAbsence == Spec => PayIsMonotone
<1>1. RecordsInv /\ RecordsInv' /\ [Next]_vars =>
          /\ AbsentDays \subseteq AbsentDays' /\ approved = approved' => LopDays =< LopDays'
          /\ approved \subseteq approved' /\ AbsentDays = AbsentDays' => LopDays >= LopDays'
  <2> SUFFICES ASSUME RecordsInv, RecordsInv'
               PROVE  /\ AbsentDays \subseteq AbsentDays' /\ approved = approved'
                             => LopDays =< LopDays'
                      /\ approved \subseteq approved' /\ AbsentDays = AbsentDays'
                             => LopDays >= LopDays'
    OBVIOUS
  <2>1. /\ AbsentDays \subseteq Month /\ AbsentDays' \subseteq Month
        /\ IsFiniteSet(approved) /\ IsFiniteSet(approved')
    BY DEF AbsentDays, RecordsInv
  <2>2. /\ LopDays = Max({0, Cardinality(AbsentDays) - Cardinality(Counted(approved))})
        /\ LopDays' = Max({0, Cardinality(AbsentDays') - Cardinality(Counted(approved'))})
    BY DEF LopDays, ApprovedLeaveCount, Counted
  <2>3. AbsentDays \subseteq AbsentDays' /\ approved = approved' => LopDays =< LopDays'
    BY <2>1, <2>2, LopOrder
  <2>4. approved \subseteq approved' /\ AbsentDays = AbsentDays' => LopDays >= LopDays'
    BY <2>1, <2>2, LopOrder
  <2> QED
    BY <2>3, <2>4
<1> QED
  BY <1>1, SingleDaysAreExact, PTL DEF Spec, PayIsMonotone

----------------------------------------------------------------------------
(* From the days of loss of pay to the net pay.                            *)

\* Rounded is within half a unit of the quotient, and monotone.
LEMMA Rounding ==
    ASSUME NEW b \in Nat \ {0}, NEW a \in Int
    PROVE  /\ Rounded(a, b) \in Int
           /\ 2 * a - b =< 2 * (b * Rounded(a, b)) /\ 2 * (b * Rounded(a, b)) =< 2 * a + b
           /\ \A c \in Int : a =< c => Rounded(a, b) =< Rounded(c, b)
           /\ \A n \in Int : a = n * b => Rounded(a, b) = n
<1>1. \A n \in Nat, d \in Nat \ {0} : /\ n \div d \in Nat
         /\ d * (n \div d) =< n /\ n < d * (n \div d) + d
  OBVIOUS
<1>2. ASSUME NEW n \in Nat
      PROVE  \E q \in Nat : q = n \div (2 * b) /\ 2 * (b * q) =< n /\ n < 2 * (b * q) + 2 * b
  <2>1. PICK d \in Nat \ {0} : d = 2 * b
    OBVIOUS
  <2>2. PICK q \in Nat : q = n \div d /\ d * q =< n /\ n < d * q + d
    BY <1>1
  <2>3. d * q = 2 * (b * q)
    BY <2>1
  <2> QED
    BY <2>1, <2>2, <2>3
<1> DEFINE Near(c, r) == /\ 2 * (b * r) =< 2 * c + b
                         /\ 2 * c - b =< 2 * (b * r)
                         /\ c >= 0 => 2 * c - b < 2 * (b * r)
                         /\ c < 0 => 2 * (b * r) < 2 * c + b
<1>3. ASSUME NEW c \in Int PROVE Rounded(c, b) \in Int /\ Near(c, Rounded(c, b))
  <2>1. CASE c >= 0
    <3>1. 2 * c + b \in Nat
      BY <2>1
    <3>2. PICK q \in Nat : /\ q = (2 * c + b) \div (2 * b)
                           /\ 2 * (b * q) =< 2 * c + b /\ 2 * c + b < 2 * (b * q) + 2 * b
      BY <1>2, <3>1
    <3>3. Rounded(c, b) = q /\ b * q \in Int
      BY <2>1, <3>2 DEF Rounded
    <3> QED
      BY <2>1, <3>2, <3>3
  <2>2. CASE c < 0
    <3>1. b - 2 * c \in Nat
      BY <2>2
    <3>2. PICK q \in Nat : /\ q = (b - 2 * c) \div (2 * b)
                           /\ 2 * (b * q) =< b - 2 * c /\ b - 2 * c < 2 * (b * q) + 2 * b
      BY <1>2, <3>1
    <3>3. Rounded(c, b) = -q /\ b * q \in Int /\ b * (-q) = -(b * q)
      BY <2>2, <3>2 DEF Rounded
    <3> QED
      BY <2>2, <3>2, <3>3
  <2> QED
    BY <2>1, <2>2
<1>4. ASSUME NEW c \in Int, NEW r \in Int, Near(a, Rounded(a, b)), Near(c, r), a =< c
      PROVE  Rounded(a, b) =< r
  <2>1. PICK s \in Int : s = Rounded(a, b)
    BY <1>3
  <2>2. b * s \in Int /\ b * r \in Int /\ (s >= r + 1 => b * s >= b * r + b)
    OBVIOUS
  <2> QED
    BY <1>4, <2>1, <2>2
<1>5. ASSUME NEW n \in Int, a = n * b PROVE Rounded(a, b) = n
  <2>1. PICK s \in Int : s = Rounded(a, b) /\ Near(a, s)
    BY <1>3
  <2>2. /\ b * s \in Int /\ b * n \in Int /\ n * b = b * n
        /\ s >= n + 1 => b * s >= b * n + b
        /\ s =< n - 1 => b * s =< b * n - b
    OBVIOUS
  <2> QED
    BY <1>5, <2>1, <2>2
<1> QED
  BY <1>3, <1>4, <1>5

\* What is paid of HRA, and of a share of p percent of BASIC, for x of b days, of
\* a basic salary of v.
HraOf(v, b, x) == Rounded(Formula(Rounded(v * x, b), 40) * x, b)
ShareOf(v, p, b, x) == Rounded(((Rounded(v * x, b) * p) \div 100) * x, b)

\* What is paid altogether.
GrossOf(v, p, b, x) == Rounded(v * x, b) + HraOf(v, b, x) + Rounded(160000 * x, b)
                           + Rounded(125000 * x, b) + ShareOf(v, p, b, x)

\* A payslip that is in debt whatever is deducted, and one of more and high that
\* is a raise from one of basic and gross, by more than any step of a table.
Debt(basic, gross) == basic =< 0 /\ 8 * gross =< 7 * basic - 72000
Raise(basic, gross, more, high) ==
    /\ basic =< more /\ 4 * (high - gross) >= 3 * (more - basic) + 36000
    /\ high > 1000000 => high - gross >= 17300

\* Up to the working days, a day more is a raise.
LEMMA WithinMonth ==
    ASSUME NEW b \in Nat \ {0}, b =< 31, NEW v \in Nat, NEW p \in {0, 25},
           NEW x \in 0..b, NEW y \in x..b,
           NEW paid, paid = Rounded(v * x, b), NEW more, more = Rounded(v * y, b),
           NEW g, g = GrossOf(v, p, b, x), NEW h, h = GrossOf(v, p, b, y)
    PROVE  /\ paid \in Nat /\ more \in Nat /\ g \in Nat /\ h \in Nat /\ paid =< more /\ paid =< g
           /\ y = b => (g - 5) * b =< h * x
           /\ x < y => Raise(paid, g, more, h)
\* A value of w is paid in proportion to the days worked, k of b, within one
\* unit; a larger value, for more days, is not paid less.
<1>0. ASSUME NEW u \in Nat, NEW w \in Nat, u =< w, NEW k \in 0..b, NEW l \in k..b
      PROVE  /\ Rounded(u * k, b) \in Nat /\ Rounded(u * k, b) =< Rounded(w * l, b)
             /\ Rounded(w * l, b) =< w /\ (Rounded(u * k, b) - 1) * b =< w * k
             /\ Rounded(w * b, b) = w
             /\ k < l => w =< 31 * (Rounded(w * l, b) - Rounded(w * k, b)) + 31
  <2>1. k \in Int /\ l \in Int /\ 0 =< k /\ k =< l /\ l =< b
    OBVIOUS
  <2>2. /\ u * k \in Nat /\ w * k \in Nat /\ w * l \in Nat /\ w * b \in Nat
        /\ 0 =< u * k /\ u * k =< w * k /\ w * k =< w * l /\ w * l =< w * b
        /\ k < l => w * k + w =< w * l
    <3>1. u * k =< w * k
      BY <1>0, <2>1
    <3>2. w * k =< w * l /\ w * l =< w * b
      BY <2>1
    <3>3. k < l => w * (k + 1) =< w * l
      BY <2>1
    <3>4. w * (k + 1) = w * k + w
      BY <2>1
    <3>5. /\ u * k \in Nat /\ w * k \in Nat /\ w * l \in Nat /\ w * b \in Nat
      BY <2>1
    <3> QED
      BY <3>1, <3>2, <3>3, <3>4, <3>5
  <2>3. Rounded(0, b) = 0
    <3>1. 0 = 0 * b
      OBVIOUS
    <3> QED
      BY <3>1, Rounding
  <2>4. Rounded(w * b, b) = w
    BY <2>2, Rounding
  <2>5. /\ Rounded(u * k, b) \in Int /\ Rounded(w * l, b) \in Int /\ Rounded(w * k, b) \in Int
        /\ 0 =< Rounded(u * k, b) /\ Rounded(u * k, b) =< Rounded(w * l, b)
        /\ Rounded(w * k, b) =< Rounded(w * l, b) /\ Rounded(w * l, b) =< w
    <3>1. \A m, n \in Int : Rounded(m, b) \in Int /\ (m =< n => Rounded(m, b) =< Rounded(n, b))
      BY Rounding
    <3>2. PICK c \in Nat, d \in Nat, e \in Nat, f \in Nat :
              /\ c = u * k /\ d = w * k /\ e = w * l /\ f = w * b
              /\ 0 =< c /\ c =< d /\ d =< e /\ e =< f
      BY <2>2
    <3>3. /\ Rounded(c, b) \in Int /\ Rounded(d, b) \in Int /\ Rounded(e, b) \in Int
          /\ Rounded(0, b) =< Rounded(c, b) /\ Rounded(c, b) =< Rounded(e, b)
          /\ Rounded(d, b) =< Rounded(e, b) /\ Rounded(e, b) =< Rounded(f, b)
      <4>1. /\ 0 \in Int /\ c \in Int /\ d \in Int /\ e \in Int /\ f \in Int
            /\ 0 =< c /\ c =< e /\ d =< e /\ e =< f
        BY <3>2
      <4>2. Rounded(c, b) \in Int /\ Rounded(d, b) \in Int /\ Rounded(e, b) \in Int
        BY <3>1, <4>1
      <4>3. Rounded(0, b) =< Rounded(c, b) /\ Rounded(c, b) =< Rounded(e, b)
        BY <3>1, <4>1
      <4>4. Rounded(d, b) =< Rounded(e, b) /\ Rounded(e, b) =< Rounded(f, b)
        BY <3>1, <4>1
      <4> QED
        BY <4>2, <4>3, <4>4
    <3> QED
      BY <2>3, <2>4, <3>2, <3>3
  <2>6. (Rounded(u * k, b) - 1) * b =< w * k
    <3>1. PICK r \in Int : r = Rounded(u * k, b)
      BY <2>5
    <3>2. 2 * (b * r) =< 2 * (u * k) + b
      BY <2>2, <3>1, Rounding
    <3>3. (r - 1) * b = b * r - b /\ b * r \in Int
      OBVIOUS
    <3> QED
      BY <2>2, <3>1, <3>2, <3>3
  <2>7. ASSUME k < l PROVE w =< 31 * (Rounded(w * l, b) - Rounded(w * k, b)) + 31
    <3>1. PICK r \in Int, s \in Int : r = Rounded(w * k, b) /\ s = Rounded(w * l, b)
      BY <2>5
    <3>2. 2 * (b * r) =< 2 * (w * k) + b /\ 2 * (w * l) - b =< 2 * (b * s)
      BY <2>2, <3>1, Rounding
    <3>3. b * r \in Int /\ b * s \in Int /\ b * (s - r) = b * s - b * r
      OBVIOUS
    <3>4. w - b =< b * (s - r)
      BY <2>2, <2>7, <3>2, <3>3
    <3>5. PICK d \in Nat : d = s - r
      BY <2>5, <3>1
    <3>6. b * d =< 31 * d
      OBVIOUS
    <3> QED
      BY <3>1, <3>4, <3>5, <3>6
  <2> QED
    BY <2>4, <2>5, <2>6, <2>7
\* So each part is, up to x and y.
<1>1. x \in Int /\ y \in Int /\ 0 =< x /\ x =< y /\ y =< b
  OBVIOUS
<1>2. ASSUME NEW u \in Nat, NEW w \in Nat, u =< w
      PROVE  /\ Rounded(u * x, b) \in Nat /\ Rounded(w * y, b) \in Nat
             /\ Rounded(u * x, b) =< Rounded(w * y, b)
             /\ Rounded(w * y, b) =< w
             /\ y = b => (Rounded(u * x, b) - 1) * b =< Rounded(w * y, b) * x
  <2>1. /\ Rounded(u * x, b) \in Nat /\ Rounded(u * x, b) =< Rounded(w * y, b)
        /\ Rounded(w * y, b) =< w
        /\ (Rounded(u * x, b) - 1) * b =< w * x
        /\ Rounded(w * b, b) = w
    BY <1>0, <1>1, <1>2
  <2>2. Rounded(w * y, b) \in Nat
    <3>1. w =< w /\ y \in 0..b /\ y \in y..b
      BY <1>1
    <3> QED
      BY <1>0, <3>1
  <2> QED
    BY <2>1, <2>2, SMT
<1>3. ASSUME NEW u \in Nat, x < y
      PROVE  u =< 31 * (Rounded(u * y, b) - Rounded(u * x, b)) + 31
  <2>1. u =< u
    OBVIOUS
  <2> QED
    BY <1>0, <1>3, <2>1
<1>4. paid \in Nat /\ more \in Nat /\ paid =< more /\ more =< v
  BY <1>2, SMT
\* HRA: of r at x, of s at y.
<1>5. PICK r \in Nat, s \in Nat : /\ r = Formula(paid, 40) /\ s = Formula(more, 40)
                                  /\ r =< s /\ 10 * s =< 4 * v + 5
  <2>1. \A n \in Int : /\ Rounded(n, 100) \in Int
                       /\ \A l \in Int : n =< l => Rounded(n, 100) =< Rounded(l, 100)
                       /\ 2 * (100 * Rounded(n, 100)) =< 2 * n + 100
    <3>1. PICK d \in Nat \ {0} : d = 100
      OBVIOUS
    <3>2. \A n \in Int : /\ Rounded(n, d) \in Int
                         /\ \A l \in Int : n =< l => Rounded(n, d) =< Rounded(l, d)
                         /\ 2 * (d * Rounded(n, d)) =< 2 * n + d
      BY Rounding
    <3>3. ASSUME NEW n \in Int
          PROVE  Rounded(n, 100) \in Int /\ 2 * (100 * Rounded(n, 100)) =< 2 * n + 100
      <4>1. PICK q \in Int : q = Rounded(n, d) /\ 2 * (d * q) =< 2 * n + d
        BY <3>2
      <4>2. Rounded(n, 100) = q
        BY <3>1, <4>1
      <4>3. 2 * (100 * q) =< 2 * n + 100
        BY <3>1, <4>1, SMT
      <4> QED
        BY <4>2, <4>3
    <3>4. \A n, l \in Int : n =< l => Rounded(n, 100) =< Rounded(l, 100)
      BY <3>1, <3>2
    <3> QED
      BY <3>3, <3>4
  <2>2. paid * 40 \in Int /\ more * 40 \in Int /\ paid * 40 =< more * 40
    BY <1>4, SMT
  <2>3. PICK n \in Int, l \in Int : n = Rounded(paid * 40, 100) /\ l = Rounded(more * 40, 100)
    BY <2>1, <2>2, SMT
  <2>4. n =< l /\ 2 * (100 * l) =< 2 * (more * 40) + 100
    <3>1. PICK i \in Int, j \in Int : i = paid * 40 /\ j = more * 40 /\ i =< j
      BY <2>2, SMT
    <3>2. Rounded(i, 100) =< Rounded(j, 100) /\ 2 * (100 * Rounded(j, 100)) =< 2 * j + 100
      BY <2>1, <3>1
    <3> QED
      BY <2>3, <3>1, <3>2
  <2>5. PICK r \in Nat : r = Max({0, n}) /\ (r = n \/ (r = 0 /\ n =< 0))
    BY SMT DEF Max
  <2>6. PICK s \in Nat : s = Max({0, l}) /\ (s = l \/ (s = 0 /\ l =< 0))
    BY SMT DEF Max
  <2>7. r = Formula(paid, 40) /\ s = Formula(more, 40)
    BY <2>3, <2>5, <2>6, SMT DEF Formula
  <2>8. r =< s /\ 10 * s =< 4 * v + 5
    BY <1>4, <2>4, <2>5, <2>6, SMT
  <2> QED
    BY <2>7, <2>8, SMT
\* The percentage: of i at x, of j at y.
<1>6. PICK i \in Nat, j \in Nat : /\ i = (paid * p) \div 100 /\ j = (more * p) \div 100
                                  /\ i =< j /\ 4 * j =< v
  <2>1. CASE p = 0
    <3>1. paid * p = 0 /\ more * p = 0 /\ 0 \div 100 = 0
      <4>1. (\A n \in Nat : n * 0 = 0) /\ 0 \div 100 = 0
        BY SMT
      <4> QED
        BY <1>4, <2>1, <4>1
    <3> QED
      BY <1>4, <3>1, SMT
  <2>2. CASE p = 25
    <3>1. PICK i \in Nat, j \in Nat : i = (paid * 25) \div 100 /\ j = (more * 25) \div 100
      <4>1. \A n \in Nat : (n * 25) \div 100 \in Nat
        BY SMT
      <4> QED
        BY <1>4, <4>1
    <3>2. i =< j /\ 4 * j =< v
      BY <1>4, <3>1, SMT
    <3> QED
      BY <2>2, <3>1, <3>2, SMT
  <2> QED
    BY <2>1, <2>2, SMT
<1>7. PICK hra \in Nat, hra2 \in Nat :
          /\ hra = HraOf(v, b, x) /\ hra2 = HraOf(v, b, y) /\ hra =< hra2 /\ hra2 =< s
          /\ y = b => (hra - 1) * b =< hra2 * x
  <2>1. HraOf(v, b, x) = Rounded(r * x, b) /\ HraOf(v, b, y) = Rounded(s * y, b)
    BY <1>5, SMT DEF HraOf
  <2>2. /\ Rounded(r * x, b) \in Nat /\ Rounded(s * y, b) \in Nat
        /\ Rounded(r * x, b) =< Rounded(s * y, b) /\ Rounded(s * y, b) =< s
        /\ y = b => (Rounded(r * x, b) - 1) * b =< Rounded(s * y, b) * x
    BY <1>2, <1>5
  <2> QED
    BY <2>1, <2>2, SMT
<1>8. PICK share \in Nat, share2 \in Nat :
          /\ share = ShareOf(v, p, b, x) /\ share2 = ShareOf(v, p, b, y)
          /\ share =< share2 /\ share2 =< j
          /\ y = b => (share - 1) * b =< share2 * x
  <2>1. ShareOf(v, p, b, x) = Rounded(i * x, b) /\ ShareOf(v, p, b, y) = Rounded(j * y, b)
    BY <1>6, SMT DEF ShareOf
  <2>2. /\ Rounded(i * x, b) \in Nat /\ Rounded(j * y, b) \in Nat
        /\ Rounded(i * x, b) =< Rounded(j * y, b) /\ Rounded(j * y, b) =< j
        /\ y = b => (Rounded(i * x, b) - 1) * b =< Rounded(j * y, b) * x
    <3>1. \A u \in Nat, w \in Nat : u =< w =>
              /\ Rounded(u * x, b) \in Nat /\ Rounded(w * y, b) \in Nat
              /\ Rounded(u * x, b) =< Rounded(w * y, b) /\ Rounded(w * y, b) =< w
              /\ y = b => (Rounded(u * x, b) - 1) * b =< Rounded(w * y, b) * x
      BY <1>2
    <3>2. i \in Nat /\ j \in Nat /\ i =< j
      BY <1>6
    <3> QED
      BY <3>1, <3>2
  <2> QED
    BY <2>1, <2>2, SMT
<1>9. ASSUME NEW u \in Nat
      PROVE  \E q \in Nat, q2 \in Nat :
                 /\ q = Rounded(u * x, b) /\ q2 = Rounded(u * y, b) /\ q =< q2 /\ q2 =< u
                 /\ y = b => (q - 1) * b =< q2 * x
                 /\ x < y => u =< 31 * (q2 - q) + 31
  <2>1. /\ Rounded(u * x, b) \in Nat /\ Rounded(u * y, b) \in Nat
        /\ Rounded(u * x, b) =< Rounded(u * y, b) /\ Rounded(u * y, b) =< u
        /\ y = b => (Rounded(u * x, b) - 1) * b =< Rounded(u * y, b) * x
    BY <1>2
  <2> QED
    BY <1>3, <2>1
<1>10. PICK con \in Nat, con2 \in Nat :
           /\ con = Rounded(160000 * x, b) /\ con2 = Rounded(160000 * y, b)
           /\ con =< con2 /\ con2 =< 160000
           /\ y = b => (con - 1) * b =< con2 * x
           /\ x < y => 160000 =< 31 * (con2 - con) + 31
  BY <1>9, SMT
<1>11. PICK med \in Nat, med2 \in Nat :
           /\ med = Rounded(125000 * x, b) /\ med2 = Rounded(125000 * y, b)
           /\ med =< med2 /\ med2 =< 125000
           /\ y = b => (med - 1) * b =< med2 * x
           /\ x < y => 125000 =< 31 * (med2 - med) + 31
  BY <1>9, SMT
<1>12. g = paid + hra + con + med + share /\ h = more + hra2 + con2 + med2 + share2
  BY <1>7, <1>8, <1>10, <1>11, SMT DEF GrossOf
<1>13. ASSUME y = b PROVE (g - 5) * b =< h * x
  <2>1. /\ (paid - 1) * b =< more * x /\ (hra - 1) * b =< hra2 * x /\ (con - 1) * b =< con2 * x
        /\ (med - 1) * b =< med2 * x /\ (share - 1) * b =< share2 * x
    BY <1>2, <1>7, <1>8, <1>10, <1>11, <1>13, SMT
  <2>2. \A k1, k2, k3, k4, k5 \in Int : /\ k1 * b \in Int /\ k1 * x \in Int
            /\ (k1 + k2 + k3 + k4 + k5) * b = k1 * b + k2 * b + k3 * b + k4 * b + k5 * b
            /\ (k1 + k2 + k3 + k4 + k5) * x = k1 * x + k2 * x + k3 * x + k4 * x + k5 * x
    BY <1>1, SMT
  <2>3. PICK k1 \in Int, k2 \in Int, k3 \in Int, k4 \in Int, k5 \in Int :
            /\ k1 = paid - 1 /\ k2 = hra - 1 /\ k3 = con - 1 /\ k4 = med - 1 /\ k5 = share - 1
            /\ g - 5 = k1 + k2 + k3 + k4 + k5
    BY <1>4, <1>12, SMT
  <2>4. (g - 5) * b = k1 * b + k2 * b + k3 * b + k4 * b + k5 * b
    <3>1. (k1 + k2 + k3 + k4 + k5) * b = k1 * b + k2 * b + k3 * b + k4 * b + k5 * b
      BY <2>2, SMT
    <3> QED
      BY <2>3, <3>1, SMT
  <2>5. h * x = more * x + hra2 * x + con2 * x + med2 * x + share2 * x
    BY <1>4, <1>12, <2>2, SMT
  <2>6. /\ k1 * b \in Int /\ k2 * b \in Int /\ k3 * b \in Int /\ k4 * b \in Int /\ k5 * b \in Int
        /\ more * x \in Int /\ hra2 * x \in Int /\ con2 * x \in Int /\ med2 * x \in Int
        /\ share2 * x \in Int
    BY <1>4, <2>2, SMT
  <2> QED
    BY <2>1, <2>3, <2>4, <2>5, <2>6, SMT
<1>14. ASSUME x < y
       PROVE  h - g >= (more - paid) + 9190 /\ (h > 1000000 => h - g >= 17300)
  <2>1. v =< 31 * (more - paid) + 31
    BY <1>3, <1>14, SMT
  <2>2. h - g = (more - paid) + (hra2 - hra) + (con2 - con) + (med2 - med) + (share2 - share)
    BY <1>4, <1>12, SMT
  <2>3. con2 - con >= 5160 /\ med2 - med >= 4031
    BY <1>10, <1>11, <1>14, SMT
  <2>4. h - g >= (more - paid) + 9190
    BY <1>4, <1>7, <1>8, <2>2, <2>3, SMT
  <2>5. ASSUME h > 1000000 PROVE h - g >= 17300
    <3>1. 100 * h =< 165 * v + 28500050
      BY <1>4, <1>5, <1>6, <1>7, <1>8, <1>10, <1>11, <1>12, SMT
    <3>2. h \in Int /\ g \in Int
      BY <1>4, <1>12, SMT
    <3>3. v >= 433333
      BY <2>5, <3>1, <3>2, SMT
    <3>4. more - paid >= 13977
      BY <1>4, <2>1, <3>3, SMT
    <3> QED
      BY <1>4, <2>4, <3>2, <3>4, SMT
  <2> QED
    BY <2>4, <2>5, SMT
<1>15. /\ g \in Nat /\ h \in Nat /\ paid =< g
       /\ x < y => Raise(paid, g, more, h)
  BY <1>4, <1>7, <1>8, <1>10, <1>11, <1>12, <1>14, SMT DEF Raise
<1> QED
  BY <1>4, <1>13, <1>15

\* The parts of the deductions in India: provident fund, state insurance and
\* professional tax.
IndiaTable(basic, gross, pf, esi, pt) ==
    /\ basic =< 1500000 => 24 * basic - 100 =< 200 * pf /\ 200 * pf =< 24 * basic + 100
    /\ basic > 1500000 => pf = 180000
    /\ gross =< 2100000 => /\ 150 * gross - 10000 =< 20000 * esi
                           /\ 20000 * esi =< 150 * gross + 10000
    /\ gross > 2100000 => esi = 0
    /\ gross =< 1000000 => pt = 0
    /\ gross > 1000000 /\ gross =< 1500000 => pt = 15000
    /\ gross > 1500000 => pt = 20000

\* A deduction never takes more than there is, never makes up for a negative
\* gross, and never takes more from a raise of the gross than the raise.
LEMMA Deducted ==
    ASSUME NEW basic \in Int, NEW gross \in Int, NEW more \in Int, NEW high \in Int
    PROVE  /\ IndiaDeductions(basic, gross) \in Int /\ UsDeductions(gross) \in Int
           /\ UkDeductions(gross) \in Int
           /\ 0 =< basic /\ basic =< gross =>
                  /\ gross - IndiaDeductions(basic, gross) >= 0
                  /\ gross - UsDeductions(gross) >= 0 /\ gross - UkDeductions(gross) >= 0
           /\ Debt(basic, gross) =>
                  /\ gross - IndiaDeductions(basic, gross) < 0
                  /\ gross - UsDeductions(gross) < 0 /\ gross - UkDeductions(gross) < 0
           /\ Raise(basic, gross, more, high) =>
                  /\ gross - IndiaDeductions(basic, gross) =< high - IndiaDeductions(more, high)
                  /\ gross - UsDeductions(gross) =< high - UsDeductions(high)
                  /\ gross - UkDeductions(gross) =< high - UkDeductions(high)
\* The rates of the tables are per hundred, per thousand and per ten thousand.
<1>0. ASSUME NEW a \in Int
      PROVE  /\ \E q \in Int : q = Rounded(a, 100) /\ 2 * a - 100 =< 200 * q /\ 200 * q =< 2 * a + 100
             /\ \E q \in Int : q = Rounded(a, 1000) /\ 2 * a - 1000 =< 2000 * q /\ 2000 * q =< 2 * a + 1000
             /\ \E q \in Int : /\ q = Rounded(a, 10000)
                               /\ 2 * a - 10000 =< 20000 * q /\ 20000 * q =< 2 * a + 10000
  <2>1. \A d \in Nat \ {0} : \E q \in Int : /\ q = Rounded(a, d)
                                           /\ 2 * a - d =< 2 * (d * q) /\ 2 * (d * q) =< 2 * a + d
    BY Rounding
  <2>2. \E q \in Int : q = Rounded(a, 100) /\ 2 * a - 100 =< 200 * q /\ 200 * q =< 2 * a + 100
    <3>1. PICK d \in Nat \ {0} : d = 100
      BY SMT
    <3>2. PICK q \in Int : q = Rounded(a, d) /\ 2 * a - d =< 2 * (d * q) /\ 2 * (d * q) =< 2 * a + d
      BY <2>1
    <3>3. 2 * a - 100 =< 200 * q /\ 200 * q =< 2 * a + 100
      BY <3>1, <3>2, SMT
    <3> QED
      BY <3>1, <3>2, <3>3, SMT
  <2>3. \E q \in Int : q = Rounded(a, 1000) /\ 2 * a - 1000 =< 2000 * q /\ 2000 * q =< 2 * a + 1000
    <3>1. PICK d \in Nat \ {0} : d = 1000
      BY SMT
    <3>2. PICK q \in Int : q = Rounded(a, d) /\ 2 * a - d =< 2 * (d * q) /\ 2 * (d * q) =< 2 * a + d
      BY <2>1
    <3>3. 2 * a - 1000 =< 2000 * q /\ 2000 * q =< 2 * a + 1000
      BY <3>1, <3>2, SMT
    <3> QED
      BY <3>1, <3>2, <3>3, SMT
  <2>4. \E q \in Int : /\ q = Rounded(a, 10000)
                       /\ 2 * a - 10000 =< 20000 * q /\ 20000 * q =< 2 * a + 10000
    <3>1. PICK d \in Nat \ {0} : d = 10000
      BY SMT
    <3>2. PICK q \in Int : q = Rounded(a, d) /\ 2 * a - d =< 2 * (d * q) /\ 2 * (d * q) =< 2 * a + d
      BY <2>1
    <3>3. 2 * a - 10000 =< 20000 * q /\ 20000 * q =< 2 * a + 10000
      BY <3>1, <3>2, SMT
    <3> QED
      BY <3>1, <3>2, <3>3, SMT
  <2> QED
    BY <2>2, <2>3, <2>4
\* What each country deducts.
<1>1. ASSUME NEW b \in Int, NEW g \in Int
      PROVE  \E pf \in Int, esi \in Int, pt \in Int :
                 /\ IndiaDeductions(b, g) = pf + esi + pt
                 /\ IndiaTable(b, g, pf, esi, pt)
  <2>1. PICK wage \in Int : wage = Min({b, 1500000}) /\ wage = IF b =< 1500000 THEN b ELSE 1500000
    BY SMT DEF Min
  <2>2. PICK pf \in Int : /\ pf = Rounded(wage * 12, 100)
                          /\ 2 * (wage * 12) - 100 =< 200 * pf /\ 200 * pf =< 2 * (wage * 12) + 100
    <3>1. PICK due \in Int : due = wage * 12
      BY SMT
    <3>2. PICK pf \in Int : /\ pf = Rounded(due, 100)
                            /\ 2 * due - 100 =< 200 * pf /\ 200 * pf =< 2 * due + 100
      BY <1>0, SMT
    <3> QED
      BY <3>1, <3>2
  <2>3. PICK due \in Int : /\ due = Rounded(g * 75, 10000)
                           /\ 2 * (g * 75) - 10000 =< 20000 * due
                           /\ 20000 * due =< 2 * (g * 75) + 10000
    <3>1. PICK esi \in Int : esi = g * 75
      BY SMT
    <3>2. PICK due \in Int : /\ due = Rounded(esi, 10000)
                             /\ 2 * esi - 10000 =< 20000 * due /\ 20000 * due =< 2 * esi + 10000
      BY <1>0, SMTT(30)
    <3> QED
      BY <3>1, <3>2
  <2>4. PICK esi \in Int : esi = IF g =< 2100000 THEN due ELSE 0
    BY SMT
  <2>5. PICK pt \in Int : pt = IF g > 1500000 THEN 20000 ELSE IF g > 1000000 THEN 15000 ELSE 0
    BY SMT
  <2>9. /\ g =< 1000000 => pt = 0
        /\ g > 1000000 /\ g =< 1500000 => pt = 15000
        /\ g > 1500000 => pt = 20000
    BY <2>5, SMT
  <2>6. IndiaDeductions(b, g) = pf + esi + pt
    BY <2>1, <2>2, <2>3, <2>4, <2>5, SMT DEF IndiaDeductions
  <2>7. /\ b =< 1500000 => 24 * b - 100 =< 200 * pf /\ 200 * pf =< 24 * b + 100
        /\ b > 1500000 => pf = 180000
    BY <2>1, <2>2, SMT
  <2>8. /\ g =< 2100000 => 150 * g - 10000 =< 20000 * esi /\ 20000 * esi =< 150 * g + 10000
        /\ g > 2100000 => esi = 0
    BY <2>3, <2>4, SMT
  <2> QED
    <3>1. IndiaTable(b, g, pf, esi, pt)
      BY <2>7, <2>8, <2>9, SMT DEF IndiaTable
    <3> QED
      BY <2>6, <3>1, SMT
<1>2. ASSUME NEW g \in Int
      PROVE  \E ss \in Int, medicare \in Int :
                 /\ UsDeductions(g) = ss + medicare
                 /\ 124 * g - 1000 =< 2000 * ss /\ 2000 * ss =< 124 * g + 1000
                 /\ 290 * g - 10000 =< 20000 * medicare /\ 20000 * medicare =< 290 * g + 10000
  <2>1. g * 62 \in Int /\ g * 145 \in Int
    BY SMT
  <2>2. PICK ss \in Int : /\ ss = Rounded(g * 62, 1000)
                          /\ 2 * (g * 62) - 1000 =< 2000 * ss /\ 2000 * ss =< 2 * (g * 62) + 1000
    <3>1. PICK due \in Int : due = g * 62
      BY <2>1
    <3>2. PICK ss \in Int : /\ ss = Rounded(due, 1000)
                            /\ 2 * due - 1000 =< 2000 * ss /\ 2000 * ss =< 2 * due + 1000
      BY <1>0, SMT
    <3> QED
      BY <3>1, <3>2
  <2>3. PICK medicare \in Int : /\ medicare = Rounded(g * 145, 10000)
                                /\ 2 * (g * 145) - 10000 =< 20000 * medicare
                                /\ 20000 * medicare =< 2 * (g * 145) + 10000
    <3>1. PICK due \in Int : due = g * 145
      BY <2>1
    <3>2. PICK medicare \in Int : /\ medicare = Rounded(due, 10000)
                                  /\ 2 * due - 10000 =< 20000 * medicare
                                  /\ 20000 * medicare =< 2 * due + 10000
      BY <1>0, SMTT(30)
    <3> QED
      BY <3>1, <3>2
  <2> QED
    BY <2>2, <2>3, SMT DEF UsDeductions
<1>3. ASSUME NEW g \in Int
      PROVE  \E insured \in Nat, ni \in Int :
                 /\ UkDeductions(g) = ni
                 /\ g =< 104750 => insured = 0
                 /\ g > 104750 /\ g =< 418900 => insured = g - 104750
                 /\ g > 418900 => insured = 314150
                 /\ 16 * insured - 100 =< 200 * ni /\ 200 * ni =< 16 * insured + 100
  <2>1. PICK upper \in Int : upper = Min({g, 418900}) /\ upper = IF g =< 418900 THEN g ELSE 418900
    BY SMT DEF Min
  <2>2. PICK insured \in Nat : /\ insured = Max({0, upper - 104750})
                               /\ insured = IF upper =< 104750 THEN 0 ELSE upper - 104750
    BY SMT DEF Max
  <2>3. PICK ni \in Int : /\ ni = Rounded(insured * 8, 100)
                          /\ 2 * (insured * 8) - 100 =< 200 * ni /\ 200 * ni =< 2 * (insured * 8) + 100
    <3>1. insured * 8 \in Int
      BY SMT
    <3> QED
      BY <1>0, <3>1, SMT
  <2>4. UkDeductions(g) = ni
    BY <2>1, <2>2, <2>3, SMT DEF UkDeductions
  <2>5. /\ g =< 418900 => upper = g
        /\ g > 418900 => upper = 418900
    BY <2>1, SMT
  <2>6. /\ upper =< 104750 => insured = 0
        /\ upper > 104750 => insured = upper - 104750
    BY <2>2, SMT
  <2>7. /\ g =< 104750 => insured = 0
        /\ g > 104750 /\ g =< 418900 => insured = g - 104750
        /\ g > 418900 => insured = 314150
    BY <2>5, <2>6, SMT
  <2> QED
    BY <2>3, <2>4, <2>7, SMT
\* At basic and gross, and at more and high.
<1>4. PICK pf \in Int, esi \in Int, pt \in Int :
          /\ IndiaDeductions(basic, gross) = pf + esi + pt
          /\ IndiaTable(basic, gross, pf, esi, pt)
  BY <1>1
<1>5. PICK pf2 \in Int, esi2 \in Int, pt2 \in Int :
          /\ IndiaDeductions(more, high) = pf2 + esi2 + pt2
          /\ IndiaTable(more, high, pf2, esi2, pt2)
  BY <1>1
<1>6. PICK ss \in Int, medicare \in Int :
          /\ UsDeductions(gross) = ss + medicare
          /\ 124 * gross - 1000 =< 2000 * ss /\ 2000 * ss =< 124 * gross + 1000
          /\ 290 * gross - 10000 =< 20000 * medicare /\ 20000 * medicare =< 290 * gross + 10000
  BY <1>2, SMT
<1>7. PICK ss2 \in Int, medicare2 \in Int :
          /\ UsDeductions(high) = ss2 + medicare2
          /\ 124 * high - 1000 =< 2000 * ss2 /\ 2000 * ss2 =< 124 * high + 1000
          /\ 290 * high - 10000 =< 20000 * medicare2 /\ 20000 * medicare2 =< 290 * high + 10000
  BY <1>2, SMT
<1>8. PICK insured \in Nat, ni \in Int :
          /\ UkDeductions(gross) = ni
          /\ gross =< 104750 => insured = 0
          /\ gross > 104750 /\ gross =< 418900 => insured = gross - 104750
          /\ gross > 418900 => insured = 314150
          /\ 16 * insured - 100 =< 200 * ni /\ 200 * ni =< 16 * insured + 100
  BY <1>3, SMT
<1>9. PICK insured2 \in Nat, ni2 \in Int :
          /\ UkDeductions(high) = ni2
          /\ high =< 104750 => insured2 = 0
          /\ high > 104750 /\ high =< 418900 => insured2 = high - 104750
          /\ high > 418900 => insured2 = 314150
          /\ 16 * insured2 - 100 =< 200 * ni2 /\ 200 * ni2 =< 16 * insured2 + 100
  BY <1>3, SMT
<1>10. ASSUME 0 =< basic, basic =< gross
       PROVE  /\ gross - (pf + esi + pt) >= 0 /\ gross - (ss + medicare) >= 0
              /\ gross - ni >= 0
  BY <1>4, <1>6, <1>8, <1>10, SMT DEF IndiaTable
<1>11. ASSUME Debt(basic, gross)
       PROVE  /\ gross - (pf + esi + pt) < 0 /\ gross - (ss + medicare) < 0
              /\ gross - ni < 0
  BY <1>4, <1>6, <1>8, <1>11, SMT DEF IndiaTable, Debt
<1>12. ASSUME Raise(basic, gross, more, high)
       PROVE  /\ gross - (pf + esi + pt) =< high - (pf2 + esi2 + pt2)
              /\ gross - (ss + medicare) =< high - (ss2 + medicare2)
              /\ gross - ni =< high - ni2
  <2>1. 200 * (pf2 - pf) =< 24 * (more - basic) + 200
    BY <1>4, <1>5, <1>12, SMT DEF IndiaTable, Raise
  <2>2. 20000 * (esi2 - esi) =< 150 * (high - gross) + 20000
    BY <1>4, <1>5, <1>12, SMT DEF IndiaTable, Raise
  <2>3. pt2 - pt =< 20000
    BY <1>4, <1>5, SMT DEF IndiaTable
  <2>4. gross - (pf + esi + pt) =< high - (pf2 + esi2 + pt2)
    BY <1>4, <1>5, <1>12, <2>1, <2>2, <2>3, SMT DEF IndiaTable, Raise
  <2>5. gross - (ss + medicare) =< high - (ss2 + medicare2)
    BY <1>6, <1>7, <1>12, SMT DEF Raise
  <2>6. gross - ni =< high - ni2
    BY <1>8, <1>9, <1>12, SMT DEF Raise
  <2> QED
    BY <2>4, <2>5, <2>6, SMT
<1>13. /\ IndiaDeductions(basic, gross) = pf + esi + pt
       /\ IndiaDeductions(more, high) = pf2 + esi2 + pt2
       /\ UsDeductions(gross) = ss + medicare /\ UsDeductions(high) = ss2 + medicare2
       /\ UkDeductions(gross) = ni /\ UkDeductions(high) = ni2
  BY <1>4, <1>5, <1>6, <1>7, <1>8, <1>9, SMT
<1> QED
  BY <1>10, <1>11, <1>12, <1>13, SMT

\* Beyond the working days, by m and by n days: BASIC and the fixed amounts are
\* negative, HRA is nothing and the percentage of BASIC positive again.
LEMMA BeyondMonth ==
    ASSUME NEW b \in Nat \ {0}, b =< 31, NEW v \in Nat, NEW p \in {0, 25},
           NEW m \in Nat \ {0}, NEW n \in Nat, m =< n, 2 * n =< b,
           NEW paid, paid = Rounded(v * (-n), b), NEW more, more = Rounded(v * (-m), b),
           NEW g, g = GrossOf(v, p, b, -n), NEW h, h = GrossOf(v, p, b, -m)
    PROVE  /\ paid \in Int /\ more \in Int /\ g \in Int /\ h \in Int
           /\ Debt(paid, g)
           /\ m < n => Raise(paid, g, more, h)
<1>0. n \in Nat \ {0} /\ 2 * m =< b
  BY SMT
<1>1. \A a \in Nat : /\ Rounded(-a, b) = -Rounded(a, b) /\ Rounded(a, b) \in Nat
                     /\ 2 * a - b =< 2 * (b * Rounded(a, b))
                     /\ 2 * (b * Rounded(a, b)) =< 2 * a + b
                     /\ \A c \in Nat : a =< c => Rounded(a, b) =< Rounded(c, b)
  <2>1. ASSUME NEW a \in Nat PROVE Rounded(a, b) \in Nat /\ Rounded(-a, b) = -Rounded(a, b)
    <3>1. \A q \in Nat, d \in Nat \ {0} : q \div d \in Nat
      OBVIOUS
    <3>2. PICK q \in Nat : q = (2 * a + b) \div (2 * b)
      <4>1. 2 * a + b \in Nat /\ 2 * b \in Nat \ {0}
        BY SMT
      <4> QED
        BY <3>1, <4>1
    <3>3. Rounded(a, b) = q
      BY <3>2 DEF Rounded
    <3>4. CASE a = 0
      <4>1. b \div (2 * b) = 0
        BY SMT
      <4>2. q = 0
        BY <3>2, <3>4, <4>1, SMT
      <4>3. -a = a
        <5>1. \A z \in Int : z + z = 0 => -z = z
          OBVIOUS
        <5>2. a + a = 0
          BY <3>4
        <5> QED
          BY <5>1, <5>2
      <4> QED
        BY <3>3, <4>2, <4>3, SMT
    <3>5. CASE a > 0
      <4>1. ~(-a >= 0) /\ b - 2 * (-a) = 2 * a + b
        BY <3>5, SMT
      <4>2. Rounded(-a, b) = -((b - 2 * (-a)) \div (2 * b))
        BY <4>1 DEF Rounded
      <4> QED
        BY <3>2, <3>3, <4>1, <4>2
    <3> QED
      BY <3>4, <3>5, SMT
  <2>2. \A a \in Int : /\ 2 * a - b =< 2 * (b * Rounded(a, b))
                       /\ 2 * (b * Rounded(a, b)) =< 2 * a + b
                       /\ \A c \in Int : a =< c => Rounded(a, b) =< Rounded(c, b)
    BY Rounding
  <2>3. \A a \in Nat : a \in Int
    BY SMT
  <2> QED
    BY <2>1, <2>2, <2>3
\* What is paid of u, and how it grows with the days.
<1>2. ASSUME NEW u \in Nat, NEW k \in Nat \ {0}, 2 * k =< b
      PROVE  \E q \in Nat : /\ Rounded(u * (-k), b) = -q /\ q = Rounded(u * k, b)
                            /\ 2 * (u * k) - b =< 2 * (b * q) /\ 2 * (b * q) =< 2 * (u * k) + b
  <2>1. u * (-k) = -(u * k) /\ u * k \in Nat
    BY SMT
  <2> QED
    BY <1>1, <2>1
<1>3. ASSUME NEW u \in Nat, NEW q \in Int, NEW l \in Int,
             2 * (b * q) =< 2 * (u * m) + b, 2 * (u * n) - b =< 2 * (b * l)
      PROVE  /\ m < n => u =< 31 * (l - q) + 31
             /\ u * (n - m) =< b * ((l - q) + 1)
  <2>1. /\ b * q \in Int /\ b * l \in Int /\ b * (l - q) = b * l - b * q
        /\ b * ((l - q) + 1) = b * l - b * q + b
        /\ u * m \in Nat /\ u * n \in Nat /\ u * (n - m) = u * n - u * m
    BY SMT
  <2>2. u * (n - m) =< b * ((l - q) + 1)
    BY <1>3, <2>1, SMT
  <2>3. ASSUME m < n PROVE u =< 31 * (l - q) + 31
    <3>1. PICK d \in Nat : d = (n - m) - 1
      BY <2>3, SMT
    <3>2. u * (n - m) = u * d + u /\ u * d \in Nat
      <4>1. n - m = d + 1
        BY <3>1, SMT
      <4> QED
        BY <4>1, SMT
    <3>3. PICK e \in Int : e = (l - q) + 1
      BY SMT
    <3>4. u =< b * e /\ b * e \in Int
      BY <2>1, <2>2, <3>2, <3>3, SMT
    <3>5. e >= 0 => b * e =< 31 * e
      BY <3>3, SMT
    <3>6. e < 0 => b * e < 0
      BY <3>3, SMT
    <3> QED
      BY <3>3, <3>4, <3>5, <3>6, SMT
  <2> QED
    BY <2>2, <2>3
\* BASIC, the fixed amounts, HRA and the percentage.
<1>4. PICK cut \in Nat, less \in Nat :
          /\ paid = -cut /\ more = -less
          /\ 2 * (v * n) - b =< 2 * (b * cut) /\ 2 * (b * less) =< 2 * (v * m) + b
          /\ less =< cut
  <2>1. PICK cut \in Nat : /\ Rounded(v * (-n), b) = -cut /\ cut = Rounded(v * n, b)
                           /\ 2 * (v * n) - b =< 2 * (b * cut)
    BY <1>0, <1>2
  <2>2. PICK less \in Nat : /\ Rounded(v * (-m), b) = -less /\ less = Rounded(v * m, b)
                            /\ 2 * (b * less) =< 2 * (v * m) + b
    BY <1>0, <1>2
  <2>3. v * m \in Nat /\ v * n \in Nat /\ v * m =< v * n
    BY SMT
  <2>4. less =< cut
    BY <1>1, <2>1, <2>2, <2>3
  <2> QED
    BY <2>1, <2>2, <2>4
<1>5. ASSUME NEW u \in Nat
      PROVE  \E q \in Nat, l \in Nat :
                 /\ Rounded(u * (-m), b) = -q /\ Rounded(u * (-n), b) = -l
                 /\ 2 * u - b =< 2 * (b * q) /\ 2 * u - b =< 2 * (b * l)
                 /\ m < n => u =< 31 * (l - q) + 31
  <2>1. PICK q \in Nat : /\ Rounded(u * (-m), b) = -q
                         /\ 2 * (u * m) - b =< 2 * (b * q) /\ 2 * (b * q) =< 2 * (u * m) + b
    BY <1>0, <1>2
  <2>2. PICK l \in Nat : /\ Rounded(u * (-n), b) = -l
                         /\ 2 * (u * n) - b =< 2 * (b * l) /\ 2 * (b * l) =< 2 * (u * n) + b
    BY <1>0, <1>2
  <2>3. u =< u * m /\ u =< u * n /\ u * m \in Nat /\ u * n \in Nat
    BY <1>0, SMT
  <2>4. m < n => u =< 31 * (l - q) + 31
    BY <1>3, <2>1, <2>2
  <2>5. b * q \in Int /\ b * l \in Int
    BY SMT
  <2>6. 2 * u - b =< 2 * (b * q) /\ 2 * u - b =< 2 * (b * l)
    BY <2>1, <2>2, <2>3, <2>5, SMT
  <2> QED
    BY <2>1, <2>2, <2>4, <2>6
<1>6. \A u \in Nat, q \in Nat : 2 * u - b =< 2 * (b * q) => 2 * u =< 62 * q + 31
  <2> SUFFICES ASSUME NEW u \in Nat, NEW q \in Nat, 2 * u - b =< 2 * (b * q)
               PROVE  2 * u =< 62 * q + 31
    BY SMT
  <2>1. b * q =< 31 * q /\ b * q \in Nat
    BY SMT
  <2> QED
    BY <2>1, SMT
<1>7. PICK con \in Nat, con2 \in Nat :
          /\ Rounded(160000 * (-m), b) = -con /\ Rounded(160000 * (-n), b) = -con2
          /\ con >= 5160 /\ con2 >= 5160
          /\ m < n => con2 - con >= 5160
  <2>1. PICK u \in Nat : u = 160000
    BY SMT
  <2>2. PICK q \in Nat, l \in Nat : /\ Rounded(u * (-m), b) = -q /\ Rounded(u * (-n), b) = -l
                                    /\ 2 * u - b =< 2 * (b * q) /\ 2 * u - b =< 2 * (b * l)
                                    /\ m < n => u =< 31 * (l - q) + 31
    BY <1>5
  <2>3. 2 * u =< 62 * q + 31 /\ 2 * u =< 62 * l + 31
    BY <1>6, <2>2
  <2> QED
    BY <2>1, <2>2, <2>3, SMT
<1>8. PICK med \in Nat, med2 \in Nat :
          /\ Rounded(125000 * (-m), b) = -med /\ Rounded(125000 * (-n), b) = -med2
          /\ med >= 4031 /\ med2 >= 4031
          /\ m < n => med2 - med >= 4031
  <2>1. PICK u \in Nat : u = 125000
    BY SMT
  <2>2. PICK q \in Nat, l \in Nat : /\ Rounded(u * (-m), b) = -q /\ Rounded(u * (-n), b) = -l
                                    /\ 2 * u - b =< 2 * (b * q) /\ 2 * u - b =< 2 * (b * l)
                                    /\ m < n => u =< 31 * (l - q) + 31
    BY <1>5
  <2>3. 2 * u =< 62 * q + 31 /\ 2 * u =< 62 * l + 31
    BY <1>6, <2>2
  <2> QED
    BY <2>1, <2>2, <2>3, SMT
<1>9. ASSUME NEW k \in Int, NEW q \in Nat, Rounded(v * k, b) = -q PROVE HraOf(v, b, k) = 0
  <2>1. PICK r \in Int : r = Rounded((-q) * 40, 100) /\ r =< 0
    <3>1. (-q) * 40 \in Int /\ (-q) * 40 =< 0
      BY SMT
    <3>2. PICK a \in Int, d \in Nat \ {0} : a = (-q) * 40 /\ a =< 0 /\ d = 100
      BY <3>1, SMT
    <3>3. \A c \in Int : a =< c => Rounded(a, d) \in Int /\ Rounded(a, d) =< Rounded(c, d)
      BY Rounding
    <3>4. 0 \in Int /\ 0 = 0 * d
      BY SMT
    <3>5. Rounded(0, d) = 0
      BY <3>4, Rounding
    <3> QED
      BY <3>2, <3>3, <3>4, <3>5
  <2>2. Formula(-q, 40) = 0
    BY <2>1, SMT DEF Formula, Max
  <2>3. 0 * k = 0 /\ 0 \in Int /\ 0 = 0 * b
    BY SMT
  <2>4. Rounded(0, b) = 0
    BY <2>3, Rounding
  <2> QED
    BY <1>9, <2>2, <2>3, <2>4 DEF HraOf
<1>10. ASSUME NEW k \in Nat \ {0}, 2 * k =< b, NEW q \in Nat, Rounded(v * (-k), b) = -q
       PROVE  \E s \in Nat, w \in Nat :
                  /\ ShareOf(v, p, b, -k) = w
                  /\ p = 0 => s = 0
                  /\ p = 25 => q =< 4 * s /\ 4 * s =< q + 3
                  /\ 2 * (s * k) - b =< 2 * (b * w) /\ 2 * (b * w) =< 2 * (s * k) + b
  <2>1. PICK s \in Nat : /\ ((-q) * p) \div 100 = -s
                         /\ p = 0 => s = 0
                         /\ p = 25 => q =< 4 * s /\ 4 * s =< q + 3
    <3>1. CASE p = 0
      <4>1. (-q) * p = 0 /\ 0 \div 100 = 0
        BY <3>1, SMT
      <4>2. PICK s \in Nat : s + s = 0
        BY SMT
      <4>3. -s = s /\ s = 0
        <5>1. \A z \in Int : z + z = 0 => -z = z
          OBVIOUS
        <5> QED
          BY <4>2, <5>1
      <4>4. p # 25
        BY <3>1, SMT
      <4> QED
        BY <4>1, <4>3, <4>4
    <3>2. CASE p = 25
      <4>1. PICK z \in Int : z = ((-q) * 25) \div 100 /\ 100 * z =< -25 * q /\ -25 * q < 100 * z + 100
        BY SMT
      <4>2. PICK s \in Nat : s = -z
        BY <4>1, SMT
      <4>3. z = -s /\ q =< 4 * s /\ 4 * s =< q + 3
        BY <4>1, <4>2, SMT
      <4>4. p # 0
        BY <3>2, SMT
      <4> QED
        BY <3>2, <4>1, <4>3, <4>4
    <3> QED
      BY <3>1, <3>2
  <2>2. (-s) * (-k) = s * k /\ s * k \in Nat
    BY SMT
  <2>3. ShareOf(v, p, b, -k) = Rounded(s * k, b)
    BY <1>10, <2>1, <2>2 DEF ShareOf
  <2> QED
    BY <1>1, <2>1, <2>2, <2>3
<1>11. ASSUME NEW k \in Nat \ {0}, 2 * k =< b, NEW q \in Nat, NEW s \in Nat, NEW w \in Nat,
              4 * s =< q + 3, 2 * (b * w) =< 2 * (s * k) + b
       PROVE  8 * w =< q + 7
  <2>1. 2 * (s * k) =< s * b
    <3>1. s * (2 * k) =< s * b
      BY <1>11, SMT
    <3>2. s * (2 * k) = 2 * (s * k)
      BY SMT
    <3> QED
      BY <3>1, <3>2
  <2>2. s * b + b = b * (s + 1) /\ b * (s + 1) \in Int /\ s * b \in Int /\ s * k \in Int
        /\ b * (2 * w) = 2 * (b * w) /\ b * w \in Int
    BY SMT
  <2>3. b * (2 * w) =< b * (s + 1)
    BY <1>11, <2>1, <2>2, SMT
  <2>4. 2 * w =< s + 1
    <3>1. \A i, j \in Int : b * i =< b * j => i =< j
      BY SMT
    <3> QED
      BY <2>3, <3>1, SMT
  <2> QED
    BY <1>11, <2>4, SMT
<1>12. PICK s \in Nat, w \in Nat, s2 \in Nat, w2 \in Nat :
           /\ ShareOf(v, p, b, -m) = w /\ ShareOf(v, p, b, -n) = w2
           /\ 4 * s =< less + 3 /\ 4 * s2 =< cut + 3
           /\ s =< s2 /\ 4 * (s2 - s) =< (cut - less) + 3
           /\ 2 * (s * m) - b =< 2 * (b * w) /\ 2 * (b * w) =< 2 * (s * m) + b
           /\ 2 * (b * w2) =< 2 * (s2 * n) + b
  <2>1. PICK s \in Nat, w \in Nat :
            /\ ShareOf(v, p, b, -m) = w
            /\ p = 0 => s = 0
            /\ p = 25 => less =< 4 * s /\ 4 * s =< less + 3
            /\ 2 * (s * m) - b =< 2 * (b * w) /\ 2 * (b * w) =< 2 * (s * m) + b
    BY <1>0, <1>4, <1>10
  <2>2. PICK s2 \in Nat, w2 \in Nat :
            /\ ShareOf(v, p, b, -n) = w2
            /\ p = 0 => s2 = 0
            /\ p = 25 => cut =< 4 * s2 /\ 4 * s2 =< cut + 3
            /\ 2 * (b * w2) =< 2 * (s2 * n) + b
    BY <1>0, <1>4, <1>10
  <2>3. p = 0 \/ p = 25
    OBVIOUS
  <2>4. /\ 4 * s =< less + 3 /\ 4 * s2 =< cut + 3
        /\ s =< s2 /\ 4 * (s2 - s) =< (cut - less) + 3
    <3>1. CASE p = 0
      BY <1>4, <2>1, <2>2, <3>1, SMT
    <3>2. CASE p = 25
      BY <1>4, <2>1, <2>2, <3>2, SMT
    <3> QED
      BY <2>3, <3>1, <3>2
  <2> QED
    BY <2>1, <2>2, <2>4
<1>13. 8 * w =< less + 7 /\ 8 * w2 =< cut + 7
  BY <1>0, <1>11, <1>12
<1>14. g = w2 - cut - con2 - med2 /\ h = w - less - con - med
  <2>1. HraOf(v, b, -n) = 0 /\ HraOf(v, b, -m) = 0
    <3>1. -n \in Int /\ -m \in Int
      BY SMT
    <3> QED
      BY <1>4, <1>9, <3>1
  <2> QED
    BY <1>4, <1>7, <1>8, <1>12, <2>1, SMT DEF GrossOf
\* The percentage grows by an eighth of what BASIC loses twice.
<1>15. ASSUME m < n PROVE 4 * (w2 - w) =< (cut - less) + 8
  <2>1. PICK d \in Nat, f \in Nat, z \in Nat : d = cut - less /\ f = s2 - s /\ z = n - m
    BY <1>4, <1>12, SMT
  <2>2. v * z =< b * (d + 1) /\ 4 * s =< less + 3 /\ 4 * f =< d + 3
    BY <1>3, <1>4, <1>12, <2>1
  <2>3. PICK e \in Nat : e = b * (d + 1) /\ e = b * d + b
    BY SMT
  <2>4. 4 * (less * z) =< 2 * e + b
    <3>1. PICK y \in Nat, a \in Nat, u \in Nat : y = v * z /\ a = b * less /\ u = v * m
      BY SMT
    <3>2. y =< e /\ 2 * a =< 2 * u + b
      BY <1>4, <2>2, <2>3, <3>1, SMT
    <3>3. 2 * (a * z) =< 2 * (u * z) + b * z
      <4>1. (2 * a) * z =< (2 * u + b) * z
        BY <3>2, SMT
      <4>2. (2 * a) * z = 2 * (a * z) /\ (2 * u + b) * z = 2 * (u * z) + b * z
        BY SMT
      <4> QED
        BY <4>1, <4>2
    <3>4. u * z = m * y
      BY <3>1, SMT
    <3>5. m * y =< m * e /\ 2 * (m * e) =< b * e
      <4>1. m * y =< m * e /\ (2 * m) * e =< b * e
        BY <1>0, <3>2, SMT
      <4>2. (2 * m) * e = 2 * (m * e)
        BY SMT
      <4> QED
        BY <4>1, <4>2
    <3>6. b * (2 * (less * z)) =< b * (e + z)
      <4>1. b * (2 * (less * z)) = 2 * (a * z) /\ b * (e + z) = b * e + b * z
        BY <3>1, SMT
      <4>2. /\ a * z \in Int /\ u * z \in Int /\ b * z \in Int /\ m * y \in Int /\ m * e \in Int
            /\ b * e \in Int
        BY SMT
      <4> QED
        BY <3>3, <3>4, <3>5, <4>1, <4>2, SMT
    <3>7. 2 * (less * z) =< e + z
      <4>1. \A i, j \in Int : b * i =< b * j => i =< j
        BY SMT
      <4>2. 2 * (less * z) \in Int /\ e + z \in Int
        BY SMT
      <4> QED
        BY <3>6, <4>1, <4>2
    <3>8. less * z \in Int
      BY SMT
    <3> QED
      BY <2>1, <3>7, <3>8, SMT
  <2>5. 16 * (s * z) =< 2 * e + 7 * b
    <3>1. (4 * s) * z =< (less + 3) * z
      BY <2>2, SMT
    <3>2. (4 * s) * z = 4 * (s * z) /\ (less + 3) * z = less * z + 3 * z
      BY SMT
    <3>3. s * z \in Int /\ less * z \in Int
      BY SMT
    <3> QED
      BY <2>1, <2>4, <3>1, <3>2, <3>3, SMT
  <2>6. 2 * (f * n) =< b * f
    <3>1. f * (2 * n) =< f * b
      BY SMT
    <3> QED
      BY <3>1, SMT
  <2>7. s2 * n - s * m = f * n + s * z
    <3>1. s2 = s + f /\ m = n - z
      BY <2>1, SMT
    <3>2. (s + f) * n - s * (n - z) = f * n + s * z
      BY SMT
    <3> QED
      BY <3>1, <3>2
  <2>8. b * (32 * (w2 - w)) =< b * (16 * f + 4 * d + 50)
    <3>1. b * (32 * (w2 - w)) = 32 * (b * w2) - 32 * (b * w)
      BY SMT
    <3>2. b * (16 * f + 4 * d + 50) = 16 * (b * f) + 4 * (b * d) + 50 * b
      BY SMT
    <3>3. /\ b * w2 \in Int /\ b * w \in Int /\ b * f \in Int /\ b * d \in Int
          /\ s2 * n \in Int /\ s * m \in Int /\ f * n \in Int /\ s * z \in Int
      BY SMT
    <3> QED
      BY <1>12, <2>3, <2>5, <2>6, <2>7, <3>1, <3>2, <3>3, SMT
  <2>9. 32 * (w2 - w) =< 16 * f + 4 * d + 50
    <3>1. \A i, j \in Int : b * i =< b * j => i =< j
      BY SMT
    <3>2. 32 * (w2 - w) \in Int /\ 16 * f + 4 * d + 50 \in Int
      BY SMT
    <3> QED
      BY <2>8, <3>1, <3>2
  <2> QED
    BY <2>1, <2>2, <2>9, SMT
<1>16. ASSUME m < n PROVE 4 * (h - g) >= 3 * (more - paid) + 36000
  BY <1>4, <1>7, <1>8, <1>12, <1>14, <1>15, <1>16, SMT
<1>17. /\ paid \in Int /\ more \in Int /\ g \in Int /\ h \in Int /\ paid =< more /\ h =< 0
       /\ Debt(paid, g)
  BY <1>4, <1>7, <1>8, <1>12, <1>13, <1>14, SMT DEF Debt
<1> QED
  BY <1>16, <1>17, SMT DEF Raise

\* For every contract and every history of the month, the days without pay leave
\* a gross of at most the share of the days worked and no debt, as long as they
\* are working days; more of them are a negative payslip; and one more of them
\* never leaves more, across the steps of the tables.
THEOREM PaidInProportion == Spec => []PayIsProportionate
<1>1. PICK b \in Nat \ {0} : b = WorkingDays /\ b =< LastDay /\ b =< 31 /\ 2 * (LastDay - b) =< b
  <2>1. IsFiniteSet(Month) /\ Cardinality(Month) = LastDay /\ LastDay \in Nat \ {0}
    BY MonthAssumption, FS_Interval DEF Month
  <2>2. IsFiniteSet(Weekend) /\ Cardinality(Weekend) \in Nat
    BY <2>1, PayslipAssumption, FS_Subset, FS_CardinalityType
  <2>3. WorkingDays = Cardinality(Month) - Cardinality(Month \intersect Weekend)
    BY <2>1, FS_Difference DEF WorkingDays
  <2>4. Month \intersect Weekend = Weekend
    BY PayslipAssumption
  <2>5. PICK last \in Nat, off \in Nat : last = LastDay /\ off = Cardinality(Weekend)
    BY <2>1, <2>2
  <2>6. last >= 1 /\ last =< 31 /\ 3 * off =< last /\ WorkingDays = last - off
    <3>1. WorkingDays = last - off
      BY <2>1, <2>3, <2>4, <2>5
    <3>2. last \in Nat \ {0} /\ last =< 31 /\ 3 * off =< last
      BY <2>1, <2>5, CalendarAssumption
    <3> QED
      BY <3>1, <3>2
  <2> QED
    BY <2>5, <2>6
<1>2. LastDay \in Nat
  BY MonthAssumption
\* What a contract is paid and left with, at k days.
<1> DEFINE Basic(c, k) == Rounded(c.basic * (b - k), b)
           Total(c, k) == GrossOf(c.basic, c.percent, b, b - k)
<1>3. ASSUME NEW c \in Contracts
      PROVE  /\ c.basic \in Nat /\ c.percent \in {0, 25} /\ c.country \in {"IN", "US", "GB", "AE"}
             /\ \A k \in Int : Gross(c, k) = Total(c, k) /\ Earnings(c, k).BASIC = Basic(c, k)
  <2>1. c.basic \in Nat /\ c.percent \in {0, 25} /\ c.country \in {"IN", "US", "GB", "AE"}
    BY PayslipAssumption DEF Contracts
  <2>2. ASSUME NEW k \in Int
        PROVE  Gross(c, k) = Total(c, k) /\ Earnings(c, k).BASIC = Basic(c, k)
    <3> DEFINE x == b - k
    <3>1. \A v : AfterLop(v, k) = Rounded(v * x, b)
      BY <1>1 DEF AfterLop
    <3>2. PICK e : e = Earnings(c, k)
      OBVIOUS
    <3>3. /\ e.BASIC = Rounded(c.basic * x, b) /\ e.HRA = HraOf(c.basic, b, x)
          /\ e.CONVEYANCE = Rounded(160000 * x, b) /\ e.MEDICAL = Rounded(125000 * x, b)
          /\ e.SHARE = ShareOf(c.basic, c.percent, b, x)
      BY <3>1, <3>2, SMT DEF Earnings, Seed, HraOf, ShareOf
    <3>4. Gross(c, k) = e.BASIC + e.HRA + e.CONVEYANCE + e.MEDICAL + e.SHARE
      BY <3>2, SMT DEF Gross
    <3>5. /\ Basic(c, k) = Rounded(c.basic * x, b)
          /\ Total(c, k) = Rounded(c.basic * x, b) + HraOf(c.basic, b, x)
                  + Rounded(160000 * x, b) + Rounded(125000 * x, b)
                  + ShareOf(c.basic, c.percent, b, x)
      BY DEF GrossOf
    <3> HIDE DEF Basic, Total, x
    <3> QED
      BY <3>2, <3>3, <3>4, <3>5, SMT
  <2> QED
    BY <2>1, <2>2
<1> HIDE DEF Basic, Total
<1>4. ASSUME NEW c \in Contracts, NEW k \in Int, NEW m \in Int,
             Basic(c, k) \in Int, Total(c, k) \in Int, Basic(c, m) \in Int, Total(c, m) \in Int
      PROVE  /\ NetPay(c, k) \in Int /\ NetPay(c, m) \in Int
             /\ 0 =< Basic(c, k) /\ Basic(c, k) =< Total(c, k) => NetPay(c, k) >= 0
             /\ Debt(Basic(c, k), Total(c, k)) => NetPay(c, k) < 0
             /\ Raise(Basic(c, k), Total(c, k), Basic(c, m), Total(c, m))
                    => NetPay(c, k) =< NetPay(c, m)
  <2>1. PICK basic \in Int, gross \in Int, more \in Int, high \in Int :
            /\ basic = Basic(c, k) /\ gross = Total(c, k) /\ more = Basic(c, m) /\ high = Total(c, m)
    BY <1>4, SMT
  <2>2. /\ Gross(c, k) = gross /\ Gross(c, m) = high
        /\ Earnings(c, k).BASIC = basic /\ Earnings(c, m).BASIC = more
    BY <1>3, <2>1, SMT
  <2>7. /\ IndiaDeductions(basic, gross) \in Int /\ UsDeductions(gross) \in Int
        /\ UkDeductions(gross) \in Int
        /\ IndiaDeductions(more, high) \in Int /\ UsDeductions(high) \in Int
        /\ UkDeductions(high) \in Int
        /\ 0 =< basic /\ basic =< gross =>
               /\ gross - IndiaDeductions(basic, gross) >= 0
               /\ gross - UsDeductions(gross) >= 0 /\ gross - UkDeductions(gross) >= 0
        /\ Debt(basic, gross) =>
               /\ gross - IndiaDeductions(basic, gross) < 0
               /\ gross - UsDeductions(gross) < 0 /\ gross - UkDeductions(gross) < 0
        /\ Raise(basic, gross, more, high) =>
               /\ gross - IndiaDeductions(basic, gross) =< high - IndiaDeductions(more, high)
               /\ gross - UsDeductions(gross) =< high - UsDeductions(high)
               /\ gross - UkDeductions(gross) =< high - UkDeductions(high)
    BY Deducted
  <2>3. CASE c.country = "US"
    <3>1. NetPay(c, k) = gross - UsDeductions(gross) /\ NetPay(c, m) = high - UsDeductions(high)
      BY <2>2, <2>3, SMT DEF NetPay, Deductions
    <3> QED
      BY <2>1, <2>7, <3>1
  <2>4. CASE c.country = "GB"
    <3>1. NetPay(c, k) = gross - UkDeductions(gross) /\ NetPay(c, m) = high - UkDeductions(high)
      BY <2>2, <2>4, SMT DEF NetPay, Deductions
    <3> QED
      BY <2>1, <2>7, <3>1
  <2>5. CASE c.country = "AE"
    <3>1. NetPay(c, k) = gross /\ NetPay(c, m) = high
      BY <2>2, <2>5, SMT DEF NetPay, Deductions
    <3> QED
      BY <2>1, <3>1, SMT DEF Debt, Raise
  <2>6. CASE c.country = "IN"
    <3>1. /\ NetPay(c, k) = gross - IndiaDeductions(basic, gross)
          /\ NetPay(c, m) = high - IndiaDeductions(more, high)
      BY <2>2, <2>6, SMT DEF NetPay, Deductions
    <3> QED
      BY <2>1, <2>7, <3>1
  <2> QED
    BY <1>3, <2>3, <2>4, <2>5, <2>6
<1>5. ASSUME NEW c \in Contracts, NEW k \in 0..b, NEW m \in 0..k
      PROVE  /\ Basic(c, k) \in Nat /\ Total(c, k) \in Nat /\ Basic(c, m) \in Nat /\ Total(c, m) \in Nat
             /\ Basic(c, k) =< Basic(c, m) /\ Basic(c, k) =< Total(c, k)
             /\ (Total(c, k) - 5) * b =< Total(c, 0) * (b - k)
             /\ m < k => Raise(Basic(c, k), Total(c, k), Basic(c, m), Total(c, m))
  <2>1. PICK x \in 0..b, y \in 0..b : x = b - k /\ y = b - m /\ y \in x..b
    BY SMT
  <2>2. PICK v \in Nat, p \in {0, 25} : v = c.basic /\ p = c.percent
    BY <1>3
  <2>3. PICK paid, more, g, h, all : /\ paid = Rounded(v * x, b) /\ more = Rounded(v * y, b)
                                     /\ g = GrossOf(v, p, b, x) /\ h = GrossOf(v, p, b, y)
                                     /\ all = GrossOf(v, p, b, b)
    OBVIOUS
  <2>4. /\ paid = Basic(c, k) /\ more = Basic(c, m) /\ g = Total(c, k) /\ h = Total(c, m)
        /\ all = Total(c, 0)
    BY <2>1, <2>2, <2>3 DEF Basic, Total
  <2>5. /\ paid \in Nat /\ more \in Nat /\ g \in Nat /\ h \in Nat /\ paid =< more /\ paid =< g
        /\ x < y => Raise(paid, g, more, h)
    <3>1. b =< 31 /\ y \in x..b
      BY <1>1, <2>1
    <3>2. x < y => Raise(paid, g, more, h)
      BY <2>3, <3>1, WithinMonth
    <3>3. paid \in Nat /\ more \in Nat /\ paid =< more
      BY <2>3, <3>1, WithinMonth
    <3>4. g \in Nat /\ h \in Nat /\ paid =< g
      <4>1. g \in Nat
        BY <2>3, <3>1, WithinMonth
      <4>2. h \in Nat
        BY <2>3, <3>1, WithinMonth
      <4>3. paid =< g
        BY <2>3, <3>1, WithinMonth
      <4> QED
        BY <4>1, <4>2, <4>3
    <3> QED
      BY <3>2, <3>3, <3>4
  <2>6. (g - 5) * b =< all * x
    <3>1. b \in 0..b /\ b \in x..b
      BY SMT
    <3> QED
      BY <1>1, <2>3, <3>1, WithinMonth
  <2>7. m < k => x < y
    BY <2>1, SMT
  <2> QED
    BY <2>1, <2>4, <2>5, <2>6, <2>7
<1>6. ASSUME NEW c \in Contracts, NEW k \in 0..LastDay, NEW m \in 0..k, m > b
      PROVE  /\ Basic(c, k) \in Int /\ Total(c, k) \in Int /\ Basic(c, m) \in Int /\ Total(c, m) \in Int
             /\ Debt(Basic(c, k), Total(c, k))
             /\ m < k => Raise(Basic(c, k), Total(c, k), Basic(c, m), Total(c, m))
\* The net of fewer days, and of more.
  <2>1. PICK j \in Nat \ {0}, n \in Nat : j = m - b /\ n = k - b /\ j =< n /\ 2 * n =< b
    BY <1>1, <1>2, <1>6, SMT
  <2>2. PICK v \in Nat, p \in {0, 25} : v = c.basic /\ p = c.percent
    BY <1>3
  <2>3. PICK paid, more, g, h : /\ paid = Rounded(v * (-n), b) /\ more = Rounded(v * (-j), b)
                                /\ g = GrossOf(v, p, b, -n) /\ h = GrossOf(v, p, b, -j)
    OBVIOUS
  <2>4. b - k = -n /\ b - m = -j
    BY <1>2, <2>1, SMT
  <2>5. paid = Basic(c, k) /\ more = Basic(c, m) /\ g = Total(c, k) /\ h = Total(c, m)
    BY <2>2, <2>3, <2>4 DEF Basic, Total
  <2>6. /\ paid \in Int /\ more \in Int /\ g \in Int /\ h \in Int
        /\ Debt(paid, g)
        /\ j < n => Raise(paid, g, more, h)
    <3>1. b =< 31 /\ j =< n /\ 2 * n =< b
      BY <1>1, <2>1
    <3>2. j < n => Raise(paid, g, more, h)
      BY <2>3, <3>1, BeyondMonth
    <3>3. paid \in Int /\ more \in Int /\ g \in Int /\ h \in Int /\ Debt(paid, g)
      BY <2>3, <3>1, BeyondMonth
    <3> QED
      BY <3>2, <3>3
  <2>7. m < k => j < n
    BY <1>2, <2>1, SMT
  <2> QED
    BY <2>5, <2>6, <2>7
<1>7. ASSUME NEW c \in Contracts, NEW k \in 0..LastDay
      PROVE  NetPay(c, k) \in Int /\ (k =< b => NetPay(c, k) >= 0) /\ (k > b => NetPay(c, k) < 0)
  <2>1. k \in Int /\ k \in 0..k /\ (k =< b => k \in 0..b)
    BY <1>2, SMT
  <2>2. CASE k =< b
    <3>1. Basic(c, k) \in Nat /\ Total(c, k) \in Nat /\ Basic(c, k) =< Total(c, k)
      BY <1>5, <2>1, <2>2
    <3>2. Basic(c, k) \in Int /\ Total(c, k) \in Int /\ 0 =< Basic(c, k)
      BY <3>1, SMT
    <3>3. NetPay(c, k) \in Int /\ NetPay(c, k) >= 0
      BY <1>4, <2>1, <3>1, <3>2
    <3> QED
      BY <2>1, <2>2, <3>3, SMT
  <2>3. CASE k > b
    <3>1. Basic(c, k) \in Int /\ Total(c, k) \in Int /\ Debt(Basic(c, k), Total(c, k))
      BY <1>6, <2>1, <2>3
    <3>2. NetPay(c, k) \in Int /\ NetPay(c, k) < 0
      BY <1>4, <2>1, <3>1
    <3> QED
      BY <2>1, <2>3, <3>2, SMT
  <2> QED
    BY <2>1, <2>2, <2>3, SMT
<1>8. ASSUME NEW c \in Contracts, NEW k \in 0..LastDay, NEW m \in 0..k
      PROVE  NetPay(c, m) >= NetPay(c, k)
  <2>1. k \in Int /\ m \in Int /\ m \in 0..LastDay /\ m =< k
    BY <1>2, SMT
  <2>2. NetPay(c, k) \in Int /\ NetPay(c, m) \in Int
    BY <1>7, <2>1
  <2>3. CASE m = k
    BY <2>2, <2>3, SMT
  <2>4. CASE m =< b /\ k > b
    <3>1. NetPay(c, m) >= 0 /\ NetPay(c, k) < 0
      BY <1>7, <2>1, <2>4
    <3> QED
      BY <2>2, <3>1, SMT
  <2>5. CASE k =< b /\ m # k
    <3>1. k \in 0..b /\ m < k
      BY <2>1, <2>5, SMT
    <3>2. /\ Basic(c, k) \in Nat /\ Total(c, k) \in Nat /\ Basic(c, m) \in Nat /\ Total(c, m) \in Nat
          /\ Raise(Basic(c, k), Total(c, k), Basic(c, m), Total(c, m))
      BY <1>5, <3>1
    <3>3. /\ Basic(c, k) \in Int /\ Total(c, k) \in Int /\ Basic(c, m) \in Int /\ Total(c, m) \in Int
      BY <3>2, SMT
    <3>4. NetPay(c, k) =< NetPay(c, m)
      BY <1>4, <2>1, <3>2, <3>3
    <3> QED
      BY <2>2, <3>4, SMT
  <2>6. CASE m > b /\ m # k
    <3>1. m < k
      BY <2>1, <2>6, SMT
    <3>2. /\ Basic(c, k) \in Int /\ Total(c, k) \in Int /\ Basic(c, m) \in Int /\ Total(c, m) \in Int
          /\ Raise(Basic(c, k), Total(c, k), Basic(c, m), Total(c, m))
      BY <1>6, <2>6, <3>1
    <3>3. NetPay(c, k) =< NetPay(c, m)
      BY <1>4, <2>1, <3>2
    <3> QED
      BY <2>2, <3>3, SMT
  <2> QED
    BY <2>1, <2>3, <2>4, <2>5, <2>6, SMT
<1>9. ASSUME NEW k \in 0..LastDay
      PROVE  /\ k =< b => k \in Proportionate
             /\ k > b <=> k \in Negative
             /\ k \in Ordered
  <2>1. k \in Int
    BY <1>2, SMT
  <2>2. ASSUME k =< b PROVE k \in Proportionate
    <3>1. k \in 0..b /\ 0 \in 0..k
      BY <2>1, <2>2, SMT
    <3>2. ASSUME NEW c \in Contracts
          PROVE  (Gross(c, k) - Slack) * b =< Gross(c, 0) * (b - k) /\ NetPay(c, k) >= 0
      <4>1. Slack = 5
        <5>0. \A S, x : IsFiniteSet(S) /\ x \notin S =>
                  IsFiniteSet(S \union {x}) /\ Cardinality(S \union {x}) = Cardinality(S) + 1
          BY FS_AddElement
        <5>1. Cardinality({"BASIC"}) = 1 /\ IsFiniteSet({"BASIC"})
          BY FS_Singleton
        <5>2. PICK S2 : /\ S2 = {"BASIC", "HRA"}
                      /\ IsFiniteSet(S2) /\ Cardinality(S2) = 2
          <6>1. PICK S, x : S = {"BASIC"} /\ x = "HRA"
            OBVIOUS
          <6>2. x \notin S /\ S \union {x} = {"BASIC", "HRA"}
            BY <6>1
          <6>3. IsFiniteSet(S) /\ Cardinality(S) = 1
            BY <5>1, <6>1
          <6>4. IsFiniteSet(S \union {x}) /\ Cardinality(S \union {x}) = 2
            BY <5>0, <6>2, <6>3
          <6> QED
            BY <6>2, <6>4
        <5>3. PICK S3 : /\ S3 = {"BASIC", "HRA", "CONVEYANCE"}
                      /\ IsFiniteSet(S3) /\ Cardinality(S3) = 3
          <6>1. PICK S, x : S = {"BASIC", "HRA"} /\ x = "CONVEYANCE"
            OBVIOUS
          <6>2. x \notin S /\ S \union {x} = {"BASIC", "HRA", "CONVEYANCE"}
            BY <6>1
          <6>3. IsFiniteSet(S) /\ Cardinality(S) = 2
            BY <5>2, <6>1
          <6>4. IsFiniteSet(S \union {x}) /\ Cardinality(S \union {x}) = 3
            BY <5>0, <6>2, <6>3
          <6> QED
            BY <6>2, <6>4
        <5>4. PICK S4 : /\ S4 = {"BASIC", "HRA", "CONVEYANCE", "MEDICAL"}
                      /\ IsFiniteSet(S4) /\ Cardinality(S4) = 4
          <6>1. PICK S, x : S = {"BASIC", "HRA", "CONVEYANCE"} /\ x = "MEDICAL"
            OBVIOUS
          <6>2. x \notin S /\ S \union {x} = {"BASIC", "HRA", "CONVEYANCE", "MEDICAL"}
            BY <6>1
          <6>3. IsFiniteSet(S) /\ Cardinality(S) = 3
            BY <5>3, <6>1
          <6>4. IsFiniteSet(S \union {x}) /\ Cardinality(S \union {x}) = 4
            BY <5>0, <6>2, <6>3
          <6> QED
            BY <6>2, <6>4
        <5>5. PICK S5 : /\ S5 = {"BASIC", "HRA", "CONVEYANCE", "MEDICAL", "SHARE"}
                      /\ IsFiniteSet(S5) /\ Cardinality(S5) = 5
          <6>1. PICK S, x : S = {"BASIC", "HRA", "CONVEYANCE", "MEDICAL"} /\ x = "SHARE"
            OBVIOUS
          <6>2. x \notin S /\ S \union {x} = {"BASIC", "HRA", "CONVEYANCE", "MEDICAL", "SHARE"}
            BY <6>1
          <6>3. IsFiniteSet(S) /\ Cardinality(S) = 4
            BY <5>4, <6>1
          <6>4. IsFiniteSet(S \union {x}) /\ Cardinality(S \union {x}) = 5
            BY <5>0, <6>2, <6>3
          <6> QED
            BY <6>2, <6>4
        <5> QED
          BY <5>5 DEF Slack
      <4>2. Gross(c, k) = Total(c, k) /\ Gross(c, 0) = Total(c, 0)
        BY <1>3, <2>1
      <4>3. (Total(c, k) - 5) * b =< Total(c, 0) * (b - k)
        BY <1>5, <3>1
      <4> QED
        BY <1>7, <2>2, <4>1, <4>2, <4>3
    <3> QED
      BY <1>1, <3>1, <3>2 DEF Proportionate
  <2>3. k > b <=> k \in Negative
    <3>1. ASSUME k > b PROVE k \in Negative
      BY <1>7, <3>1 DEF Negative
    <3>2. ASSUME k =< b PROVE k \notin Negative
      <4>1. PICK c : c \in Contracts
        <5>1. PICK v : v \in Basics
          BY PayslipAssumption
        <5>2. [basic |-> v, percent |-> 0, country |-> "AE"] \in Contracts
          BY <5>1 DEF Contracts
        <5> QED
          BY <5>2
      <4>2. NetPay(c, k) \in Int /\ NetPay(c, k) >= 0
        BY <1>7, <3>2, <4>1
      <4>3. ~(NetPay(c, k) < 0)
        BY <4>2, SMT
      <4> QED
        BY <4>1, <4>3 DEF Negative
    <3>3. k > b \/ k =< b
      BY <2>1, SMT
    <3>4. ~(k > b /\ k =< b)
      BY <2>1, SMT
    <3> QED
      BY <3>1, <3>2, <3>3, <3>4
  <2>4. k \in Ordered
    BY <1>8 DEF Ordered
  <2> QED
    BY <2>2, <2>3, <2>4
<1>10. ASSUME RecordsInv PROVE LopDays \in 0..LastDay
  <2>1. IsFiniteSet(Month) /\ Cardinality(Month) = LastDay
    BY <1>2, FS_Interval DEF Month
  <2>2. AbsentDays \subseteq Month
    BY <1>10 DEF AbsentDays
  <2>3. Cardinality(AbsentDays) \in Nat /\ Cardinality(AbsentDays) =< LastDay
    BY <2>1, <2>2, FS_Subset, FS_CardinalityType
  <2>4. Cardinality(Counted(approved)) \in Nat
    <3>1. IsFiniteSet(approved) /\ Counted(approved) \subseteq approved
      BY <1>10 DEF RecordsInv, Counted
    <3> QED
      BY <3>1, FS_Subset, FS_CardinalityType
  <2>5. LopDays = Max({0, Cardinality(AbsentDays) - Cardinality(Counted(approved))})
    BY DEF LopDays, ApprovedLeaveCount, Counted
  <2>6. \A i, j \in Nat : i =< LastDay => Max({0, i - j}) \in 0..LastDay
    BY <1>2, SMT DEF Max
  <2> QED
    BY <2>3, <2>4, <2>5, <2>6
<1>11. RecordsInv => PayIsProportionate
  BY <1>1, <1>9, <1>10 DEF PayIsProportionate
<1> QED
  BY <1>11, SingleDaysAreExact, PTL
=============================================================================
