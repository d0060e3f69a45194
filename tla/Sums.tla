-------------------------------- MODULE Sums ---------------------------------
(***************************************************************************)
(* Facts about sums over finite sets, and the induction they need.  The    *)
(* induction theorems of the library take an operator as a parameter; here *)
(* the predicate is a set, that of the counterexamples, and the induction  *)
(* is that it has a smallest element (WFMin).                              *)
(***************************************************************************)
EXTENDS Integers, FiniteSetsExt, FiniteSetTheorems, WellFoundedInduction, TLAPS

\* Every nonempty set of naturals has a least element.
LEMMA LeastNatural ==
    ASSUME NEW T, T \subseteq Nat, T # {}
    PROVE  \E m \in T : \A n \in T : m =< n
<1> DEFINE R == {ss \in Nat \X Nat : ss[1] < ss[2]}
<1>1. IsWellFoundedOn(R, Nat)
  BY NatLessThanWellFounded DEF OpToRel
<1> HIDE DEF R
<1>2. PICK m \in T : \A n \in T : <<n, m>> \notin R
  BY <1>1, WFMin
<1>3. \A n \in T : ~ (n < m)
  BY <1>2 DEF R
<1> QED
  BY <1>3

\* Every nonempty set of subsets of a finite set has a member all of whose
\* proper subsets are not in it.
LEMMA SmallestSet ==
    ASSUME NEW S, IsFiniteSet(S), NEW F \in SUBSET SUBSET S, F # {}
    PROVE  \E s \in F : \A x \in s : s \ {x} \notin F
<1> DEFINE T == {n \in Nat : \E s \in F : Cardinality(s) = n}
<1>1. \A s \in F : IsFiniteSet(s) /\ Cardinality(s) \in Nat
  BY FS_Subset, FS_CardinalityType
<1>2. T # {}
  BY <1>1
<1>3. PICK m \in T : \A n \in T : m =< n
  BY <1>2, LeastNatural
<1>4. PICK s \in F : Cardinality(s) = m
  BY <1>3
<1>5. ASSUME NEW x \in s, s \ {x} \in F PROVE FALSE
  <2>1. Cardinality(s \ {x}) = m - 1 /\ Cardinality(s \ {x}) \in Nat
    BY <1>1, <1>4, <1>5, FS_RemoveElement
  <2>2. m - 1 \in T
    BY <1>5, <2>1
  <2> QED
    BY <1>3, <2>2
<1> QED
  BY <1>4, <1>5

First(s) == CHOOSE x \in s : TRUE

\* The recursion behind a sum over S.
Iterates(iter, f, S) ==
    iter = [s \in SUBSET S |-> IF s = {} THEN 0 ELSE f[First(s)] + iter[s \ {First(s)}]]

SumOf(f, S) == (CHOOSE iter : Iterates(iter, f, S))[S]

\* The recursion has a solution.  A sum is its first summand and the sum of the
\* rest, and what any solution says it is.
LEMMA SumUnfold ==
    ASSUME NEW S, IsFiniteSet(S), NEW f
    PROVE  /\ \E iter : Iterates(iter, f, S)
           /\ SumOf(f, S) = IF S = {} THEN 0 ELSE f[First(S)] + SumOf(f, S \ {First(S)})
           /\ \A iter : Iterates(iter, f, S) => iter[S] = SumOf(f, S)
<1>0. ASSUME NEW B \in SUBSET S, IsFiniteSet(B) PROVE \E iter : Iterates(iter, f, B)
  <2> DEFINE Solves(g, s) == g[s] = IF s = {} THEN 0 ELSE f[First(s)] + g[s \ {First(s)}]
             Upto(n) == \E g : DOMAIN g = SUBSET B /\ g = [s \in SUBSET B |-> g[s]]
                               /\ \A s \in SUBSET B : Cardinality(s) =< n => Solves(g, s)
             T == {n \in Nat : ~Upto(n)}
  <2>1. \A s \in SUBSET B : IsFiniteSet(s) /\ Cardinality(s) \in Nat
                            /\ Cardinality(s) =< Cardinality(B)
    BY FS_Subset, FS_CardinalityType
  <2>2. \A s \in SUBSET B : s # {} => First(s) \in s /\ s \ {First(s)} \in SUBSET B
                                      /\ Cardinality(s \ {First(s)}) = Cardinality(s) - 1
    BY <2>1, FS_RemoveElement DEF First
  <2>3. ASSUME T # {} PROVE FALSE
    <3>1. PICK m \in Nat : m \in T /\ \A n \in T : m =< n
      BY <2>3, LeastNatural
    <3>2. CASE m = 0
      <4> DEFINE g == [s \in SUBSET B |-> 0]
      <4>1. ASSUME NEW s \in SUBSET B, Cardinality(s) =< 0 PROVE Solves(g, s)
        BY <2>1, <4>1, FS_EmptySet
      <4>2. Upto(0)
        BY <4>1
      <4> QED
        BY <3>1, <3>2, <4>2
    <3>3. CASE m # 0
      <4> HIDE DEF T
      <4>1. m - 1 \in Nat /\ m - 1 \notin T
        BY <3>1, <3>3
      <4> USE DEF T
      <4>2. PICK g : DOMAIN g = SUBSET B
                     /\ \A s \in SUBSET B : Cardinality(s) =< m - 1 => Solves(g, s)
        BY <4>1
      <4> DEFINE h == [s \in SUBSET B |-> IF Cardinality(s) =< m - 1 THEN g[s]
                                         ELSE f[First(s)] + g[s \ {First(s)}]]
      <4>3. ASSUME NEW s \in SUBSET B, Cardinality(s) =< m PROVE Solves(h, s)
        <5>1. CASE s = {}
          BY <3>1, <3>3, <4>2, <5>1, FS_EmptySet
        <5>2. CASE s # {}
          <6>1. h[s \ {First(s)}] = g[s \ {First(s)}]
            BY <2>1, <2>2, <3>1, <4>3, <5>2
          <6>2. h[s] = f[First(s)] + g[s \ {First(s)}]
            BY <2>1, <3>1, <4>2, <5>2
          <6> QED
            BY <5>2, <6>1, <6>2
        <5> QED
          BY <5>1, <5>2
      <4>4. h = [s \in SUBSET B |-> h[s]] /\ DOMAIN h = SUBSET B
        OBVIOUS
      <4> HIDE DEF h
      <4>5. Upto(m)
        BY <4>3, <4>4
      <4> QED
        BY <3>1, <4>5
    <3> QED
      BY <3>2, <3>3
  <2>4. Cardinality(B) \in Nat /\ Upto(Cardinality(B))
    BY <2>1, <2>3
  <2>5. PICK g : g = [s \in SUBSET B |-> g[s]] /\ \A s \in SUBSET B : Solves(g, s)
    BY <2>1, <2>4
  <2> QED
    BY <2>5 DEF Iterates
<1> DEFINE Unique(s) == \A iter : \A B \in SUBSET S :
                          s \subseteq B /\ Iterates(iter, f, B) => iter[s] = SumOf(f, s)
           F == {s \in SUBSET S : ~Unique(s)}
           rest(s) == s \ {First(s)}
<1>1. \A s \in SUBSET S : IsFiniteSet(s)
  BY FS_Subset
<1>2. \A s \in SUBSET S : Iterates(CHOOSE iter : Iterates(iter, f, s), f, s)
  BY <1>0, <1>1
<1>3. ASSUME NEW s \in SUBSET S, s = {} \/ Unique(rest(s)) PROVE Unique(s)
  <2>1. \A iter : \A B \in SUBSET S : s \subseteq B /\ Iterates(iter, f, B) =>
            iter[s] = IF s = {} THEN 0 ELSE f[First(s)] + iter[rest(s)]
    BY DEF Iterates
  <2>2. SumOf(f, s) = IF s = {} THEN 0 ELSE f[First(s)] + SumOf(f, rest(s))
    <3> DEFINE J == CHOOSE iter : Iterates(iter, f, s)
    <3>1. Iterates(J, f, s) /\ SumOf(f, s) = J[s]
      BY <1>2 DEF SumOf
    <3> HIDE DEF J
    <3>2. s # {} => J[rest(s)] = SumOf(f, rest(s))
      BY <1>3, <3>1
    <3> QED
      BY <2>1, <3>1, <3>2
  <2> SUFFICES ASSUME NEW B \in SUBSET S, NEW iter, s \subseteq B, Iterates(iter, f, B)
               PROVE  iter[s] = SumOf(f, s)
    OBVIOUS
  <2>3. s # {} => iter[rest(s)] = SumOf(f, rest(s))
    BY <1>3
  <2> QED
    BY <2>1, <2>2, <2>3
<1>4. F = {}
  <2> SUFFICES ASSUME F # {} PROVE FALSE
    OBVIOUS
  <2>1. PICK s \in F : \A x \in s : s \ {x} \notin F
    BY SmallestSet
  <2>2. s = {} \/ (rest(s) \notin F /\ rest(s) \in SUBSET S)
    BY <2>1 DEF First
  <2> QED
    BY <1>3, <2>1, <2>2
<1>5. Unique(S) /\ (S # {} => Unique(rest(S)))
  BY <1>4
<1>6. PICK J : Iterates(J, f, S) /\ SumOf(f, S) = J[S]
  BY <1>2 DEF SumOf
<1>7. S # {} => J[rest(S)] = SumOf(f, rest(S))
  BY <1>5, <1>6
<1>8. SumOf(f, S) = IF S = {} THEN 0 ELSE f[First(S)] + SumOf(f, S \ {First(S)})
  BY <1>6, <1>7 DEF Iterates
<1>9. S \in SUBSET S
  OBVIOUS
<1> QED
  BY <1>0, <1>5, <1>8, <1>9

\* Any summand can be taken out of a sum.  A sum of summands that are at least
\* 0 is, and is 0 when they all are.
LEMMA SumRemove ==
    ASSUME NEW S, IsFiniteSet(S), NEW f, \A x \in S : f[x] \in Int
    PROVE  /\ SumOf(f, S) \in Int
           /\ \A x \in S : SumOf(f, S) = f[x] + SumOf(f, S \ {x})
           /\ (\A x \in S : f[x] \in Nat) => SumOf(f, S) \in Nat
           /\ (\A x \in S : f[x] = 0) => SumOf(f, S) = 0
<1>1. \A s \in SUBSET S : SumOf(f, s) \in Int
  <2> DEFINE F == {s \in SUBSET S : SumOf(f, s) \notin Int}
  <2>1. ASSUME NEW s \in F, \A x \in s : s \ {x} \notin F PROVE FALSE
    <3>1. SumOf(f, s) = IF s = {} THEN 0 ELSE f[First(s)] + SumOf(f, s \ {First(s)})
      BY FS_Subset, SumUnfold
    <3>2. s # {} => First(s) \in s
      BY DEF First
    <3> QED
      BY <2>1, <3>1, <3>2
  <2> QED
    BY <2>1, SmallestSet
<1> DEFINE Free(s) == \A x \in s : SumOf(f, s) = f[x] + SumOf(f, s \ {x})
           F == {s \in SUBSET S : ~Free(s)}
<1>2. ASSUME NEW s \in F, \A x \in s : s \ {x} \notin F PROVE FALSE
  <2> DEFINE a == First(s)
  <2>1. IsFiniteSet(s) /\ \A x \in s : Free(s \ {x}) /\ f[x] \in Int
    BY <1>2, FS_Subset
  <2>2. SumOf(f, s) = IF s = {} THEN 0 ELSE f[a] + SumOf(f, s \ {a})
    BY <2>1, SumUnfold
  <2>3. s # {} => a \in s
    BY DEF First
  <2>4. ASSUME NEW x \in s, x # a PROVE SumOf(f, s) = f[x] + SumOf(f, s \ {x})
    <3>1. SumOf(f, s \ {a}) = f[x] + SumOf(f, (s \ {a}) \ {x})
      BY <2>1, <2>3, <2>4
    <3>2. SumOf(f, s \ {x}) = f[a] + SumOf(f, (s \ {x}) \ {a})
      BY <2>1, <2>3, <2>4
    <3>3. (s \ {a}) \ {x} = (s \ {x}) \ {a}
      OBVIOUS
    <3>4. SumOf(f, (s \ {x}) \ {a}) \in Int
      <4>1. (s \ {x}) \ {a} \in SUBSET S
        OBVIOUS
      <4> QED
        BY <1>1, <4>1
    <3>5. f[a] \in Int /\ f[x] \in Int
      BY <2>1, <2>3, <2>4
    <3> HIDE DEF a, Free, F
    <3> QED
      BY <2>2, <2>4, <3>1, <3>2, <3>3, <3>4, <3>5
  <2> QED
    BY <2>2, <2>4
<1>3. F = {}
  BY <1>2, SmallestSet
<1> DEFINE B == {s \in SUBSET S : SumOf(f, s) \notin Nat}
           Z == {s \in SUBSET S : SumOf(f, s) # 0}
<1>4. \A s \in SUBSET S : /\ s # {} => First(s) \in s
                          /\ SumOf(f, s) = IF s = {} THEN 0
                                           ELSE f[First(s)] + SumOf(f, s \ {First(s)})
  BY FS_Subset, SumUnfold DEF First
<1>5. ASSUME \A x \in S : f[x] \in Nat, NEW s \in B, \A x \in s : s \ {x} \notin B PROVE FALSE
  <2>1. s # {} => f[First(s)] \in Nat /\ SumOf(f, s \ {First(s)}) \in Nat
    BY <1>4, <1>5
  <2>2. SumOf(f, s) = IF s = {} THEN 0 ELSE f[First(s)] + SumOf(f, s \ {First(s)})
    BY <1>4
  <2>3. SumOf(f, s) \in Nat
    BY <2>1, <2>2
  <2> QED
    BY <2>3
<1>6. ASSUME \A x \in S : f[x] = 0, NEW s \in Z, \A x \in s : s \ {x} \notin Z PROVE FALSE
  <2>1. s # {} => f[First(s)] = 0 /\ SumOf(f, s \ {First(s)}) = 0
    BY <1>4, <1>6
  <2>2. SumOf(f, s) = IF s = {} THEN 0 ELSE f[First(s)] + SumOf(f, s \ {First(s)})
    BY <1>4
  <2>3. SumOf(f, s) = 0
    BY <2>1, <2>2
  <2> QED
    BY <2>3
<1>7. (\A x \in S : f[x] \in Nat) => B = {}
  BY <1>5, SmallestSet
<1>8. (\A x \in S : f[x] = 0) => Z = {}
  BY <1>6, SmallestSet
<1> QED
  BY <1>1, <1>3, <1>7, <1>8

\* Equal summands, equal sums; those that are 0 can be left out.
LEMMA SumAgree ==
    ASSUME NEW S, IsFiniteSet(S), NEW T \in SUBSET S, NEW f, NEW g,
           \A x \in S : f[x] \in Int,
           \A x \in T : f[x] = g[x], \A x \in S \ T : f[x] = 0
    PROVE  SumOf(f, S) = SumOf(g, T)
<1>1. SumOf(f, T) = SumOf(g, T)
  <2> DEFINE F == {s \in SUBSET T : SumOf(f, s) # SumOf(g, s)}
  <2>1. ASSUME NEW s \in F, \A x \in s : s \ {x} \notin F PROVE FALSE
    <3>1. /\ SumOf(f, s) = IF s = {} THEN 0 ELSE f[First(s)] + SumOf(f, s \ {First(s)})
          /\ SumOf(g, s) = IF s = {} THEN 0 ELSE g[First(s)] + SumOf(g, s \ {First(s)})
      BY FS_Subset, SumUnfold
    <3>2. s # {} => First(s) \in s
      BY DEF First
    <3> QED
      BY <2>1, <3>1, <3>2
  <2>2. IsFiniteSet(T)
    BY FS_Subset
  <2> QED
    BY <2>1, <2>2, SmallestSet
<1> DEFINE F == {s \in SUBSET (S \ T) : SumOf(f, T \union s) # SumOf(f, T)}
<1>2. ASSUME NEW s \in F, \A x \in s : s \ {x} \notin F PROVE FALSE
  <2>1. PICK x \in s : TRUE
    BY <1>2
  <2>2. SumOf(f, T \union (s \ {x})) = SumOf(f, T)
    BY <1>2, <2>1
  <2> DEFINE u == T \union s
  <2>3. u \ {x} = T \union (s \ {x}) /\ x \in u /\ f[x] = 0
    BY <1>2, <2>1
  <2>4. IsFiniteSet(u) /\ \A y \in u : f[y] \in Int
    BY <1>2, FS_Subset
  <2>5. u = T \union s
    OBVIOUS
  <2> HIDE DEF u
  <2>6. SumOf(f, u) \in Int /\ \A y \in u : SumOf(f, u) = f[y] + SumOf(f, u \ {y})
    BY <2>4, SumRemove
  <2>7. SumOf(f, T) \in Int
    BY FS_Subset, SumRemove
  <2>8. SumOf(f, u) = f[x] + SumOf(f, T)
    BY <2>2, <2>3, <2>6
  <2>9. SumOf(f, T \union s) = SumOf(f, T)
    BY <2>3, <2>5, <2>7, <2>8
  <2> QED
    BY <1>2, <2>9
<1>3. F = {}
  <2>1. IsFiniteSet(S \ T)
    BY FS_Subset
  <2> HIDE DEF F
  <2>2. F \in SUBSET SUBSET (S \ T)
    BY DEF F
  <2> QED
    BY <1>2, <2>1, <2>2, SmallestSet
<1>4. S \ T \in SUBSET (S \ T) /\ T \union (S \ T) = S
  OBVIOUS
<1>5. SumOf(f, T \union (S \ T)) = SumOf(f, T)
  BY <1>3, <1>4
<1> QED
  BY <1>1, <1>4, <1>5

\* One summand changes.
LEMMA SumUpdate ==
    ASSUME NEW S, IsFiniteSet(S), NEW f, NEW g, NEW a \in S,
           \A x \in S : f[x] \in Int /\ g[x] \in Int,
           \A x \in S \ {a} : f[x] = g[x]
    PROVE  SumOf(g, S) = SumOf(f, S) - f[a] + g[a]
<1>1. /\ SumOf(f, S) = f[a] + SumOf(f, S \ {a})
      /\ SumOf(g, S) = g[a] + SumOf(g, S \ {a})
  BY SumRemove
<1>2. IsFiniteSet(S \ {a})
  BY FS_RemoveElement
<1>3. SumOf(f, S \ {a}) = SumOf(g, S \ {a})
  <2> DEFINE T == S \ {a}
  <2>1. T \in SUBSET T /\ \A x \in T : f[x] \in Int /\ f[x] = g[x]
    OBVIOUS
  <2> QED
    BY <1>2, <2>1, SumAgree
<1>4. SumOf(f, S \ {a}) \in Int
  BY <1>2, SumRemove
<1> QED
  BY <1>1, <1>3, <1>4
=============================================================================
