---------------------------- MODULE TableLemmas ----------------------------
(***************************************************************************)
(* What the proofs about tables rest on.                                   *)
(*                                                                         *)
(* Induction, with sets in the place of predicates: a set of numbers that  *)
(* holds 0 and the successor of each of its members is Nat, and a set of   *)
(* sets that is closed under adding one element holds every finite set.    *)
(* Sums over finite sets: the value does not depend on the order in which  *)
(* the elements are taken.                                                 *)
(* Deleting elements of an array by shifting the others down: Rank is a    *)
(* bijection from the kept indices to the new ones, Origin its inverse.    *)
(***************************************************************************)
EXTENDS Compaction, FiniteSetsExt, FiniteSetTheorems, FunctionTheorems, WellFoundedInduction, TLAPS

----------------------------------------------------------------------------
(* Induction *)

\* A set of numbers that is not empty has a least member.
LEMMA LeastNumber ==
  ASSUME NEW T \in SUBSET Nat, T # {}
  PROVE  \E m \in T : \A k \in T : m <= k
<1> DEFINE Less == OpToRel(<, Nat)
<1>1. PICK m \in T : \A k \in T : ~ (<<k, m>> \in Less)
  BY NatLessThanWellFounded, WFMin
<1>2. \A k, l \in Nat : k < l => <<k, l>> \in Less
  BY DEF OpToRel
<1> HIDE DEF Less
<1>3. ASSUME NEW k \in T PROVE m <= k
  <2>1. k \in Nat /\ m \in Nat
    OBVIOUS
  <2>2. ~ (k < m)
    BY <1>1, <1>2, <2>1
  <2> QED
    BY <2>1, <2>2
<1> QED
  BY <1>3

\* Induction on numbers.
LEMMA NumberInduction ==
  ASSUME NEW T \in SUBSET Nat, 0 \in T, \A n \in T : n + 1 \in T
  PROVE  T = Nat
<1> SUFFICES ASSUME NEW x \in Nat, x \notin T PROVE FALSE
  OBVIOUS
<1>1. PICK m \in Nat \ T : \A k \in Nat \ T : m <= k
  BY LeastNumber
<1>2. m # 0 /\ m - 1 \in Nat
  OBVIOUS
<1>3. m - 1 \in T
  BY <1>1, <1>2
<1>4. (m - 1) + 1 = m
  BY <1>2
<1> QED
  BY <1>1, <1>3, <1>4

\* Induction on the finite subsets of a set, by their number of elements: what
\* holds of a set when it holds of every smaller one holds of all of them.
LEMMA SmallerSetInduction ==
  ASSUME NEW S, IsFiniteSet(S), NEW F,
         \A s \in SUBSET S :
            (\A r \in SUBSET S : Cardinality(r) < Cardinality(s) => r \in F) => s \in F
  PROVE  \A s \in SUBSET S : s \in F
<1> DEFINE T == {n \in Nat : \A s \in SUBSET S : Cardinality(s) < n => s \in F}
<1>1. \A s \in SUBSET S : Cardinality(s) \in Nat /\ IsFiniteSet(s)
  BY FS_Subset, FS_CardinalityType
<1>2. 0 \in T
  BY <1>1
<1>3. ASSUME NEW n \in T PROVE n + 1 \in T
  <2>1. n \in Nat
    OBVIOUS
  <2>2. ASSUME NEW s \in SUBSET S, Cardinality(s) < n + 1 PROVE s \in F
    <3>1. \A r \in SUBSET S : Cardinality(r) < Cardinality(s) => r \in F
      BY <1>1, <2>1, <2>2
    <3> QED
      BY <3>1
  <2> QED
    BY <2>1, <2>2
<1>4. T = Nat
  <2> HIDE DEF T
  <2>1. T \in SUBSET Nat
    BY DEF T
  <2> QED
    BY <1>2, <1>3, <2>1, NumberInduction
<1>5. ASSUME NEW s \in SUBSET S PROVE s \in F
  <2>1. Cardinality(s) + 1 \in T
    BY <1>1, <1>4
  <2>2. Cardinality(s) < Cardinality(s) + 1
    BY <1>1
  <2> QED
    BY <2>1, <2>2
<1> QED
  BY <1>5

\* The largest of a set of numbers up to m.
LEMMA MaxOf ==
  ASSUME NEW m \in Nat, NEW s \in SUBSET (1..m), m \in s PROVE Max(s) = m
<1>1. \A y \in s : m >= y
  OBVIOUS
<1>2. Max(s) \in s /\ \A y \in s : Max(s) >= y
  BY <1>1 DEF Max
<1>3. Max(s) \in 1..m /\ Max(s) >= m
  <2> HIDE DEF Max
  <2> QED
    BY <1>2
<1> QED
  BY <1>3

LEMMA MaxIn == ASSUME NEW m \in Nat, NEW s \in SUBSET (1..m), s # {} PROVE Max(s) \in s
<1> DEFINE T == {m - x : x \in s}
<1>1. T \in SUBSET Nat /\ T # {}
  <2>1. \A x \in s : m - x \in Nat
    OBVIOUS
  <2> QED
    BY <2>1
<1>2. PICK z \in T : \A k \in T : z <= k
  BY <1>1, LeastNumber
<1>3. PICK x \in s : z = m - x
  BY <1>2
<1>4. \A y \in s : x >= y
  <2> SUFFICES ASSUME NEW y \in s PROVE x >= y
    OBVIOUS
  <2>1. m - y \in T
    OBVIOUS
  <2>2. m - x <= m - y
    BY <1>2, <1>3, <2>1
  <2>3. x \in Nat /\ y \in Nat
    OBVIOUS
  <2> QED
    BY <2>2, <2>3
<1> QED
  BY <1>4 DEF Max

----------------------------------------------------------------------------
(* Arrays *)

\* An array given by its elements is a sequence.
LEMMA ArrayIsSeq ==
  ASSUME NEW n \in Nat, NEW s, s = [i \in 1..n |-> s[i]]
  PROVE  s \in Seq({s[i] : i \in 1..n}) /\ Len(s) = n /\ DOMAIN s = 1..n
<1> DEFINE T == {s[i] : i \in 1..n}
           f == [i \in 1..n |-> s[i]]
<1>1. f \in Seq(T) /\ DOMAIN f = 1..n
  OBVIOUS
<1>2. Len(f) = n
  <2>1. DOMAIN f = 1..Len(f) /\ Len(f) \in Nat
    BY <1>1
  <2> HIDE DEF f
  <2> QED
    BY <1>1, <2>1
<1>3. s = f
  OBVIOUS
<1> HIDE DEF f, T
<1>4. s \in Seq(T) /\ Len(s) = n /\ DOMAIN s = 1..n
  BY <1>1, <1>2, <1>3
<1> QED
  BY <1>4 DEF T

----------------------------------------------------------------------------
(* Sums *)

AnyOf(s) == CHOOSE x \in s : TRUE

\* g is the running sum of f that CHOOSE's order gives: the form to which the
\* sums over sets of the specifications expand.
SumsOver(g, f, S) ==
  g = [s \in SUBSET S |-> IF s = {} THEN 0 ELSE f[AnyOf(s)] + g[s \ {AnyOf(s)}]]

\* The sum of f over S.
Total(f, S) == (CHOOSE g : SumsOver(g, f, S))[S]

\* Taking out the first element of a set leaves a smaller one.
LEMMA RestIsSmaller ==
  ASSUME NEW S, IsFiniteSet(S), NEW s \in SUBSET S, NEW x \in s
  PROVE  /\ s \ {x} \in SUBSET S
         /\ Cardinality(s) \in Nat /\ Cardinality(s \ {x}) \in Nat
         /\ Cardinality(s \ {x}) = Cardinality(s) - 1
<1>1. IsFiniteSet(s)
  BY FS_Subset
<1>2. IsFiniteSet(s \ {x}) /\ Cardinality(s \ {x}) = Cardinality(s) - 1
  BY <1>1, FS_RemoveElement
<1> QED
  BY <1>1, <1>2, FS_CardinalityType

\* There is such a running sum over every finite set.
LEMMA SumExists ==
  ASSUME NEW S, IsFiniteSet(S), NEW f
  PROVE  \E g : SumsOver(g, f, S)
<1> DEFINE Sum(g, s) == IF s = {} THEN 0 ELSE f[AnyOf(s)] + g[s \ {AnyOf(s)}]
           Upto(g, n) == \A s \in SUBSET S : Cardinality(s) <= n => g[s] = Sum(g, s)
           T == {n \in Nat : \E g : Upto(g, n)}
<1>1. 0 \in T
  <2> DEFINE zero == [s \in SUBSET S |-> 0]
  <2>1. \A s \in SUBSET S : Cardinality(s) <= 0 => s = {}
    <3> SUFFICES ASSUME NEW s \in SUBSET S, Cardinality(s) <= 0 PROVE s = {}
      OBVIOUS
    <3>1. IsFiniteSet(s)
      BY FS_Subset
    <3>2. Cardinality(s) = 0
      BY <3>1, FS_CardinalityType
    <3> QED
      BY <3>1, <3>2, FS_EmptySet
  <2>2. Upto(zero, 0)
    BY <2>1
  <2> QED
    BY <2>2
<1>2. ASSUME NEW n \in T PROVE n + 1 \in T
  <2>1. PICK g : Upto(g, n)
    OBVIOUS
  <2> DEFINE h == [s \in SUBSET S |-> Sum(g, s)]
  <2>2. ASSUME NEW s \in SUBSET S, Cardinality(s) <= n + 1, s # {}
        PROVE  h[s] = Sum(h, s)
    <3> DEFINE r == s \ {AnyOf(s)}
    <3>1. AnyOf(s) \in s
      BY <2>2 DEF AnyOf
    <3>2. r \in SUBSET S /\ Cardinality(r) <= n
      BY <2>2, <3>1, RestIsSmaller
    <3>3. g[r] = h[r]
      BY <2>1, <3>2
    <3> QED
      BY <2>2, <3>3
  <2>3. Upto(h, n + 1)
    BY <2>2
  <2>4. n + 1 \in Nat
    OBVIOUS
  <2> HIDE DEF Upto, h
  <2> QED
    BY <2>3, <2>4
<1>3. T = Nat
  <2> HIDE DEF T
  <2>1. T \in SUBSET Nat
    BY DEF T
  <2> QED
    BY <1>1, <1>2, <2>1, NumberInduction
<1>4. Cardinality(S) \in Nat /\ \A s \in SUBSET S : Cardinality(s) <= Cardinality(S)
  BY FS_CardinalityType, FS_Subset
<1>5. PICK g : Upto(g, Cardinality(S))
  BY <1>3, <1>4
<1> DEFINE h == [s \in SUBSET S |-> g[s]]
<1>6. \A s \in SUBSET S : s # {} => AnyOf(s) \in s
  BY DEF AnyOf
<1>7. \A s \in SUBSET S : h[s] = Sum(h, s)
  BY <1>4, <1>5, <1>6
<1>8. SumsOver(h, f, S)
  <2>1. h = [s \in SUBSET S |-> Sum(h, s)]
    BY <1>7
  <2> QED
    BY <2>1 DEF SumsOver
<1> QED
  BY <1>8

\* Running sums of functions that agree on a set agree there.
LEMMA SumsAgree ==
  ASSUME NEW S, IsFiniteSet(S), NEW U, NEW f, NEW e, NEW g, NEW h,
         SumsOver(g, f, S), SumsOver(h, e, U),
         NEW t \in SUBSET S, t \in SUBSET U, \A x \in t : f[x] = e[x]
  PROVE  g[t] = h[t]
<1> DEFINE F == {s \in SUBSET t : g[s] = h[s]}
<1>1. IsFiniteSet(t)
  BY FS_Subset
<1>2. ASSUME NEW s \in SUBSET t,
             \A r \in SUBSET t : Cardinality(r) < Cardinality(s) => r \in F
      PROVE  s \in F
  <2>1. CASE s = {}
    <3>1. g[{}] = 0 /\ h[{}] = 0
      BY DEF SumsOver
    <3> QED
      BY <2>1, <3>1
  <2>2. CASE s # {}
    <3> DEFINE x == AnyOf(s)
               r == s \ {x}
    <3>1. x \in s
      BY <2>2 DEF AnyOf
    <3>2. r \in SUBSET t /\ Cardinality(r) < Cardinality(s)
      BY <1>1, <3>1, RestIsSmaller
    <3>3. g[r] = h[r]
      BY <1>2, <3>2
    <3>4. s \in SUBSET S /\ s \in SUBSET U
      OBVIOUS
    <3>5. g[s] = f[x] + g[r]
      BY <2>2, <3>4 DEF SumsOver
    <3>6. h[s] = e[x] + h[r]
      BY <2>2, <3>4 DEF SumsOver
    <3> QED
      BY <3>1, <3>3, <3>5, <3>6
  <2> QED
    BY <2>1, <2>2
<1>3. t \in F
  <2> HIDE DEF F
  <2> QED
    BY <1>1, <1>2, SmallerSetInduction
<1> QED
  BY <1>3

\* A running sum of numbers is a number, and any element may be taken out first.
LEMMA SumsTakeOut ==
  ASSUME NEW S, IsFiniteSet(S), NEW f, \A x \in S : f[x] \in Nat,
         NEW g, SumsOver(g, f, S)
  PROVE  \A s \in SUBSET S :
           /\ g[s] \in Nat
           /\ \A x \in s : g[s] = f[x] + g[s \ {x}]
<1> DEFINE Good(s) == g[s] \in Nat /\ \A x \in s : g[s] = f[x] + g[s \ {x}]
           F == {s \in SUBSET S : Good(s)}
<1>1. ASSUME NEW s \in SUBSET S,
             \A r \in SUBSET S : Cardinality(r) < Cardinality(s) => r \in F
      PROVE  s \in F
  <2>1. CASE s = {}
    <3>1. g[{}] = 0
      BY DEF SumsOver
    <3> QED
      BY <2>1, <3>1
  <2>2. CASE s # {}
    <3> DEFINE c == AnyOf(s)
    <3>1. c \in s /\ s \in SUBSET S
      BY <2>2 DEF AnyOf
    <3>2. g[s] = f[c] + g[s \ {c}]
      BY <2>2 DEF SumsOver
    <3>3. \A x \in s : Good(s \ {x})
      BY <1>1, RestIsSmaller
    <3> HIDE DEF c
    <3>4. g[s] \in Nat
      <4>1. g[s \ {c}] \in Nat
        BY <3>1, <3>3
      <4>2. f[c] \in Nat
        BY <3>1
      <4> HIDE DEF F, Good
      <4> QED
        BY <3>2, <4>1, <4>2
    <3>5. ASSUME NEW x \in s, x # c PROVE g[s] = f[x] + g[s \ {x}]
      <4>1. x \in s \ {c} /\ c \in s \ {x}
        BY <3>1, <3>5
      <4>2. g[s \ {c}] = f[x] + g[(s \ {c}) \ {x}]
        BY <3>1, <3>3, <4>1
      <4>3. g[s \ {x}] = f[c] + g[(s \ {x}) \ {c}]
        BY <3>3, <4>1
      <4>4. (s \ {c}) \ {x} = (s \ {x}) \ {c}
        OBVIOUS
      <4>5. f[c] \in Nat /\ f[x] \in Nat
        BY <3>1
      <4>6. g[(s \ {c}) \ {x}] \in Nat
        <5>1. (s \ {c}) \ {x} \in SUBSET S
          OBVIOUS
        <5>2. Cardinality((s \ {c}) \ {x}) < Cardinality(s)
          <6>1. Cardinality(s \ {c}) = Cardinality(s) - 1 /\ Cardinality(s) \in Nat
                /\ s \ {c} \in SUBSET S
            BY <3>1, RestIsSmaller
          <6>2. Cardinality((s \ {c}) \ {x}) = Cardinality(s \ {c}) - 1
            BY <4>1, <6>1, RestIsSmaller
          <6> QED
            BY <6>1, <6>2
        <5> QED
          BY <1>1, <5>1, <5>2
      <4> DEFINE d == g[(s \ {c}) \ {x}]
      <4>7. d \in Nat /\ g[s \ {c}] = f[x] + d /\ g[s \ {x}] = f[c] + d
        BY <4>2, <4>3, <4>4, <4>6
      <4> HIDE DEF d, F, Good
      <4> QED
        BY <3>2, <4>5, <4>7
    <3> QED
      BY <3>2, <3>4, <3>5
  <2> QED
    BY <2>1, <2>2
<1>2. \A s \in SUBSET S : s \in F
  <2> HIDE DEF F
  <2> QED
    BY <1>1, SmallerSetInduction
<1> QED
  BY <1>2

\* The sum is the value of any running sum.
LEMMA TotalIsSum ==
  ASSUME NEW S, IsFiniteSet(S), NEW f, NEW g, SumsOver(g, f, S)
  PROVE  Total(f, S) = g[S]
<1> DEFINE G == CHOOSE h : SumsOver(h, f, S)
<1>1. SumsOver(G, f, S)
  BY SumExists
<1> HIDE DEF G
<1>2. G[S] = g[S]
  BY <1>1, SumsAgree
<1> QED
  BY <1>2 DEF G, Total

\* The sum over nothing is 0.
LEMMA TotalEmpty == ASSUME NEW f PROVE Total(f, {}) = 0
<1>1. IsFiniteSet({})
  BY FS_EmptySet
<1>2. PICK g : SumsOver(g, f, {})
  BY <1>1, SumExists
<1>3. g[{}] = 0
  BY <1>2 DEF SumsOver
<1> QED
  BY <1>1, <1>2, <1>3, TotalIsSum

\* The sum depends on the values over the set only.
LEMMA TotalAgree ==
  ASSUME NEW S, IsFiniteSet(S), NEW f, NEW e, \A x \in S : f[x] = e[x]
  PROVE  Total(f, S) = Total(e, S)
<1>1. PICK g : SumsOver(g, f, S)
  BY SumExists
<1>2. PICK h : SumsOver(h, e, S)
  BY SumExists
<1>3. g[S] = h[S]
  BY <1>1, <1>2, SumsAgree
<1> QED
  BY <1>1, <1>2, <1>3, TotalIsSum

\* Any element may be taken out of a sum of numbers.
LEMMA TotalTakeOut ==
  ASSUME NEW S, IsFiniteSet(S), NEW f, \A x \in S : f[x] \in Nat
  PROVE  /\ Total(f, S) \in Nat
         /\ \A x \in S : Total(f, S) = f[x] + Total(f, S \ {x})
<1>1. PICK g : SumsOver(g, f, S)
  BY SumExists
<1>2. Total(f, S) = g[S]
  BY <1>1, TotalIsSum
<1>3. g[S] \in Nat
  BY <1>1, SumsTakeOut
<1>4. ASSUME NEW x \in S PROVE Total(f, S) = f[x] + Total(f, S \ {x})
  <2>1. IsFiniteSet(S \ {x})
    BY FS_RemoveElement
  <2>2. PICK h : SumsOver(h, f, S \ {x})
    BY <2>1, SumExists
  <2>3. g[S \ {x}] = h[S \ {x}]
    BY <1>1, <2>2, SumsAgree
  <2>4. Total(f, S \ {x}) = h[S \ {x}]
    BY <2>1, <2>2, TotalIsSum
  <2>5. g[S] = f[x] + g[S \ {x}]
    BY <1>1, SumsTakeOut
  <2> QED
    BY <1>2, <2>3, <2>4, <2>5
<1> QED
  BY <1>2, <1>3, <1>4

\* Adding an element adds its value.
LEMMA TotalAdd ==
  ASSUME NEW S, IsFiniteSet(S), NEW x, x \notin S,
         NEW f, f[x] \in Nat, \A y \in S : f[y] \in Nat
  PROVE  Total(f, S \cup {x}) = f[x] + Total(f, S)
<1>1. IsFiniteSet(S \cup {x})
  BY FS_AddElement
<1>2. (S \cup {x}) \ {x} = S
  OBVIOUS
<1>3. Total(f, S \cup {x}) = f[x] + Total(f, (S \cup {x}) \ {x})
  BY <1>1, TotalTakeOut
<1> QED
  BY <1>2, <1>3

\* The image of a finite set is finite, and as large when no two elements meet.
LEMMA ImageFinite ==
  ASSUME NEW S, IsFiniteSet(S), NEW h
  PROVE  /\ IsFiniteSet({h[x] : x \in S})
         /\ (\A x, y \in S : h[x] = h[y] => x = y)
              => Cardinality({h[x] : x \in S}) = Cardinality(S)
<1> DEFINE T == {h[x] : x \in S}
           k == [x \in S |-> h[x]]
<1>1. k \in Surjection(S, T)
  BY DEF Surjection
<1>2. (\A x, y \in S : h[x] = h[y] => x = y) => k \in Injection(S, T)
  BY DEF Injection, IsInjective
<1> HIDE DEF k, T
<1>3. IsFiniteSet(T) /\ (Cardinality(T) = Cardinality(S) <=> k \in Injection(S, T))
  BY <1>1, FS_Surjection
<1> QED
  BY <1>2, <1>3 DEF T

\* A sum may be taken over the images of the elements instead.
LEMMA TotalImage ==
  ASSUME NEW S, IsFiniteSet(S), NEW h, NEW f, NEW e,
         \A x, y \in S : h[x] = h[y] => x = y,
         \A x \in S : f[x] \in Nat /\ e[h[x]] = f[x]
  PROVE  Total(f, S) = Total(e, {h[x] : x \in S})
<1> DEFINE Im(s) == {h[x] : x \in s}
           F == {s \in SUBSET S : Total(f, s) = Total(e, Im(s))}
<1>1. ASSUME NEW s \in SUBSET S,
             \A r \in SUBSET S : Cardinality(r) < Cardinality(s) => r \in F
      PROVE  s \in F
  <2>1. CASE s = {}
    <3>1. Im(s) = {}
      BY <2>1
    <3> QED
      BY <2>1, <3>1, TotalEmpty
  <2>2. CASE s # {}
    <3>1. PICK x \in s : TRUE
      BY <2>2
    <3> DEFINE r == s \ {x}
    <3>2. IsFiniteSet(s) /\ IsFiniteSet(Im(s))
      <4>1. IsFiniteSet(s)
        BY FS_Subset
      <4> QED
        BY <4>1, ImageFinite
    <3>3. r \in SUBSET S /\ Cardinality(r) < Cardinality(s)
      BY RestIsSmaller
    <3>4. Total(f, r) = Total(e, Im(r))
      BY <1>1, <3>3
    <3>5. Im(s) \ {h[x]} = Im(r) /\ h[x] \in Im(s)
      OBVIOUS
    <3>6. Total(f, s) = f[x] + Total(f, r)
      BY <3>2, TotalTakeOut
    <3>7. \A z \in Im(s) : e[z] \in Nat
      OBVIOUS
    <3>8. Total(e, Im(s)) = e[h[x]] + Total(e, Im(s) \ {h[x]})
      <4> HIDE DEF Im
      <4> QED
        BY <3>2, <3>5, <3>7, TotalTakeOut
    <3> QED
      BY <3>4, <3>5, <3>6, <3>8
  <2> QED
    BY <2>1, <2>2
<1>2. S \in F
  <2> HIDE DEF F
  <2> QED
    BY <1>1, SmallerSetInduction
<1> QED
  BY <1>2

----------------------------------------------------------------------------
(* Compaction *)

\* The kept indices form a finite set no larger than the array.
LEMMA KeepFinite ==
  ASSUME NEW n \in Nat, NEW keep \in SUBSET (1..n)
  PROVE  /\ IsFiniteSet(keep)
         /\ Cardinality(keep) \in Nat
         /\ Cardinality(keep) <= n
<1>1. IsFiniteSet(1..n) /\ Cardinality(1..n) = n
  BY FS_Interval
<1>2. IsFiniteSet(keep) /\ Cardinality(keep) <= Cardinality(1..n)
  BY <1>1, FS_Subset
<1> QED
  BY <1>1, <1>2, FS_CardinalityType

\* A kept element moves to one of the first Cardinality(keep) places.
LEMMA RankType ==
  ASSUME NEW n \in Nat, NEW keep \in SUBSET (1..n), NEW i \in keep
  PROVE  Rank(keep, i) \in 1..Cardinality(keep)
<1> DEFINE below == {j \in keep : j <= i}
<1>1. IsFiniteSet(keep) /\ Cardinality(keep) \in Nat
  BY KeepFinite
<1>2. IsFiniteSet(below) /\ Cardinality(below) <= Cardinality(keep)
  BY <1>1, FS_Subset
<1>3. Cardinality(below) \in Nat
  BY <1>2, FS_CardinalityType
<1>4. i \in below
  OBVIOUS
<1>5. Cardinality(below) # 0
  BY <1>2, <1>4, FS_EmptySet
<1> QED
  BY <1>1, <1>2, <1>3, <1>5 DEF Rank

\* The rank of a position counts the kept indices up to it.
LEMMA RankCounts ==
  ASSUME NEW n \in Nat, NEW keep \in SUBSET (1..n), NEW k \in Nat
  PROVE  /\ Rank(keep, 0) = 0
         /\ Rank(keep, n) = Cardinality(keep)
         /\ Rank(keep, k) \in Nat /\ Rank(keep, k) <= Cardinality(keep)
         /\ Rank(keep, k + 1) = IF k + 1 \in keep THEN Rank(keep, k) + 1 ELSE Rank(keep, k)
<1> DEFINE upto(m) == {j \in keep : j <= m}
<1>1. IsFiniteSet(keep)
  BY KeepFinite
<1>0. \A j \in keep : j \in Nat /\ 1 <= j /\ j <= n
  OBVIOUS
<1>2. upto(0) = {} /\ upto(n) = keep
  <2>1. \A j \in keep : ~(j <= 0) /\ j <= n
    BY <1>0
  <2>2. upto(0) = {}
    BY <2>1, Zenon
  <2>3. upto(n) = keep
    BY <2>1, Zenon
  <2> QED
    BY <2>2, <2>3
<1>3. Rank(keep, 0) = 0
  BY <1>2, FS_EmptySet DEF Rank
<1>4. Rank(keep, n) = Cardinality(keep)
  BY <1>2 DEF Rank
<1>5. /\ IsFiniteSet(upto(k)) /\ Cardinality(upto(k)) <= Cardinality(keep)
      /\ Cardinality(upto(k)) \in Nat
  <2>1. upto(k) \in SUBSET keep
    OBVIOUS
  <2>2. IsFiniteSet(upto(k)) /\ Cardinality(upto(k)) <= Cardinality(keep)
    BY <1>1, <2>1, FS_Subset
  <2> QED
    BY <2>2, FS_CardinalityType
<1>6. CASE k + 1 \in keep
  <2>0. \A j \in keep : j <= k + 1 <=> j <= k \/ j = k + 1
    BY <1>0
  <2>1. k + 1 \notin upto(k)
    OBVIOUS
  <2>2. \A j : j \in upto(k + 1) <=> j \in upto(k) \cup {k + 1}
    <3>1. ~(k + 1 <= k)
      OBVIOUS
    <3> QED
      BY <1>6, <2>0, <3>1
  <2>3. upto(k + 1) = upto(k) \cup {k + 1}
    BY <2>2
  <2> HIDE DEF upto
  <2>4. Cardinality(upto(k + 1)) = Cardinality(upto(k)) + 1
    BY <1>5, <2>1, <2>3, FS_AddElement
  <2> QED
    BY <1>3, <1>4, <1>5, <1>6, <2>4 DEF Rank, upto
<1>7. CASE k + 1 \notin keep
  <2>0. \A j \in keep : j <= k + 1 <=> j <= k
    BY <1>0, <1>7
  <2>1. upto(k + 1) = upto(k)
    BY <2>0
  <2> QED
    BY <1>3, <1>4, <1>5, <1>7, <2>1 DEF Rank
<1> QED
  BY <1>6, <1>7

\* Elements keep their order: a later kept element moves to a later place.
LEMMA RankIncreases ==
  ASSUME NEW n \in Nat, NEW keep \in SUBSET (1..n), NEW i \in keep, NEW j \in keep, i < j
  PROVE  Rank(keep, i) < Rank(keep, j)
<1> DEFINE A == {l \in keep : l <= i}
           B == {l \in keep : l <= j}
<1>1. IsFiniteSet(keep)
  BY KeepFinite
<1>2. A \subseteq B /\ IsFiniteSet(B) /\ IsFiniteSet(A)
  <2>1. A \in SUBSET keep /\ B \in SUBSET keep
    OBVIOUS
  <2>2. A \subseteq B
    <3>1. i \in Int /\ j \in Int /\ \A l \in keep : l \in Int
      OBVIOUS
    <3>2. \A l \in keep : l <= i => l <= j
      BY <3>1
    <3> QED
      BY <3>2
  <2> HIDE DEF A, B
  <2> QED
    BY <1>1, <2>1, <2>2, FS_Subset
<1>3. j \in B /\ j \notin A
  OBVIOUS
<1>4. Cardinality(A) <= Cardinality(B) /\ Cardinality(A) # Cardinality(B)
  <2> HIDE DEF A, B
  <2> QED
    BY <1>2, <1>3, FS_Subset
<1>5. Cardinality(A) \in Nat /\ Cardinality(B) \in Nat
  BY <1>2, FS_CardinalityType
<1> QED
  BY <1>4, <1>5 DEF Rank

\* Two kept elements never move to the same place.
LEMMA RankInjective ==
  ASSUME NEW n \in Nat, NEW keep \in SUBSET (1..n), NEW i \in keep, NEW j \in keep,
         Rank(keep, i) = Rank(keep, j)
  PROVE  i = j
<1>1. Rank(keep, i) \in Int /\ Rank(keep, j) \in Int
  <2>1. Cardinality(keep) \in Nat
    BY KeepFinite
  <2>2. Rank(keep, i) \in 1..Cardinality(keep) /\ Rank(keep, j) \in 1..Cardinality(keep)
    BY RankType
  <2> QED
    BY <2>1, <2>2
<1>2. ~ (i < j)
  <2> SUFFICES ASSUME i < j PROVE FALSE
    OBVIOUS
  <2>1. Rank(keep, i) < Rank(keep, j)
    BY RankIncreases
  <2> QED
    BY <1>1, <2>1
<1>3. ~ (j < i)
  <2> SUFFICES ASSUME j < i PROVE FALSE
    OBVIOUS
  <2>1. Rank(keep, j) < Rank(keep, i)
    BY RankIncreases
  <2> QED
    BY <1>1, <2>1
<1> QED
  BY <1>2, <1>3

\* Every place is taken.
LEMMA RankOnto ==
  ASSUME NEW n \in Nat, NEW keep \in SUBSET (1..n), NEW k \in 1..Cardinality(keep)
  PROVE  \E i \in keep : Rank(keep, i) = k
<1> DEFINE m == Cardinality(keep)
           f == [i \in keep |-> Rank(keep, i)]
<1>1. IsFiniteSet(keep) /\ m \in Nat
  BY KeepFinite
<1>2. IsFiniteSet(1..m) /\ Cardinality(1..m) = m
  BY <1>1, FS_Interval
<1>3. f \in [keep -> 1..m]
  BY RankType
<1>4. \A a, b \in keep : f[a] = f[b] => a = b
  BY RankInjective
<1>5. f \in Injection(keep, 1..m)
  <2> HIDE DEF f
  <2> QED
    BY <1>3, <1>4 DEF Injection, IsInjective
<1>6. f \in Surjection(keep, 1..m)
  BY <1>1, <1>2, <1>5, FS_Injection
<1> QED
  BY <1>6 DEF Surjection

\* Origin is the inverse of Rank.
LEMMA OriginOfRank ==
  ASSUME NEW n \in Nat, NEW keep \in SUBSET (1..n), NEW i \in keep
  PROVE  Origin(keep, Rank(keep, i)) = i
<1>1. \E j \in keep : Rank(keep, j) = Rank(keep, i)
  OBVIOUS
<1>2. /\ Origin(keep, Rank(keep, i)) \in keep
      /\ Rank(keep, Origin(keep, Rank(keep, i))) = Rank(keep, i)
  BY <1>1 DEF Origin
<1> QED
  BY <1>2, RankInjective

LEMMA RankOfOrigin ==
  ASSUME NEW n \in Nat, NEW keep \in SUBSET (1..n), NEW k \in 1..Cardinality(keep)
  PROVE  Origin(keep, k) \in keep /\ Rank(keep, Origin(keep, k)) = k
BY RankOnto DEF Origin

\* The compacted array is an array of the same elements, no longer than before.
LEMMA CompactType ==
  ASSUME NEW S, NEW s \in Seq(S), NEW keep \in SUBSET DOMAIN s
  PROVE  /\ Compact(s, keep) \in Seq(S)
         /\ Len(Compact(s, keep)) = Cardinality(keep)
         /\ Cardinality(keep) \in Nat /\ Cardinality(keep) <= Len(s)
         /\ \A k \in 1..Cardinality(keep) :
              Origin(keep, k) \in keep /\ Compact(s, keep)[k] = s[Origin(keep, k)]
<1>1. Len(s) \in Nat /\ keep \in SUBSET (1..Len(s))
  OBVIOUS
<1>2. Cardinality(keep) \in Nat /\ Cardinality(keep) <= Len(s)
  BY <1>1, KeepFinite
<1>3. \A k \in 1..Cardinality(keep) : Origin(keep, k) \in keep
  BY <1>1, RankOfOrigin
<1>4. \A k \in 1..Cardinality(keep) : s[Origin(keep, k)] \in S
  BY <1>3
<1> QED
  BY <1>2, <1>3, <1>4 DEF Compact
============================================================================
