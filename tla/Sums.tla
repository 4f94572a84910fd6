-------------------------------- MODULE Sums --------------------------------
(***************************************************************************)
(* Sums of a function over a finite set: what MapThenSumSet of the         *)
(* community modules computes, which picks the elements in an order of its *)
(* own.  The balance invariants of Payouts and Collections compare a       *)
(* wallet with such a sum, and their proofs need what one element more or  *)
(* less makes of it.                                                       *)
(*                                                                         *)
(* The inductions are over the size of a set, as the search for a smallest *)
(* counterexample among the natural numbers.                               *)
(***************************************************************************)
EXTENDS FiniteSetsExt, FiniteSetTheorems, TLAPS

SumOver(f, S) == MapThenSumSet(LAMBDA x : f[x], S)

Pick(s) == CHOOSE x \in s : TRUE
Rest(s) == s \ {Pick(s)}

(* The function MapThenSumSet folds with, and the equation it solves.      *)
Iter(f, S) == CHOOSE iter :
    iter = [s \in SUBSET S |-> IF s = {} THEN 0 ELSE f[Pick(s)] + iter[Rest(s)]]

Meets(g, f, D) == \A s \in D : g[s] = IF s = {} THEN 0 ELSE f[Pick(s)] + g[Rest(s)]

Solvable(f, D) == \E g : g = [s \in D |-> IF s = {} THEN 0 ELSE f[Pick(s)] + g[Rest(s)]]

UpToSize(S, n) == {s \in SUBSET S : Cardinality(s) <= n}

----------------------------------------------------------------------------
(* Induction over the size of a set *)

(* A set of sizes that is not empty has a smallest member.                 *)
LEMMA Smallest ==
    ASSUME NEW T, T \subseteq Nat, T # {}
    PROVE  \E n \in T : \A m \in T : n <= m
<1>1. PICK n \in T : \A m \in T : ~(<<m, n>> \in OpToRel(<, Nat))
  BY NatLessThanWellFounded, WFMin
<1>2. \A m \in T : ~(m < n)
  BY <1>1 DEF OpToRel
<1>3. \A m \in T : n <= m
  BY <1>2
<1>4. QED
  BY <1>3

(* A set of finite sets that is not empty has a member of smallest size.   *)
LEMMA SmallestSet ==
    ASSUME NEW D, D # {}, \A s \in D : IsFiniteSet(s)
    PROVE  \E s \in D : \A t \in D : Cardinality(s) <= Cardinality(t)
<1> DEFINE T == {Cardinality(s) : s \in D}
<1>1. T \subseteq Nat
  BY FS_CardinalityType
<1>2. T # {}
  OBVIOUS
<1>3. PICK n \in T : \A m \in T : n <= m
  <2> HIDE DEF T
  <2>1. QED
    BY <1>1, <1>2, Smallest
<1>4. QED
  BY <1>3

(* The element picked from a set, and the smaller set it leaves.           *)
LEMMA RestFacts ==
    ASSUME NEW s, IsFiniteSet(s), s # {}
    PROVE  /\ Pick(s) \in s
           /\ Rest(s) \subseteq s
           /\ IsFiniteSet(Rest(s))
           /\ Cardinality(Rest(s)) \in Nat
           /\ Cardinality(s) = Cardinality(Rest(s)) + 1
<1>1. Pick(s) \in s
  BY DEF Pick
<1>2. IsFiniteSet(Rest(s)) /\ Cardinality(Rest(s)) = Cardinality(s) - 1
  BY <1>1, FS_RemoveElement DEF Rest
<1>3. Cardinality(s) \in Nat /\ Cardinality(Rest(s)) \in Nat
  BY <1>2, FS_CardinalityType
<1>4. Cardinality(s) = Cardinality(Rest(s)) + 1
  BY <1>2, <1>3
<1>5. QED
  BY <1>1, <1>2, <1>3, <1>4 DEF Rest

(* Two functions that meet the equation agree.                             *)
LEMMA SolutionsAgree ==
    ASSUME NEW f, NEW D, NEW g, NEW h,
           \A s \in D : IsFiniteSet(s),
           \A s \in D : s # {} => Rest(s) \in D,
           Meets(g, f, D), Meets(h, f, D)
    PROVE  \A s \in D : g[s] = h[s]
<1> DEFINE Bad == {s \in D : g[s] # h[s]}
<1>1. SUFFICES ASSUME Bad # {} PROVE FALSE
  OBVIOUS
<1>2. PICK s \in Bad : \A t \in Bad : Cardinality(s) <= Cardinality(t)
  <2>1. \A t \in Bad : IsFiniteSet(t)
    OBVIOUS
  <2> HIDE DEF Bad
  <2>2. QED
    BY <1>1, <2>1, SmallestSet
<1>3. s # {}
  BY <1>2 DEF Meets
<1>4. Cardinality(Rest(s)) \in Nat /\ Cardinality(s) = Cardinality(Rest(s)) + 1
  BY <1>2, <1>3, RestFacts
<1>5. Rest(s) \in Bad
  BY <1>2, <1>3 DEF Meets
<1>6. QED
  BY <1>2, <1>4, <1>5

(***************************************************************************)
(* The equation has a solution on the subsets of up to n elements, for     *)
(* every n.                                                                *)
(***************************************************************************)
LEMMA SolutionUpTo ==
    ASSUME NEW f, NEW S, IsFiniteSet(S), NEW n \in Nat
    PROVE  Solvable(f, UpToSize(S, n))
<1> DEFINE T == {k \in Nat : ~Solvable(f, UpToSize(S, k))}
<1>1. SUFFICES ASSUME T # {} PROVE FALSE
  OBVIOUS
<1>2. PICK k \in T : \A m \in T : k <= m
  <2>1. T \subseteq Nat
    OBVIOUS
  <2> HIDE DEF T
  <2>2. QED
    BY <1>1, <2>1, Smallest
<1>3. \A s \in SUBSET S : IsFiniteSet(s) /\ Cardinality(s) \in Nat
  BY FS_Subset, FS_CardinalityType
<1>4. CASE k = 0
  <2> DEFINE g == [s \in UpToSize(S, k) |-> 0]
  <2>1. \A s \in UpToSize(S, k) : s = {}
    BY <1>3, <1>4, FS_EmptySet DEF UpToSize
  <2>2. g = [s \in UpToSize(S, k) |-> IF s = {} THEN 0 ELSE f[Pick(s)] + g[Rest(s)]]
    BY <2>1
  <2>3. Solvable(f, UpToSize(S, k))
    <3> HIDE DEF g
    <3>1. QED
      BY <2>2 DEF Solvable
  <2>4. QED
    BY <2>3
<1>5. CASE k # 0
  <2>1. k - 1 \in Nat /\ k - 1 \notin T
    <3>1. k \in Nat
      OBVIOUS
    <3> HIDE DEF T
    <3>2. QED
      BY <1>2, <1>5, <3>1
  <2>2. PICK g : g = [s \in UpToSize(S, k - 1) |->
                         IF s = {} THEN 0 ELSE f[Pick(s)] + g[Rest(s)]]
    BY <2>1 DEF Solvable
  <2> DEFINE h == [s \in UpToSize(S, k) |-> IF s = {} THEN 0 ELSE f[Pick(s)] + g[Rest(s)]]
  <2>3. \A s \in UpToSize(S, k) : s # {} => Rest(s) \in UpToSize(S, k - 1)
    BY <1>3, RestFacts DEF UpToSize
  <2>4. \A s \in UpToSize(S, k - 1) : h[s] = g[s]
    <3>1. UpToSize(S, k - 1) \subseteq UpToSize(S, k)
      BY <1>3, <2>1 DEF UpToSize
    <3>2. \A s \in UpToSize(S, k - 1) : h[s] = IF s = {} THEN 0 ELSE f[Pick(s)] + g[Rest(s)]
      BY <3>1
    <3>3. \A s \in UpToSize(S, k - 1) : g[s] = IF s = {} THEN 0 ELSE f[Pick(s)] + g[Rest(s)]
      BY <2>2
    <3>4. QED
      BY <3>2, <3>3
  <2>5. h = [s \in UpToSize(S, k) |-> IF s = {} THEN 0 ELSE f[Pick(s)] + h[Rest(s)]]
    <3>1. \A s \in UpToSize(S, k) : s # {} => h[Rest(s)] = g[Rest(s)]
      BY <2>3, <2>4
    <3>2. QED
      BY <3>1
  <2>6. Solvable(f, UpToSize(S, k))
    <3> HIDE DEF h
    <3>1. QED
      BY <2>5 DEF Solvable
  <2>7. QED
    BY <2>6
<1>6. QED
  BY <1>4, <1>5

(* What MapThenSumSet folds with meets the equation.                       *)
LEMMA IterMeets ==
    ASSUME NEW f, NEW S, IsFiniteSet(S)
    PROVE  Meets(Iter(f, S), f, SUBSET S)
<1>1. UpToSize(S, Cardinality(S)) = SUBSET S
  BY FS_Subset DEF UpToSize
<1>2. Solvable(f, SUBSET S)
  <2>1. Cardinality(S) \in Nat
    BY FS_CardinalityType
  <2>2. \A n \in Nat : Solvable(f, UpToSize(S, n))
    BY SolutionUpTo
  <2>3. Solvable(f, UpToSize(S, Cardinality(S)))
    BY <2>1, <2>2
  <2>4. QED
    BY <1>1, <2>3
<1>3. Iter(f, S) = [s \in SUBSET S |->
                       IF s = {} THEN 0 ELSE f[Pick(s)] + Iter(f, S)[Rest(s)]]
  BY <1>2 DEF Iter, Solvable
<1>4. QED
  BY <1>3 DEF Meets

(* The sum is what it leaves for the whole set.                            *)
LEMMA SumIsIter ==
    ASSUME NEW f, NEW S
    PROVE  SumOver(f, S) = Iter(f, S)[S]
BY DEF SumOver, Iter, Pick, Rest, MapThenSumSet, MapThenFoldSet

----------------------------------------------------------------------------
(* The sum of no element, of one more, and of equal functions *)

(* Nothing sums to zero.                                                   *)
LEMMA SumEmpty == ASSUME NEW f PROVE SumOver(f, {}) = 0
BY FS_EmptySet, IterMeets, SumIsIter DEF Meets

(* A sum is the picked element and the sum of the rest.                    *)
LEMMA SumStep ==
    ASSUME NEW f, NEW S, IsFiniteSet(S), S # {}
    PROVE  SumOver(f, S) = f[Pick(S)] + SumOver(f, Rest(S))
<1>1. IsFiniteSet(Rest(S)) /\ Rest(S) \subseteq S
  BY RestFacts
<1>2. SumOver(f, S) = f[Pick(S)] + Iter(f, S)[Rest(S)]
  BY IterMeets, SumIsIter DEF Meets
<1>3. \A s \in SUBSET Rest(S) : Iter(f, Rest(S))[s] = Iter(f, S)[s]
  <2>1. Meets(Iter(f, Rest(S)), f, SUBSET Rest(S))
    BY <1>1, IterMeets
  <2>2. Meets(Iter(f, S), f, SUBSET Rest(S))
    BY <1>1, IterMeets DEF Meets
  <2>3. \A s \in SUBSET Rest(S) : IsFiniteSet(s)
    BY <1>1, FS_Subset
  <2>4. \A s \in SUBSET Rest(S) : s # {} => Rest(s) \in SUBSET Rest(S)
    BY <2>3, RestFacts
  <2>5. QED
    BY <2>1, <2>2, <2>3, <2>4, SolutionsAgree
<1>4. SumOver(f, Rest(S)) = Iter(f, S)[Rest(S)]
  BY <1>3, SumIsIter
<1>5. QED
  BY <1>2, <1>4

(* A sum of integers is one.                                               *)
LEMMA SumType ==
    ASSUME NEW f, NEW S, IsFiniteSet(S), \A x \in S : f[x] \in Int
    PROVE  SumOver(f, S) \in Int
<1> DEFINE Bad == {s \in SUBSET S : SumOver(f, s) \notin Int}
<1>1. SUFFICES ASSUME Bad # {} PROVE FALSE
  OBVIOUS
<1>2. \A t \in SUBSET S : IsFiniteSet(t)
  BY FS_Subset
<1>3. PICK s \in Bad : \A t \in Bad : Cardinality(s) <= Cardinality(t)
  <2>1. \A t \in Bad : IsFiniteSet(t)
    BY <1>2
  <2> HIDE DEF Bad
  <2>2. QED
    BY <1>1, <2>1, SmallestSet
<1>4. SumOver(f, {}) \in Int
  BY SumEmpty
<1>5. s # {} /\ IsFiniteSet(s) /\ s \in SUBSET S /\ SumOver(f, s) \notin Int
  BY <1>2, <1>3, <1>4
<1>6. /\ Cardinality(s) = Cardinality(Rest(s)) + 1
      /\ Cardinality(Rest(s)) \in Nat
      /\ f[Pick(s)] \in Int
      /\ Rest(s) \in SUBSET S
  BY <1>5, RestFacts
<1>7. SumOver(f, s) = f[Pick(s)] + SumOver(f, Rest(s))
  BY <1>5, SumStep
<1>8. Rest(s) \in Bad
  BY <1>5, <1>6, <1>7
<1>9. QED
  BY <1>3, <1>6, <1>8

(* Functions that agree on a set have the same sum over it.                *)
LEMMA SumSame ==
    ASSUME NEW f, NEW g, NEW S, IsFiniteSet(S), \A x \in S : f[x] = g[x]
    PROVE  SumOver(f, S) = SumOver(g, S)
<1>1. Meets(Iter(g, S), f, SUBSET S)
  BY IterMeets, RestFacts, FS_Subset DEF Meets
<1>2. Meets(Iter(f, S), f, SUBSET S)
  BY IterMeets
<1>3. \A s \in SUBSET S : IsFiniteSet(s)
  BY FS_Subset
<1>4. \A s \in SUBSET S : s # {} => Rest(s) \in SUBSET S
  BY <1>3, RestFacts
<1>5. QED
  BY <1>1, <1>2, <1>3, <1>4, SolutionsAgree, SumIsIter

(* Any element can be taken out first.                                     *)
LEMMA SumRemove ==
    ASSUME NEW f, NEW S, IsFiniteSet(S), \A x \in S : f[x] \in Int, NEW a \in S
    PROVE  SumOver(f, S) = f[a] + SumOver(f, S \ {a})
<1> DEFINE Takes(s, x) == SumOver(f, s) = f[x] + SumOver(f, s \ {x})
           Bad == {s \in SUBSET S : \E x \in s : ~Takes(s, x)}
<1>1. SUFFICES ASSUME Bad # {} PROVE FALSE
  OBVIOUS
<1>2. \A t \in SUBSET S : IsFiniteSet(t)
  BY FS_Subset
<1>3. PICK s \in Bad : \A t \in Bad : Cardinality(s) <= Cardinality(t)
  <2>1. \A t \in Bad : IsFiniteSet(t)
    BY <1>2
  <2> HIDE DEF Bad
  <2>2. QED
    BY <1>1, <2>1, SmallestSet
<1>4. s \in SUBSET S /\ IsFiniteSet(s)
  BY <1>2, <1>3
<1>5. PICK x \in s : ~Takes(s, x)
  BY <1>3
<1> DEFINE p == Pick(s)
<1>6. p \in s /\ Takes(s, p)
  <2>1. s # {}
    BY <1>5
  <2>2. QED
    BY <1>4, <2>1, RestFacts, SumStep DEF Rest
<1>7. x # p
  BY <1>5, <1>6
<1>8. \A y \in s : s \ {y} \notin Bad
  <2>1. Cardinality(s) \in Nat
    BY <1>4, FS_CardinalityType
  <2>2. \A y \in s : Cardinality(s \ {y}) = Cardinality(s) - 1
    BY <1>4, FS_RemoveElement
  <2> HIDE DEF Bad
  <2>3. QED
    BY <1>3, <2>1, <2>2
<1>9. Takes(s \ {p}, x) /\ Takes(s \ {x}, p)
  BY <1>4, <1>5, <1>6, <1>7, <1>8
<1>10. (s \ {x}) \ {p} = (s \ {p}) \ {x}
  OBVIOUS
<1>11. f[p] \in Int /\ f[x] \in Int /\ SumOver(f, (s \ {p}) \ {x}) \in Int
  <2>1. IsFiniteSet((s \ {p}) \ {x}) /\ (s \ {p}) \ {x} \subseteq S
    BY <1>2, <1>4
  <2>2. QED
    BY <1>4, <1>5, <1>6, <2>1, SumType
<1>12. QED
  <2>1. SumOver(f, s) = f[p] + (f[x] + SumOver(f, (s \ {p}) \ {x}))
    BY <1>6, <1>9
  <2>2. SumOver(f, s \ {x}) = f[p] + SumOver(f, (s \ {p}) \ {x})
    BY <1>9, <1>10
  <2>3. QED
    BY <1>5, <1>11, <2>1, <2>2

(* One element more.                                                       *)
LEMMA SumAdd ==
    ASSUME NEW f, NEW S, IsFiniteSet(S), NEW a, a \notin S,
           \A x \in S \cup {a} : f[x] \in Int
    PROVE  SumOver(f, S \cup {a}) = SumOver(f, S) + f[a]
<1>1. IsFiniteSet(S \cup {a}) /\ (S \cup {a}) \ {a} = S
  BY FS_AddElement
<1>2. SumOver(f, S \cup {a}) = f[a] + SumOver(f, S)
  BY <1>1, SumRemove
<1>3. SumOver(f, S) \in Int
  BY SumType
<1>4. QED
  BY <1>2, <1>3

(* A sum of natural numbers is one.                                        *)
LEMMA SumNat ==
    ASSUME NEW f, NEW S, IsFiniteSet(S), \A x \in S : f[x] \in Nat
    PROVE  SumOver(f, S) \in Nat
<1> DEFINE Bad == {s \in SUBSET S : SumOver(f, s) \notin Nat}
<1>1. SUFFICES ASSUME Bad # {} PROVE FALSE
  OBVIOUS
<1>2. \A t \in SUBSET S : IsFiniteSet(t)
  BY FS_Subset
<1>3. PICK s \in Bad : \A t \in Bad : Cardinality(s) <= Cardinality(t)
  <2>1. \A t \in Bad : IsFiniteSet(t)
    BY <1>2
  <2> HIDE DEF Bad
  <2>2. QED
    BY <1>1, <2>1, SmallestSet
<1>4. s # {} /\ IsFiniteSet(s) /\ s \in SUBSET S /\ SumOver(f, s) \notin Nat
  BY <1>2, <1>3, SumEmpty
<1>5. /\ Cardinality(s) = Cardinality(Rest(s)) + 1
      /\ Cardinality(Rest(s)) \in Nat
      /\ f[Pick(s)] \in Nat
      /\ Rest(s) \in SUBSET S
  BY <1>4, RestFacts
<1>6. SumOver(f, s) = f[Pick(s)] + SumOver(f, Rest(s))
  BY <1>4, SumStep
<1>7. Rest(s) \in Bad
  BY <1>4, <1>5, <1>6
<1>8. QED
  BY <1>3, <1>5, <1>7

(* No term is greater than a sum of natural numbers.                       *)
LEMMA SumAtLeast ==
    ASSUME NEW f, NEW S, IsFiniteSet(S), \A x \in S : f[x] \in Nat, NEW a \in S
    PROVE  f[a] <= SumOver(f, S)
<1>1. SumOver(f, S) = f[a] + SumOver(f, S \ {a})
  BY SumRemove
<1>2. IsFiniteSet(S \ {a})
  BY FS_Subset
<1>3. SumOver(f, S \ {a}) \in Nat
  BY <1>2, SumNat
<1>4. QED
  BY <1>1, <1>3
=============================================================================
