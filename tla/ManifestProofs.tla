--------------------------- MODULE ManifestProofs ---------------------------
(* What the schedulers' proofs need to know of the conflict test, of the   *)
(* resources of a set of claims and of paths.                              *)
EXTENDS Manifest, FiniteSetTheorems, WellFoundedInduction, SequenceTheorems, TLAPS

(* OwnershipConflict does not depend on the order of its arguments, for    *)
(* claims that Validate accepts.                                           *)
LEMMA ConflictSymmetric ==
    ASSUME NEW L, NEW R, L # {}, R # {},
           \A p \in L \cup R : normalizeOwnership(p) # Refused,
           OwnershipConflict(L, R)
    PROVE  OwnershipConflict(R, L)
  BY Zenon DEF OwnershipConflict, Overlap

-----------------------------------------------------------------------------
(* Sums.                                                                   *)

(* Total is a recursive function on the subsets of its argument, which     *)
(* takes one element after another; this is the equation it satisfies.     *)
Picked(s) == CHOOSE x \in s : TRUE
Partial(g, S, f) == f = [s \in SUBSET S |-> IF s = {} THEN 0 ELSE g[Picked(s)] + f[s \ {Picked(s)}]]

(* The definition of Total, unfolded.                                     *)
LEMMA TotalIs ==
  ASSUME NEW g, NEW S PROVE Total(g, S) = (CHOOSE f : Partial(g, S, f))[S]
BY Zenon DEF Total, MapThenSumSet, MapThenFoldSet, Partial, Picked

(* The same sum as a cardinality: a pile of g[x] things for each x.        *)
Pile(g, S) == UNION { {x} \X (1..g[x]) : x \in S }

(* Another element adds its own pile.                                      *)
LEMMA PileAdds ==
  ASSUME NEW g, NEW S, NEW x, g[x] \in Nat, x \notin S, IsFiniteSet(Pile(g, S))
  PROVE  /\ IsFiniteSet(Pile(g, S \cup {x}))
         /\ Cardinality(Pile(g, S \cup {x})) = Cardinality(Pile(g, S)) + g[x]
<1> DEFINE P == {x} \X (1..g[x])
<1>0. g[x] \in Nat
  OBVIOUS
<1>1. IsFiniteSet(P) /\ Cardinality(P) = g[x]
  <2>1. IsFiniteSet({x}) /\ Cardinality({x}) = 1
    BY FS_Singleton
  <2>2. IsFiniteSet(1..g[x]) /\ Cardinality(1..g[x]) = g[x]
    BY <1>0, FS_Interval
  <2>3. IsFiniteSet(P) /\ Cardinality(P) = Cardinality({x}) * Cardinality(1..g[x])
    BY <2>1, <2>2, FS_Product
  <2> QED
    BY <1>0, <2>1, <2>2, <2>3
<1>2. Pile(g, S \cup {x}) = Pile(g, S) \cup P
  BY DEF Pile
<1>3. Pile(g, S) \cap P = {}
  BY DEF Pile
<1> HIDE DEF P
<1>4. /\ IsFiniteSet(Pile(g, S) \cup P)
      /\ Cardinality(Pile(g, S) \cup P) = Cardinality(Pile(g, S)) + Cardinality(P) - Cardinality(Pile(g, S) \cap P)
  BY <1>1, FS_Union
<1>5. Cardinality(Pile(g, S)) \in Nat /\ Cardinality(Pile(g, S) \cap P) = 0
  BY <1>3, FS_CardinalityType, FS_EmptySet
<1>6. Cardinality(Pile(g, S) \cup P) = Cardinality(Pile(g, S)) + g[x]
  <2> DEFINE a == Cardinality(Pile(g, S) \cup P)
             b == Cardinality(Pile(g, S))
             c == Cardinality(Pile(g, S) \cap P)
             d == Cardinality(P)
  <2>1. a = b + d - c /\ b \in Nat /\ c = 0 /\ d = g[x]
    BY <1>1, <1>4, <1>5
  <2> HIDE DEF a, b, c, d
  <2>2. a = b + g[x]
    BY <1>0, <2>1
  <2> QED
    BY <2>2 DEF a, b
<1> QED
  BY <1>2, <1>4, <1>6

(* Finitely many finite piles are a finite set.                            *)
LEMMA PileFinite ==
  ASSUME NEW D, NEW g, \A x \in D : g[x] \in Nat, IsFiniteSet(D)
  PROVE  \A S \in SUBSET D : IsFiniteSet(Pile(g, S)) /\ Cardinality(Pile(g, S)) \in Nat
<1> SUFFICES ASSUME NEW S \in SUBSET D PROVE IsFiniteSet(Pile(g, S))
  BY FS_CardinalityType
<1>1. IsFiniteSet(S)
  BY FS_Subset
<1>2. \A x \in S : IsFiniteSet({x} \X (1..g[x]))
  <2> SUFFICES ASSUME NEW x \in S PROVE IsFiniteSet({x} \X (1..g[x]))
    OBVIOUS
  <2>1. IsFiniteSet({x})
    BY FS_Singleton
  <2>2. IsFiniteSet(1..g[x])
    BY FS_Interval
  <2> HIDE DEF Pile
  <2> QED
    BY <2>1, <2>2, FS_Product
<1>3. IsFiniteSet({ {x} \X (1..g[x]) : x \in S })
  <2> DEFINE F == [x \in S |-> {x} \X (1..g[x])]
             T == { {x} \X (1..g[x]) : x \in S }
  <2>1. F \in Surjection(S, T)
    BY DEF Surjection
  <2> HIDE DEF F, T
  <2>2. IsFiniteSet(T)
    BY <1>1, <2>1, FS_Surjection
  <2> QED
    BY <2>2 DEF T
<1> QED
  BY <1>2, <1>3, FS_UNION DEF Pile

(* The sizes of the piles satisfy the equation of Total, and nothing else  *)
(* does: a smallest set on which two functions differ has none smaller.    *)
LEMMA PileIsPartial ==
  ASSUME NEW D, NEW g, \A x \in D : g[x] \in Nat, IsFiniteSet(D)
  PROVE  Partial(g, D, [s \in SUBSET D |-> Cardinality(Pile(g, s))])
<1> DEFINE f == [s \in SUBSET D |-> Cardinality(Pile(g, s))]
<1>1. ASSUME NEW s \in SUBSET D
      PROVE  f[s] = IF s = {} THEN 0 ELSE g[Picked(s)] + f[s \ {Picked(s)}]
  <2>1. CASE s = {}
    <3>1. Pile(g, {}) = {}
      BY DEF Pile
    <3> QED
      BY <2>1, <3>1, FS_EmptySet
  <2>2. CASE s # {}
    <3> DEFINE x == Picked(s)
               t == s \ {x}
    <3>1. x \in s
      BY <2>2 DEF Picked
    <3> HIDE DEF x
    <3>2. x \in D /\ t \in SUBSET D /\ x \notin t /\ t \cup {x} = s
      BY <3>1
    <3>3. IsFiniteSet(Pile(g, t)) /\ Cardinality(Pile(g, t)) \in Nat
      BY <3>2, PileFinite
    <3> HIDE DEF t
    <3>4. Cardinality(Pile(g, t \cup {x})) = Cardinality(Pile(g, t)) + g[x]
      BY <3>2, <3>3, PileAdds
    <3>5. f[s] = f[t] + g[x]
      BY <3>2, <3>4
    <3>6. f[s] = g[x] + f[t]
      <4>1. g[x] \in Nat /\ f[t] \in Nat
        BY <3>2, <3>3
      <4> HIDE DEF f
      <4> QED
        BY <3>5, <4>1
    <3> HIDE DEF f
    <3> QED
      BY <2>2, <3>6 DEF t, x
  <2> QED
    BY <2>1, <2>2
<1>2. f = [s \in SUBSET D |-> IF s = {} THEN 0 ELSE g[Picked(s)] + f[s \ {Picked(s)}]]
  BY <1>1
<1> QED
  BY <1>2 DEF Partial

(* The equation determines the function.                                   *)
LEMMA OnePartial ==
  ASSUME NEW D, NEW g, \A x \in D : g[x] \in Nat, IsFiniteSet(D), NEW f, NEW h, Partial(g, D, f), Partial(g, D, h)
  PROVE  \A s \in SUBSET D : f[s] = h[s]
<1> SUFFICES ASSUME NEW s0 \in SUBSET D, f[s0] # h[s0] PROVE FALSE
  OBVIOUS
<1> DEFINE Sizes == { Cardinality(s) : s \in { t \in SUBSET D : f[t] # h[t] } }
<1>0. \A s \in SUBSET D : IsFiniteSet(s) /\ Cardinality(s) \in Nat
  BY FS_Subset, FS_CardinalityType
<1>1. Sizes \subseteq Nat /\ Sizes # {}
  BY <1>0
<1>2. PICK n \in Sizes : \A m \in Sizes : ~(m < n)
  <2>1. \E n \in Sizes : \A m \in Sizes : ~(<<m, n>> \in OpToRel(<, Nat))
    BY <1>1, NatLessThanWellFounded, WFMin, Zenon
  <2>2. \A m, n \in Nat : m < n => <<m, n>> \in OpToRel(<, Nat)
    BY Zenon DEF OpToRel
  <2> HIDE DEF Sizes
  <2> QED
    BY <1>1, <2>1, <2>2
<1>3. PICK s \in SUBSET D : f[s] # h[s] /\ n = Cardinality(s)
  BY <1>2
<1>4. /\ f[s] = IF s = {} THEN 0 ELSE g[Picked(s)] + f[s \ {Picked(s)}]
      /\ h[s] = IF s = {} THEN 0 ELSE g[Picked(s)] + h[s \ {Picked(s)}]
  BY Zenon DEF Partial
<1>5. s # {}
  BY <1>3, <1>4
<1>6. Picked(s) \in s
  BY <1>5 DEF Picked
<1>7. f[s \ {Picked(s)}] # h[s \ {Picked(s)}]
  BY <1>3, <1>4, <1>5, Zenon
<1>8. Cardinality(s \ {Picked(s)}) \in Sizes
  BY <1>7
<1>9. Cardinality(s \ {Picked(s)}) = Cardinality(s) - 1
  BY <1>0, <1>6, FS_RemoveElement
<1> HIDE DEF Sizes
<1> QED
  BY <1>0, <1>1, <1>2, <1>3, <1>8, <1>9

(* So the sum is the cardinality of the piles.                             *)
LEMMA TotalIsPile ==
  ASSUME NEW D, NEW g, \A x \in D : g[x] \in Nat, IsFiniteSet(D)
  PROVE  Total(g, D) = Cardinality(Pile(g, D))
<1> DEFINE p == [s \in SUBSET D |-> Cardinality(Pile(g, s))]
           f == CHOOSE f : Partial(g, D, f)
<1>1. Partial(g, D, p)
  BY PileIsPartial
<1>2. Partial(g, D, f)
  BY <1>1, Zenon
<1>3. Total(g, D) = f[D]
  BY TotalIs, Zenon
<1> HIDE DEF f
<1>4. f[D] = p[D]
  <2> HIDE DEF p
  <2>1. \A s \in SUBSET D : f[s] = p[s]
    BY <1>1, <1>2, OnePartial
  <2> QED
    BY <2>1
<1> QED
  BY <1>3, <1>4

(* A sum of natural numbers is one.                                        *)
LEMMA TotalNat ==
  ASSUME NEW D, NEW g, \A x \in D : g[x] \in Nat, IsFiniteSet(D)
  PROVE  Total(g, D) \in Nat
  BY TotalIsPile, PileFinite

(* The empty sum.                                                          *)
LEMMA TotalOfNone == ASSUME NEW g PROVE Total(g, {}) = 0
<1>1. Total(g, {}) = Cardinality(Pile(g, {}))
  BY FS_EmptySet, TotalIsPile
<1>2. Pile(g, {}) = {}
  BY DEF Pile
<1> QED
  BY <1>1, <1>2, FS_EmptySet

(* Another element adds its value.                                         *)
LEMMA TotalAdds ==
  ASSUME NEW D, NEW g, \A x \in D : g[x] \in Nat, IsFiniteSet(D), NEW y, y \notin D, g[y] \in Nat
  PROVE  Total(g, D \cup {y}) = Total(g, D) + g[y]
<1>1. IsFiniteSet(D \cup {y})
  BY FS_AddElement
<1>2. \A x \in D \cup {y} : g[x] \in Nat
  OBVIOUS
<1>3. Total(g, D \cup {y}) = Cardinality(Pile(g, D \cup {y}))
  BY <1>1, <1>2, TotalIsPile
<1>4. Total(g, D) = Cardinality(Pile(g, D))
  BY TotalIsPile
<1>5. IsFiniteSet(Pile(g, D))
  BY PileFinite
<1> QED
  BY <1>3, <1>4, <1>5, PileAdds

(* Things that are all named by members of D, each with the value of those *)
(* that name it, sum to no more than D.                                    *)
LEMMA TotalOfNamed ==
  ASSUME NEW D, NEW g, \A x \in D : g[x] \in Nat, IsFiniteSet(D),
         NEW name, NEW T, NEW h, \A t \in T : \E x \in D : name[x] = t /\ g[x] = h[t]
  PROVE  IsFiniteSet(T) /\ (\A t \in T : h[t] \in Nat) /\ Total(h, T) <= Total(g, D)
<1> DEFINE C == { x \in D : name[x] \in T /\ g[x] = h[name[x]] }
           P == Pile(g, C)
           Q == Pile(h, T)
           f == [e \in P |-> <<name[e[1]], e[2]>>]
<1>1. IsFiniteSet(C)
  BY FS_Subset
<1>2. IsFiniteSet(T)
  <2> DEFINE n == [x \in C |-> name[x]]
  <2>1. n \in Surjection(C, T)
    BY DEF Surjection
  <2> HIDE DEF C, n
  <2> QED
    BY <1>1, <2>1, FS_Surjection
<1>3. \A t \in T : h[t] \in Nat
  OBVIOUS
<1>4. IsFiniteSet(P) /\ IsFiniteSet(Pile(g, D))
  BY PileFinite
<1>5. f \in Surjection(P, Q)
  <2>1. ASSUME NEW e \in P PROVE f[e] \in Q
    <3>1. PICK x \in C : e \in {x} \X (1..g[x])
      BY DEF Pile
    <3> QED
      BY <3>1 DEF Pile
  <2>2. ASSUME NEW q \in Q PROVE \E e \in P : f[e] = q
    <3>1. PICK t \in T : q \in {t} \X (1..h[t])
      BY DEF Pile
    <3>2. PICK x \in D : name[x] = t /\ g[x] = h[t]
      OBVIOUS
    <3>3. PICK k \in 1..h[t] : q = <<t, k>>
      BY <3>1
    <3>4. <<x, k>> \in P
      BY <3>2, <3>3 DEF Pile
    <3>5. f[<<x, k>>] = q
      BY <3>2, <3>3, <3>4
    <3> QED
      BY <3>4, <3>5
  <2> HIDE DEF P, Q
  <2> QED
    BY <2>1, <2>2 DEF Surjection
<1>6. P \subseteq Pile(g, D)
  BY DEF Pile
<1>7. Total(g, D) = Cardinality(Pile(g, D)) /\ Total(h, T) = Cardinality(Q)
  BY <1>2, <1>3, TotalIsPile
<1> HIDE DEF P, Q, f
<1>8. Cardinality(Q) <= Cardinality(P)
  BY <1>4, <1>5, FS_Surjection
<1>9. Cardinality(P) <= Cardinality(Pile(g, D))
  BY <1>4, <1>6, FS_Subset
<1>10. IsFiniteSet(Q)
  BY <1>4, <1>5, FS_Surjection
<1>11. Cardinality(Q) \in Nat /\ Cardinality(P) \in Nat /\ Cardinality(Pile(g, D)) \in Nat
  BY <1>4, <1>10, FS_CardinalityType
<1> QED
  BY <1>2, <1>3, <1>7, <1>8, <1>9, <1>11

(* A part sums to no more than the whole.                                  *)
LEMMA TotalOfPart ==
  ASSUME NEW D, NEW g, \A x \in D : g[x] \in Nat, IsFiniteSet(D), NEW S, S \subseteq D
  PROVE  Total(g, S) <= Total(g, D)
<1> DEFINE name == [x \in D |-> x]
<1>1. \A t \in S : \E x \in D : name[x] = t /\ g[x] = g[t]
  OBVIOUS
<1> HIDE DEF name
<1> QED
  BY <1>1, TotalOfNamed

(* A sum depends on the values of its members only.                        *)
LEMMA TotalOfSame ==
  ASSUME NEW D, NEW g, \A x \in D : g[x] \in Nat, IsFiniteSet(D), NEW h, \A x \in D : h[x] = g[x]
  PROVE  Total(h, D) = Total(g, D)
<1>1. Pile(h, D) = Pile(g, D)
  BY DEF Pile
<1>2. \A x \in D : h[x] \in Nat
  OBVIOUS
<1> QED
  BY <1>1, <1>2, TotalIsPile

(* One member counted apart from the others.                               *)
LEMMA TotalApart ==
  ASSUME NEW D, NEW g, \A x \in D : g[x] \in Nat, IsFiniteSet(D), NEW y \in D
  PROVE  Total(g, D) = Total(g, D \ {y}) + g[y]
<1> DEFINE R == D \ {y}
<1>1. IsFiniteSet(R) /\ y \notin R /\ R \cup {y} = D /\ \A x \in R : g[x] \in Nat
  BY FS_RemoveElement
<1> HIDE DEF R
<1>2. Total(g, R \cup {y}) = Total(g, R) + g[y]
  BY <1>1, TotalAdds
<1> QED
  BY <1>1, <1>2 DEF R

(* Values of at most m sum to at most m for each member.                   *)
LEMMA TotalOfBounded ==
  ASSUME NEW D, NEW g, NEW m \in Nat, \A x \in D : g[x] \in 0..m, IsFiniteSet(D)
  PROVE  Total(g, D) <= Cardinality(D) * m
<1>1. \A x \in D : g[x] \in Nat
  OBVIOUS
<1>2. Total(g, D) = Cardinality(Pile(g, D)) /\ IsFiniteSet(Pile(g, D))
  BY <1>1, TotalIsPile, PileFinite
<1>3. IsFiniteSet(1..m) /\ Cardinality(1..m) = m
  BY FS_Interval
<1>4. IsFiniteSet(D \X (1..m)) /\ Cardinality(D \X (1..m)) = Cardinality(D) * m
  BY <1>3, FS_Product
<1>5. Pile(g, D) \subseteq D \X (1..m)
  BY DEF Pile
<1>6. Cardinality(Pile(g, D)) <= Cardinality(D \X (1..m))
  BY <1>4, <1>5, FS_Subset
<1> QED
  BY <1>2, <1>4, <1>6

-----------------------------------------------------------------------------
(* Paths.                                                                  *)

(* Induction over the natural numbers, as a statement about a set.         *)
LEMMA EveryNat ==
  ASSUME NEW T \in SUBSET Nat, 0 \in T, \A n \in T : n + 1 \in T
  PROVE  T = Nat
<1> DEFINE U == Nat \ T
<1> SUFFICES ASSUME U # {} PROVE FALSE
  OBVIOUS
<1>1. \E n \in U : \A m \in U : ~(<<m, n>> \in OpToRel(<, Nat))
  <2>1. U \subseteq Nat
    OBVIOUS
  <2> HIDE DEF U
  <2> QED
    BY <2>1, NatLessThanWellFounded, WFMin, Zenon
<1>2. \A m, n \in Nat : m < n => <<m, n>> \in OpToRel(<, Nat)
  BY Zenon DEF OpToRel
<1>3. PICK n \in U : \A m \in U : ~(m < n)
  BY <1>1, <1>2
<1>4. n # 0 /\ n - 1 \in Nat /\ n - 1 \notin U
  BY <1>3
<1> QED
  BY <1>3, <1>4

-----------------------------------------------------------------------------
(* Clean walks over a path.                                                *)

(* The function Clean folds a path with, on the subsets of 1..n: the last  *)
(* segment of a subset is the one that is pushed last.                     *)
Folding(p, D, f) ==
  f = [s \in SUBSET D |-> IF s = {} THEN <<>> ELSE CleanStep(f[s \ {Max(s)}], p[Max(s)])]

(* The definition of Clean, unfolded.                                      *)
LEMMA CleanIs ==
  ASSUME NEW p PROVE Clean(p) = (CHOOSE f : Folding(p, DOMAIN p, f))[DOMAIN p]
BY Zenon DEF Clean, FoldLeft, MapThenFoldSet, Folding

(* The last index of a set that holds n + 1.                               *)
LEMMA MaxOfUpTo ==
  ASSUME NEW n \in Nat, NEW s \in SUBSET (1..(n + 1)), n + 1 \in s
  PROVE  Max(s) = n + 1
<1>1. \A y \in s : n + 1 >= y
  OBVIOUS
<1>2. \A x \in s : (\A y \in s : x >= y) => x = n + 1
  OBVIOUS
<1> QED
  BY <1>1, <1>2 DEF Max

(* Such a function exists.                                                 *)
LEMMA FoldingExists ==
  ASSUME NEW p, NEW n \in Nat PROVE \E f : Folding(p, 1..n, f)
<1> DEFINE T == { m \in Nat : \E f : Folding(p, 1..m, f) }
<1>1. 0 \in T
  <2> DEFINE f == [s \in SUBSET (1..0) |-> <<>>]
  <2>1. \A s \in SUBSET (1..0) : s = {}
    OBVIOUS
  <2>2. f = [s \in SUBSET (1..0) |-> IF s = {} THEN <<>> ELSE CleanStep(f[s \ {Max(s)}], p[Max(s)])]
    BY <2>1
  <2> QED
    BY <2>2 DEF Folding
<1>2. ASSUME NEW m \in T PROVE m + 1 \in T
  <2>1. PICK f : Folding(p, 1..m, f)
    OBVIOUS
  <2> DEFINE step(g, s) == IF s = {} THEN <<>> ELSE CleanStep(g[s \ {Max(s)}], p[Max(s)])
             g == [s \in SUBSET (1..(m + 1)) |->
                     IF m + 1 \in s THEN CleanStep(f[s \ {m + 1}], p[m + 1]) ELSE f[s]]
  <2>2. ASSUME NEW s \in SUBSET (1..(m + 1)) PROVE g[s] = step(g, s)
    <3>1. CASE m + 1 \in s
      <4>1. Max(s) = m + 1 /\ s # {}
        BY <3>1, MaxOfUpTo
      <4>2. s \ {m + 1} \in SUBSET (1..(m + 1)) /\ m + 1 \notin s \ {m + 1}
        OBVIOUS
      <4>3. g[s \ {m + 1}] = f[s \ {m + 1}]
        BY <4>2
      <4>4. g[s] = CleanStep(f[s \ {m + 1}], p[m + 1])
        BY <3>1
      <4> HIDE DEF g
      <4> QED
        BY <4>1, <4>3, <4>4, Zenon
    <3>2. CASE m + 1 \notin s
      <4>1. s \in SUBSET (1..m)
        BY <3>2
      <4>2. f[s] = step(f, s)
        BY <2>1, <4>1, Zenon DEF Folding
      <4>3. g[s] = f[s]
        BY <3>2
      <4>4. s \ {Max(s)} \in SUBSET (1..(m + 1)) /\ m + 1 \notin s \ {Max(s)}
        BY <3>2
      <4>5. g[s \ {Max(s)}] = f[s \ {Max(s)}]
        BY <4>4
      <4> HIDE DEF g
      <4> QED
        BY <4>2, <4>3, <4>5, Zenon
    <3> QED
      BY <3>1, <3>2
  <2>3. g = [s \in SUBSET (1..(m + 1)) |-> step(g, s)]
    BY <2>2, Zenon
  <2>4. Folding(p, 1..(m + 1), g)
    BY <2>3, Zenon DEF Folding
  <2>5. m + 1 \in Nat
    OBVIOUS
  <2> QED
    BY <2>4, <2>5, Zenon
<1>3. T = Nat
  <2>1. T \in SUBSET Nat
    OBVIOUS
  <2> HIDE DEF T
  <2> QED
    BY <1>1, <1>2, <2>1, EveryNat
<1> QED
  BY <1>3

(* The stacks Clean goes through, one after each segment.                  *)
IsWalk(p, w) == w[0] = <<>> /\ \A k \in 1..Len(p) : w[k] = CleanStep(w[k - 1], p[k])

(* The three cases of a step.                                              *)
LEMMA StepCases ==
  ASSUME NEW s, NEW e
  PROVE  /\ e \in {Root, Here} => CleanStep(s, e) = s
         /\ e = Up /\ s # <<>> /\ Last(s) # Up => CleanStep(s, e) = Front(s)
         /\ e \notin {Root, Here, Up} => CleanStep(s, e) = Append(s, e)
         /\ e = Up /\ (s = <<>> \/ Last(s) = Up) => CleanStep(s, e) = Append(s, e)
<1> DEFINE P == e \in {Root, Here}
           Q == e = Up /\ s # <<>> /\ Last(s) # Up
           f == Front(s)
           a == Append(s, e)
<1>1. CleanStep(s, e) = CASE P -> s [] Q -> f [] OTHER -> a
  BY Zenon DEF CleanStep
<1>2. ~(P /\ Q)
  BY DEF Root, Here, Up
<1>3. e = Up => ~P
  BY DEF Root, Here, Up
<1> HIDE DEF P, Q, f, a
<1>4. /\ P => CleanStep(s, e) = s
      /\ Q => CleanStep(s, e) = f
      /\ ~P /\ ~Q => CleanStep(s, e) = a
  BY <1>1, <1>2, Zenon
<1> QED
  BY <1>3, <1>4, Zenon DEF P, Q, f, a

(* What a push or a pop does to a stack of segments.                       *)
LEMMA StepProperties ==
  ASSUME NEW E, NEW s \in Seq(E), NEW e \in E
  PROVE  /\ CleanStep(s, e) \in Seq(E)
         /\ Len(CleanStep(s, e)) <= Len(s) + 1
<1>1. CASE CleanStep(s, e) = s
  BY <1>1
<1>2. CASE s # <<>> /\ CleanStep(s, e) = Front(s)
  BY <1>2 DEF Front
<1>3. CASE CleanStep(s, e) = Append(s, e)
  BY <1>3, AppendProperties
<1> QED
  BY <1>1, <1>2, <1>3, StepCases, Zenon

(* Clean returns the last stack of the only walk over its path.            *)
LEMMA CleanWalks ==
  ASSUME NEW E, NEW p \in Seq(E)
  PROVE  \E w : IsWalk(p, w) /\ Clean(p) = w[Len(p)]
<1> DEFINE n == Len(p)
<1>1. n \in Nat /\ DOMAIN p = 1..n
  BY LenProperties
<1> HIDE DEF n
<1> DEFINE F == CHOOSE f : Folding(p, 1..n, f)
<1>2. Folding(p, 1..n, F)
  BY <1>1, FoldingExists, Zenon
<1>3. Clean(p) = F[1..n]
  BY <1>1, CleanIs, Zenon
<1> HIDE DEF F
<1> DEFINE w == [k \in 0..n |-> F[1..k]]
<1>4. w[0] = <<>>
  <2>1. 1..0 = {} /\ w[0] = F[1..0] /\ {} \in SUBSET (1..n)
    BY <1>1
  <2>2. F[{}] = <<>>
    BY <1>2, <2>1, Zenon DEF Folding
  <2> QED
    BY <2>1, <2>2, Zenon
<1>5. ASSUME NEW k \in 1..n PROVE w[k] = CleanStep(w[k - 1], p[k])
  <2>1. 1..k \in SUBSET (1..n) /\ 1..k # {} /\ k - 1 \in 0..n /\ k \in 0..n
    BY <1>1
  <2>2. Max(1..k) = k
    <3>1. k - 1 \in Nat /\ 1..k \in SUBSET (1..((k - 1) + 1)) /\ (k - 1) + 1 \in 1..k /\ (k - 1) + 1 = k
      BY <1>1
    <3> QED
      BY <3>1, MaxOfUpTo
  <2>3. (1..k) \ {k} = 1..(k - 1)
    BY <1>1
  <2>4. F[1..k] = CleanStep(F[(1..k) \ {Max(1..k)}], p[Max(1..k)])
    BY <1>2, <2>1, Zenon DEF Folding
  <2>5. F[1..k] = CleanStep(F[1..(k - 1)], p[k])
    BY <2>2, <2>3, <2>4, Zenon
  <2>6. w[k] = F[1..k] /\ w[k - 1] = F[1..(k - 1)]
    BY <2>1, Zenon
  <2> QED
    BY <2>5, <2>6, Zenon
<1>6. w[n] = F[1..n]
  BY <1>1
<1> HIDE DEF w
<1>7. IsWalk(p, w)
  BY <1>4, <1>5, Zenon DEF IsWalk, n
<1> QED
  BY <1>3, <1>6, <1>7, Zenon DEF n

(* Two walks that read the same segments hold the same stacks.             *)
LEMMA SameWalks ==
  ASSUME NEW E, NEW p \in Seq(E), NEW q \in Seq(E), NEW v, NEW w, IsWalk(p, v), IsWalk(q, w),
         Len(p) <= Len(q), \A k \in 1..Len(p) : p[k] = q[k]
  PROVE  \A k \in 0..Len(p) : v[k] = w[k]
<1> DEFINE T == { k \in Nat : k <= Len(p) => v[k] = w[k] }
<1>1. 0 \in T
  BY DEF IsWalk
<1>2. ASSUME NEW k \in T PROVE k + 1 \in T
  <2> SUFFICES ASSUME k + 1 <= Len(p) PROVE v[k + 1] = w[k + 1]
    OBVIOUS
  <2>1. k + 1 \in 1..Len(p) /\ k + 1 \in 1..Len(q) /\ (k + 1) - 1 = k
    OBVIOUS
  <2>2. v[k] = w[k]
    OBVIOUS
  <2> QED
    BY <2>1, <2>2, Zenon DEF IsWalk
<1>3. T \in SUBSET Nat
  OBVIOUS
<1>4. T = Nat
  <2> HIDE DEF T
  <2> QED
    BY <1>1, <1>2, <1>3, EveryNat
<1> QED
  BY <1>4

(* Every stack holds segments of the path, and no more than were read.     *)
LEMMA WalkTypes ==
  ASSUME NEW E, NEW p \in Seq(E), NEW w, IsWalk(p, w)
  PROVE  \A k \in 0..Len(p) : w[k] \in Seq(E) /\ Len(w[k]) <= k
<1> DEFINE T == { k \in Nat : k <= Len(p) => w[k] \in Seq(E) /\ Len(w[k]) <= k }
<1>1. 0 \in T
  <2>1. w[0] = <<>>
    BY DEF IsWalk
  <2>2. w[0] \in Seq(E) /\ Len(w[0]) = 0
    BY <2>1, EmptySeq
  <2> QED
    BY <2>2
<1>2. ASSUME NEW k \in T PROVE k + 1 \in T
  <2> SUFFICES ASSUME k + 1 <= Len(p) PROVE w[k + 1] \in Seq(E) /\ Len(w[k + 1]) <= k + 1
    OBVIOUS
  <2>1. k + 1 \in 1..Len(p) /\ (k + 1) - 1 = k /\ w[k] \in Seq(E) /\ Len(w[k]) <= k /\ k \in Nat
    OBVIOUS
  <2>2. w[k + 1] = CleanStep(w[k], p[k + 1])
    BY <2>1, Zenon DEF IsWalk
  <2>3. p[k + 1] \in E
    BY <2>1
  <2>4. w[k + 1] \in Seq(E) /\ Len(w[k + 1]) <= Len(w[k]) + 1
    BY <2>1, <2>2, <2>3, StepProperties
  <2> QED
    BY <2>1, <2>4
<1>3. T \in SUBSET Nat
  OBVIOUS
<1>4. T = Nat
  <2> HIDE DEF T
  <2> QED
    BY <1>1, <1>2, <1>3, EveryNat
<1> QED
  BY <1>4

(* What Clean returns is made of segments of its path, and not longer.     *)
LEMMA CleanTypes ==
  ASSUME NEW E, NEW p \in Seq(E)
  PROVE  Clean(p) \in Seq(E) /\ Len(Clean(p)) <= Len(p)
<1>1. PICK w : IsWalk(p, w) /\ Clean(p) = w[Len(p)]
  BY CleanWalks
<1>2. Len(p) \in 0..Len(p)
  OBVIOUS
<1> QED
  BY <1>1, <1>2, WalkTypes

(* A walk ends with what Clean returns.                                    *)
LEMMA WalkEnds ==
  ASSUME NEW E, NEW p \in Seq(E), NEW w, IsWalk(p, w)
  PROVE  w[Len(p)] = Clean(p)
<1>1. PICK v : IsWalk(p, v) /\ Clean(p) = v[Len(p)]
  BY CleanWalks
<1>2. \A k \in 0..Len(p) : v[k] = w[k]
  BY <1>1, SameWalks
<1> QED
  BY <1>1, <1>2

(* All but the last segment.                                               *)
LEMMA FrontIs ==
  ASSUME NEW E, NEW p \in Seq(E), p # <<>>
  PROVE  Front(p) \in Seq(E) /\ Len(Front(p)) = Len(p) - 1 /\ \A k \in 1..(Len(p) - 1) : Front(p)[k] = p[k]
<1> DEFINE q == Front(p)
           n == Len(p)
<1>1. n \in Nat /\ n > 0
  OBVIOUS
<1>2. \A i \in 1..(n - 1) : p[i] \in E
  BY <1>1
<1>3. q = SubSeq(p, 1, n - 1) /\ 1 \in Int /\ n - 1 \in Int
  BY <1>1 DEF Front
<1> HIDE DEF q
<1>4. /\ q \in Seq(E)
      /\ Len(q) = IF 1 <= n - 1 THEN (n - 1) - 1 + 1 ELSE 0
      /\ \A i \in 1..((n - 1) - 1 + 1) : q[i] = p[1 + i - 1]
  BY <1>2, <1>3, SubSeqProperties
<1> HIDE DEF n
<1>5. Len(q) = n - 1
  BY <1>1, <1>4
<1>6. ASSUME NEW k \in 1..(n - 1) PROVE q[k] = p[k]
  <2>1. k \in 1..((n - 1) - 1 + 1) /\ 1 + k - 1 = k
    BY <1>1
  <2> QED
    BY <1>4, <2>1, Zenon
<1> QED
  BY <1>4, <1>5, <1>6 DEF q, n

(* The last segment is pushed on what the others clean to.                 *)
LEMMA CleanOfFront ==
  ASSUME NEW E, NEW p \in Seq(E), p # <<>>
  PROVE  /\ Front(p) \in Seq(E) /\ Last(p) \in E
         /\ Len(Front(p)) = Len(p) - 1
         /\ Clean(p) = CleanStep(Clean(Front(p)), Last(p))
<1> DEFINE q == Front(p)
           n == Len(p)
<1>1. n \in Nat /\ n > 0
  OBVIOUS
<1>2. q \in Seq(E) /\ Len(q) = n - 1 /\ \A k \in 1..Len(q) : q[k] = p[k]
  BY FrontIs
<1>3. Last(p) = p[n] /\ Last(p) \in E
  BY <1>1 DEF Last
<1> HIDE DEF q
<1>4. PICK v : IsWalk(q, v) /\ Clean(q) = v[Len(q)]
  BY <1>2, CleanWalks
<1>5. PICK w : IsWalk(p, w) /\ Clean(p) = w[n]
  BY CleanWalks
<1>6. \A k \in 0..Len(q) : v[k] = w[k]
  BY <1>1, <1>2, <1>4, <1>5, SameWalks
<1>7. v[n - 1] = w[n - 1] /\ Clean(q) = v[n - 1]
  BY <1>1, <1>2, <1>4, <1>6
<1>8. w[n] = CleanStep(w[n - 1], p[n])
  <2>1. n \in 1..Len(p)
    BY <1>1
  <2> QED
    BY <1>5, <2>1, Zenon DEF IsWalk
<1> QED
  BY <1>2, <1>3, <1>5, <1>7, <1>8, Zenon DEF q, n

(* A leading "." changes nothing.                                          *)
LEMMA CleanOfTail ==
  ASSUME NEW E, NEW p \in Seq(E), p # <<>>, Head(p) = Here
  PROVE  Clean(Tail(p)) = Clean(p)
<1> DEFINE q == Tail(p)
           n == Len(p)
<1>1. n \in Nat /\ n > 0
  OBVIOUS
<1>2. q \in Seq(E) /\ Len(q) = n - 1 /\ \A k \in 1..Len(q) : q[k] = p[k + 1]
  BY <1>1, HeadTailProperties
<1>3. p[1] = Here
  BY <1>1
<1> HIDE DEF q
<1>4. PICK v : IsWalk(p, v) /\ Clean(p) = v[n]
  BY CleanWalks
<1> DEFINE w == [k \in 0..(n - 1) |-> v[k + 1]]
<1>5. w[0] = <<>>
  <2>1. 1 \in 1..Len(p) /\ 1 - 1 = 0
    BY <1>1
  <2>2. v[1] = CleanStep(v[0], Here) /\ v[0] = <<>>
    BY <1>3, <1>4, <2>1, Zenon DEF IsWalk
  <2>3. v[1] = <<>>
    BY <2>2, StepCases
  <2>4. w[0] = v[1]
    BY <1>1
  <2> QED
    BY <2>3, <2>4
<1>6. ASSUME NEW k \in 1..Len(q) PROVE w[k] = CleanStep(w[k - 1], q[k])
  <2>1. k + 1 \in 1..Len(p) /\ (k + 1) - 1 = k /\ k \in Nat
    BY <1>1, <1>2
  <2>2. v[k + 1] = CleanStep(v[k], p[k + 1])
    BY <1>4, <2>1, Zenon DEF IsWalk
  <2>3. w[k] = v[k + 1] /\ w[k - 1] = v[k]
    <3>1. k \in 0..(n - 1) /\ k - 1 \in 0..(n - 1) /\ (k - 1) + 1 = k
      BY <1>1, <1>2
    <3>2. w[k] = v[k + 1] /\ w[k - 1] = v[(k - 1) + 1]
      BY <3>1, Zenon
    <3> QED
      BY <3>1, <3>2, Zenon
  <2> QED
    BY <1>2, <2>2, <2>3, Zenon
<1>7. w[n - 1] = v[n]
  BY <1>1
<1> HIDE DEF w
<1>8. IsWalk(q, w)
  BY <1>5, <1>6, Zenon DEF IsWalk
<1>9. w[Len(q)] = Clean(q)
  BY <1>2, <1>8, WalkEnds
<1> QED
  BY <1>2, <1>4, <1>7, <1>9, Zenon DEF q

(* What DropHere and DropLast leave.                                       *)
LEMMA DroppedTypes ==
  ASSUME NEW E, NEW p \in Seq(E), p # <<>>, NEW e
  PROVE  /\ DropHere(p) \in Seq(E) /\ DropHere(p) # <<>>
         /\ Last(DropHere(p)) = Last(p)
         /\ DropLast(p, e) \in Seq(E) /\ DropLast(p, e) # <<>>
<1>1. Len(p) \in Nat /\ Len(p) > 0
  OBVIOUS
<1>2. Len(p) > 1 => /\ Tail(p) \in Seq(E) /\ Tail(p) # <<>>
                    /\ Last(Tail(p)) = Last(p)
  <2> SUFFICES ASSUME Len(p) > 1
               PROVE  Tail(p) \in Seq(E) /\ Tail(p) # <<>> /\ Last(Tail(p)) = Last(p)
    OBVIOUS
  <2>1. Tail(p) \in Seq(E) /\ Len(Tail(p)) = Len(p) - 1 /\ \A k \in 1..Len(Tail(p)) : Tail(p)[k] = p[k + 1]
    BY HeadTailProperties
  <2>2. Len(Tail(p)) \in 1..Len(Tail(p)) /\ Len(Tail(p)) + 1 = Len(p)
    BY <1>1, <2>1
  <2>3. Tail(p)[Len(Tail(p))] = p[Len(p)]
    BY <2>1, <2>2
  <2>4. Last(Tail(p)) = Last(p)
    BY <2>3, Zenon DEF Last
  <2>5. Len(Tail(p)) # 0
    <3> DEFINE l == Len(Tail(p))
               n == Len(p)
    <3>1. l = n - 1 /\ n > 1 /\ n \in Nat
      BY <1>1, <2>1
    <3> HIDE DEF l, n
    <3>2. l # 0
      BY <3>1
    <3> QED
      BY <3>2 DEF l
  <2>6. Tail(p) # <<>>
    BY <2>5, EmptySeq
  <2> QED
    BY <2>1, <2>4, <2>6, Zenon
<1>3. Len(p) > 1 => Front(p) \in Seq(E) /\ Front(p) # <<>>
  <2>1. Front(p) \in Seq(E) /\ Len(Front(p)) = Len(p) - 1
    BY CleanOfFront
  <2> QED
    BY <1>1, <2>1
<1>4. DropHere(p) = p \/ (Len(p) > 1 /\ DropHere(p) = Tail(p))
  BY Zenon DEF DropHere
<1>5. DropLast(p, e) = p \/ (Len(p) > 1 /\ DropLast(p, e) = Front(p))
  BY Zenon DEF DropLast
<1> QED
  BY <1>2, <1>3, <1>4, <1>5, Zenon

(* A leading "." and a trailing slash change nothing.                      *)
LEMMA CleanOfTrimmed ==
  ASSUME NEW E, NEW p \in Seq(E), p # <<>>
  PROVE  Clean(DropHere(p)) = Clean(p) /\ Clean(DropLast(p, Root)) = Clean(p)
<1>1. Clean(DropHere(p)) = Clean(p)
  BY CleanOfTail, Zenon DEF DropHere
<1>2. Last(p) = Root => Clean(Front(p)) = Clean(p)
  <2>1. Clean(p) = CleanStep(Clean(Front(p)), Last(p))
    BY CleanOfFront
  <2> QED
    BY <2>1, StepCases
<1>3. Clean(DropLast(p, Root)) = Clean(p)
  BY <1>2, Zenon DEF DropLast
<1> QED
  BY <1>1, <1>3

-----------------------------------------------------------------------------
(* Depth: a path that cleans to something below the root never left it.    *)

(* The next index counts when it is a member.                              *)
LEMMA CountStep ==
  ASSUME NEW A, NEW k \in Nat
  PROVE  /\ Cardinality({j \in 1..k : j \in A}) \in Nat
         /\ Cardinality({j \in 1..(k + 1) : j \in A})
              = Cardinality({j \in 1..k : j \in A}) + (IF k + 1 \in A THEN 1 ELSE 0)
<1> DEFINE C == {j \in 1..k : j \in A}
           D == {j \in 1..(k + 1) : j \in A}
<1>1. IsFiniteSet(C) /\ Cardinality(C) \in Nat
  <2>1. IsFiniteSet(1..k) /\ C \subseteq 1..k
    BY FS_Interval
  <2> QED
    BY <2>1, FS_Subset, FS_CardinalityType
<1>2. CASE k + 1 \in A
  <2>1. D = C \cup {k + 1} /\ k + 1 \notin C
    BY <1>2
  <2>2. Cardinality(D) = Cardinality(C) + 1
    BY <1>1, <2>1, FS_AddElement
  <2> QED
    BY <1>1, <1>2, <2>2
<1>3. CASE k + 1 \notin A
  <2>1. D = C
    BY <1>3
  <2> QED
    BY <1>1, <1>3, <2>1
<1> QED
  BY <1>2, <1>3

(* The depth after one more segment.                                       *)
LEMMA DepthStep ==
  ASSUME NEW p, NEW k \in Nat
  PROVE  /\ Depth(p, 0) = 0 /\ Depth(p, k) \in Int
         /\ p[k + 1] \in {Root, Here} => Depth(p, k + 1) = Depth(p, k)
         /\ p[k + 1] = Up => Depth(p, k + 1) = Depth(p, k) - 1
         /\ p[k + 1] \notin {Root, Here, Up} => Depth(p, k + 1) = Depth(p, k) + 1
<1> DEFINE N == { j \in Nat : p[j] \notin {Root, Here, Up} }
           U == { j \in Nat : p[j] = Up }
           n(i) == Cardinality({ j \in 1..i : j \in N })
           u(i) == Cardinality({ j \in 1..i : j \in U })
<1>1. \A i \in Nat : Depth(p, i) = n(i) - u(i)
  <2> SUFFICES ASSUME NEW i \in Nat PROVE Depth(p, i) = n(i) - u(i)
    OBVIOUS
  <2>1. /\ { j \in 1..i : j \in N } = { j \in 1..i : p[j] \notin {Root, Here, Up} }
        /\ { j \in 1..i : j \in U } = { j \in 1..i : p[j] = Up }
    OBVIOUS
  <2> QED
    BY <2>1 DEF Depth
<1>2. /\ n(k) \in Nat /\ n(k + 1) = n(k) + (IF k + 1 \in N THEN 1 ELSE 0)
      /\ u(k) \in Nat /\ u(k + 1) = u(k) + (IF k + 1 \in U THEN 1 ELSE 0)
  <2> HIDE DEF N, U
  <2> QED
    BY CountStep
<1>3. n(0) = 0 /\ u(0) = 0
  <2>1. { j \in 1..0 : j \in N } = {} /\ { j \in 1..0 : j \in U } = {}
    OBVIOUS
  <2> HIDE DEF N, U
  <2> QED
    BY <2>1, FS_EmptySet
<1>4. /\ k + 1 \in N <=> p[k + 1] \notin {Root, Here, Up}
      /\ k + 1 \in U <=> p[k + 1] = Up
  OBVIOUS
<1> HIDE DEF N, U, n, u
<1>5. Depth(p, 0) = 0 /\ Depth(p, k) = n(k) - u(k) /\ Depth(p, k + 1) = n(k + 1) - u(k + 1)
  BY <1>1, <1>3
<1>6. CASE p[k + 1] \in {Root, Here}
  <2>1. k + 1 \notin N /\ k + 1 \notin U /\ p[k + 1] # Up
    BY <1>4, <1>6 DEF Root, Here, Up
  <2>2. Depth(p, k + 1) = Depth(p, k) /\ Depth(p, k) \in Int
    BY <1>2, <1>5, <2>1
  <2> QED
    BY <1>5, <1>6, <2>1, <2>2, Zenon
<1>7. CASE p[k + 1] = Up
  <2>1. k + 1 \notin N /\ k + 1 \in U /\ p[k + 1] \notin {Root, Here}
    BY <1>4, <1>7 DEF Root, Here, Up
  <2>2. Depth(p, k + 1) = Depth(p, k) - 1 /\ Depth(p, k) \in Int
    BY <1>2, <1>5, <2>1
  <2> QED
    BY <1>5, <1>7, <2>1, <2>2, Zenon
<1>8. CASE p[k + 1] \notin {Root, Here, Up}
  <2>1. k + 1 \in N /\ k + 1 \notin U
    BY <1>4, <1>8
  <2>2. Depth(p, k + 1) = Depth(p, k) + 1 /\ Depth(p, k) \in Int
    BY <1>2, <1>5, <2>1
  <2> QED
    BY <1>5, <1>8, <2>2, Zenon
<1> QED
  BY <1>6, <1>7, <1>8, Zenon

(* A stack of names counts the depth; one that ever held ".." at its       *)
(* bottom keeps it.                                                        *)
Escaped(s)    == s # <<>> /\ s[1] = Up
Names(s)      == \A i \in 1..Len(s) : s[i] # Up
Tracks(p, s, k) == Names(s) /\ Len(s) = Depth(p, k) /\ \A j \in 0..k : Depth(p, j) >= 0

(* One step of the walk.                                                   *)
LEMMA TracksStep ==
  ASSUME NEW E, NEW p \in Seq(E), NEW k \in Nat, k + 1 <= Len(p), NEW s \in Seq(E),
         Escaped(s) \/ Tracks(p, s, k)
  PROVE  \/ Escaped(CleanStep(s, p[k + 1]))
         \/ Tracks(p, CleanStep(s, p[k + 1]), k + 1)
<1> DEFINE e == p[k + 1]
           t == CleanStep(s, e)
<1>0. e \in E
  BY SMT
<1>1. CASE e \in {Root, Here}
  <2>1. t = s
    BY <1>1, StepCases
  <2>2. Depth(p, k + 1) = Depth(p, k)
    BY <1>1, DepthStep
  <2>3. Tracks(p, s, k) => Tracks(p, s, k + 1)
    <3> SUFFICES ASSUME Tracks(p, s, k) PROVE Tracks(p, s, k + 1)
      OBVIOUS
    <3>1. \A j \in 0..(k + 1) : j \in 0..k \/ j = k + 1
      OBVIOUS
    <3>2. \A j \in 0..(k + 1) : Depth(p, j) >= 0
      <4>1. k \in 0..k
        OBVIOUS
      <4> QED
        BY <2>2, <3>1, <4>1 DEF Tracks
    <3> QED
      BY <2>2, <3>2 DEF Tracks
  <2> QED
    BY <2>1, <2>3, Zenon
<1>2. CASE e = Up /\ s # <<>> /\ Last(s) # Up
  <2>1. t = Front(s)
    BY <1>2, StepCases
  <2>2. Len(s) \in Nat /\ Len(s) > 0 /\ Last(s) = s[Len(s)]
    BY <1>2 DEF Last
  <2>3. t \in Seq(E) /\ Len(t) = Len(s) - 1 /\ \A i \in 1..Len(t) : t[i] = s[i]
    BY <1>2, <2>1, FrontIs
  <2> HIDE DEF t
  <2>4. CASE Escaped(s)
    <3>1. Len(s) > 1
      BY <1>2, <2>2, <2>4 DEF Escaped
    <3>2. t # <<>> /\ t[1] = Up
      BY <2>2, <2>3, <2>4, <3>1 DEF Escaped
    <3> QED
      BY <3>2 DEF Escaped, t
  <2>5. CASE Tracks(p, s, k)
    <3>1. Names(t)
      BY <2>2, <2>3, <2>5 DEF Tracks, Names
    <3>2. Depth(p, k + 1) = Depth(p, k) - 1
      BY <1>2, DepthStep
    <3>3. Len(t) = Depth(p, k + 1) /\ Depth(p, k + 1) >= 0
      BY <2>2, <2>3, <2>5, <3>2 DEF Tracks
    <3>4. \A j \in 0..(k + 1) : j \in 0..k \/ j = k + 1
      OBVIOUS
    <3>5. \A j \in 0..(k + 1) : Depth(p, j) >= 0
      BY <2>5, <3>3, <3>4 DEF Tracks
    <3> QED
      BY <3>1, <3>3, <3>5 DEF Tracks, t
  <2> QED
    BY <2>4, <2>5
<1>3. CASE e \notin {Root, Here, Up} \/ (e = Up /\ (s = <<>> \/ Last(s) = Up))
  <2>1. t = Append(s, e)
    BY <1>3, StepCases
  <2>2. Len(s) \in Nat /\ Last(s) = s[Len(s)]
    BY DEF Last
  <2>3. Len(t) = Len(s) + 1 /\ t[Len(s) + 1] = e /\ \A i \in 1..Len(s) : t[i] = s[i]
    BY <1>0, <2>1, AppendProperties
  <2>4. t # <<>> /\ t \in Seq(E)
    BY <1>0, <2>1, AppendProperties
  <2> HIDE DEF t
  <2>5. CASE Escaped(s)
    <3>1. Len(s) > 0
      BY <2>2, <2>5 DEF Escaped
    <3>2. t[1] = Up
      BY <2>2, <2>3, <2>5, <3>1 DEF Escaped
    <3> QED
      BY <2>4, <3>2 DEF Escaped, t
  <2>6. CASE Tracks(p, s, k) /\ e = Up
    <3>1. s = <<>>
      <4> SUFFICES ASSUME s # <<>> PROVE FALSE
        OBVIOUS
      <4>1. Len(s) \in 1..Len(s)
        BY <2>2
      <4>2. Last(s) # Up
        BY <2>2, <2>6, <4>1 DEF Tracks, Names
      <4> QED
        BY <1>3, <2>6, <4>2
    <3>2. t[1] = Up
      BY <2>3, <2>6, <3>1
    <3> QED
      BY <2>4, <3>2 DEF Escaped, t
  <2>7. CASE Tracks(p, s, k) /\ e # Up
    <3>1. Names(t)
      <4> SUFFICES ASSUME NEW i \in 1..Len(t) PROVE t[i] # Up
        BY DEF Names
      <4>1. i \in 1..Len(s) \/ i = Len(s) + 1
        BY <2>2, <2>3
      <4> QED
        BY <2>3, <2>7, <4>1 DEF Tracks, Names
    <3>2. Depth(p, k + 1) = Depth(p, k) + 1
      BY <1>3, <2>7, DepthStep
    <3>3. Len(t) = Depth(p, k + 1) /\ Depth(p, k + 1) >= 0
      BY <2>2, <2>3, <2>7, <3>2 DEF Tracks
    <3>4. \A j \in 0..(k + 1) : j \in 0..k \/ j = k + 1
      OBVIOUS
    <3>5. \A j \in 0..(k + 1) : Depth(p, j) >= 0
      BY <2>7, <3>3, <3>4 DEF Tracks
    <3> QED
      BY <3>1, <3>3, <3>5 DEF Tracks, t
  <2> QED
    BY <2>5, <2>6, <2>7
<1> HIDE DEF t
<1>4. e \in {Root, Here} \/ e = Up \/ e \notin {Root, Here, Up}
  OBVIOUS
<1> QED
  BY <1>1, <1>2, <1>3, <1>4, Zenon DEF t

(* So a path stays inside when what it cleans to does.                     *)
LEMMA CleanStaysInside ==
  ASSUME NEW E, NEW p \in Seq(E), Clean(p) # <<>>, Head(Clean(p)) # Up
  PROVE  StaysInside(p)
<1>1. PICK w : IsWalk(p, w) /\ Clean(p) = w[Len(p)]
  BY CleanWalks
<1> DEFINE T == { k \in Nat : k <= Len(p) => Escaped(w[k]) \/ Tracks(p, w[k], k) }
<1>2. 0 \in T
  <2>1. w[0] = <<>>
    BY <1>1 DEF IsWalk
  <2>2. Depth(p, 0) = 0
    BY DepthStep
  <2>3. Tracks(p, <<>>, 0)
    BY <2>2 DEF Tracks, Names
  <2> QED
    BY <2>1, <2>3
<1>3. ASSUME NEW k \in T PROVE k + 1 \in T
  <2> SUFFICES ASSUME k + 1 <= Len(p) PROVE Escaped(w[k + 1]) \/ Tracks(p, w[k + 1], k + 1)
    OBVIOUS
  <2>1. k \in Nat /\ k \in 0..Len(p) /\ k + 1 \in 1..Len(p) /\ (k + 1) - 1 = k
    OBVIOUS
  <2>2. w[k] \in Seq(E) /\ (Escaped(w[k]) \/ Tracks(p, w[k], k))
    BY <1>1, <2>1, WalkTypes
  <2>3. w[k + 1] = CleanStep(w[k], p[k + 1])
    BY <1>1, <2>1, Zenon DEF IsWalk
  <2> HIDE DEF T
  <2> QED
    BY <2>1, <2>2, <2>3, TracksStep
<1>4. T \in SUBSET Nat
  OBVIOUS
<1>5. T = Nat
  <2> HIDE DEF T
  <2> QED
    BY <1>2, <1>3, <1>4, EveryNat
<1>6. Clean(p) \in Seq(E) /\ Len(p) \in Nat
  BY CleanTypes
<1>7. Tracks(p, Clean(p), Len(p))
  <2>1. Escaped(Clean(p)) \/ Tracks(p, Clean(p), Len(p))
    BY <1>1, <1>5, <1>6
  <2>2. ~Escaped(Clean(p))
    BY <1>6 DEF Escaped
  <2> QED
    BY <2>1, <2>2
<1>8. Len(Clean(p)) > 0
  BY <1>6
<1> QED
  BY <1>6, <1>7, <1>8 DEF Tracks, StaysInside

-----------------------------------------------------------------------------
(* Prefixes: of what normalisation makes of a claim and of a file.         *)

(* A prefix, segment by segment.                                           *)
LEMMA PrefixIs ==
  ASSUME NEW E, NEW s \in Seq(E), NEW t \in Seq(E)
  PROVE  IsPrefix(s, t) <=> Len(s) <= Len(t) /\ \A i \in 1..Len(s) : s[i] = t[i]
<1>1. Len(s) \in Nat /\ Len(t) \in Nat
  OBVIOUS
<1>2. SubSeq(s, 1, Len(s)) = s
  BY SubSeqFull
<1>3. ASSUME Len(s) <= Len(t)
      PROVE  /\ SubSeq(t, 1, Len(s)) \in Seq(E) /\ Len(SubSeq(t, 1, Len(s))) = Len(s)
             /\ \A i \in 1..Len(s) : SubSeq(t, 1, Len(s))[i] = t[i]
  <2>1. Len(s) \in 0..Len(t)
    BY <1>1, <1>3
  <2>2. \A i \in 1..Len(s) : t[i] \in E
    BY <1>1, <1>3
  <2> QED
    BY <1>1, <2>1, <2>2, SubSeqProperties
<1>4. ASSUME Len(s) <= Len(t) PROVE SubSeq(t, 1, Len(s)) = s <=> \A i \in 1..Len(s) : s[i] = t[i]
  <2> DEFINE r == SubSeq(t, 1, Len(s))
  <2>1. r \in Seq(E) /\ Len(r) = Len(s) /\ \A i \in 1..Len(s) : r[i] = t[i]
    BY <1>3, <1>4
  <2> HIDE DEF r
  <2>2. (\A i \in 1..Len(s) : s[i] = t[i]) => r = s
    BY <2>1, SeqEqual
  <2>3. r = s => \A i \in 1..Len(s) : s[i] = t[i]
    BY <2>1
  <2> QED
    BY <2>2, <2>3 DEF r
<1>5. IsPrefix(s, t) <=> Len(s) <= Len(t) /\ SubSeq(s, 1, Len(s)) = SubSeq(t, 1, Len(s))
  BY Zenon DEF IsPrefix
<1> QED
  BY <1>2, <1>4, <1>5, Zenon

(* Two prefixes of one path: one is a prefix of the other.                 *)
LEMMA PrefixesMeet ==
  ASSUME NEW E, NEW s \in Seq(E), NEW t \in Seq(E), NEW f \in Seq(E), IsPrefix(s, f), IsPrefix(t, f)
  PROVE  IsPrefix(s, t) \/ IsPrefix(t, s)
<1>1. /\ Len(s) <= Len(f) /\ \A i \in 1..Len(s) : s[i] = f[i]
      /\ Len(t) <= Len(f) /\ \A i \in 1..Len(t) : t[i] = f[i]
  BY PrefixIs
<1>2. Len(s) \in Nat /\ Len(t) \in Nat
  OBVIOUS
<1>3. CASE Len(s) <= Len(t)
  BY <1>1, <1>2, <1>3, PrefixIs
<1>4. CASE Len(t) <= Len(s)
  BY <1>1, <1>2, <1>4, PrefixIs
<1> QED
  BY <1>2, <1>3, <1>4

(* Prefixes of prefixes, and a push.                                       *)
LEMMA PrefixOrder ==
  ASSUME NEW E, NEW s \in Seq(E), NEW e \in E
  PROVE  /\ IsPrefix(s, s)
         /\ Append(s, e) \in Seq(E) /\ IsPrefix(s, Append(s, e))
         /\ \A t, u \in Seq(E) : IsPrefix(s, t) /\ IsPrefix(t, u) => IsPrefix(s, u)
<1>1. IsPrefix(s, s)
  BY PrefixIs
<1>2. /\ Append(s, e) \in Seq(E) /\ Len(Append(s, e)) = Len(s) + 1
      /\ \A i \in 1..Len(s) : Append(s, e)[i] = s[i]
  BY AppendProperties
<1>3. IsPrefix(s, Append(s, e))
  <2>1. Len(s) <= Len(Append(s, e))
    BY <1>2
  <2> QED
    BY <1>2, <2>1, PrefixIs
<1>4. ASSUME NEW t \in Seq(E), NEW u \in Seq(E), IsPrefix(s, t), IsPrefix(t, u)
      PROVE  IsPrefix(s, u)
  <2>1. /\ Len(s) <= Len(t) /\ \A i \in 1..Len(s) : s[i] = t[i]
        /\ Len(t) <= Len(u) /\ \A i \in 1..Len(t) : t[i] = u[i]
    BY <1>4, PrefixIs
  <2>2. Len(s) \in Nat /\ Len(t) \in Nat /\ Len(u) \in Nat
    OBVIOUS
  <2>3. Len(s) <= Len(u) /\ \A i \in 1..Len(s) : s[i] = u[i]
    BY <2>1, <2>2
  <2> QED
    BY <2>3, PrefixIs
<1> QED
  BY <1>1, <1>2, <1>3, <1>4, Zenon

(* A path that is not refused is cleaned, to something below the root.     *)
LEMMA InsideIs ==
  ASSUME NEW v, InsideRepository(v) # Refused
  PROVE  InsideRepository(v) = Clean(v) /\ Clean(v) # <<>> /\ Head(Clean(v)) # Up
  BY Zenon DEF InsideRepository

(* What is left of a claim that Validate accepts.                          *)
LEMMA OwnershipIs ==
  ASSUME NEW E, NEW p \in Seq(E), p # <<>>, normalizeOwnership(p) # Refused
  PROVE  LET u == DropLast(DropLast(DropHere(p), Stars), Star)
         IN  /\ u \in Seq(E) /\ u # <<>>
             /\ normalizeOwnership(p) = Clean(u) /\ Clean(u) \in Seq(E)
             /\ Clean(u) # <<>> /\ Head(Clean(u)) # Up
<1> DEFINE u == DropLast(DropLast(DropHere(p), Stars), Star)
<1>1. u \in Seq(E) /\ u # <<>>
  <2>1. DropHere(p) \in Seq(E) /\ DropHere(p) # <<>>
    BY DroppedTypes
  <2>2. DropLast(DropHere(p), Stars) \in Seq(E) /\ DropLast(DropHere(p), Stars) # <<>>
    BY <2>1, DroppedTypes
  <2> QED
    BY <2>2, DroppedTypes
<1>2. normalizeOwnership(p) = InsideRepository(DropLast(u, Root))
  BY Zenon DEF normalizeOwnership
<1> HIDE DEF u
<1>3. Clean(DropLast(u, Root)) = Clean(u) /\ Clean(u) \in Seq(E)
  BY <1>1, CleanOfTrimmed, CleanTypes
<1>4. /\ InsideRepository(DropLast(u, Root)) = Clean(DropLast(u, Root))
      /\ Clean(DropLast(u, Root)) # <<>> /\ Head(Clean(DropLast(u, Root))) # Up
  BY <1>2, InsideIs
<1> QED
  BY <1>1, <1>2, <1>3, <1>4, Zenon DEF u

(* What is left of a path of the repository.                               *)
LEMMA RepositoryPathIs ==
  ASSUME NEW E, NEW f \in Seq(E), f # <<>>, normalizeRepositoryPath(f) # Refused
  PROVE  normalizeRepositoryPath(f) = Clean(f) /\ Clean(f) \in Seq(E) /\ Clean(f) # <<>>
<1> DEFINE v == DropHere(f)
<1>1. v \in Seq(E) /\ v # <<>> /\ Clean(v) = Clean(f)
  BY DroppedTypes, CleanOfTrimmed
<1>2. normalizeRepositoryPath(f) = InsideRepository(DropLast(v, Root))
  BY Zenon DEF normalizeRepositoryPath
<1> HIDE DEF v
<1>3. Clean(DropLast(v, Root)) = Clean(f)
  BY <1>1, CleanOfTrimmed
<1>4. Clean(f) \in Seq(E)
  BY CleanTypes
<1>5. /\ InsideRepository(DropLast(v, Root)) = Clean(DropLast(v, Root))
      /\ Clean(DropLast(v, Root)) # <<>>
  BY <1>2, InsideIs
<1> QED
  BY <1>2, <1>3, <1>4, <1>5, Zenon

(* The two ends of a sequence that something was put behind.               *)
LEMMA PushedEnds ==
  ASSUME NEW E, NEW s \in Seq(E), NEW e \in E
  PROVE  /\ s \o <<e>> = Append(s, e) /\ Append(s, e) \in Seq(E)
         /\ Len(Append(s, e)) = Len(s) + 1
         /\ Last(Append(s, e)) = e /\ Front(Append(s, e)) = s
<1> DEFINE t == Append(s, e)
<1>1. /\ s \o <<e>> = t /\ t \in Seq(E) /\ t # <<>> /\ Len(t) = Len(s) + 1
      /\ \A i \in 1..Len(s) : t[i] = s[i]
      /\ t[Len(s) + 1] = e
  BY AppendProperties, AppendIsConcat
<1>2. Len(s) \in Nat
  OBVIOUS
<1> HIDE DEF t
<1>3. Last(t) = e
  BY <1>1, Zenon DEF Last
<1>4. Front(t) \in Seq(E) /\ Len(Front(t)) = Len(s) /\ \A i \in 1..Len(s) : Front(t)[i] = t[i]
  <2>1. Len(t) - 1 = Len(s)
    BY <1>1, <1>2
  <2> QED
    BY <1>1, <2>1, FrontIs
<1>5. Front(t) = s
  <2>1. \A i \in 1..Len(s) : s[i] = Front(t)[i]
    BY <1>1, <1>4
  <2> QED
    BY <1>4, <2>1, SeqEqual
<1> QED
  BY <1>1, <1>3, <1>5 DEF t

(* What the matcher asks of a pattern it does not refuse.                  *)
LEMMA MatchCases ==
  ASSUME NEW p, NEW f, pathMatches(p, f)
  PROVE  LET P == normalizePattern(p)
             file == normalizeRepositoryPath(f)
         IN  /\ P # Refused /\ file # Refused
             /\ Len(P) > 1 /\ Last(P) \in {Stars, Star} => IsPrefix(Front(P), file)
             /\ ~(Len(P) > 1 /\ Last(P) \in {Stars, Star}) => file = P
<1> DEFINE P == normalizePattern(p)
           file == normalizeRepositoryPath(f)
           c == Len(P) > 1 /\ Last(P) = Stars
           d == Len(P) > 1 /\ Last(P) = Star
           x == IsPrefix(Front(P), file)
           y == IsPrefix(Front(P), file) /\ Len(file) = Len(P)
           z == file = P
<1>1. P # Refused /\ file # Refused /\ CASE c -> x [] d -> y [] OTHER -> z
  BY Zenon DEF pathMatches
<1>2. ~(c /\ d)
  BY DEF Star, Stars
<1>3. y => x
  OBVIOUS
<1>4. Len(P) > 1 /\ Last(P) \in {Stars, Star} <=> c \/ d
  OBVIOUS
<1> HIDE DEF c, d, x, y, z
<1>5. c \/ d => x
  BY <1>1, <1>2, <1>3, Zenon
<1>6. ~(c \/ d) => z
  BY <1>1, Zenon
<1> QED
  BY <1>1, <1>4, <1>5, <1>6, Zenon DEF x, z

(* A file that a pattern covers lies where the scheduler says the pattern  *)
(* is rooted.                                                              *)
LEMMA CoveredIsBelow ==
  ASSUME NEW E, NEW p \in Seq(E), p # <<>>, GlobsShow(p), normalizeOwnership(p) # Refused,
         NEW f \in Seq(E), f # <<>>, pathMatches(p, f)
  PROVE  /\ normalizeOwnership(p) \in Seq(E) /\ normalizeRepositoryPath(f) \in Seq(E)
         /\ IsPrefix(normalizeOwnership(p), normalizeRepositoryPath(f))
<1> DEFINE v == DropHere(p)
           u == DropLast(DropLast(v, Stars), Star)
           P == normalizePattern(p)
           file == normalizeRepositoryPath(f)
           glob == Len(v) > 1 /\ Last(v) \in {Stars, Star}
<1>1. v \in Seq(E) /\ v # <<>> /\ Last(v) = Last(p) /\ Len(v) \in Nat
  BY DroppedTypes
<1>2. normalizeOwnership(p) = Clean(u) /\ Clean(u) \in Seq(E) /\ u \in Seq(E)
  BY OwnershipIs, Zenon
<1>3. /\ P # Refused /\ file # Refused
      /\ Len(P) > 1 /\ Last(P) \in {Stars, Star} => IsPrefix(Front(P), file)
      /\ ~(Len(P) > 1 /\ Last(P) \in {Stars, Star}) => file = P
  BY MatchCases, Zenon
<1>4. file \in Seq(E)
  BY <1>3, RepositoryPathIs
<1>5. P = LET suffix == IF glob THEN <<Last(v)>> ELSE <<>>
              base   == normalizeRepositoryPath(IF suffix = <<>> THEN v ELSE Front(v))
          IN  IF base = Refused THEN Refused ELSE base \o suffix
  BY Zenon DEF normalizePattern
<1> SUFFICES IsPrefix(Clean(u), file)
  BY <1>2, <1>4, Zenon
<1> HIDE DEF P, file
<1>6. CASE glob
  <2> DEFINE x == Front(v)
             e == Last(v)
             b == normalizeRepositoryPath(x)
  <2>1. x \in Seq(E) /\ e \in E /\ Len(x) = Len(v) - 1
    BY <1>1, CleanOfFront
  <2>2. x # <<>>
    BY <1>1, <1>6, <2>1
  <2>3. b # Refused /\ P = b \o <<e>>
    <3>1. <<e>> # <<>>
      OBVIOUS
    <3>2. P = IF b = Refused THEN Refused ELSE b \o <<e>>
      BY <1>5, <1>6, <3>1, Zenon
    <3> HIDE DEF b, e
    <3> QED
      BY <1>3, <3>2, Zenon
  <2>4. b = Clean(x) /\ Clean(x) \in Seq(E) /\ Clean(x) # <<>>
    BY <2>1, <2>2, <2>3, RepositoryPathIs
  <2>5. Len(P) = Len(Clean(x)) + 1 /\ Last(P) = e /\ Front(P) = Clean(x)
    <3> DEFINE c == Clean(x)
    <3>1. c \in Seq(E) /\ e \in E /\ P = c \o <<e>>
      BY <2>1, <2>3, <2>4
    <3> HIDE DEF c, e
    <3>2. c \o <<e>> = Append(c, e) /\ Len(Append(c, e)) = Len(c) + 1 /\ Last(Append(c, e)) = e /\ Front(Append(c, e)) = c
      BY <3>1, PushedEnds
    <3> QED
      BY <3>1, <3>2, Zenon DEF c
  <2>6. IsPrefix(Clean(x), file)
    <3>1. Len(Clean(x)) \in Nat \ {0}
      BY <2>4, EmptySeq
    <3>2. Len(P) > 1
      BY <2>5, <3>1
    <3>3. e \in {Stars, Star}
      BY <1>6
    <3> HIDE DEF e, x
    <3> QED
      BY <1>3, <2>5, <3>2, <3>3, Zenon
  <2>7. IsPrefix(Clean(u), Clean(x))
    <3>1. CASE u = x
      BY <2>4, <3>1, PrefixOrder
    <3>2. CASE Len(x) > 1 /\ Last(x) = Star /\ u = Front(x)
      <4>1. u \in Seq(E) /\ Star \in E /\ Clean(x) = CleanStep(Clean(u), Star)
        BY <2>1, <2>2, <3>2, CleanOfFront
      <4>2. Clean(x) = Append(Clean(u), Star)
        BY <4>1, StepCases DEF Star, Root, Here, Up
      <4> QED
        BY <1>2, <4>1, <4>2, PrefixOrder
    <3>3. u = x \/ (Len(x) > 1 /\ Last(x) = Star /\ u = Front(x))
      <4>1. CASE Last(v) = Stars
        <5>1. DropLast(v, Stars) = x
          BY <1>6, <4>1, Zenon DEF DropLast
        <5>2. u = DropLast(x, Star)
          BY <5>1, Zenon
        <5> HIDE DEF u, x
        <5> QED
          BY <5>2, Zenon DEF DropLast
      <4>2. CASE Last(v) = Star
        <5>1. Last(v) # Stars
          BY <4>2 DEF Star, Stars
        <5>2. DropLast(v, Stars) = v
          BY <5>1, Zenon DEF DropLast
        <5>3. DropLast(v, Star) = x
          BY <1>6, <4>2, Zenon DEF DropLast
        <5> QED
          BY <5>2, <5>3, Zenon
      <4> QED
        BY <1>6, <4>1, <4>2
    <3> HIDE DEF u, x
    <3> QED
      BY <3>1, <3>2, <3>3, Zenon
  <2> HIDE DEF u, x
  <2> QED
    BY <1>2, <1>4, <2>4, <2>6, <2>7, PrefixOrder
<1>7. CASE ~glob
  <2> DEFINE b == normalizeRepositoryPath(v)
  <2>1. P = b /\ b # Refused
    <3>1. P = IF b = Refused THEN Refused ELSE b \o <<>>
      BY <1>5, <1>7, Zenon
    <3> HIDE DEF b
    <3>2. b # Refused /\ P = b \o <<>>
      BY <1>3, <3>1, Zenon
    <3>3. b \in Seq(E)
      BY <1>1, <3>2, RepositoryPathIs DEF b
    <3> QED
      BY <3>2, <3>3, ConcatEmptySeq
  <2>2. P = Clean(v) /\ Clean(v) \in Seq(E)
    BY <1>1, <2>1, RepositoryPathIs
  <2>3. u = v
    <3>1. DropLast(v, Stars) = v /\ DropLast(v, Star) = v
      BY <1>7, Zenon DEF DropLast
    <3> QED
      BY <3>1, Zenon
  <2>4. ASSUME Len(P) > 1, Last(P) \in {Stars, Star} PROVE FALSE
    <3>1. Len(P) <= Len(v) /\ Len(P) \in Nat
      BY <1>1, <2>2, CleanTypes
    <3>2. Len(v) > 1
      BY <1>1, <2>4, <3>1
    <3>3. Last(v) \notin {Stars, Star}
      BY <1>7, <3>2
    <3>4. CASE Last(v) \in {Root, Here, Up}
      <4> DEFINE G == E \ {Star, Stars}
      <4>1. \A k \in 1..Len(p) : p[k] \in G
        <5>1. p[Len(p)] \in {Root, Here, Up} /\ DOMAIN p = 1..Len(p)
          BY <1>1, <3>4 DEF Last
        <5> QED
          BY <5>1 DEF GlobsShow
      <4>2. p \in Seq(G)
        <5>1. p \in [1..Len(p) -> E] /\ Len(p) \in Nat
          OBVIOUS
        <5>2. p \in [1..Len(p) -> G]
          BY <4>1, <5>1
        <5> HIDE DEF G
        <5> QED
          BY <5>1, <5>2, SeqDef
      <4> HIDE DEF G
      <4>3. v \in Seq(G)
        BY <4>2, DroppedTypes
      <4>4. P \in Seq(G)
        BY <2>2, <4>3, CleanTypes
      <4>5. Last(P) \in G
        <5>1. Len(P) \in 1..Len(P)
          BY <2>4, <3>1
        <5>2. P[Len(P)] \in G
          BY <4>4, <5>1
        <5> QED
          BY <5>2, Zenon DEF Last
      <4> QED
        BY <2>4, <4>5 DEF G
    <3>5. CASE Last(v) \notin {Root, Here, Up}
      <4>1. /\ Front(v) \in Seq(E) /\ Last(v) \in E
            /\ Clean(v) = CleanStep(Clean(Front(v)), Last(v))
        BY <1>1, CleanOfFront
      <4>2. Clean(v) = Append(Clean(Front(v)), Last(v))
        BY <3>5, <4>1, StepCases, Zenon
      <4>3. Last(Clean(v)) = Last(v)
        BY <4>1, <4>2, CleanTypes, PushedEnds
      <4> QED
        BY <2>2, <2>4, <3>3, <4>3, Zenon
    <3> QED
      BY <3>4, <3>5
  <2>5. file = Clean(u)
    BY <1>3, <2>2, <2>3, <2>4, Zenon
  <2> HIDE DEF u
  <2> QED
    BY <1>2, <2>5, PrefixOrder
<1> QED
  BY <1>6, <1>7

=============================================================================
