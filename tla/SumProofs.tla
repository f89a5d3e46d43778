----------------------------- MODULE SumProofs -----------------------------
(***************************************************************************)
(* Sums over finite sets, as SumFunctionOnSet defines them: by recursion   *)
(* over the subsets, taking out an element that CHOOSE picks.  The lemmas  *)
(* say that the recursion has a solution and that the order in which the   *)
(* elements are taken does not matter.                                     *)
(***************************************************************************)
EXTENDS FiniteSetsExt, FiniteSetTheorems, WellFoundedInduction, TLAPS

\* The element that the recursion takes out.
Pick(s) == CHOOSE x \in s : TRUE

\* The equation of the recursion, over the subsets of S.
Solves(it, f, S) ==
  it = [s \in SUBSET S |-> IF s = {} THEN 0 ELSE f[Pick(s)] + it[s \ {Pick(s)}]]

\* Induction over the subsets of a finite set: G holds the subsets of which
\* something has been shown, and grows by one element at a time.
LEMMA SubsetInduction ==
  ASSUME NEW S, IsFiniteSet(S), NEW G,
         \A s \in SUBSET S : (\A x \in s : s \ {x} \in G) => s \in G
  PROVE  S \in G
<1> DEFINE T == {n \in Nat : \E s \in SUBSET S : Cardinality(s) = n /\ s \notin G}
           R == OpToRel(<, Nat)
<1>1. \A x, y \in Nat : y < x => <<y, x>> \in R
  BY DEF OpToRel
<1>2. IsWellFoundedOn(R, Nat)
  BY NatLessThanWellFounded
<1> HIDE DEF R
<1>3. \A s \in SUBSET S : IsFiniteSet(s) /\ Cardinality(s) \in Nat
  BY FS_Subset, FS_CardinalityType
<1> SUFFICES ASSUME S \notin G PROVE FALSE
  OBVIOUS
<1>4. T # {} /\ T \subseteq Nat
  <2>1. S \in SUBSET S
    OBVIOUS
  <2> QED
    BY <1>3, <2>1
<1>5. PICK n \in T : \A y \in T : ~(<<y, n>> \in R)
  <2> HIDE DEF T
  <2> QED
    BY <1>2, <1>4, WFMin
<1>6. PICK s \in SUBSET S : Cardinality(s) = n /\ s \notin G
  BY <1>5
<1>7. ASSUME NEW x \in s PROVE s \ {x} \in G
  <2>1. Cardinality(s \ {x}) = Cardinality(s) - 1 /\ IsFiniteSet(s \ {x})
    BY <1>3, FS_RemoveElement
  <2>2. Cardinality(s \ {x}) \in Nat /\ Cardinality(s \ {x}) < n /\ n \in Nat
    BY <1>3, <1>6, <2>1, FS_CardinalityType
  <2>3. Cardinality(s \ {x}) \notin T
    BY <1>1, <1>5, <2>2
  <2> QED
    BY <2>2, <2>3
<1> QED
  BY <1>6, <1>7

\* What is picked is an element.
LEMMA Picked == ASSUME NEW s, s # {} PROVE Pick(s) \in s
BY DEF Pick

\* Two solutions agree wherever both are defined.
LEMMA SolutionUnique ==
  ASSUME NEW f, NEW S, NEW T, NEW a, NEW b, Solves(a, f, S), Solves(b, f, T),
         NEW W \in SUBSET (S \cap T), IsFiniteSet(W)
  PROVE  a[W] = b[W]
<1> DEFINE G == {s \in SUBSET W : a[s] = b[s]}
<1>1. ASSUME NEW s \in SUBSET W, \A x \in s : s \ {x} \in G PROVE s \in G
  <2>0. s \in SUBSET S /\ s \in SUBSET T
    OBVIOUS
  <2>1. a[s] = IF s = {} THEN 0 ELSE f[Pick(s)] + a[s \ {Pick(s)}]
    BY <2>0 DEF Solves
  <2>2. b[s] = IF s = {} THEN 0 ELSE f[Pick(s)] + b[s \ {Pick(s)}]
    BY <2>0 DEF Solves
  <2>3. s # {} => a[s \ {Pick(s)}] = b[s \ {Pick(s)}]
    BY <1>1, Picked
  <2> QED
    BY <2>1, <2>2, <2>3
<1> HIDE DEF G
<1>2. W \in G
  BY <1>1, SubsetInduction
<1> QED
  BY <1>2 DEF G

\* Over a finite set there is a solution.
LEMMA SolutionExists ==
  ASSUME NEW f, NEW S, IsFiniteSet(S)
  PROVE  \E it : Solves(it, f, S)
<1> DEFINE G == {s \in SUBSET S : \E it : Solves(it, f, s)}
<1>1. ASSUME NEW s \in SUBSET S, \A x \in s : s \ {x} \in G PROVE s \in G
  <2> DEFINE A(u) == CHOOSE it : Solves(it, f, s \ {Pick(u)})
             it == [u \in SUBSET s |-> IF u = {} THEN 0
                                       ELSE f[Pick(u)] + A(u)[u \ {Pick(u)}]]
  <2>1. ASSUME NEW u \in SUBSET s, u # {} PROVE Solves(A(u), f, s \ {Pick(u)})
    <3>1. Pick(u) \in s
      BY <2>1, Picked
    <3>2. \E i : Solves(i, f, s \ {Pick(u)})
      BY <1>1, <3>1
    <3> QED
      BY <3>2
  <2>2. ASSUME NEW u \in SUBSET s, u # {}
        PROVE  it[u \ {Pick(u)}] = A(u)[u \ {Pick(u)}]
    <3> DEFINE v == u \ {Pick(u)}
    <3>1. v \in SUBSET s /\ v \in SUBSET (s \ {Pick(u)})
      OBVIOUS
    <3>2. Solves(A(u), f, s \ {Pick(u)})
      BY <2>1, <2>2
    <3>3. A(u)[v] = IF v = {} THEN 0 ELSE f[Pick(v)] + A(u)[v \ {Pick(v)}]
      <4> HIDE DEF A, v
      <4> QED
        BY <3>1, <3>2 DEF Solves
    <3>4. it[v] = IF v = {} THEN 0 ELSE f[Pick(v)] + A(v)[v \ {Pick(v)}]
      BY <3>1
    <3>5. ASSUME v # {} PROVE A(u)[v \ {Pick(v)}] = A(v)[v \ {Pick(v)}]
      <4>1. Solves(A(v), f, s \ {Pick(v)})
        BY <2>1, <3>1, <3>5
      <4>2. IsFiniteSet(v \ {Pick(v)})
        BY <3>1, FS_Subset
      <4>3. v \ {Pick(v)} \in SUBSET ((s \ {Pick(u)}) \cap (s \ {Pick(v)}))
        BY <3>1
      <4> HIDE DEF A, v
      <4> QED
        BY <3>2, <4>1, <4>2, <4>3, SolutionUnique
    <3> QED
      BY <3>3, <3>4, <3>5
  <2>3. it = [u \in SUBSET s |-> IF u = {} THEN 0 ELSE f[Pick(u)] + it[u \ {Pick(u)}]]
    <3>1. \A u \in SUBSET s : it[u] = IF u = {} THEN 0 ELSE f[Pick(u)] + A(u)[u \ {Pick(u)}]
      OBVIOUS
    <3>2. it = [u \in SUBSET s |-> it[u]]
      <4> HIDE DEF A
      <4> QED
        OBVIOUS
    <3> HIDE DEF it, A
    <3>3. \A u \in SUBSET s : it[u] = IF u = {} THEN 0 ELSE f[Pick(u)] + it[u \ {Pick(u)}]
      BY <2>2, <3>1
    <3> QED
      BY <3>2, <3>3
  <2>4. Solves(it, f, s)
    BY <2>3 DEF Solves
  <2> QED
    BY <2>4
<1> HIDE DEF G
<1>2. S \in G
  BY <1>1, SubsetInduction
<1> QED
  BY <1>2 DEF G

\* The sum over a finite set is what the recursion says.
LEMMA SumByPick ==
  ASSUME NEW f, NEW S, IsFiniteSet(S)
  PROVE  SumFunctionOnSet(f, S)
           = IF S = {} THEN 0 ELSE f[Pick(S)] + SumFunctionOnSet(f, S \ {Pick(S)})
<1> DEFINE a == CHOOSE it : Solves(it, f, S)
           b == CHOOSE it : Solves(it, f, S \ {Pick(S)})
<1>1. SumFunctionOnSet(f, S) = a[S]
  BY DEF SumFunctionOnSet, FoldFunctionOnSet, MapThenFoldSet, Solves, Pick
<1>2. SumFunctionOnSet(f, S \ {Pick(S)}) = b[S \ {Pick(S)}]
  <2> DEFINE T == S \ {Pick(S)}
  <2>1. SumFunctionOnSet(f, T) = (CHOOSE it : Solves(it, f, T))[T]
    <3> HIDE DEF T
    <3> QED
      BY DEF SumFunctionOnSet, FoldFunctionOnSet, MapThenFoldSet, Solves, Pick
  <2> QED
    BY <2>1
<1>3. Solves(a, f, S)
  BY SolutionExists
<1>4. IsFiniteSet(S \ {Pick(S)})
  BY FS_Subset
<1>5. Solves(b, f, S \ {Pick(S)})
  BY <1>4, SolutionExists
<1> HIDE DEF a, b
<1>6. a[S] = IF S = {} THEN 0 ELSE f[Pick(S)] + a[S \ {Pick(S)}]
  BY <1>3 DEF Solves
<1>7. a[S \ {Pick(S)}] = b[S \ {Pick(S)}]
  BY <1>3, <1>4, <1>5, SolutionUnique
<1> QED
  BY <1>1, <1>2, <1>6, <1>7

-----------------------------------------------------------------------------
(* Sums of integers.                                                       *)

\* The sum of integers is an integer.
LEMMA SumType ==
  ASSUME NEW S, IsFiniteSet(S), NEW f, \A x \in S : f[x] \in Int
  PROVE  SumFunctionOnSet(f, S) \in Int
<1> DEFINE Sum(s) == SumFunctionOnSet(f, s)
           G == {s \in SUBSET S : Sum(s) \in Int}
<1>1. ASSUME NEW s \in SUBSET S, \A x \in s : s \ {x} \in G PROVE s \in G
  <2>1. Sum(s) = IF s = {} THEN 0 ELSE f[Pick(s)] + Sum(s \ {Pick(s)})
    BY FS_Subset, SumByPick
  <2>2. s # {} => Pick(s) \in s
    BY Picked
  <2> HIDE DEF Sum
  <2> QED
    BY <1>1, <2>1, <2>2
<1> HIDE DEF G
<1>2. S \in G
  BY <1>1, SubsetInduction
<1> QED
  BY <1>2 DEF G

\* Any element may be taken first.
LEMMA SumTakes ==
  ASSUME NEW S, IsFiniteSet(S), NEW f, \A x \in S : f[x] \in Int, NEW x \in S
  PROVE  /\ SumFunctionOnSet(f, S) = f[x] + SumFunctionOnSet(f, S \ {x})
         /\ SumFunctionOnSet(f, S \ {x}) \in Int
<1> DEFINE Sum(s) == SumFunctionOnSet(f, s)
           G == {s \in SUBSET S : \A y \in s : Sum(s) = f[y] + Sum(s \ {y})}
<1>0. \A s \in SUBSET S : IsFiniteSet(s) /\ Sum(s) \in Int
  <2> SUFFICES ASSUME NEW s \in SUBSET S PROVE IsFiniteSet(s) /\ Sum(s) \in Int
    OBVIOUS
  <2>1. IsFiniteSet(s)
    BY FS_Subset
  <2> QED
    BY <2>1, SumType
<1>1. ASSUME NEW s \in SUBSET S, \A y \in s : s \ {y} \in G PROVE s \in G
  <2> SUFFICES ASSUME NEW y \in s PROVE Sum(s) = f[y] + Sum(s \ {y})
    OBVIOUS
  <2> DEFINE p == Pick(s)
  <2>1. p \in s /\ Sum(s) = f[p] + Sum(s \ {p})
    BY <1>0, Picked, SumByPick
  <2> HIDE DEF p
  <2>2. CASE y = p
    BY <2>1, <2>2
  <2>3. CASE y # p
    <3> DEFINE t == (s \ {p}) \ {y}
    <3>1. Sum(s \ {p}) = f[y] + Sum(t)
      BY <1>1, <2>1, <2>3
    <3>2. Sum(s \ {y}) = f[p] + Sum((s \ {y}) \ {p})
      BY <1>1, <2>1, <2>3
    <3>3. (s \ {y}) \ {p} = t /\ t \in SUBSET S
      OBVIOUS
    <3>4. f[y] \in Int /\ f[p] \in Int /\ Sum(t) \in Int
      BY <1>0, <2>1, <3>3
    <3>5. Sum(s \ {y}) = f[p] + Sum(t)
      BY <3>2, <3>3
    <3> DEFINE a == Sum(s)
               b == Sum(s \ {p})
               c == Sum(s \ {y})
               d == Sum(t)
    <3>6. a = f[p] + b /\ b = f[y] + d /\ c = f[p] + d /\ d \in Int
      BY <2>1, <3>1, <3>4, <3>5
    <3> HIDE DEF a, b, c, d
    <3>7. a = f[y] + c
      BY <3>4, <3>6
    <3> QED
      BY <3>7 DEF a, c
  <2> QED
    BY <2>2, <2>3
<1>2. S \in G
  <2> HIDE DEF G
  <2> QED
    BY <1>1, SubsetInduction
<1> QED
  BY <1>0, <1>2

\* The sum over no element, and over one.
LEMMA SumSmall ==
  ASSUME NEW f
  PROVE  /\ SumFunctionOnSet(f, {}) = 0
         /\ \A x : f[x] \in Int => SumFunctionOnSet(f, {x}) = f[x]
         /\ \A x, y : x # y /\ f[x] \in Int /\ f[y] \in Int
                        => SumFunctionOnSet(f, {x, y}) = f[x] + f[y]
<1>1. SumFunctionOnSet(f, {}) = 0
  BY FS_EmptySet, SumByPick
<1>2. ASSUME NEW x, f[x] \in Int PROVE SumFunctionOnSet(f, {x}) = f[x]
  <2>1. IsFiniteSet({x}) /\ {x} \ {x} = {}
    BY FS_Singleton
  <2>2. SumFunctionOnSet(f, {x}) = f[x] + SumFunctionOnSet(f, {x} \ {x})
    BY <1>2, <2>1, SumTakes
  <2> QED
    BY <1>1, <1>2, <2>1, <2>2
<1>3. ASSUME NEW x, NEW y, x # y, f[x] \in Int, f[y] \in Int
      PROVE  SumFunctionOnSet(f, {x, y}) = f[x] + f[y]
  <2>1. IsFiniteSet({y} \cup {x}) /\ {y} \cup {x} = {x, y} /\ {x, y} \ {x} = {y}
    BY <1>3, FS_Singleton, FS_AddElement
  <2>2. SumFunctionOnSet(f, {x, y}) = f[x] + SumFunctionOnSet(f, {x, y} \ {x})
    BY <1>3, <2>1, SumTakes
  <2> QED
    BY <1>2, <1>3, <2>1, <2>2
<1> QED
  BY <1>1, <1>2, <1>3

\* The sum is of the values in the set and of nothing else, and grows with
\* them.
LEMMA SumMonotone ==
  ASSUME NEW S, IsFiniteSet(S), NEW f, NEW g,
         \A x \in S : f[x] \in Int /\ g[x] \in Int /\ f[x] <= g[x]
  PROVE  SumFunctionOnSet(f, S) <= SumFunctionOnSet(g, S)
<1> DEFINE F(s) == SumFunctionOnSet(f, s)
           H(s) == SumFunctionOnSet(g, s)
           G == {s \in SUBSET S : F(s) <= H(s)}
<1>1. ASSUME NEW s \in SUBSET S, \A x \in s : s \ {x} \in G PROVE s \in G
  <2>1. CASE s = {}
    BY <2>1, SumSmall
  <2>2. CASE s # {}
    <3>1. PICK x \in s : TRUE
      BY <2>2
    <3>2. F(s) = f[x] + F(s \ {x}) /\ F(s \ {x}) \in Int
      BY FS_Subset, SumTakes
    <3>3. H(s) = g[x] + H(s \ {x}) /\ H(s \ {x}) \in Int
      BY FS_Subset, SumTakes
    <3>4. F(s \ {x}) <= H(s \ {x}) /\ f[x] <= g[x] /\ f[x] \in Int /\ g[x] \in Int
      BY <1>1
    <3> HIDE DEF F, H
    <3> QED
      BY <3>2, <3>3, <3>4
  <2> QED
    BY <2>1, <2>2
<1>2. S \in G
  <2> HIDE DEF G
  <2> QED
    BY <1>1, SubsetInduction
<1> QED
  BY <1>2

\* Functions that agree on the set have the same sum.
LEMMA SumAgrees ==
  ASSUME NEW S, IsFiniteSet(S), NEW f, NEW g,
         \A x \in S : f[x] \in Int /\ g[x] = f[x]
  PROVE  SumFunctionOnSet(g, S) = SumFunctionOnSet(f, S)
<1>1. SumFunctionOnSet(g, S) <= SumFunctionOnSet(f, S)
  BY SumMonotone
<1>2. SumFunctionOnSet(f, S) <= SumFunctionOnSet(g, S)
  BY SumMonotone
<1>3. SumFunctionOnSet(f, S) \in Int /\ SumFunctionOnSet(g, S) \in Int
  BY SumType
<1> QED
  BY <1>1, <1>2, <1>3

\* A change at one element is a change of the sum.
LEMMA SumChange ==
  ASSUME NEW S, IsFiniteSet(S), NEW f, NEW g, NEW x \in S, NEW k \in Int,
         \A y \in S : f[y] \in Int, g[x] = f[x] + k, \A y \in S \ {x} : g[y] = f[y]
  PROVE  SumFunctionOnSet(g, S) = SumFunctionOnSet(f, S) + k
<1>1. \A y \in S : g[y] \in Int
  OBVIOUS
<1>2. /\ SumFunctionOnSet(g, S) = g[x] + SumFunctionOnSet(g, S \ {x})
      /\ SumFunctionOnSet(f, S) = f[x] + SumFunctionOnSet(f, S \ {x})
      /\ SumFunctionOnSet(f, S \ {x}) \in Int
  BY <1>1, SumTakes
<1>3. IsFiniteSet(S \ {x})
  BY FS_Subset
<1>4. SumFunctionOnSet(g, S \ {x}) = SumFunctionOnSet(f, S \ {x})
  BY <1>3, SumAgrees
<1> QED
  BY <1>2, <1>4

\* A summand that is zero may be left out.
LEMMA SumWithout ==
  ASSUME NEW S, IsFiniteSet(S), NEW f, NEW g, NEW x \in S, f[x] = 0,
         \A y \in S \ {x} : f[y] \in Int /\ g[y] = f[y]
  PROVE  SumFunctionOnSet(g, S \ {x}) = SumFunctionOnSet(f, S)
<1>1. \A y \in S : f[y] \in Int
  OBVIOUS
<1>2. /\ SumFunctionOnSet(f, S) = f[x] + SumFunctionOnSet(f, S \ {x})
      /\ SumFunctionOnSet(f, S \ {x}) \in Int
  BY <1>1, SumTakes
<1>3. IsFiniteSet(S \ {x})
  BY FS_Subset
<1>4. SumFunctionOnSet(g, S \ {x}) = SumFunctionOnSet(f, S \ {x})
  BY <1>3, SumAgrees
<1> QED
  BY <1>2, <1>4

\* Zeros add up to nothing, and summands of at most one to at most their
\* number.
LEMMA SumOfUnits ==
  ASSUME NEW S, IsFiniteSet(S), NEW f, \A x \in S : f[x] \in Int
  PROVE  /\ (\A x \in S : f[x] = 0) => SumFunctionOnSet(f, S) = 0
         /\ (\A x \in S : f[x] >= 0) => SumFunctionOnSet(f, S) >= 0
         /\ (\A x \in S : f[x] <= 1) => SumFunctionOnSet(f, S) <= Cardinality(S)
<1> DEFINE F(s) == SumFunctionOnSet(f, s)
<1>1. ASSUME NEW s \in SUBSET S
      PROVE  /\ IsFiniteSet(s) /\ Cardinality(s) \in Nat /\ F(s) \in Int
             /\ \A x \in s : /\ F(s) = f[x] + F(s \ {x}) /\ F(s \ {x}) \in Int /\ f[x] \in Int
                             /\ Cardinality(s \ {x}) = Cardinality(s) - 1
  <2>1. IsFiniteSet(s) /\ Cardinality(s) \in Nat
    BY FS_Subset, FS_CardinalityType
  <2> QED
    BY <2>1, SumType, SumTakes, FS_RemoveElement
<1>2. F({}) = 0 /\ Cardinality({}) = 0
  BY SumSmall, FS_EmptySet
<1> HIDE DEF F
<1>3. ASSUME \A x \in S : f[x] >= 0 PROVE F(S) >= 0
  <2> DEFINE G == {s \in SUBSET S : F(s) >= 0}
  <2>1. ASSUME NEW s \in SUBSET S, \A x \in s : s \ {x} \in G PROVE s \in G
    <3>1. CASE s = {}
      BY <1>2, <3>1
    <3>2. CASE s # {}
      <4>1. PICK x \in s : TRUE
        BY <3>2
      <4>2. F(s) = f[x] + F(s \ {x}) /\ F(s \ {x}) \in Int /\ f[x] \in Int /\ f[x] >= 0
        BY <1>1, <1>3
      <4>3. F(s \ {x}) >= 0
        BY <2>1
      <4> QED
        BY <4>2, <4>3
    <3> QED
      BY <3>1, <3>2
  <2> HIDE DEF G
  <2>2. S \in G
    BY <2>1, SubsetInduction
  <2> QED
    BY <2>2 DEF G
<1>4. ASSUME \A x \in S : f[x] <= 1 PROVE F(S) <= Cardinality(S)
  <2> DEFINE G == {s \in SUBSET S : F(s) <= Cardinality(s)}
  <2>1. ASSUME NEW s \in SUBSET S, \A x \in s : s \ {x} \in G PROVE s \in G
    <3>1. CASE s = {}
      BY <1>2, <3>1
    <3>2. CASE s # {}
      <4>1. PICK x \in s : TRUE
        BY <3>2
      <4>2. /\ F(s) = f[x] + F(s \ {x}) /\ F(s \ {x}) \in Int /\ f[x] \in Int /\ f[x] <= 1
            /\ Cardinality(s \ {x}) = Cardinality(s) - 1 /\ Cardinality(s) \in Nat
        BY <1>1, <1>4
      <4>3. F(s \ {x}) <= Cardinality(s \ {x})
        BY <2>1
      <4> QED
        BY <4>2, <4>3
    <3> QED
      BY <3>1, <3>2
  <2> HIDE DEF G
  <2>2. S \in G
    BY <2>1, SubsetInduction
  <2> QED
    BY <2>2 DEF G
<1>5. ASSUME \A x \in S : f[x] = 0 PROVE F(S) = 0
  <2> DEFINE G == {s \in SUBSET S : F(s) = 0}
  <2>1. ASSUME NEW s \in SUBSET S, \A x \in s : s \ {x} \in G PROVE s \in G
    <3>1. CASE s = {}
      BY <1>2, <3>1
    <3>2. CASE s # {}
      <4>1. PICK x \in s : TRUE
        BY <3>2
      <4>2. F(s) = f[x] + F(s \ {x}) /\ f[x] = 0
        BY <1>1, <1>5
      <4>3. F(s \ {x}) = 0
        BY <2>1
      <4> QED
        BY <4>2, <4>3
    <3> QED
      BY <3>1, <3>2
  <2> HIDE DEF G
  <2>2. S \in G
    BY <2>1, SubsetInduction
  <2> QED
    BY <2>2 DEF G
<1> QED
  BY <1>3, <1>4, <1>5 DEF F

\* The sum of the differences of two functions is the difference of the sums.
LEMMA SumDifference ==
  ASSUME NEW S, IsFiniteSet(S), NEW f, NEW g, \A x \in S : f[x] \in Int /\ g[x] \in Int
  PROVE  SumFunctionOnSet([x \in S |-> f[x] - g[x]], S)
           = SumFunctionOnSet(f, S) - SumFunctionOnSet(g, S)
<1> DEFINE d == [x \in S |-> f[x] - g[x]]
           F(s) == SumFunctionOnSet(f, s)
           H(s) == SumFunctionOnSet(g, s)
           D(s) == SumFunctionOnSet(d, s)
           G == {s \in SUBSET S : D(s) = F(s) - H(s)}
<1>0. \A x \in S : d[x] \in Int /\ d[x] = f[x] - g[x]
  OBVIOUS
<1> HIDE DEF d
<1>1. ASSUME NEW s \in SUBSET S, \A x \in s : s \ {x} \in G PROVE s \in G
  <2>1. CASE s = {}
    BY <2>1, SumSmall
  <2>2. CASE s # {}
    <3>1. PICK x \in s : TRUE
      BY <2>2
    <3>2. F(s) = f[x] + F(s \ {x}) /\ F(s \ {x}) \in Int
      BY FS_Subset, SumTakes
    <3>3. H(s) = g[x] + H(s \ {x}) /\ H(s \ {x}) \in Int
      BY FS_Subset, SumTakes
    <3>4. D(s) = d[x] + D(s \ {x}) /\ D(s \ {x}) \in Int
      BY <1>0, FS_Subset, SumTakes
    <3>5. D(s \ {x}) = F(s \ {x}) - H(s \ {x}) /\ f[x] \in Int /\ g[x] \in Int
      BY <1>1
    <3> HIDE DEF F, H, D
    <3> QED
      BY <1>0, <3>2, <3>3, <3>4, <3>5
  <2> QED
    BY <2>1, <2>2
<1>2. S \in G
  <2> HIDE DEF G
  <2> QED
    BY <1>1, SubsetInduction
<1> QED
  BY <1>2 DEF d
=============================================================================
