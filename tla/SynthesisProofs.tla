---------------------------- MODULE SynthesisProofs ----------------------------
(* Theorems about Synthesis: for any servers, UIs, observations, episodes and *)
(* reflections what an agent's decisions, ratings, retention and the UI keep  *)
(* between them.                                                              *)
EXTENDS Synthesis, FiniteSetTheorems, WellFoundedInduction, TLAPS

-----------------------------------------------------------------------------
(* Induction: a set of natural numbers has a least element.                  *)

LEMMA LeastElement ==
    ASSUME NEW T \in SUBSET Nat, T # {}
    PROVE  \E n \in T : \A m \in T : n <= m
<1>. DEFINE R == OpToRel(<, Nat)
<1>1. IsWellFoundedOn(R, Nat)
  BY NatLessThanWellFounded
<1>2. \E x \in T : \A y \in T : <<y, x>> \notin R
  <2>. HIDE DEF R
  <2>. QED BY <1>1, WFMin
<1>3. \A x, y \in Nat : <<y, x>> \in R <=> y < x
  BY DEF OpToRel
<1>. HIDE DEF R
<1>4. PICK x \in T : \A y \in T : <<y, x>> \notin R
  BY <1>2
<1>5. ASSUME NEW y \in T PROVE x <= y
  <2>1. x \in Nat /\ y \in Nat
    OBVIOUS
  <2>2. ~(y < x)
    BY <2>1, <1>3, <1>4
  <2>. QED BY <2>1, <2>2
<1>. QED BY <1>5

\* What holds of 0 and of the successor of any number it holds of is the set of
\* all numbers.
LEMMA Induction ==
    ASSUME NEW K \in SUBSET Nat, 0 \in K, \A n \in K : n + 1 \in K
    PROVE  K = Nat
<1>. SUFFICES ASSUME Nat \ K # {} PROVE FALSE
  OBVIOUS
<1>1. PICK n \in Nat \ K : \A m \in Nat \ K : n <= m
  <2>1. Nat \ K \in SUBSET Nat
    OBVIOUS
  <2>. QED BY <2>1, LeastElement
<1>2. n # 0 /\ n - 1 \in Nat /\ ~(n <= n - 1)
  BY <1>1
<1>3. n - 1 \in K
  BY <1>1, <1>2
<1>4. (n - 1) + 1 \in K
  BY <1>3
<1>. QED BY <1>1, <1>2, <1>4

Bound == Cardinality(Reflections)

LEMMA BoundType == Bound \in Nat /\ Reflections = 1..Bound
BY ReflectionsAssumption, FS_CardinalityType DEF Bound

-----------------------------------------------------------------------------
(* Total: the sum of a count over a set of reflections.                      *)

Sums(count, S) ==
    CHOOSE f : f = [n \in 0..Cardinality(Reflections) |->
                      IF n = 0 THEN 0
                      ELSE f[n - 1] + (IF n \in S THEN count[n] ELSE 0)]

LEMMA TotalIsLastSum ==
    ASSUME NEW count, NEW S
    PROVE  Total(count, S) = Sums(count, S)[Bound]
BY DEF Total, Sums, Bound

LEMMA SumsExist ==
    ASSUME NEW count, NEW S
    PROVE  Sums(count, S) = [n \in 0..Bound |->
               IF n = 0 THEN 0
               ELSE Sums(count, S)[n - 1] + (IF n \in S THEN count[n] ELSE 0)]
<1>. DEFINE Next1(x, n) == x + (IF n \in S THEN count[n] ELSE 0)
            Upto(k) == \E f : f = [n \in 0..k |-> IF n = 0 THEN 0 ELSE Next1(f[n - 1], n)]
            K == {k \in Nat : Upto(k)}
<1>1. 0 \in K
  <2>. DEFINE f == [n \in 0..0 |-> 0]
  <2>1. f = [n \in 0..0 |-> IF n = 0 THEN 0 ELSE Next1(f[n - 1], n)]
    OBVIOUS
  <2>. QED BY <2>1
<1>2. ASSUME NEW k \in K PROVE k + 1 \in K
  <2>0. k \in Nat /\ Upto(k)
    OBVIOUS
  <2>1. PICK f : f = [n \in 0..k |-> IF n = 0 THEN 0 ELSE Next1(f[n - 1], n)]
    BY <2>0
  <2>. DEFINE g == [n \in 0..(k + 1) |-> IF n = k + 1 THEN Next1(f[k], n) ELSE f[n]]
  <2>. HIDE DEF Next1
  <2>2. g = [n \in 0..(k + 1) |-> IF n = 0 THEN 0 ELSE Next1(g[n - 1], n)]
    BY <2>0, <2>1
  <2>3. Upto(k + 1)
    BY <2>2
  <2>. QED BY <2>0, <2>3
<1>3. Bound \in K
  <2>. HIDE DEF Upto
  <2>1. K \in SUBSET Nat
    OBVIOUS
  <2>. HIDE DEF K
  <2>. QED BY <1>1, <1>2, <2>1, Induction, BoundType
<1>4. Upto(Bound)
  BY <1>3
<1>. QED BY <1>4 DEF Sums, Bound

LEMMA SumsStep ==
    ASSUME NEW count, NEW S
    PROVE  /\ Sums(count, S)[0] = 0
           /\ \A n \in 1..Bound : Sums(count, S)[n] =
                 Sums(count, S)[n - 1] + (IF n \in S THEN count[n] ELSE 0)
<1>. DEFINE f == Sums(count, S)
<1>1. f = [n \in 0..Bound |->
             IF n = 0 THEN 0 ELSE f[n - 1] + (IF n \in S THEN count[n] ELSE 0)]
  BY SumsExist
<1>. HIDE DEF f
<1>2. f[0] = 0 /\ \A n \in 1..Bound : f[n] =
         f[n - 1] + (IF n \in S THEN count[n] ELSE 0)
  BY <1>1, BoundType
<1>. QED BY <1>2 DEF f

\* What holds of 0, and of n when it holds of n - 1, holds up to Bound.
LEMMA UpToBound ==
    ASSUME NEW K \in SUBSET Nat, 0 \in K, \A n \in 1..Bound : n - 1 \in K => n \in K
    PROVE  0..Bound \subseteq K
<1>. DEFINE L == {n \in Nat : n <= Bound => n \in K}
<1>1. 0 \in L
  OBVIOUS
<1>2. ASSUME NEW n \in L PROVE n + 1 \in L
  <2>1. CASE n + 1 <= Bound
    <3>1. n \in Nat /\ n + 1 \in 1..Bound /\ n \in K /\ (n + 1) - 1 = n
      BY <2>1, BoundType
    <3>. QED BY <3>1
  <2>. QED BY <2>1
<1>3. L = Nat
  <2>1. L \in SUBSET Nat
    OBVIOUS
  <2>. HIDE DEF L
  <2>. QED BY <1>1, <1>2, <2>1, Induction
<1>. QED BY <1>3, BoundType

LEMMA SumsType ==
    ASSUME NEW count \in [Reflections -> Nat], NEW S
    PROVE  \A n \in 0..Bound : Sums(count, S)[n] \in Nat
<1>. DEFINE K == {n \in Nat : Sums(count, S)[n] \in Nat}
<1>1. 0 \in K
  BY SumsStep
<1>2. ASSUME NEW n \in 1..Bound, n - 1 \in K PROVE n \in K
  <2>1. n \in Nat /\ count[n] \in Nat /\ Sums(count, S)[n - 1] \in Nat
    BY <1>2, BoundType
  <2>2. Sums(count, S)[n] = Sums(count, S)[n - 1] + (IF n \in S THEN count[n] ELSE 0)
    BY SumsStep
  <2>. QED BY <2>1, <2>2
<1>3. K \in SUBSET Nat
  OBVIOUS
<1>. HIDE DEF K
<1>4. 0..Bound \subseteq K
  BY <1>1, <1>2, <1>3, UpToBound
<1>. QED BY <1>4 DEF K

LEMMA TotalType ==
    ASSUME NEW count \in [Reflections -> Nat], NEW S
    PROVE  Total(count, S) \in Nat
BY TotalIsLastSum, SumsType, BoundType

LEMMA TotalOfUnion ==
    ASSUME NEW count \in [Reflections -> Nat], NEW S, NEW T, S \cap T = {}
    PROVE  Total(count, S \cup T) = Total(count, S) + Total(count, T)
<1>. DEFINE f(X) == Sums(count, X)
            K == {n \in Nat : f(S \cup T)[n] = f(S)[n] + f(T)[n]}
<1>1. 0 \in K
  BY SumsStep
<1>2. ASSUME NEW n \in 1..Bound, n - 1 \in K PROVE n \in K
  <2>1. /\ f(S)[n - 1] \in Nat /\ f(T)[n - 1] \in Nat /\ count[n] \in Nat
        /\ n \in Nat
        /\ f(S \cup T)[n - 1] = f(S)[n - 1] + f(T)[n - 1]
    BY <1>2, SumsType, BoundType
  <2>2. \A X : f(X)[n] = f(X)[n - 1] + (IF n \in X THEN count[n] ELSE 0)
    BY SumsStep
  <2>. HIDE DEF f
  <2>3. f(S \cup T)[n] = f(S)[n] + f(T)[n]
    BY <2>1, <2>2
  <2>. QED BY <2>1, <2>3
<1>3. K \in SUBSET Nat
  OBVIOUS
<1>. HIDE DEF K
<1>4. 0..Bound \subseteq K
  BY <1>1, <1>2, <1>3, UpToBound
<1>5. Bound \in K
  BY <1>4, BoundType
<1>6. \A X : Total(count, X) = f(X)[Bound]
  BY TotalIsLastSum
<1>. HIDE DEF f
<1>. QED BY <1>5, <1>6 DEF K

\* One more for r.
LEMMA TotalOfOneMore ==
    ASSUME NEW count \in [Reflections -> Nat], NEW r \in Reflections, NEW S,
           NEW more \in [Reflections -> Nat], more[r] = count[r] + 1,
           \A s \in Reflections \ {r} : more[s] = count[s]
    PROVE  Total(more, S) = Total(count, S) + (IF r \in S THEN 1 ELSE 0)
<1>. DEFINE f == Sums(count, S)
            g == Sums(more, S)
            K == {n \in Nat : g[n] = f[n] + (IF r \in S /\ r <= n THEN 1 ELSE 0)}
<1>0. r \in Nat /\ r >= 1 /\ r <= Bound
  BY BoundType
<1>1. 0 \in K
  BY <1>0, SumsStep
<1>2. ASSUME NEW n \in 1..Bound, n - 1 \in K PROVE n \in K
  <2>1. /\ f[n - 1] \in Nat /\ g[n - 1] \in Nat /\ n \in Nat
        /\ n \in Reflections /\ count[n] \in Nat /\ more[n] \in Nat
        /\ g[n - 1] = f[n - 1] + (IF r \in S /\ r <= n - 1 THEN 1 ELSE 0)
    BY <1>2, SumsType, BoundType
  <2>2. /\ f[n] = f[n - 1] + (IF n \in S THEN count[n] ELSE 0)
        /\ g[n] = g[n - 1] + (IF n \in S THEN more[n] ELSE 0)
    BY SumsStep
  <2>. HIDE DEF f, g
  <2>3. g[n] = f[n] + (IF r \in S /\ r <= n THEN 1 ELSE 0)
    <3>1. CASE n = r
      BY <1>0, <2>1, <2>2, <3>1
    <3>2. CASE n # r
      BY <1>0, <2>1, <2>2, <3>2
    <3>. QED BY <3>1, <3>2
  <2>. QED BY <2>1, <2>3
<1>3. K \in SUBSET Nat
  OBVIOUS
<1>. HIDE DEF K
<1>4. 0..Bound \subseteq K
  BY <1>1, <1>2, <1>3, UpToBound
<1>5. Bound \in K /\ Bound \in Nat
  BY <1>4, BoundType
<1>. HIDE DEF f, g
<1>6. g[Bound] = f[Bound] + (IF r \in S THEN 1 ELSE 0)
  BY <1>0, <1>5 DEF K
<1>. QED BY <1>6, TotalIsLastSum DEF f, g

LEMMA TotalOfZeros ==
    ASSUME NEW S
    PROVE  Total([r \in Reflections |-> 0], S) = 0
<1>. DEFINE count == [r \in Reflections |-> 0]
            K == {n \in Nat : Sums(count, S)[n] = 0}
<1>1. 0 \in K
  BY SumsStep
<1>2. ASSUME NEW n \in 1..Bound, n - 1 \in K PROVE n \in K
  BY <1>2, SumsStep, BoundType
<1>3. K \in SUBSET Nat
  OBVIOUS
<1>. HIDE DEF K
<1>4. 0..Bound \subseteq K
  BY <1>1, <1>2, <1>3, UpToBound
<1>. QED BY <1>4, TotalIsLastSum, BoundType DEF K

-----------------------------------------------------------------------------
(* Family: the least set with r and whatever was merged into a member.       *)

\* In the reflections rf of a library or of the database.
Closed(rf, C) == \A x \in Reflections : rf[x].by \in C => x \in C

FamilyIn(rf, r) ==
    {x \in Reflections : \A C \in SUBSET Reflections : r \in C /\ Closed(rf, C) => x \in C}

Grown(r) ==
    CHOOSE f : f = [n \in 0..Cardinality(Reflections) |->
                      IF n = 0 THEN {r} ELSE Heirs(f[n - 1])]

LEMMA FamilyIsLastGrown ==
    ASSUME NEW r
    PROVE  Family(r) = Grown(r)[Bound]
BY DEF Family, Grown, Bound

LEMMA GrownStep ==
    ASSUME NEW r
    PROVE  /\ Grown(r)[0] = {r}
           /\ \A n \in 1..Bound : Grown(r)[n] = Heirs(Grown(r)[n - 1])
<1>. DEFINE Upto(k) == \E f : f = [n \in 0..k |-> IF n = 0 THEN {r} ELSE Heirs(f[n - 1])]
            K == {k \in Nat : Upto(k)}
<1>1. 0 \in K
  <2>. DEFINE f == [n \in 0..0 |-> {r}]
  <2>1. f = [n \in 0..0 |-> IF n = 0 THEN {r} ELSE Heirs(f[n - 1])]
    OBVIOUS
  <2>. QED BY <2>1
<1>2. ASSUME NEW k \in K PROVE k + 1 \in K
  <2>1. k \in Nat /\ Upto(k)
    OBVIOUS
  <2>2. PICK f : f = [n \in 0..k |-> IF n = 0 THEN {r} ELSE Heirs(f[n - 1])]
    BY <2>1
  <2>. DEFINE g == [n \in 0..(k + 1) |-> IF n = k + 1 THEN Heirs(f[k]) ELSE f[n]]
  <2>3. g = [n \in 0..(k + 1) |-> IF n = 0 THEN {r} ELSE Heirs(g[n - 1])]
    <3>1. ASSUME NEW n \in 0..(k + 1)
          PROVE  g[n] = IF n = 0 THEN {r} ELSE Heirs(g[n - 1])
      <4>1. CASE n = k + 1
        <5>1. g[n] = Heirs(f[k]) /\ n - 1 = k /\ n # 0 /\ g[k] = f[k]
          BY <2>1, <4>1
        <5>. QED BY <5>1
      <4>2. CASE n \in 0..k
        <5>1. g[n] = f[n] /\ (n # 0 => n - 1 \in 0..k /\ g[n - 1] = f[n - 1])
          BY <2>1, <4>2
        <5>2. f[n] = IF n = 0 THEN {r} ELSE Heirs(f[n - 1])
          BY <2>2, <4>2
        <5>. QED BY <5>1, <5>2
      <4>. QED BY <2>1, <4>1, <4>2
    <3>. QED BY <3>1
  <2>4. Upto(k + 1)
    BY <2>3
  <2>. QED BY <2>1, <2>4
<1>3. Bound \in K
  <2>. HIDE DEF Upto
  <2>1. K \in SUBSET Nat
    OBVIOUS
  <2>. HIDE DEF K
  <2>. QED BY <1>1, <1>2, <2>1, Induction, BoundType
<1>4. Upto(Bound)
  BY <1>3
<1>. DEFINE f == Grown(r)
<1>5. f = [n \in 0..Bound |-> IF n = 0 THEN {r} ELSE Heirs(f[n - 1])]
  BY <1>4 DEF Grown, Bound
<1>. HIDE DEF f
<1>6. f[0] = {r} /\ \A n \in 1..Bound : f[n] = Heirs(f[n - 1])
  <2>1. \A n \in 0..Bound : f[n] = IF n = 0 THEN {r} ELSE Heirs(f[n - 1])
    BY <1>5
  <2>. QED BY <2>1, BoundType
<1>. QED BY <1>6 DEF f

LEMMA FamilyIsLeast ==
    ASSUME NEW r \in Reflections
    PROVE  Family(r) = FamilyIn(refl, r)
<1>. DEFINE g == Grown(r)
            Grows(n) == /\ g[n] \subseteq Reflections /\ r \in g[n]
                        /\ \A C \in SUBSET Reflections :
                              r \in C /\ Closed(refl, C) => g[n] \subseteq C
                        /\ Heirs(g[n]) = g[n] \/ Cardinality(g[n]) >= n + 1
            K == {n \in Nat : Grows(n)}
<1>1. 0 \in K
  <2>1. g[0] = {r}
    BY GrownStep
  <2>2. Cardinality({r}) = 1
    BY FS_Singleton
  <2>. HIDE DEF g
  <2>. QED BY <2>1, <2>2
<1>2. ASSUME NEW n \in 1..Bound, n - 1 \in K PROVE n \in K
  <2>1. n \in Nat /\ n - 1 \in Nat /\ Grows(n - 1) /\ g[n] = Heirs(g[n - 1])
    BY <1>2, GrownStep
  <2>. HIDE DEF g
  <2>2. g[n] \subseteq Reflections /\ g[n - 1] \subseteq g[n] /\ r \in g[n]
    BY <2>1 DEF Heirs
  <2>3. ASSUME NEW C \in SUBSET Reflections, r \in C, Closed(refl, C)
        PROVE  g[n] \subseteq C
    <3>1. g[n - 1] \subseteq C
      BY <2>1, <2>3
    <3>. QED BY <2>1, <2>3, <3>1 DEF Heirs, Closed
  <2>4. Heirs(g[n]) = g[n] \/ Cardinality(g[n]) >= n + 1
    <3>1. CASE Heirs(g[n - 1]) = g[n - 1]
      BY <2>1, <3>1
    <3>2. CASE Heirs(g[n - 1]) # g[n - 1]
      <4>1. IsFiniteSet(Reflections)
        BY ReflectionsAssumption
      <4>2. IsFiniteSet(g[n])
        BY <2>2, <4>1, FS_Subset
      <4>3. Cardinality(g[n - 1]) < Cardinality(g[n])
        <5>1. g[n - 1] # g[n] /\ IsFiniteSet(g[n - 1])
          BY <2>1, <2>2, <3>2, <4>2, FS_Subset
        <5>2. /\ Cardinality(g[n - 1]) <= Cardinality(g[n])
              /\ Cardinality(g[n - 1]) = Cardinality(g[n]) => g[n - 1] = g[n]
          BY <2>2, <4>2, FS_Subset
        <5>3. Cardinality(g[n]) \in Nat /\ Cardinality(g[n - 1]) \in Nat
          BY <4>2, <5>1, FS_CardinalityType
        <5>. QED BY <5>1, <5>2, <5>3
      <4>4. Cardinality(g[n - 1]) \in Nat /\ Cardinality(g[n]) \in Nat
        BY <2>2, <4>2, FS_CardinalityType, FS_Subset
      <4>5. Cardinality(g[n - 1]) >= (n - 1) + 1
        BY <2>1, <3>2
      <4>. QED BY <2>1, <4>3, <4>4, <4>5
    <3>. QED BY <3>1, <3>2
  <2>. QED BY <2>1, <2>2, <2>3, <2>4
<1>3. K \in SUBSET Nat
  OBVIOUS
<1>4. Bound \in K
  <2>. HIDE DEF K
  <2>. QED BY <1>1, <1>2, <1>3, UpToBound, BoundType
<1>5. Grows(Bound)
  BY <1>4
<1>6. Heirs(g[Bound]) = g[Bound]
  <2>1. IsFiniteSet(Reflections) /\ Bound = Cardinality(Reflections)
    BY ReflectionsAssumption DEF Bound
  <2>2. Cardinality(g[Bound]) <= Bound /\ Cardinality(g[Bound]) \in Nat
    BY <1>5, <2>1, FS_Subset, FS_CardinalityType
  <2>. QED BY <1>5, <2>2, BoundType
<1>. HIDE DEF g
<1>7. Closed(refl, g[Bound])
  BY <1>6 DEF Closed, Heirs
<1>8. FamilyIn(refl, r) = g[Bound]
  BY <1>5, <1>7 DEF FamilyIn
<1>. QED BY <1>8, FamilyIsLastGrown DEF g

LEMMA FamilyClosed ==
    ASSUME NEW rf, NEW r \in Reflections
    PROVE  /\ r \in FamilyIn(rf, r) /\ FamilyIn(rf, r) \subseteq Reflections
           /\ Closed(rf, FamilyIn(rf, r))
           /\ \A C \in SUBSET Reflections :
                 r \in C /\ Closed(rf, C) => FamilyIn(rf, r) \subseteq C
BY DEF FamilyIn, Closed

LEMMA FamilyByBy ==
    ASSUME NEW rf, NEW rf2, \A x \in Reflections : rf2[x].by = rf[x].by,
           NEW r \in Reflections
    PROVE  FamilyIn(rf2, r) = FamilyIn(rf, r)
<1>1. \A C \in SUBSET Reflections : Closed(rf2, C) <=> Closed(rf, C)
  BY DEF Closed
<1>. QED BY <1>1 DEF FamilyIn

\* Only what is superseded has been merged into anything.
Bare(rf) == \A x \in Reflections : rf[x].by \in Reflections <=> rf[x].status = "superseded"

LEMMA FamilyMembers ==
    ASSUME NEW rf, Bare(rf), NEW r \in Reflections, rf[r].status # "superseded"
    PROVE  \A x \in FamilyIn(rf, r) \ {r} :
              rf[x].status = "superseded" /\ rf[x].by \in FamilyIn(rf, r)
<1>. DEFINE F == FamilyIn(rf, r)
            C == {r} \cup {x \in F : rf[x].by \in F}
<1>1. F \subseteq Reflections /\ r \in F /\ Closed(rf, F)
  BY FamilyClosed
<1>2. C \in SUBSET Reflections /\ C \subseteq F /\ r \in C
  BY <1>1
<1>3. Closed(rf, C)
  BY <1>1, <1>2 DEF Closed
<1>4. F \subseteq C
  <2>. HIDE DEF C
  <2>. QED BY <1>2, <1>3, FamilyClosed
<1>5. \A x \in F \ {r} : rf[x].by \in F
  BY <1>4
<1>. HIDE DEF F
<1>6. \A x \in F \ {r} : rf[x].status = "superseded"
  BY <1>1, <1>5 DEF Bare
<1>. QED BY <1>5, <1>6 DEF F

\* Merging s into t joins their families and leaves the others as they are.
LEMMA FamilyOfMerge ==
    ASSUME NEW rf, Bare(rf), NEW s \in Reflections, NEW t \in Reflections, s # t,
           rf[s].status # "superseded", rf[t].status # "superseded",
           NEW rf2, rf2[s].by = t, \A x \in Reflections \ {s} : rf2[x].by = rf[x].by
    PROVE  /\ FamilyIn(rf2, t) = FamilyIn(rf, t) \cup FamilyIn(rf, s)
           /\ FamilyIn(rf, t) \cap FamilyIn(rf, s) = {}
           /\ \A r \in Reflections \ {s, t} :
                 rf[r].status # "superseded" => FamilyIn(rf2, r) = FamilyIn(rf, r)
<1>. DEFINE F(x) == FamilyIn(rf, x)
            G(x) == FamilyIn(rf2, x)
<1>1. \A x \in Reflections :
        /\ x \in F(x) /\ F(x) \subseteq Reflections /\ Closed(rf, F(x))
        /\ \A C \in SUBSET Reflections : x \in C /\ Closed(rf, C) => F(x) \subseteq C
  BY FamilyClosed
<1>2. \A x \in Reflections :
        /\ x \in G(x) /\ G(x) \subseteq Reflections /\ Closed(rf2, G(x))
        /\ \A C \in SUBSET Reflections : x \in C /\ Closed(rf2, C) => G(x) \subseteq C
  BY FamilyClosed
<1>3. \A x \in Reflections : rf[x].status # "superseded" =>
         \A y \in F(x) \ {x} : rf[y].status = "superseded" /\ rf[y].by \in F(x)
  BY FamilyMembers
<1>. HIDE DEF F, G
<1>4. rf[s].by \notin Reflections /\ rf[t].by \notin Reflections
  BY DEF Bare
<1>5. \A C \in SUBSET Reflections :
         Closed(rf2, C) <=> Closed(rf, C) /\ (t \in C => s \in C)
  BY <1>4 DEF Closed
<1>6. G(t) = F(t) \cup F(s)
  <2>1. /\ F(t) \cup F(s) \in SUBSET Reflections
        /\ Closed(rf, F(t) \cup F(s)) /\ s \in F(s) /\ t \in F(t)
    BY <1>1 DEF Closed
  <2>2. Closed(rf2, F(t) \cup F(s))
    BY <1>5, <2>1
  <2>3. G(t) \subseteq F(t) \cup F(s)
    BY <1>2, <2>1, <2>2
  <2>4. t \in G(t) /\ G(t) \in SUBSET Reflections /\ Closed(rf, G(t)) /\ s \in G(t)
    BY <1>2, <1>5
  <2>5. F(t) \subseteq G(t) /\ F(s) \subseteq G(t)
    BY <1>1, <2>4
  <2>. QED BY <2>3, <2>5
<1>7. F(t) \cap F(s) = {}
  <2>. DEFINE C == F(s) \ F(t)
  <2>1. s \notin F(t)
    BY <1>3
  <2>2. C \in SUBSET Reflections /\ s \in C
    BY <1>1, <2>1
  <2>3. Closed(rf, C)
    <3>1. ASSUME NEW x \in Reflections, rf[x].by \in C PROVE x \in C
      <4>1. x \in F(s)
        BY <1>1, <3>1 DEF Closed
      <4>2. x # t /\ (x \in F(t) => rf[x].by \in F(t))
        BY <1>3, <1>4, <2>2, <3>1
      <4>. QED BY <3>1, <4>1, <4>2
    <3>. QED BY <3>1 DEF Closed
  <2>. HIDE DEF C
  <2>4. F(s) \subseteq C
    BY <1>1, <2>2, <2>3
  <2>. QED BY <2>4 DEF C
<1>8. ASSUME NEW r \in Reflections \ {s, t}, rf[r].status # "superseded"
      PROVE  G(r) = F(r)
  <2>1. t \notin F(r)
    BY <1>3, <1>8
  <2>2. r \in F(r) /\ F(r) \in SUBSET Reflections /\ Closed(rf2, F(r))
    BY <1>1, <1>5, <2>1
  <2>3. G(r) \subseteq F(r)
    BY <1>2, <2>2
  <2>4. r \in G(r) /\ G(r) \in SUBSET Reflections /\ Closed(rf, G(r))
    BY <1>2, <1>5
  <2>5. F(r) \subseteq G(r)
    BY <1>1, <2>4
  <2>. QED BY <2>3, <2>5
<1>. QED BY <1>6, <1>7, <1>8 DEF F, G

-----------------------------------------------------------------------------
(* Types, and who holds the transaction.                                     *)

\* A server applies a decision for the episode it was shown; the transaction is
\* that of a server that does.
Holding ==
    /\ \A p \in Procs : work[p].step = "apply" =>
          p \in Servers /\ context[p] \in Episodes \ {NoContext}
    /\ txn # NoTxn =>
          /\ txn.server \in Servers /\ work[txn.server].step = "apply"
          /\ txn.episode = context[txn.server]

TypeInv == TypeOK /\ Holding

\* The kinds of work by their step.
LEMMA WorkShapes ==
    ASSUME NEW w \in Work
    PROVE  /\ w.step \in {"idle", "write", "promote", "apply", "prune", "confirm", "retire"}
           /\ w.step \in {"write", "promote"} => w.observation \in Observations
           /\ w.step = "prune" => w.observations \subseteq Observations
           /\ w.step \in {"confirm", "retire"} => w.reflection \in Reflections
           /\ w.step = "idle" => w = Idle
           /\ w.step = "apply" => w = [step |-> "apply"]
BY DEF Work, Idle

LEMMA NewWork ==
    /\ Idle \in Work /\ Idle.step = "idle"
    /\ [step |-> "apply"] \in Work
    /\ \A o \in Observations : /\ [step |-> "write", observation |-> o] \in Work
                               /\ [step |-> "promote", observation |-> o] \in Work
    /\ \A S \in SUBSET Observations : [step |-> "prune", observations |-> S] \in Work
    /\ \A r \in Reflections : /\ [step |-> "confirm", reflection |-> r] \in Work
                              /\ [step |-> "retire", reflection |-> r] \in Work
BY DEF Work, Idle

LEMMA GotoOk ==
    ASSUME work \in [Procs -> Work], NEW p \in Procs, NEW w \in Work, Goto(p, w)
    PROVE  /\ work' \in [Procs -> Work] /\ work'[p] = w
           /\ \A q \in Procs \ {p} : work'[q] = work[q]
BY DEF Goto

\* No decision holds the lock and none is begun or ended: Holding is kept when
\* those that apply go on as they were.
LEMMA HoldingKept ==
    ASSUME Holding, UNCHANGED <<txn, context>>,
           \A p \in Procs : work'[p].step = "apply" <=> work[p].step = "apply"
    PROVE  Holding'
BY DEF Holding, Procs

LEMMA InitTypes == Init => TypeInv
<1>. SUFFICES ASSUME Init PROVE TypeInv
  OBVIOUS
<1>1. TypeOK
  BY CreditsAssumption, NewWork DEF Init, TypeOK, NoReflection, Reflection, Statuses
<1>2. Holding
  BY DEF Init, Holding, Idle
<1>. QED BY <1>1, <1>2 DEF TypeInv

\* A step that only changes what one process is at.
LEMMA GotoKeepsTypes ==
    ASSUME TypeInv, NEW p \in Procs, NEW w \in Work, Goto(p, w),
           w.step # "apply", work[p].step # "apply",
           UNCHANGED <<tables, txn, context, history>>
    PROVE  TypeInv'
<1>1. /\ work' \in [Procs -> Work] /\ work'[p] = w
      /\ \A q \in Procs \ {p} : work'[q] = work[q]
  BY GotoOk DEF TypeInv, TypeOK
<1>2. TypeOK'
  BY <1>1 DEF TypeInv, TypeOK, tables, history
<1>3. Holding'
  BY <1>1, HoldingKept DEF TypeInv
<1>. QED BY <1>2, <1>3 DEF TypeInv

LEMMA ChecksKeepTypes ==
    ASSUME TypeInv,
           NEW p \in Procs,
           \/ \E o \in Observations : WriteFind(p, o) \/ PromoteCheck(p, o)
           \/ \E S \in SUBSET Observations : PruneSelect(p, S)
           \/ \E action \in {"confirm", "retire"}, r \in Reflections :
                 ReviewCheck(p, action, r)
    PROVE  TypeInv'
<1>. DEFINE Starts(w) == /\ work[p] = Idle /\ Goto(p, w) /\ w.step # "apply"
                         /\ UNCHANGED <<tables, txn, context, history>>
<1>1. ASSUME NEW o \in Observations, WriteFind(p, o) PROVE \E w \in Work : Starts(w)
  BY <1>1, NewWork DEF WriteFind
<1>2. ASSUME NEW o \in Observations, PromoteCheck(p, o) PROVE \E w \in Work : Starts(w)
  BY <1>2, NewWork DEF PromoteCheck
<1>3. ASSUME NEW S \in SUBSET Observations, PruneSelect(p, S) PROVE \E w \in Work : Starts(w)
  BY <1>3, NewWork DEF PruneSelect
<1>4. ASSUME NEW r \in Reflections, NEW action \in {"confirm", "retire"},
             ReviewCheck(p, action, r)
      PROVE  \E w \in Work : Starts(w)
  BY <1>4, NewWork DEF ReviewCheck
<1>5. PICK w \in Work : Starts(w)
  BY <1>1, <1>2, <1>3, <1>4
<1>. QED BY <1>5, GotoKeepsTypes, NewWork

\* What GetContext, ApplyCheck, ApplyRefused and ApplyBegin do to the types.
LEMMA CallsKeepTypes ==
    ASSUME TypeInv, NEW p \in Servers,
           GetContext(p) \/ ApplyCheck(p) \/ ApplyRefused(p) \/ ApplyBegin(p)
    PROVE  TypeInv'
<1>0. p \in Procs
  BY DEF Procs
<1>1. CASE GetContext(p) \/ ApplyRefused(p)
  <2>1. /\ work[p].step = "idle" /\ UNCHANGED <<tables, txn, work, history>>
        /\ \E e \in Episodes \cup {NoContext} : context' = [context EXCEPT ![p] = e]
    BY <1>1, NewWork DEF GetContext, ApplyRefused
  <2>2. PICK e \in Episodes \cup {NoContext} : context' = [context EXCEPT ![p] = e]
    BY <2>1
  <2>3. TypeOK'
    BY <2>1, <2>2 DEF TypeInv, TypeOK, tables, history
  <2>4. Holding'
    BY <2>1, <2>2 DEF TypeInv, TypeOK, Holding, Procs
  <2>. QED BY <2>3, <2>4 DEF TypeInv
<1>2. CASE ApplyCheck(p)
  <2>1. /\ Goto(p, [step |-> "apply"]) /\ context[p] # NoContext /\ work[p].step = "idle"
        /\ UNCHANGED <<tables, txn, context, history>>
    BY <1>2, NewWork DEF ApplyCheck
  <2>2. /\ work' \in [Procs -> Work] /\ work'[p] = [step |-> "apply"]
        /\ \A q \in Procs \ {p} : work'[q] = work[q]
    BY <1>0, <2>1, GotoOk, NewWork DEF TypeInv, TypeOK
  <2>3. TypeOK'
    BY <2>1, <2>2 DEF TypeInv, TypeOK, tables, history
  <2>4. Holding'
    BY <2>1, <2>2 DEF TypeInv, TypeOK, Holding, Procs
  <2>. QED BY <2>3, <2>4 DEF TypeInv
<1>3. CASE ApplyBegin(p)
  <2>. DEFINE e == context[p]
              t == [step |-> "new", server |-> p, episode |-> e,
                    active |-> Active([obs |-> obs, refl |-> refl],
                                      {o \in Observations : EpisodeOf[o] = e}),
                    db |-> [obs |-> obs, refl |-> refl]]
  <2>1. /\ txn' = t /\ work[p].step = "apply"
        /\ UNCHANGED <<tables, context, work, history>>
    BY <1>3 DEF ApplyBegin
  <2>2. e \in Episodes
    BY <1>0, <2>1 DEF TypeInv, Holding
  <2>3. [obs |-> obs, refl |-> refl] \in Library
    BY DEF TypeInv, TypeOK, Library
  <2>4. t \in Applying
    BY <2>2, <2>3 DEF Applying, Active
  <2>5. TypeOK'
    BY <2>1, <2>4 DEF TypeInv, TypeOK, tables, history
  <2>6. Holding'
    BY <2>1, <2>2 DEF TypeInv, Holding
  <2>. QED BY <2>5, <2>6 DEF TypeInv
<1>. QED BY <1>1, <1>2, <1>3

\* The entries of a decision, as what they make of the tables of the transaction.
NewDb(db, r, S) ==
    LET valid == Active(db, S)
    IN  [obs  |-> Consumed(db, S, "consumed_into_reflection"),
         refl |-> [db.refl EXCEPT ![r] =
            [status |-> "pending_review", by |-> None, sources |-> valid,
             evidence |-> Cardinality(valid), useful |-> 0]]]

AugmentDb(db, r, S) ==
    LET valid == Active(db, S)
    IN  [obs  |-> Consumed(db, S, "consumed_into_reflection"),
         refl |-> [db.refl EXCEPT
            ![r].sources = @ \cup valid,
            ![r].evidence = Cardinality(db.refl[r].sources \cup valid)]]

IgnoreDb(db, S) ==
    [obs |-> Consumed(db, S, "consumed_without_reflection"), refl |-> db.refl]

\* What an entry changes, if it is not skipped.
Entry(db, db2) ==
    \/ \E r \in Reflections, S \in SUBSET Observations :
          \/ db.refl[r].status = "absent" /\ db2 = NewDb(db, r, S)
          \/ db.refl[r].status \in Live /\ db2 = AugmentDb(db, r, S)
    \/ \E s, t \in Reflections :
          /\ s # t /\ db.refl[s].status \in Live /\ db.refl[t].status \in Live
          /\ db2 = Merged(db, s, t)
    \/ \E S \in SUBSET Observations : db2 = IgnoreDb(db, S)

EntryStep ==
    \/ \E r \in Reflections, S \in SUBSET Observations : ApplyNew(r, S) \/ ApplyAugment(r, S)
    \/ \E s, t \in Reflections : ApplyMerge(s, t)
    \/ \E S \in SUBSET Observations : ApplyIgnore(S)

SectionStep == \/ Section("new", "augment") \/ Section("augment", "merge")
               \/ Section("merge", "ignore")

LEMMA EntryStepIsEntry ==
    ASSUME EntryStep
    PROVE  /\ txn.step # "none" /\ UNCHANGED <<tables, context, work, history>>
           /\ \E db : Entry(txn.db, db) /\ txn' = [txn EXCEPT !.db = db]
<1>1. ASSUME NEW r \in Reflections, NEW S \in SUBSET Observations, ApplyNew(r, S)
      PROVE  /\ txn.step # "none" /\ UNCHANGED <<tables, context, work, history>>
             /\ Entry(txn.db, NewDb(txn.db, r, S))
             /\ txn' = [txn EXCEPT !.db = NewDb(txn.db, r, S)]
  BY <1>1 DEF ApplyNew, InTxn, Fresh, Entry, NewDb
<1>2. ASSUME NEW r \in Reflections, NEW S \in SUBSET Observations, ApplyAugment(r, S)
      PROVE  /\ txn.step # "none" /\ UNCHANGED <<tables, context, work, history>>
             /\ Entry(txn.db, AugmentDb(txn.db, r, S))
             /\ txn' = [txn EXCEPT !.db = AugmentDb(txn.db, r, S)]
  BY <1>2 DEF ApplyAugment, InTxn, Entry, AugmentDb
<1>3. ASSUME NEW s \in Reflections, NEW t \in Reflections, ApplyMerge(s, t)
      PROVE  /\ txn.step # "none" /\ UNCHANGED <<tables, context, work, history>>
             /\ Entry(txn.db, Merged(txn.db, s, t))
             /\ txn' = [txn EXCEPT !.db = Merged(txn.db, s, t)]
  BY <1>3 DEF ApplyMerge, InTxn, Entry
<1>4. ASSUME NEW S \in SUBSET Observations, ApplyIgnore(S)
      PROVE  /\ txn.step # "none" /\ UNCHANGED <<tables, context, work, history>>
             /\ Entry(txn.db, IgnoreDb(txn.db, S))
             /\ txn' = [txn EXCEPT !.db = IgnoreDb(txn.db, S)]
  BY <1>4 DEF ApplyIgnore, InTxn, Entry, IgnoreDb
<1>. QED BY <1>1, <1>2, <1>3, <1>4 DEF EntryStep

LEMMA ActiveFinite ==
    ASSUME NEW db, NEW S \in SUBSET Observations
    PROVE  /\ Active(db, S) \subseteq Observations /\ IsFiniteSet(Active(db, S))
           /\ Cardinality(Active(db, S)) \in Nat
BY ObservationsAssumption, FS_Subset, FS_CardinalityType DEF Active

LEMMA SourcesFinite ==
    ASSUME NEW A \in SUBSET Observations
    PROVE  IsFiniteSet(A) /\ Cardinality(A) \in Nat
BY ObservationsAssumption, FS_Subset, FS_CardinalityType

\* The fields of a reflection after each kind of entry.
LEMMA EntryKeepsLibrary ==
    ASSUME NEW db \in Library, NEW db2, Entry(db, db2)
    PROVE  db2 \in Library
<1>0. db.obs \in [Observations -> Statuses] /\ db.refl \in [Reflections -> Reflection]
  BY DEF Library
<1>1. ASSUME NEW S, NEW status \in Statuses
      PROVE  Consumed(db, S, status) \in [Observations -> Statuses]
  BY <1>0, <1>1 DEF Consumed
<1>2. {"consumed_into_reflection", "consumed_without_reflection"} \subseteq Statuses
  BY DEF Statuses
<1>3. ASSUME NEW r \in Reflections, NEW S \in SUBSET Observations, db2 = NewDb(db, r, S)
      PROVE  db2 \in Library
  <2>. DEFINE new == [status |-> "pending_review", by |-> None, sources |-> Active(db, S),
                      evidence |-> Cardinality(Active(db, S)), useful |-> 0]
  <2>1. new \in Reflection
    BY ActiveFinite DEF Reflection, Live, None
  <2>2. db2.refl = [db.refl EXCEPT ![r] = new]
        /\ db2.obs = Consumed(db, S, "consumed_into_reflection")
        /\ db2 = [obs |-> db2.obs, refl |-> db2.refl]
    BY <1>3 DEF NewDb
  <2>. HIDE DEF new
  <2>. QED BY <1>0, <1>1, <1>2, <2>1, <2>2 DEF Library
<1>4. ASSUME NEW r \in Reflections, NEW S \in SUBSET Observations, db2 = AugmentDb(db, r, S)
      PROVE  db2 \in Library
  <2>. DEFINE A == db.refl[r].sources \cup Active(db, S)
  <2>1. A \in SUBSET Observations /\ Cardinality(A) \in Nat
    BY <1>0, ActiveFinite, SourcesFinite DEF Reflection
  <2>2. /\ db2.refl = [db.refl EXCEPT ![r] = [@ EXCEPT !.sources = A, !.evidence = Cardinality(A)]]
        /\ db2.obs = Consumed(db, S, "consumed_into_reflection")
        /\ db2 = [obs |-> db2.obs, refl |-> db2.refl]
    BY <1>0, <1>4 DEF AugmentDb
  <2>. HIDE DEF A
  <2>3. [db.refl[r] EXCEPT !.sources = A, !.evidence = Cardinality(A)] \in Reflection
    BY <1>0, <2>1 DEF Reflection
  <2>. QED BY <1>0, <1>1, <1>2, <2>2, <2>3 DEF Library
<1>5. ASSUME NEW s \in Reflections, NEW t \in Reflections, s # t, db2 = Merged(db, s, t)
      PROVE  db2 \in Library
  <2>. DEFINE A == db.refl[t].sources \cup db.refl[s].sources
              left == [status |-> "superseded", by |-> t, sources |-> {},
                       evidence |-> db.refl[s].evidence, useful |-> db.refl[s].useful]
              kept == [status |-> db.refl[t].status, by |-> db.refl[t].by, sources |-> A,
                       evidence |-> Cardinality(A),
                       useful |-> db.refl[t].useful + db.refl[s].useful]
  <2>1. A \in SUBSET Observations /\ Cardinality(A) \in Nat
    BY <1>0, SourcesFinite DEF Reflection
  <2>2. left \in Reflection /\ kept \in Reflection
    <3>. HIDE DEF A
    <3>. QED BY <1>0, <2>1 DEF Reflection, Dead
  <2>3. /\ db2.refl = [db.refl EXCEPT ![s] = left, ![t] = kept]
        /\ db2.obs = db.obs
        /\ db2 = [obs |-> db2.obs, refl |-> db2.refl]
    BY <1>0, <1>5 DEF Merged
  <2>. HIDE DEF left, kept
  <2>. QED BY <1>0, <2>2, <2>3 DEF Library
<1>6. ASSUME NEW S \in SUBSET Observations, db2 = IgnoreDb(db, S)
      PROVE  db2 \in Library
  BY <1>0, <1>1, <1>2, <1>6 DEF IgnoreDb, Library
<1>. QED BY <1>3, <1>4, <1>5, <1>6 DEF Entry

-----------------------------------------------------------------------------
(* The inductive invariants, by what they hold under.                        *)

\* Whoever waits to write what it has checked: only a server writes, applies or
\* prunes and only a UI promotes and reviews; an observation is written by one
\* process, which finds it absent; one to be promoted or pruned was written.
Waiting ==
    \A p \in Procs :
        /\ work[p].step \in {"write", "apply", "prune"} => p \in Servers
        /\ work[p].step \in {"promote", "confirm", "retire"} => p \in UIs
        /\ work[p].step = "write" =>
              /\ obs[work[p].observation] = "absent"
              /\ \A q \in Procs \ {p} : work[q].step = "write" =>
                    work[q].observation # work[p].observation
        /\ work[p].step = "promote" => obs[work[p].observation] # "absent"
        /\ work[p].step = "prune" =>
              \A o \in work[p].observations : obs[o] # "absent"

\* The tables of the open transaction: they differ from the committed ones in
\* what the decision consumed, and it knows all the episode had active.
Uncommitted ==
    txn # NoTxn =>
        /\ \A o \in Observations :
              \/ txn.db.obs[o] = obs[o]
              \/ /\ obs[o] = "active"
                 /\ txn.db.obs[o] \in {"consumed_into_reflection",
                                       "consumed_without_reflection"}
        /\ txn.active = {o \in Observations :
                            EpisodeOf[o] = txn.episode /\ obs[o] = "active"}

Cited(db) ==
    \A o \in Observations : db.obs[o] = "consumed_into_reflection" =>
        \E r \in Reflections : o \in db.refl[r].sources

Blank(rf) == \A r \in Reflections : rf[r].status = "absent" => rf[r].sources = {}

\* Among superseded reflections there is always one whose successor is outside:
\* no cycle, and no chain that goes on for ever.
Grounded(rf) ==
    /\ \A r \in Reflections : rf[r].status = "superseded" => rf[r].by \in Reflections
    /\ \A S \in SUBSET Reflections :
          S # {} /\ (\A r \in S : rf[r].status = "superseded") =>
             \E r \in S : rf[r].by \notin S

Sound(db) == Cited(db) /\ Blank(db.refl) /\ Grounded(db.refl)

Committed == [obs |-> obs, refl |-> refl]

\* The tables are sound, and so are those of the open transaction.
Evidenced == Sound(Committed) /\ (txn # NoTxn => Sound(txn.db))

\* With one UI: an observation still to be promoted, or active, is in no memory.
PromotedApart ==
    /\ PromotedOnce
    /\ \A o \in Observations : obs[o] \in {"absent", "active"} => semantic[o] = 0
    /\ \A u \in UIs : work[u].step = "promote" => semantic[work[u].observation] = 0

\* With one server: an episode is over when it is shown, and not synthesized when
\* its decision is applied or one of its observations is written.
DecidedApart ==
    /\ \A e \in Episodes :
          /\ applied[e] = IF episode[e].synthesized THEN 1 ELSE 0
          /\ episode[e].synthesized => episode[e].ended # "open"
    /\ NoneStranded
    /\ \A p \in Servers :
          /\ context[p] # NoContext => episode[context[p]].ended # "open"
          /\ work[p].step = "apply" => ~episode[context[p]].synthesized
          /\ work[p].step = "write" => ~episode[EpisodeOf[work[p].observation]].synthesized

\* The counts of a reflection are those of its sources and of its family.
Counted(rf) ==
    \A r \in Reflections :
        /\ rf[r].status \in Live => rf[r].evidence = Cardinality(rf[r].sources)
        /\ rf[r].status # "superseded" => rf[r].useful = Total(credited, FamilyIn(rf, r))
        /\ rf[r].status = "absent" => rf[r].useful = 0

Tallied(rf) == Bare(rf) /\ Counted(rf)

\* When the UI overlaps no server: what is about to be written is what was checked.
ReviewedApart ==
    /\ Tallied(refl) /\ (txn # NoTxn => Tallied(txn.db.refl))
    /\ \A p \in Procs :
          /\ work[p].step = "promote" => obs[work[p].observation] = "active"
          /\ work[p].step \in {"confirm", "retire"} =>
                refl[work[p].reflection].status \in Live
          /\ work[p].step = "prune" =>
                \A o \in work[p].observations : obs[o] \in {"archived", "pruned"}

OneUI == \A u, v \in UIs : u = v
OneServer == \A p, q \in Servers : p = q
\* A UI is the only process there is.
Apart == \A u \in UIs, p \in Procs : u = p

LEMMA OpenTxn ==
    ASSUME TypeInv, ~Unlocked
    PROVE  txn \in Applying /\ txn.step # "none" /\ txn.server \in Procs
BY DEF TypeInv, TypeOK, Holding, Unlocked, NoTxn, Applying, Procs

LEMMA StepOpen ==
    ASSUME TypeInv, txn.step # "none"
    PROVE  ~Unlocked
BY DEF Unlocked, NoTxn

\* What an entry and the beginning of a section do to the transaction.
LEMMA EntryTxn ==
    ASSUME TypeInv, EntryStep
    PROVE  /\ txn # NoTxn /\ txn' # NoTxn /\ txn' \in Applying
           /\ UNCHANGED <<tables, context, work, history>>
           /\ Entry(txn.db, txn'.db) /\ txn.db \in Library
           /\ txn'.server = txn.server /\ txn'.episode = txn.episode
           /\ txn'.active = txn.active
<1>1. /\ txn.step # "none" /\ UNCHANGED <<tables, context, work, history>>
      /\ \E db : Entry(txn.db, db) /\ txn' = [txn EXCEPT !.db = db]
  BY EntryStepIsEntry
<1>2. PICK db : Entry(txn.db, db) /\ txn' = [txn EXCEPT !.db = db]
  BY <1>1
<1>3. txn \in Applying /\ txn # NoTxn
  BY <1>1, OpenTxn, StepOpen DEF Unlocked
<1>4. txn.db \in Library
  BY <1>3 DEF Applying
<1>5. db \in Library
  BY <1>2, <1>4, EntryKeepsLibrary
<1>6. /\ txn' \in Applying /\ txn'.db = db /\ txn'.server = txn.server
      /\ txn'.episode = txn.episode /\ txn'.active = txn.active
  BY <1>2, <1>3, <1>5 DEF Applying
<1>7. txn' # NoTxn
  BY <1>6 DEF Applying, NoTxn
<1>. QED BY <1>1, <1>2, <1>3, <1>4, <1>6, <1>7

LEMMA SectionTxn ==
    ASSUME TypeInv, SectionStep
    PROVE  /\ txn # NoTxn /\ txn' # NoTxn /\ txn' \in Applying
           /\ UNCHANGED <<tables, context, work, history>>
           /\ txn'.db = txn.db /\ txn'.server = txn.server
           /\ txn'.episode = txn.episode /\ txn'.active = txn.active
<1>1. PICK to \in {"augment", "merge", "ignore"} :
         /\ txn.step # "none" /\ txn' = [txn EXCEPT !.step = to]
         /\ UNCHANGED <<tables, context, work, history>>
  BY DEF SectionStep, Section
<1>2. txn \in Applying /\ txn # NoTxn
  BY <1>1, OpenTxn, StepOpen DEF Unlocked
<1>3. /\ txn' \in Applying /\ txn'.db = txn.db /\ txn'.server = txn.server
      /\ txn'.episode = txn.episode /\ txn'.active = txn.active
  BY <1>1, <1>2 DEF Applying
<1>4. txn' # NoTxn
  BY <1>3 DEF Applying, NoTxn
<1>. QED BY <1>1, <1>2, <1>3, <1>4

LEMMA DecidingKeepsTypes ==
    ASSUME TypeInv, EntryStep \/ SectionStep
    PROVE  TypeInv'
<1>1. /\ txn # NoTxn /\ txn' # NoTxn /\ txn' \in Applying
      /\ UNCHANGED <<tables, context, work, history>>
      /\ txn'.server = txn.server /\ txn'.episode = txn.episode
  BY EntryTxn, SectionTxn
<1>2. TypeOK'
  BY <1>1 DEF TypeInv, TypeOK, tables, history
<1>3. Holding'
  BY <1>1 DEF TypeInv, Holding
<1>. QED BY <1>2, <1>3 DEF TypeInv

\* The commit, as what it makes of the tables.
LEMMA CommitIs ==
    ASSUME TypeInv, ApplyCommit
    PROVE  /\ txn \in Applying /\ txn # NoTxn /\ txn' = NoTxn
           /\ txn.server \in Procs /\ txn.episode \in Episodes
           /\ Goto(txn.server, Idle)
           /\ obs' = Consumed(txn.db, Active(txn.db, txn.active), "consumed_without_reflection")
           /\ refl' = txn.db.refl
           /\ episode' = [episode EXCEPT ![txn.episode].synthesized = TRUE]
           /\ applied' = [applied EXCEPT ![txn.episode] = @ + 1]
           /\ UNCHANGED <<semantic, context, credited>>
<1>1. txn.step = "ignore" /\ Commit(Active(txn.db, txn.active))
  BY DEF ApplyCommit
<1>2. txn \in Applying /\ txn # NoTxn /\ txn.server \in Procs
  BY <1>1, OpenTxn, StepOpen DEF Unlocked
<1>3. txn.episode \in Episodes
  BY <1>2 DEF Applying
<1>. QED BY <1>1, <1>2, <1>3 DEF Commit

LEMMA CommitKeepsTypes ==
    ASSUME TypeInv, ApplyCommit
    PROVE  TypeInv'
<1>1. /\ txn \in Applying /\ txn # NoTxn /\ txn' = NoTxn
      /\ txn.server \in Procs /\ txn.episode \in Episodes
      /\ Goto(txn.server, Idle)
      /\ obs' = Consumed(txn.db, Active(txn.db, txn.active), "consumed_without_reflection")
      /\ refl' = txn.db.refl
      /\ episode' = [episode EXCEPT ![txn.episode].synthesized = TRUE]
      /\ applied' = [applied EXCEPT ![txn.episode] = @ + 1]
      /\ UNCHANGED <<semantic, context, credited>>
  BY CommitIs
<1>2. txn.db.obs \in [Observations -> Statuses] /\ txn.db.refl \in [Reflections -> Reflection]
  BY <1>1 DEF Applying, Library
<1>3. obs' \in [Observations -> Statuses]
  BY <1>1, <1>2 DEF Consumed, Statuses
<1>4. /\ work' \in [Procs -> Work] /\ work'[txn.server] = Idle
      /\ \A q \in Procs \ {txn.server} : work'[q] = work[q]
  BY <1>1, GotoOk, NewWork DEF TypeInv, TypeOK
<1>5. episode' \in [Episodes -> [ended : {"open", "outcome", "no_outcome"},
                                 synthesized : BOOLEAN]]
  BY <1>1 DEF TypeInv, TypeOK
<1>6. applied' \in [Episodes -> Nat]
  BY <1>1 DEF TypeInv, TypeOK
<1>7. TypeOK'
  BY <1>1, <1>2, <1>3, <1>4, <1>5, <1>6 DEF TypeInv, TypeOK
<1>8. Holding'
  BY <1>1, <1>4 DEF TypeInv, Holding, Idle, Procs
<1>. QED BY <1>7, <1>8 DEF TypeInv

\* A process leaves what it was at, its transaction with it.
LEMMA DroppingKeepsTypes ==
    ASSUME TypeInv, ApplyRollsBack \/ \E p \in Procs : Abort(p)
    PROVE  TypeInv'
<1>1. CASE ApplyRollsBack
  <2>1. /\ txn.server \in Procs /\ Goto(txn.server, Idle) /\ txn' = NoTxn
        /\ UNCHANGED <<tables, context, history>>
    BY <1>1, OpenTxn DEF ApplyRollsBack
  <2>2. /\ work' \in [Procs -> Work] /\ work'[txn.server] = Idle
        /\ \A q \in Procs \ {txn.server} : work'[q] = work[q]
    BY <2>1, GotoOk, NewWork DEF TypeInv, TypeOK
  <2>3. TypeOK'
    BY <2>1, <2>2 DEF TypeInv, TypeOK, tables, history
  <2>4. Holding'
    BY <2>1, <2>2 DEF TypeInv, Holding, Idle
  <2>. QED BY <2>3, <2>4 DEF TypeInv
<1>2. ASSUME NEW p \in Procs, Abort(p) PROVE TypeInv'
  <2>1. /\ ~Holds(p) /\ Goto(p, Idle) /\ UNCHANGED <<tables, txn, context, history>>
    BY <1>2 DEF Abort
  <2>2. /\ work' \in [Procs -> Work] /\ work'[p] = Idle
        /\ \A q \in Procs \ {p} : work'[q] = work[q]
    BY <2>1, GotoOk, NewWork DEF TypeInv, TypeOK
  <2>3. TypeOK'
    BY <2>1, <2>2 DEF TypeInv, TypeOK, tables, history
  <2>4. txn # NoTxn => txn.server # p
    BY <2>1, OpenTxn DEF Holds, Unlocked
  <2>5. Holding'
    BY <2>1, <2>2, <2>4 DEF TypeInv, Holding, Idle, Procs
  <2>. QED BY <2>3, <2>5 DEF TypeInv
<1>. QED BY <1>1, <1>2

\* A write outside a decision, by a process whose work is then done.
Writes == \/ \E p \in Servers : WriteInsert(p) \/ PruneDelete(p)
          \/ \E u \in UIs : PromoteWrite(u) \/ ReviewWrite(u)

\* A write that no check of the same process comes before.
Direct == \/ \E e \in Episodes, ended \in {"outcome", "no_outcome"} : CloseEpisode(e, ended)
          \/ \E p \in Servers, r \in Reflections : Credit(p, r)
          \/ \E p \in Servers, old \in SUBSET Observations : Archive(p, old)

\* The tables after each of them, for the process that was at work w.
Wrote(w) ==
    \/ /\ w.step = "write" /\ w.observation \in Observations
       /\ obs' = [obs EXCEPT ![w.observation] = "active"]
       /\ UNCHANGED <<refl, semantic>>
    \/ /\ w.step = "prune" /\ w.observations \subseteq Observations
       /\ \A o \in w.observations : CitedBy(o) = {}
       /\ obs' = [o \in Observations |-> IF o \in w.observations THEN "pruned" ELSE obs[o]]
       /\ UNCHANGED <<refl, semantic>>
    \/ /\ w.step = "promote" /\ w.observation \in Observations
       /\ obs' = [obs EXCEPT ![w.observation] =
                    IF @ = "pruned" THEN @ ELSE "consumed_without_reflection"]
       /\ semantic' = [semantic EXCEPT ![w.observation] = @ + 1]
       /\ UNCHANGED refl
    \/ /\ w.step \in {"confirm", "retire"} /\ w.reflection \in Reflections
       /\ refl' = [refl EXCEPT ![w.reflection].status =
                     IF w.step = "confirm" THEN "confirmed" ELSE "retired"]
       /\ UNCHANGED <<obs, semantic>>

LEMMA WritesAre ==
    ASSUME TypeInv, Writes
    PROVE  /\ txn = NoTxn /\ UNCHANGED <<txn, episode, context, history>>
           /\ \E p \in Procs : Wrote(work[p]) /\ Goto(p, Idle)
<1>0. Servers \subseteq Procs /\ UIs \subseteq Procs /\ work \in [Procs -> Work]
  BY DEF Procs, TypeInv, TypeOK
<1>1. ASSUME NEW p \in Servers, WriteInsert(p)
      PROVE  /\ txn = NoTxn /\ UNCHANGED <<txn, episode, context, history>>
             /\ Wrote(work[p]) /\ Goto(p, Idle)
  BY <1>0, <1>1, WorkShapes DEF WriteInsert, Unlocked, Wrote
<1>2. ASSUME NEW p \in Servers, PruneDelete(p)
      PROVE  /\ txn = NoTxn /\ UNCHANGED <<txn, episode, context, history>>
             /\ Wrote(work[p]) /\ Goto(p, Idle)
  BY <1>0, <1>2, WorkShapes DEF PruneDelete, Unlocked, Wrote
<1>3. ASSUME NEW u \in UIs, PromoteWrite(u)
      PROVE  /\ txn = NoTxn /\ UNCHANGED <<txn, episode, context, history>>
             /\ Wrote(work[u]) /\ Goto(u, Idle)
  BY <1>0, <1>3, WorkShapes DEF PromoteWrite, Unlocked, Wrote
<1>4. ASSUME NEW u \in UIs, ReviewWrite(u)
      PROVE  /\ txn = NoTxn /\ UNCHANGED <<txn, episode, context, history>>
             /\ Wrote(work[u]) /\ Goto(u, Idle)
  BY <1>0, <1>4, WorkShapes DEF ReviewWrite, Unlocked, Wrote
<1>. QED BY <1>0, <1>1, <1>2, <1>3, <1>4 DEF Writes

LEMMA WritesKeepTypes ==
    ASSUME TypeInv, Writes
    PROVE  TypeInv'
<1>0. txn = NoTxn /\ UNCHANGED <<txn, episode, context, history>>
  BY WritesAre
<1>1. PICK p \in Procs : Wrote(work[p]) /\ Goto(p, Idle)
  BY WritesAre
<1>2. /\ work' \in [Procs -> Work] /\ work'[p] = Idle
      /\ \A q \in Procs \ {p} : work'[q] = work[q]
  BY <1>1, GotoOk, NewWork DEF TypeInv, TypeOK
<1>3. obs' \in [Observations -> Statuses]
  BY <1>1 DEF Wrote, TypeInv, TypeOK, Statuses
<1>4. semantic' \in [Observations -> Nat]
  BY <1>1 DEF Wrote, TypeInv, TypeOK
<1>5. refl' \in [Reflections -> Reflection]
  BY <1>1 DEF Wrote, TypeInv, TypeOK, Reflection, Live, Dead
<1>6. TypeOK'
  BY <1>0, <1>2, <1>3, <1>4, <1>5 DEF TypeInv, TypeOK, history
<1>7. Holding'
  BY <1>0, <1>2 DEF TypeInv, Holding, Idle
<1>. QED BY <1>6, <1>7 DEF TypeInv

LEMMA DirectKeepsTypes ==
    ASSUME TypeInv, Direct
    PROVE  TypeInv'
<1>1. ASSUME NEW e \in Episodes, NEW ended \in {"outcome", "no_outcome"}, CloseEpisode(e, ended)
      PROVE  TypeInv'
  <2>1. episode' \in [Episodes -> [ended : {"open", "outcome", "no_outcome"},
                                   synthesized : BOOLEAN]]
    BY <1>1 DEF CloseEpisode, TypeInv, TypeOK
  <2>2. TypeOK'
    BY <1>1, <2>1 DEF CloseEpisode, TypeInv, TypeOK, history
  <2>3. Holding'
    BY <1>1 DEF CloseEpisode, TypeInv, Holding
  <2>. QED BY <2>2, <2>3 DEF TypeInv
<1>2. ASSUME NEW p \in Servers, NEW r \in Reflections, Credit(p, r)
      PROVE  TypeInv'
  <2>1. refl' \in [Reflections -> Reflection]
    <3>. DEFINE more == [refl[r] EXCEPT !.useful = refl[r].useful + 1]
    <3>1. refl \in [Reflections -> Reflection] /\ refl[r] \in Reflection
      BY DEF TypeInv, TypeOK
    <3>2. more \in Reflection
      BY <3>1 DEF Reflection
    <3>3. refl' = [refl EXCEPT ![r] = more]
      BY <1>2, <3>1 DEF Credit
    <3>. HIDE DEF more
    <3>. QED BY <3>1, <3>2, <3>3
  <2>2. credited[r] \in 0..MaxCredits /\ credited[r] < MaxCredits
    BY <1>2 DEF Credit, TypeInv, TypeOK
  <2>3. credited[r] + 1 \in 0..MaxCredits
    BY <2>2, CreditsAssumption
  <2>4. credited' \in [Reflections -> 0..MaxCredits]
    BY <1>2, <2>3 DEF Credit, TypeInv, TypeOK
  <2>5. TypeOK'
    BY <1>2, <2>1, <2>4 DEF Credit, TypeInv, TypeOK
  <2>6. Holding'
    BY <1>2 DEF Credit, TypeInv, Holding
  <2>. QED BY <2>5, <2>6 DEF TypeInv
<1>3. ASSUME NEW p \in Servers, NEW old \in SUBSET Observations, Archive(p, old)
      PROVE  TypeInv'
  <2>1. obs' \in [Observations -> Statuses]
    BY <1>3 DEF Archive, TypeInv, TypeOK, Statuses
  <2>2. TypeOK'
    BY <1>3, <2>1 DEF Archive, TypeInv, TypeOK, history
  <2>3. Holding'
    BY <1>3 DEF Archive, TypeInv, Holding
  <2>. QED BY <2>2, <2>3 DEF TypeInv
<1>. QED BY <1>1, <1>2, <1>3 DEF Direct

Checks ==
    \/ \E p \in Servers, o \in Observations : WriteFind(p, o)
    \/ \E p \in Servers, S \in SUBSET Observations : PruneSelect(p, S)
    \/ \E u \in UIs, o \in Observations : PromoteCheck(u, o)
    \/ \E u \in UIs, action \in {"confirm", "retire"}, r \in Reflections :
          ReviewCheck(u, action, r)

Calls == \E p \in Servers :
             GetContext(p) \/ ApplyCheck(p) \/ ApplyRefused(p) \/ ApplyBegin(p)

\* The steps of Next by what they do.
LEMMA NextCases ==
    ASSUME Next
    PROVE  \/ Checks \/ Calls \/ EntryStep \/ SectionStep \/ ApplyCommit
           \/ ApplyRollsBack \/ Writes \/ Direct \/ \E p \in Procs : Abort(p)
<1>1. Synthesize => Calls \/ EntryStep \/ SectionStep \/ ApplyCommit \/ ApplyRollsBack
  BY DEF Synthesize, Calls, EntryStep, SectionStep
<1>2. ASSUME NEW u \in UIs, Review(u) PROVE Checks \/ Writes
  BY <1>2 DEF Review, Checks, Writes
<1>. QED BY <1>1, <1>2 DEF Next, Checks, Writes, Direct

LEMMA NextKeepsTypes == TypeInv /\ [Next]_vars => TypeInv'
<1>. SUFFICES ASSUME TypeInv, [Next]_vars PROVE TypeInv'
  OBVIOUS
<1>1. CASE UNCHANGED vars
  BY <1>1 DEF vars, tables, history, TypeInv, TypeOK, Holding
<1>2. CASE Checks
  BY <1>2, ChecksKeepTypes DEF Checks, Procs
<1>3. CASE Calls
  BY <1>3, CallsKeepTypes DEF Calls
<1>4. CASE EntryStep \/ SectionStep
  BY <1>4, DecidingKeepsTypes
<1>5. CASE ApplyCommit
  BY <1>5, CommitKeepsTypes
<1>6. CASE ApplyRollsBack \/ \E p \in Procs : Abort(p)
  BY <1>6, DroppingKeepsTypes
<1>7. CASE Writes
  BY <1>7, WritesKeepTypes
<1>8. CASE Direct
  BY <1>8, DirectKeepsTypes
<1>. QED BY <1>1, <1>2, <1>3, <1>4, <1>5, <1>6, <1>7, <1>8, NextCases

\* Every variable keeps its shape, and the write transaction is that of a server
\* which is applying a decision for the episode it was shown.
THEOREM TypeCorrect == Spec => []TypeOK
<1>1. Spec => []TypeInv
  BY InitTypes, NextKeepsTypes, PTL DEF Spec
<1>2. TypeInv => TypeOK
  BY DEF TypeInv
<1>. QED BY <1>1, <1>2, PTL

-----------------------------------------------------------------------------
(* What holds of any number of servers and UIs.                              *)

\* The steps by what they do to the tables an observation's evidence is in.
Same == UNCHANGED <<obs, refl, txn, credited>>

Begins ==
    /\ txn = NoTxn /\ txn' # NoTxn
    /\ txn'.db = Committed
    /\ txn'.active = {o \in Observations :
                         EpisodeOf[o] = txn'.episode /\ obs[o] = "active"}
    /\ UNCHANGED <<obs, refl, credited>>

LEMMA DataSteps ==
    ASSUME TypeInv, [Next]_vars
    PROVE  \/ Same \/ Begins \/ EntryStep \/ SectionStep \/ ApplyCommit
           \/ ApplyRollsBack \/ Writes
           \/ \E p \in Servers, r \in Reflections : Credit(p, r)
           \/ \E p \in Servers, old \in SUBSET Observations : Archive(p, old)
<1>1. CASE UNCHANGED vars
  BY <1>1 DEF vars, tables, history, Same
<1>2. CASE Checks
  BY <1>2 DEF Checks, WriteFind, PruneSelect, PromoteCheck, ReviewCheck, tables, history, Same
<1>3. ASSUME NEW p \in Servers, GetContext(p) \/ ApplyCheck(p) \/ ApplyRefused(p) PROVE Same
  BY <1>3 DEF GetContext, ApplyCheck, ApplyRefused, tables, history, Same
<1>4. ASSUME NEW p \in Servers, ApplyBegin(p) PROVE Begins
  <2>1. /\ txn = NoTxn /\ UNCHANGED <<obs, refl, credited>>
        /\ txn' = [step |-> "new", server |-> p, episode |-> context[p],
                   active |-> Active(Committed, {o \in Observations : EpisodeOf[o] = context[p]}),
                   db |-> Committed]
    BY <1>4 DEF ApplyBegin, Unlocked, tables, history, Committed
  <2>2. Active(Committed, {o \in Observations : EpisodeOf[o] = context[p]})
          = {o \in Observations : EpisodeOf[o] = context[p] /\ obs[o] = "active"}
    BY DEF Active, Committed
  <2>. QED BY <2>1, <2>2 DEF Begins, NoTxn
<1>5. ASSUME NEW p \in Procs, Abort(p) PROVE Same
  BY <1>5 DEF Abort, tables, history, Same
<1>6. CASE Direct
  BY <1>6 DEF Direct, CloseEpisode, history, Same
<1>. QED BY <1>1, <1>2, <1>3, <1>4, <1>5, <1>6, NextCases DEF Calls

\* Entries consume active observations and change no other.
LEMMA EntryObs ==
    ASSUME NEW db \in Library, NEW db2, Entry(db, db2)
    PROVE  \A o \in Observations :
              \/ db2.obs[o] = db.obs[o]
              \/ /\ db.obs[o] = "active"
                 /\ db2.obs[o] \in {"consumed_into_reflection",
                                    "consumed_without_reflection"}
<1>. DEFINE Kept == \A o \in Observations :
                       \/ db2.obs[o] = db.obs[o]
                       \/ /\ db.obs[o] = "active"
                          /\ db2.obs[o] \in {"consumed_into_reflection",
                                             "consumed_without_reflection"}
<1>1. ASSUME NEW S, NEW status \in {"consumed_into_reflection", "consumed_without_reflection"},
             db2.obs = Consumed(db, S, status)
      PROVE  Kept
  BY <1>1 DEF Consumed, Active
<1>2. ASSUME NEW r, NEW S, db2 = NewDb(db, r, S) \/ db2 = AugmentDb(db, r, S)
      PROVE  Kept
  <2>1. db2.obs = Consumed(db, S, "consumed_into_reflection")
    BY <1>2 DEF NewDb, AugmentDb
  <2>. QED BY <1>1, <2>1
<1>3. ASSUME NEW S, db2 = IgnoreDb(db, S) PROVE Kept
  <2>1. db2.obs = Consumed(db, S, "consumed_without_reflection")
    BY <1>3 DEF IgnoreDb
  <2>. QED BY <1>1, <2>1
<1>4. ASSUME NEW s, NEW t, db2 = Merged(db, s, t) PROVE Kept
  BY <1>4 DEF Merged
<1>. HIDE DEF Kept
<1>5. Kept
  BY <1>2, <1>3, <1>4 DEF Entry
<1>. QED BY <1>5 DEF Kept

LEMMA UncommittedKept ==
    ASSUME TypeInv, Uncommitted, [Next]_vars
    PROVE  Uncommitted'
<1>1. CASE Same
  BY <1>1 DEF Same, Uncommitted
<1>2. CASE Begins
  BY <1>2 DEF Begins, Uncommitted, Committed
<1>3. CASE EntryStep
  <2>1. /\ txn # NoTxn /\ Entry(txn.db, txn'.db) /\ txn.db \in Library /\ obs' = obs
        /\ txn'.episode = txn.episode /\ txn'.active = txn.active
    BY <1>3, EntryTxn DEF tables
  <2>2. \A o \in Observations :
           \/ txn'.db.obs[o] = txn.db.obs[o]
           \/ /\ txn.db.obs[o] = "active"
              /\ txn'.db.obs[o] \in {"consumed_into_reflection",
                                     "consumed_without_reflection"}
    BY <2>1, EntryObs
  <2>. QED BY <2>1, <2>2 DEF Uncommitted
<1>4. CASE SectionStep
  BY <1>4, SectionTxn DEF Uncommitted, tables
<1>5. CASE ApplyCommit \/ ApplyRollsBack
  BY <1>5, CommitIs DEF ApplyRollsBack, Uncommitted
<1>6. CASE Writes
  BY <1>6, WritesAre DEF Uncommitted
<1>7. CASE \/ \E p \in Servers, r \in Reflections : Credit(p, r)
           \/ \E p \in Servers, old \in SUBSET Observations : Archive(p, old)
  BY <1>7 DEF Credit, Archive, Unlocked, Uncommitted
<1>. QED BY <1>1, <1>2, <1>3, <1>4, <1>5, <1>6, <1>7, DataSteps

\* An observation after the commit of a decision.
LEMMA CommitObs ==
    ASSUME TypeInv, Uncommitted, ApplyCommit, NEW o \in Observations
    PROVE  /\ \/ obs'[o] = obs[o]
              \/ /\ obs[o] = "active"
                 /\ obs'[o] \in {"consumed_into_reflection",
                                 "consumed_without_reflection"}
           /\ obs'[o] = "consumed_into_reflection" =>
                 txn.db.obs[o] = "consumed_into_reflection"
           /\ EpisodeOf[o] = txn.episode => obs'[o] # "active"
<1>1. /\ txn # NoTxn
      /\ obs' = Consumed(txn.db, Active(txn.db, txn.active), "consumed_without_reflection")
  BY CommitIs
<1>2. obs'[o] = IF o \in txn.active /\ txn.db.obs[o] = "active"
                THEN "consumed_without_reflection" ELSE txn.db.obs[o]
  BY <1>1 DEF Consumed, Active
<1>. QED BY <1>1, <1>2 DEF Uncommitted

\* Only the process that found an observation absent ends that, and nothing
\* makes one absent again.
LEMMA AbsentSteps ==
    ASSUME TypeInv, Waiting, Uncommitted, [Next]_vars, NEW o \in Observations
    PROVE  /\ obs'[o] = "absent" => obs[o] = "absent"
           /\ obs[o] = "absent" =>
                 \/ obs'[o] = "absent"
                 \/ \E p \in Procs : /\ work[p].step = "write" /\ Goto(p, Idle)
                                     /\ work[p].observation = o
<1>1. CASE Same \/ Begins
  BY <1>1 DEF Same, Begins
<1>2. CASE EntryStep \/ SectionStep
  BY <1>2, EntryTxn, SectionTxn DEF tables
<1>3. CASE ApplyCommit
  BY <1>3, CommitObs
<1>4. CASE ApplyRollsBack
  BY <1>4 DEF ApplyRollsBack, tables
<1>5. CASE Writes
  <2>1. PICK p \in Procs : Wrote(work[p]) /\ Goto(p, Idle)
    BY <1>5, WritesAre
  <2>2. obs \in [Observations -> Statuses]
    BY DEF TypeInv, TypeOK
  <2>. QED BY <2>1, <2>2 DEF Wrote, Waiting
<1>6. CASE \/ \E p \in Servers, r \in Reflections : Credit(p, r)
           \/ \E p \in Servers, old \in SUBSET Observations : Archive(p, old)
  BY <1>6 DEF Credit, Archive, Archivable
<1>. QED BY <1>1, <1>2, <1>3, <1>4, <1>5, <1>6, DataSteps

\* Where the processes are after a step: one at most moves, and it becomes idle
\* or starts what it has just checked.
Moves ==
    \/ UNCHANGED work
    \/ \E p \in Procs : Goto(p, Idle)
    \/ \E p \in Servers : Goto(p, [step |-> "apply"])
    \/ \E p \in Servers, o \in Observations :
          /\ obs[o] = "absent" /\ Goto(p, [step |-> "write", observation |-> o])
          /\ \A q \in Procs : work[q] # [step |-> "write", observation |-> o]
    \/ \E p \in Servers, S \in SUBSET Observations :
          /\ \A o \in S : obs[o] = "archived"
          /\ Goto(p, [step |-> "prune", observations |-> S])
    \/ \E u \in UIs, o \in Observations :
          obs[o] = "active" /\ Goto(u, [step |-> "promote", observation |-> o])
    \/ \E u \in UIs, action \in {"confirm", "retire"}, r \in Reflections :
          refl[r].status \in Live /\ Goto(u, [step |-> action, reflection |-> r])

LEMMA NextMoves ==
    ASSUME TypeInv, [Next]_vars
    PROVE  Moves
<1>1. CASE UNCHANGED vars
  BY <1>1 DEF vars, Moves
<1>2. CASE Checks
  BY <1>2 DEF Checks, WriteFind, PruneSelect, PromoteCheck, ReviewCheck, Moves, Live
<1>3. CASE Calls
  BY <1>3 DEF Calls, GetContext, ApplyCheck, ApplyRefused, ApplyBegin, Moves
<1>4. CASE EntryStep \/ SectionStep
  BY <1>4, EntryTxn, SectionTxn DEF Moves
<1>5. CASE ApplyCommit
  BY <1>5, CommitIs DEF Moves
<1>6. CASE ApplyRollsBack
  BY <1>6, OpenTxn DEF ApplyRollsBack, Moves
<1>7. CASE Writes
  BY <1>7, WritesAre DEF Moves
<1>8. CASE Direct
  BY <1>8 DEF Direct, CloseEpisode, Credit, Archive, Moves
<1>9. CASE \E p \in Procs : Abort(p)
  BY <1>9 DEF Abort, Moves
<1>. QED BY <1>1, <1>2, <1>3, <1>4, <1>5, <1>6, <1>7, <1>8, <1>9, NextCases

\* The work of the processes after a step, when one of them goes to w.
LEMMA WorkAfter ==
    ASSUME TypeInv, NEW p \in Procs, NEW w, Goto(p, w)
    PROVE  work'[p] = w /\ \A q \in Procs \ {p} : work'[q] = work[q]
BY DEF Goto, TypeInv, TypeOK

LEMMA WaitingKept ==
    ASSUME TypeInv, Waiting, Uncommitted, [Next]_vars
    PROVE  Waiting'
<1>0. Servers \subseteq Procs /\ UIs \subseteq Procs /\ \A p \in Procs : work[p] \in Work
  BY DEF Procs, TypeInv, TypeOK
<1>1. ASSUME NEW o \in Observations, obs'[o] = "absent" PROVE obs[o] = "absent"
  BY <1>1, AbsentSteps
<1>2. ASSUME NEW p \in Procs, work[p].step = "write", work'[p] = work[p],
             obs[work[p].observation] = "absent"
      PROVE  obs'[work[p].observation] = "absent"
  <2>1. work[p].observation \in Observations
    BY <1>0, <1>2, WorkShapes
  <2>2. ASSUME NEW u \in Procs, work[u].step = "write", Goto(u, Idle),
               work[u].observation = work[p].observation
        PROVE  FALSE
    <3>1. u = p
      BY <1>2, <2>2 DEF Waiting
    <3>2. work'[p] = Idle
      BY <2>2, <3>1, WorkAfter
    <3>. QED BY <1>2, <3>2 DEF Idle
  <2>. QED BY <1>2, <2>1, <2>2, AbsentSteps
\* What waits as it did waits for the same.
<1>. DEFINE Old(p) ==
        /\ work[p].step \in {"write", "apply", "prune"} => p \in Servers
        /\ work[p].step \in {"promote", "confirm", "retire"} => p \in UIs
        /\ work[p].step = "write" => obs'[work[p].observation] = "absent"
        /\ work[p].step = "promote" => obs'[work[p].observation] # "absent"
        /\ work[p].step = "prune" => \A o \in work[p].observations : obs'[o] # "absent"
<1>3. ASSUME NEW p \in Procs, work'[p] = work[p] PROVE Old(p)
  BY <1>0, <1>1, <1>2, <1>3, WorkShapes DEF Waiting
<1>4. ASSUME NEW p \in Procs, NEW q \in Procs \ {p}, work'[p] = work[p], work'[q] = work[q],
             work[p].step = "write", work[q].step = "write"
      PROVE  work[q].observation # work[p].observation
  BY <1>4 DEF Waiting
<1>. HIDE DEF Old
<1>5. CASE UNCHANGED work
  BY <1>3, <1>4, <1>5 DEF Waiting, Old
<1>6. ASSUME NEW p \in Procs, Goto(p, Idle) PROVE Waiting'
  <2>1. work'[p].step = "idle" /\ \A q \in Procs \ {p} : work'[q] = work[q]
    BY <1>6, WorkAfter DEF Idle
  <2>. QED BY <1>3, <1>4, <2>1 DEF Waiting, Old
<1>7. ASSUME NEW p \in Servers, Goto(p, [step |-> "apply"]) PROVE Waiting'
  <2>1. work'[p].step = "apply" /\ \A q \in Procs \ {p} : work'[q] = work[q]
    BY <1>0, <1>7, WorkAfter
  <2>. QED BY <1>0, <1>3, <1>4, <1>7, <2>1 DEF Waiting, Old
<1>8. ASSUME NEW p \in Servers, NEW o \in Observations, obs[o] = "absent",
             Goto(p, [step |-> "write", observation |-> o]),
             \A q \in Procs : work[q] # [step |-> "write", observation |-> o]
      PROVE  Waiting'
  <2>1. /\ work'[p] = [step |-> "write", observation |-> o]
        /\ \A q \in Procs \ {p} : work'[q] = work[q]
    BY <1>0, <1>8, WorkAfter
  <2>2. ASSUME NEW q \in Procs, work[q].step = "write" PROVE work[q].observation # o
    <3>1. work[q] = [step |-> "write", observation |-> work[q].observation]
      BY <1>0, <2>2 DEF Work, Idle
    <3>. QED BY <1>8, <3>1
  <2>3. obs'[o] = "absent"
    <3>1. ASSUME NEW u \in Procs, Goto(u, Idle), work[u].step = "write" PROVE FALSE
      <4>1. work'[u] = Idle
        BY <3>1, WorkAfter
      <4>2. u # p
        BY <2>1, <4>1 DEF Idle
      <4>3. work'[u] = work[u]
        BY <2>1, <4>2
      <4>. QED BY <3>1, <4>1, <4>3 DEF Idle
    <3>. QED BY <1>8, <3>1, AbsentSteps
  <2>. QED BY <1>0, <1>3, <1>4, <1>8, <2>1, <2>2, <2>3 DEF Waiting, Old
<1>9. ASSUME NEW p \in Servers, NEW S \in SUBSET Observations,
             \A o \in S : obs[o] = "archived",
             Goto(p, [step |-> "prune", observations |-> S])
      PROVE  Waiting'
  <2>1. /\ work'[p] = [step |-> "prune", observations |-> S]
        /\ \A q \in Procs \ {p} : work'[q] = work[q]
    BY <1>0, <1>9, WorkAfter
  <2>2. \A o \in S : obs'[o] # "absent"
    BY <1>1, <1>9
  <2>. QED BY <1>0, <1>3, <1>4, <1>9, <2>1, <2>2 DEF Waiting, Old
<1>10. ASSUME NEW u \in UIs, NEW o \in Observations, obs[o] = "active",
              Goto(u, [step |-> "promote", observation |-> o])
       PROVE  Waiting'
  <2>1. /\ work'[u] = [step |-> "promote", observation |-> o]
        /\ \A q \in Procs \ {u} : work'[q] = work[q]
    BY <1>0, <1>10, WorkAfter
  <2>2. obs'[o] # "absent"
    BY <1>1, <1>10
  <2>. QED BY <1>0, <1>3, <1>4, <1>10, <2>1, <2>2 DEF Waiting, Old
<1>11. ASSUME NEW u \in UIs, NEW action \in {"confirm", "retire"}, NEW r \in Reflections,
              Goto(u, [step |-> action, reflection |-> r])
       PROVE  Waiting'
  <2>1. /\ work'[u] = [step |-> action, reflection |-> r]
        /\ \A q \in Procs \ {u} : work'[q] = work[q]
    BY <1>0, <1>11, WorkAfter
  <2>. QED BY <1>0, <1>3, <1>4, <1>11, <2>1 DEF Waiting, Old
<1>. QED BY <1>5, <1>6, <1>7, <1>8, <1>9, <1>10, <1>11, NextMoves DEF Moves

-----------------------------------------------------------------------------
(* The reflections after each kind of entry.                                 *)

LEMMA NewFields ==
    ASSUME NEW db \in Library, NEW r \in Reflections,
           NEW S \in SUBSET Observations,
           NEW d, d = NewDb(db, r, S), NEW rf, rf = d.refl
    PROVE  /\ d.obs = Consumed(db, S, "consumed_into_reflection")
           /\ rf[r].status = "pending_review" /\ rf[r].by = None
           /\ rf[r].sources = Active(db, S) /\ rf[r].useful = 0
           /\ rf[r].evidence = Cardinality(rf[r].sources)
           /\ \A x \in Reflections \ {r} : rf[x] = db.refl[x]
<1>. DEFINE new == [status |-> "pending_review", by |-> None, sources |-> Active(db, S),
                    evidence |-> Cardinality(Active(db, S)), useful |-> 0]
<1>1. rf = [db.refl EXCEPT ![r] = new]
  BY DEF NewDb
<1>2. d.obs = Consumed(db, S, "consumed_into_reflection")
  BY DEF NewDb
<1>3. db.refl \in [Reflections -> Reflection]
  BY DEF Library
<1>4. [db.refl EXCEPT ![r] = new][r] = new
      /\ \A x \in Reflections \ {r} : [db.refl EXCEPT ![r] = new][x] = db.refl[x]
  <2>. HIDE DEF new
  <2>. QED BY <1>3
<1>. QED BY <1>1, <1>2, <1>4

LEMMA AugmentFields ==
    ASSUME NEW db \in Library, NEW r \in Reflections,
           NEW S \in SUBSET Observations,
           NEW d, d = AugmentDb(db, r, S), NEW rf, rf = d.refl
    PROVE  /\ d.obs = Consumed(db, S, "consumed_into_reflection")
           /\ rf[r].status = db.refl[r].status
           /\ rf[r].by = db.refl[r].by
           /\ rf[r].useful = db.refl[r].useful
           /\ rf[r].sources = db.refl[r].sources \cup Active(db, S)
           /\ rf[r].evidence = Cardinality(rf[r].sources)
           /\ \A x \in Reflections \ {r} : rf[x] = db.refl[x]
<1>. DEFINE A == db.refl[r].sources \cup Active(db, S)
            c == Cardinality(A)
            more == [db.refl[r] EXCEPT !.sources = A, !.evidence = c]
<1>1. db.refl \in [Reflections -> Reflection] /\ db.refl[r] \in Reflection
  BY DEF Library
<1>2. rf = [db.refl EXCEPT ![r] = more]
  BY <1>1 DEF AugmentDb
<1>3. d.obs = Consumed(db, S, "consumed_into_reflection")
  BY DEF AugmentDb
<1>4. /\ more.status = db.refl[r].status /\ more.by = db.refl[r].by
      /\ more.useful = db.refl[r].useful /\ more.sources = A /\ more.evidence = c
  <2>. HIDE DEF A, c
  <2>. QED BY <1>1 DEF Reflection
<1>. HIDE DEF more
<1>. QED BY <1>1, <1>2, <1>3, <1>4

LEMMA MergedFields ==
    ASSUME NEW db \in Library, NEW s \in Reflections, NEW t \in Reflections, s # t,
           NEW d, d = Merged(db, s, t), NEW rf, rf = d.refl
    PROVE  /\ d.obs = db.obs
           /\ rf[s].status = "superseded"
           /\ rf[s].by = t
           /\ rf[s].sources = {}
           /\ rf[t].status = db.refl[t].status
           /\ rf[t].by = db.refl[t].by
           /\ rf[t].useful = db.refl[t].useful + db.refl[s].useful
           /\ rf[t].sources = db.refl[t].sources \cup db.refl[s].sources
           /\ rf[t].evidence = Cardinality(rf[t].sources)
           /\ \A x \in Reflections \ {s, t} : rf[x] = db.refl[x]
<1>. DEFINE A == db.refl[t].sources \cup db.refl[s].sources
            left == [status |-> "superseded", by |-> t, sources |-> {},
                     evidence |-> db.refl[s].evidence, useful |-> db.refl[s].useful]
            kept == [status |-> db.refl[t].status, by |-> db.refl[t].by, sources |-> A,
                     evidence |-> Cardinality(A),
                     useful |-> db.refl[t].useful + db.refl[s].useful]
<1>1. db.refl \in [Reflections -> Reflection]
  BY DEF Library
<1>2. /\ rf = [db.refl EXCEPT ![s] = left, ![t] = kept]
      /\ d.obs = db.obs
  BY <1>1 DEF Merged
<1>3. /\ left.status = "superseded" /\ left.by = t /\ left.sources = {}
      /\ kept.status = db.refl[t].status /\ kept.by = db.refl[t].by
      /\ kept.sources = A /\ kept.evidence = Cardinality(A)
      /\ kept.useful = db.refl[t].useful + db.refl[s].useful
  OBVIOUS
<1>4. /\ rf[s] = left /\ rf[t] = kept
      /\ \A x \in Reflections \ {s, t} : rf[x] = db.refl[x]
  <2>. HIDE DEF left, kept
  <2>. QED BY <1>1, <1>2
<1>. HIDE DEF left, kept
<1>. QED BY <1>2, <1>3, <1>4

-----------------------------------------------------------------------------
(* Evidence is cited, and superseding ends.                                  *)

LEMMA ConsumedActive ==
    ASSUME NEW db, NEW S \in SUBSET Observations, NEW status, NEW o \in Observations
    PROVE  \/ o \in Active(db, S) /\ Consumed(db, S, status)[o] = status
           \/ o \notin Active(db, S) /\ Consumed(db, S, status)[o] = db.obs[o]
BY DEF Consumed

LEMMA NewKeepsSound ==
    ASSUME NEW db \in Library, Sound(db), NEW r \in Reflections, NEW S \in SUBSET Observations,
           db.refl[r].status = "absent",
           NEW d, d = NewDb(db, r, S)
    PROVE  Sound(d)
<1>1. /\ d.obs = Consumed(db, S, "consumed_into_reflection")
      /\ d.refl[r].status = "pending_review" /\ d.refl[r].sources = Active(db, S)
      /\ \A x \in Reflections \ {r} : d.refl[x] = db.refl[x]
  BY NewFields
<1>2. Cited(d)
  <2>. SUFFICES ASSUME NEW o \in Observations, d.obs[o] = "consumed_into_reflection"
                PROVE  \E x \in Reflections : o \in d.refl[x].sources
    BY DEF Cited
  <2>1. CASE o \in Active(db, S)
    BY <1>1, <2>1
  <2>2. CASE o \notin Active(db, S)
    <3>1. PICK x \in Reflections : o \in db.refl[x].sources
      BY <1>1, <2>2, ConsumedActive DEF Sound, Cited
    <3>2. x # r
      BY <3>1 DEF Sound, Blank
    <3>. QED BY <1>1, <3>1, <3>2
  <2>. QED BY <2>1, <2>2
<1>3. Blank(d.refl)
  BY <1>1 DEF Sound, Blank
<1>4. Grounded(d.refl)
  BY <1>1 DEF Sound, Grounded
<1>. QED BY <1>2, <1>3, <1>4 DEF Sound

LEMMA AugmentKeepsSound ==
    ASSUME NEW db \in Library, Sound(db), NEW r \in Reflections, NEW S \in SUBSET Observations,
           db.refl[r].status \in Live,
           NEW d, d = AugmentDb(db, r, S)
    PROVE  Sound(d)
<1>1. /\ d.obs = Consumed(db, S, "consumed_into_reflection")
      /\ d.refl[r].status = db.refl[r].status /\ d.refl[r].by = db.refl[r].by
      /\ d.refl[r].sources = db.refl[r].sources \cup Active(db, S)
      /\ \A x \in Reflections \ {r} : d.refl[x] = db.refl[x]
  BY AugmentFields
<1>2. Cited(d)
  <2>. SUFFICES ASSUME NEW o \in Observations, d.obs[o] = "consumed_into_reflection"
                PROVE  \E x \in Reflections : o \in d.refl[x].sources
    BY DEF Cited
  <2>1. CASE o \in Active(db, S)
    BY <1>1, <2>1
  <2>2. CASE o \notin Active(db, S)
    BY <1>1, <2>2, ConsumedActive DEF Sound, Cited
  <2>. QED BY <2>1, <2>2
<1>3. Blank(d.refl)
  BY <1>1 DEF Sound, Blank, Live
<1>4. Grounded(d.refl)
  BY <1>1 DEF Sound, Grounded
<1>. QED BY <1>2, <1>3, <1>4 DEF Sound

LEMMA MergeKeepsSound ==
    ASSUME NEW db \in Library, Sound(db), NEW s \in Reflections, NEW t \in Reflections, s # t,
           db.refl[s].status \in Live, db.refl[t].status \in Live,
           NEW d, d = Merged(db, s, t)
    PROVE  Sound(d)
<1>1. /\ d.obs = db.obs
      /\ d.refl[s].status = "superseded" /\ d.refl[s].by = t
      /\ d.refl[t].status = db.refl[t].status /\ d.refl[t].by = db.refl[t].by
      /\ d.refl[t].sources = db.refl[t].sources \cup db.refl[s].sources
      /\ \A x \in Reflections \ {s, t} : d.refl[x] = db.refl[x]
  BY MergedFields
<1>2. Cited(d)
  <2>. SUFFICES ASSUME NEW o \in Observations, d.obs[o] = "consumed_into_reflection"
                PROVE  \E x \in Reflections : o \in d.refl[x].sources
    BY DEF Cited
  <2>1. PICK x \in Reflections : o \in db.refl[x].sources
    BY <1>1 DEF Sound, Cited
  <2>2. CASE x \in {s, t}
    BY <1>1, <2>1, <2>2
  <2>3. CASE x \notin {s, t}
    BY <1>1, <2>1, <2>3
  <2>. QED BY <2>2, <2>3
<1>3. Blank(d.refl)
  BY <1>1 DEF Sound, Blank, Live
<1>4. Grounded(d.refl)
  <2>1. \A x \in Reflections : d.refl[x].status = "superseded" => d.refl[x].by \in Reflections
    BY <1>1 DEF Sound, Grounded
  <2>2. ASSUME NEW S \in SUBSET Reflections, S # {}, \A x \in S : d.refl[x].status = "superseded"
        PROVE  \E x \in S : d.refl[x].by \notin S
    <3>1. t \notin S
      BY <1>1, <2>2 DEF Live
    <3>2. CASE s \in S
      BY <1>1, <3>1, <3>2
    <3>3. CASE s \notin S
      BY <1>1, <2>2, <3>1, <3>3 DEF Sound, Grounded
    <3>. QED BY <3>2, <3>3
  <2>. QED BY <2>1, <2>2 DEF Grounded
<1>. QED BY <1>2, <1>3, <1>4 DEF Sound

LEMMA EntryKeepsSound ==
    ASSUME NEW db \in Library, Sound(db), NEW db2, Entry(db, db2)
    PROVE  Sound(db2)
<1>1. ASSUME NEW S \in SUBSET Observations, db2 = IgnoreDb(db, S) PROVE Sound(db2)
  <2>1. db2.refl = db.refl /\ db2.obs = Consumed(db, S, "consumed_without_reflection")
    BY <1>1 DEF IgnoreDb
  <2>2. \A o \in Observations :
           db2.obs[o] = "consumed_into_reflection" => db2.obs[o] = db.obs[o]
    BY <2>1 DEF Consumed
  <2>. QED BY <2>1, <2>2 DEF Sound, Cited
<1>. QED BY <1>1, NewKeepsSound, AugmentKeepsSound, MergeKeepsSound DEF Entry

\* The tables outside a decision: an observation is not consumed into a reflection
\* there, no source row is removed and no reflection superseded.
LEMMA OutsideKeepsSound ==
    ASSUME Sound(Committed),
           \A o \in Observations : obs'[o] = "consumed_into_reflection" => obs'[o] = obs[o],
           \A r \in Reflections :
              /\ refl'[r].sources = refl[r].sources /\ refl'[r].by = refl[r].by
              /\ refl'[r].status \in {"absent", "superseded"} => refl'[r].status = refl[r].status
    PROVE  Sound(Committed')
<1>1. Cited(Committed')
  BY DEF Sound, Cited, Committed
<1>2. Blank(refl')
  BY DEF Sound, Blank, Committed
<1>3. Grounded(refl')
  <2>1. \A r \in Reflections : refl'[r].status = "superseded" => refl[r].status = "superseded"
    OBVIOUS
  <2>2. Grounded(refl)
    BY DEF Sound, Committed
  <2>3. ASSUME NEW S \in SUBSET Reflections, S # {}, \A r \in S : refl'[r].status = "superseded"
        PROVE  \E r \in S : refl'[r].by \notin S
    <3>1. \A r \in S : refl[r].status = "superseded"
      BY <2>1, <2>3
    <3>2. PICK r \in S : refl[r].by \notin S
      BY <2>2, <2>3, <3>1 DEF Grounded
    <3>. QED BY <3>2
  <2>. QED BY <2>1, <2>2, <2>3 DEF Grounded
<1>. QED BY <1>1, <1>2, <1>3 DEF Sound, Committed

LEMMA WroteIsOutside ==
    ASSUME TypeInv, NEW p \in Procs, Wrote(work[p])
    PROVE  /\ \A o \in Observations : obs'[o] = "consumed_into_reflection" => obs'[o] = obs[o]
           /\ \A r \in Reflections :
                 /\ refl'[r].sources = refl[r].sources /\ refl'[r].by = refl[r].by
                 /\ refl'[r].status \in {"absent", "superseded"} => refl'[r].status = refl[r].status
<1>. DEFINE w == work[p]
<1>1. obs \in [Observations -> Statuses] /\ refl \in [Reflections -> Reflection]
  BY DEF TypeInv, TypeOK
<1>2. CASE w.step \in {"write", "prune", "promote"}
  BY <1>1, <1>2 DEF Wrote
<1>3. CASE w.step \in {"confirm", "retire"}
  <2>1. /\ UNCHANGED obs /\ w.reflection \in Reflections
        /\ refl' = [refl EXCEPT ![w.reflection].status =
                      IF w.step = "confirm" THEN "confirmed" ELSE "retired"]
    BY <1>3 DEF Wrote
  <2>2. ASSUME NEW r \in Reflections
        PROVE  /\ refl'[r].sources = refl[r].sources /\ refl'[r].by = refl[r].by
               /\ refl'[r].status \in {"absent", "superseded"} => refl'[r].status = refl[r].status
    <3>1. refl[r] \in Reflection
      BY <1>1
    <3>. QED BY <1>1, <2>1, <3>1 DEF Reflection
  <2>. QED BY <2>1, <2>2
<1>. QED BY <1>2, <1>3 DEF Wrote

LEMMA DirectIsOutside ==
    ASSUME TypeInv,
           \/ \E p \in Servers, r \in Reflections : Credit(p, r)
           \/ \E p \in Servers, old \in SUBSET Observations : Archive(p, old)
    PROVE  /\ txn = NoTxn /\ txn' = NoTxn
           /\ \A o \in Observations : obs'[o] = "consumed_into_reflection" => obs'[o] = obs[o]
           /\ \A r \in Reflections :
                 /\ refl'[r].sources = refl[r].sources /\ refl'[r].by = refl[r].by
                 /\ refl'[r].status = refl[r].status
<1>1. CASE \E p \in Servers, old \in SUBSET Observations : Archive(p, old)
  BY <1>1 DEF Archive, Unlocked
<1>2. ASSUME NEW p \in Servers, NEW r \in Reflections, Credit(p, r)
      PROVE  /\ txn = NoTxn /\ txn' = NoTxn /\ obs' = obs
             /\ \A x \in Reflections :
                   /\ refl'[x].sources = refl[x].sources /\ refl'[x].by = refl[x].by
                   /\ refl'[x].status = refl[x].status
  <2>. DEFINE n == refl[r].useful + 1
  <2>1. /\ txn = NoTxn /\ txn' = NoTxn /\ obs' = obs
        /\ refl' = [refl EXCEPT ![r].useful = n] /\ refl \in [Reflections -> Reflection]
    BY <1>2 DEF Credit, Unlocked, TypeInv, TypeOK
  <2>. HIDE DEF n
  <2>2. ASSUME NEW x \in Reflections
        PROVE  /\ refl'[x].sources = refl[x].sources /\ refl'[x].by = refl[x].by
               /\ refl'[x].status = refl[x].status
    <3>1. refl[x] \in Reflection
      BY <2>1
    <3>. QED BY <2>1, <3>1 DEF Reflection
  <2>. QED BY <2>1, <2>2
<1>. QED BY <1>1, <1>2

LEMMA EvidencedKept ==
    ASSUME TypeInv, Uncommitted, Evidenced, [Next]_vars
    PROVE  Evidenced'
<1>1. CASE Same
  BY <1>1 DEF Same, Evidenced, Committed
<1>2. CASE Begins
  BY <1>2 DEF Begins, Evidenced, Committed
<1>3. CASE EntryStep
  <2>1. /\ txn # NoTxn /\ txn.db \in Library /\ Entry(txn.db, txn'.db)
        /\ UNCHANGED <<obs, refl>>
    BY <1>3, EntryTxn DEF tables
  <2>2. Sound(txn'.db)
    BY <2>1, EntryKeepsSound DEF Evidenced
  <2>. QED BY <2>1, <2>2 DEF Evidenced, Committed
<1>4. CASE SectionStep
  BY <1>4, SectionTxn DEF Evidenced, Committed, tables
<1>5. CASE ApplyCommit
  <2>1. txn # NoTxn /\ txn' = NoTxn /\ refl' = txn.db.refl
    BY <1>5, CommitIs
  <2>2. \A o \in Observations : obs'[o] = "consumed_into_reflection" =>
           txn.db.obs[o] = "consumed_into_reflection"
    BY <1>5, CommitObs
  <2>3. Sound(Committed')
    BY <2>1, <2>2 DEF Evidenced, Sound, Cited, Committed
  <2>. QED BY <2>1, <2>3 DEF Evidenced
<1>6. CASE ApplyRollsBack
  BY <1>6 DEF ApplyRollsBack, Evidenced, Committed, tables
<1>7. CASE Writes
  <2>1. PICK p \in Procs : Wrote(work[p])
    BY <1>7, WritesAre
  <2>2. Sound(Committed')
    BY <2>1, WroteIsOutside, OutsideKeepsSound DEF Evidenced
  <2>. QED BY <1>7, <2>2, WritesAre DEF Evidenced
<1>8. CASE \/ \E p \in Servers, r \in Reflections : Credit(p, r)
           \/ \E p \in Servers, old \in SUBSET Observations : Archive(p, old)
  <2>1. txn' = NoTxn /\ Sound(Committed')
    BY <1>8, DirectIsOutside, OutsideKeepsSound DEF Evidenced
  <2>. QED BY <2>1 DEF Evidenced
<1>. QED BY <1>1, <1>2, <1>3, <1>4, <1>5, <1>6, <1>7, <1>8, DataSteps

\* What holds of every instance.
Inv == TypeInv /\ Waiting /\ Uncommitted /\ Evidenced

LEMMA InitInv == Init => Inv
<1>. SUFFICES ASSUME Init PROVE Inv
  OBVIOUS
<1>1. TypeInv
  BY InitTypes
<1>2. Waiting /\ Uncommitted
  BY DEF Init, Waiting, Uncommitted, Idle
<1>3. Evidenced
  BY DEF Init, Evidenced, Sound, Cited, Blank, Grounded, Committed, NoReflection
<1>. QED BY <1>1, <1>2, <1>3 DEF Inv

LEMMA NextInv == Inv /\ [Next]_vars => Inv'
BY NextKeepsTypes, WaitingKept, UncommittedKept, EvidencedKept DEF Inv

LEMMA Invariant == Spec => []Inv
BY InitInv, NextInv, PTL DEF Spec

\* An observation consumed into a reflection is evidence of one, whatever was
\* merged, retired or confirmed since, with any number of servers and UIs.
THEOREM Citation == Spec => []ConsumedIsCited
<1>1. Inv => ConsumedIsCited
  BY DEF Inv, Evidenced, Sound, Cited, Committed, ConsumedIsCited, CitedBy
<1>. QED BY <1>1, Invariant, PTL

LEMMA GroundedEnds ==
    ASSUME Grounded(refl)
    PROVE  SupersedingEnds
<1>. DEFINE Ends(r) == \E t \in Reflections : refl[t].status # "superseded" /\ r \in Family(t)
            Lost == {r \in Reflections : refl[r].status = "superseded" /\ ~Ends(r)}
<1>1. \A t \in Reflections : /\ t \in Family(t)
                             /\ \A x \in Reflections : refl[x].by \in Family(t) => x \in Family(t)
  BY FamilyIsLeast, FamilyClosed DEF Closed
<1>2. ASSUME Lost # {} PROVE FALSE
  <2>1. PICK r \in Lost : refl[r].by \notin Lost
    BY <1>2 DEF Grounded
  <2>2. refl[r].by \in Reflections
    BY <2>1 DEF Grounded
  <2>3. Ends(refl[r].by) \/ refl[refl[r].by].status # "superseded"
    BY <2>1, <2>2
  <2>4. \E t \in Reflections : refl[t].status # "superseded" /\ refl[r].by \in Family(t)
    BY <1>1, <2>2, <2>3
  <2>5. Ends(r)
    BY <1>1, <2>1, <2>4
  <2>. QED BY <2>1, <2>5
<1>. QED BY <1>2 DEF SupersedingEnds

\* From a superseded reflection, superseded_by leads to one that is not: merges
\* form no cycle, whatever the UI writes over a status in between.
THEOREM Superseding == Spec => []SupersedingEnds
<1>1. Inv => SupersedingEnds
  BY GroundedEnds DEF Inv, Evidenced, Sound, Committed
<1>. QED BY <1>1, Invariant, PTL

-----------------------------------------------------------------------------
(* With one UI: promoted once.                                               *)

\* What a process that was elsewhere, or idle, has begun.
Began(p) ==
    /\ work[p] = Idle
    /\ UNCHANGED <<tables, txn, context, history>>
    /\ \/ \E o \in Observations :
             /\ work'[p] = [step |-> "write", observation |-> o]
             /\ episode[EpisodeOf[o]].ended = "open"
       \/ \E S \in SUBSET Observations :
             /\ work'[p] = [step |-> "prune", observations |-> S]
             /\ \A o \in S : obs[o] = "archived"
       \/ \E o \in Observations :
             work'[p] = [step |-> "promote", observation |-> o] /\ obs[o] = "active"
       \/ \E action \in {"confirm", "retire"}, r \in Reflections :
             work'[p] = [step |-> action, reflection |-> r] /\ refl[r].status \in Live

Worked(p) ==
    \/ work'[p] = work[p] \/ work'[p] = Idle
    \/ p \in Servers /\ ApplyCheck(p) /\ work'[p] = [step |-> "apply"]
    \/ Began(p)

LEMMA WorkSteps ==
    ASSUME TypeInv, [Next]_vars, NEW p \in Procs
    PROVE  Worked(p)
<1>0. Servers \subseteq Procs /\ UIs \subseteq Procs
  BY DEF Procs
<1>1. ASSUME NEW q \in Procs, NEW w, Goto(q, w), q = p => (work'[p] = w => Worked(p))
      PROVE  Worked(p)
  BY <1>1, WorkAfter DEF Worked
<1>2. ASSUME NEW q \in Servers, NEW o \in Observations, WriteFind(q, o) PROVE Worked(p)
  <2>1. q = p => (work'[p] = [step |-> "write", observation |-> o] => Worked(p))
    BY <1>2 DEF WriteFind, Began, Worked
  <2>. QED BY <1>0, <1>1, <1>2, <2>1 DEF WriteFind
<1>3. ASSUME NEW q \in Servers, NEW S \in SUBSET Observations, PruneSelect(q, S) PROVE Worked(p)
  <2>1. q = p => (work'[p] = [step |-> "prune", observations |-> S] => Worked(p))
    BY <1>3 DEF PruneSelect, Began, Worked
  <2>. QED BY <1>0, <1>1, <1>3, <2>1 DEF PruneSelect
<1>4. ASSUME NEW q \in UIs, NEW o \in Observations, PromoteCheck(q, o) PROVE Worked(p)
  <2>1. q = p => (work'[p] = [step |-> "promote", observation |-> o] => Worked(p))
    BY <1>4 DEF PromoteCheck, Began, Worked
  <2>. QED BY <1>0, <1>1, <1>4, <2>1 DEF PromoteCheck
<1>5. ASSUME NEW q \in UIs, NEW action \in {"confirm", "retire"}, NEW r \in Reflections,
             ReviewCheck(q, action, r)
      PROVE  Worked(p)
  <2>1. q = p => (work'[p] = [step |-> action, reflection |-> r] => Worked(p))
    BY <1>5 DEF ReviewCheck, Began, Live, Worked
  <2>. QED BY <1>0, <1>1, <1>5, <2>1 DEF ReviewCheck
<1>6. ASSUME NEW q \in Servers, ApplyCheck(q) PROVE Worked(p)
  BY <1>0, <1>1, <1>6 DEF ApplyCheck, Worked
<1>7. ASSUME NEW q \in Procs, Goto(q, Idle) PROVE Worked(p)
  BY <1>1, <1>7 DEF Worked
<1>8. CASE UNCHANGED work
  BY <1>8 DEF Worked
<1>9. CASE UNCHANGED vars
  BY <1>8, <1>9 DEF vars
<1>10. CASE Calls
  BY <1>6, <1>8, <1>10 DEF Calls, GetContext, ApplyRefused, ApplyBegin
<1>11. CASE EntryStep \/ SectionStep
  BY <1>8, <1>11, EntryTxn, SectionTxn
<1>12. CASE ApplyCommit
  BY <1>7, <1>12, CommitIs
<1>13. CASE ApplyRollsBack
  BY <1>7, <1>13, OpenTxn DEF ApplyRollsBack
<1>14. CASE Writes
  BY <1>7, <1>14, WritesAre
<1>15. CASE Direct
  BY <1>8, <1>15 DEF Direct, CloseEpisode, Credit, Archive
<1>16. CASE \E q \in Procs : Abort(q)
  BY <1>7, <1>16 DEF Abort
<1>17. CASE Checks
  BY <1>2, <1>3, <1>4, <1>5, <1>17 DEF Checks
<1>. QED BY <1>9, <1>10, <1>11, <1>12, <1>13, <1>14, <1>15, <1>16, <1>17, NextCases

\* By the kind of work that was begun.
LEMMA BeganWork ==
    ASSUME NEW p \in Procs, Began(p)
    PROVE  /\ work'[p].step \in {"write", "prune", "promote", "confirm", "retire"}
           /\ work'[p].step \in {"write", "promote"} => work'[p].observation \in Observations
           /\ work'[p].step = "write" => episode[EpisodeOf[work'[p].observation]].ended = "open"
           /\ work'[p].step = "promote" => obs[work'[p].observation] = "active"
           /\ work'[p].step = "prune" => \A o \in work'[p].observations : obs[o] = "archived"
           /\ work'[p].step \in {"confirm", "retire"} =>
                 refl[work'[p].reflection].status \in Live
<1>. DEFINE w == work'[p]
<1>1. ASSUME NEW o \in Observations, w = [step |-> "write", observation |-> o]
      PROVE  w.step = "write" /\ w.observation = o
  BY <1>1
<1>2. ASSUME NEW S \in SUBSET Observations, w = [step |-> "prune", observations |-> S]
      PROVE  w.step = "prune" /\ w.observations = S
  BY <1>2
<1>3. ASSUME NEW o \in Observations, w = [step |-> "promote", observation |-> o]
      PROVE  w.step = "promote" /\ w.observation = o
  BY <1>3
<1>4. ASSUME NEW action \in {"confirm", "retire"}, NEW r \in Reflections,
             w = [step |-> action, reflection |-> r]
      PROVE  w.step = action /\ w.reflection = r
  BY <1>4
<1>. HIDE DEF w
<1>5. \/ \E o \in Observations : /\ w.step = "write" /\ w.observation = o
                                 /\ episode[EpisodeOf[o]].ended = "open"
      \/ \E S \in SUBSET Observations : /\ w.step = "prune" /\ w.observations = S
                                        /\ \A o \in S : obs[o] = "archived"
      \/ \E o \in Observations : /\ w.step = "promote" /\ w.observation = o
                                 /\ obs[o] = "active"
      \/ \E action \in {"confirm", "retire"}, r \in Reflections :
            w.step = action /\ w.reflection = r /\ refl[r].status \in Live
  BY <1>1, <1>2, <1>3, <1>4 DEF Began, w
<1>. QED BY <1>5 DEF w

\* What is neither active nor to be written stays so.
LEMMA PastSteps ==
    ASSUME Inv, [Next]_vars, NEW o \in Observations, obs'[o] \in {"absent", "active"}
    PROVE  obs[o] \in {"absent", "active"}
<1>1. CASE Same \/ Begins
  BY <1>1 DEF Same, Begins
<1>2. CASE EntryStep \/ SectionStep
  BY <1>2, EntryTxn, SectionTxn DEF Inv, tables
<1>3. CASE ApplyCommit
  BY <1>3, CommitObs DEF Inv
<1>4. CASE ApplyRollsBack
  BY <1>4 DEF ApplyRollsBack, tables
<1>5. CASE Writes
  <2>1. PICK p \in Procs : Wrote(work[p])
    BY <1>5, WritesAre DEF Inv
  <2>2. obs \in [Observations -> Statuses]
    BY DEF Inv, TypeInv, TypeOK
  <2>. QED BY <2>1, <2>2 DEF Wrote, Inv, Waiting
<1>6. CASE \/ \E p \in Servers, r \in Reflections : Credit(p, r)
           \/ \E p \in Servers, old \in SUBSET Observations : Archive(p, old)
  BY <1>6 DEF Credit, Archive
<1>. QED BY <1>1, <1>2, <1>3, <1>4, <1>5, <1>6, DataSteps DEF Inv

LEMMA SemanticSteps ==
    ASSUME TypeInv, [Next]_vars
    PROVE  Writes \/ UNCHANGED semantic
<1>1. CASE UNCHANGED vars
  BY <1>1 DEF vars, tables
<1>2. CASE Checks
  BY <1>2 DEF Checks, WriteFind, PruneSelect, PromoteCheck, ReviewCheck, tables
<1>3. CASE Calls
  BY <1>3 DEF Calls, GetContext, ApplyCheck, ApplyRefused, ApplyBegin, tables
<1>4. CASE EntryStep \/ SectionStep
  BY <1>4, EntryTxn, SectionTxn DEF tables
<1>5. CASE ApplyCommit
  BY <1>5, CommitIs
<1>6. CASE ApplyRollsBack \/ \E p \in Procs : Abort(p)
  BY <1>6 DEF ApplyRollsBack, Abort, tables
<1>7. CASE Direct
  BY <1>7 DEF Direct, CloseEpisode, Credit, Archive
<1>. QED BY <1>1, <1>2, <1>3, <1>4, <1>5, <1>6, <1>7, NextCases

LEMMA PromotedKept ==
    ASSUME Inv, OneUI, PromotedApart, [Next]_vars
    PROVE  PromotedApart'
<1>0. /\ TypeInv /\ Waiting /\ UIs \subseteq Procs
      /\ obs \in [Observations -> Statuses] /\ semantic \in [Observations -> Nat]
      /\ \A p \in Procs : work[p] \in Work
  BY DEF Inv, TypeInv, TypeOK, Procs
<1>1. ASSUME UNCHANGED semantic PROVE PromotedApart'
  <2>1. \A o \in Observations : obs'[o] \in {"absent", "active"} => semantic'[o] = 0
    BY <1>1, PastSteps DEF PromotedApart
  <2>2. ASSUME NEW u \in UIs, work'[u].step = "promote"
        PROVE  semantic'[work'[u].observation] = 0
    <3>1. CASE work'[u] = work[u]
      BY <1>1, <2>2, <3>1 DEF PromotedApart
    <3>2. CASE Began(u)
      <4>1. work'[u].observation \in Observations /\ obs[work'[u].observation] = "active"
        BY <1>0, <2>2, <3>2, BeganWork
      <4>. QED BY <1>1, <4>1 DEF PromotedApart
    <3>. QED BY <1>0, <2>2, <3>1, <3>2, WorkSteps DEF Idle, Worked
  <2>. QED BY <1>1, <2>1, <2>2 DEF PromotedApart, PromotedOnce
<1>2. ASSUME NEW p \in Procs, Wrote(work[p]), Goto(p, Idle), work[p].step = "promote"
      PROVE  PromotedApart'
  <2>. DEFINE o == work[p].observation
  <2>1. p \in UIs /\ o \in Observations /\ obs[o] # "absent"
    BY <1>0, <1>2, WorkShapes DEF Waiting
  <2>2. semantic[o] = 0
    BY <1>2, <2>1 DEF PromotedApart
  <2>3. /\ semantic'[o] = 1 /\ \A x \in Observations \ {o} : semantic'[x] = semantic[x]
        /\ obs'[o] \notin {"absent", "active"}
        /\ \A x \in Observations \ {o} : obs'[x] = obs[x]
    BY <1>0, <1>2, <2>1, <2>2 DEF Wrote
  <2>4. \A u \in UIs : work'[u].step # "promote"
    BY <1>0, <1>2, <2>1, WorkAfter DEF OneUI, Idle
  <2>. QED BY <2>3, <2>4 DEF PromotedApart, PromotedOnce
<1>3. CASE Writes
  <2>1. PICK p \in Procs : Wrote(work[p]) /\ Goto(p, Idle)
    BY <1>0, <1>3, WritesAre
  <2>2. CASE work[p].step = "promote"
    BY <1>2, <2>1, <2>2
  <2>3. CASE work[p].step # "promote"
    BY <1>1, <2>1, <2>3 DEF Wrote
  <2>. QED BY <2>2, <2>3
<1>. QED BY <1>0, <1>1, <1>3, SemanticSteps

\* With one UI process an observation becomes one semantic memory at most, however
\* it overlaps the servers: promote's check and its write are two transactions.
THEOREM Promotion == OneUI /\ Spec => []PromotedOnce
<1>1. Init => PromotedApart
  BY DEF Init, PromotedApart, PromotedOnce, Idle, Procs
<1>2. OneUI /\ Inv /\ PromotedApart /\ [Next]_vars => PromotedApart'
  BY PromotedKept
<1>3. PromotedApart => PromotedOnce
  BY DEF PromotedApart
<1>. SUFFICES ASSUME OneUI PROVE Spec => []PromotedOnce
  OBVIOUS
<1>4. Inv /\ PromotedApart /\ [Next]_vars => PromotedApart'
  BY <1>2
<1>. QED BY <1>1, <1>3, <1>4, Invariant, PTL DEF Spec

-----------------------------------------------------------------------------
(* With one server: a decision is applied once, and strands no observation.  *)

LEMMA EpisodeSteps ==
    ASSUME TypeInv, [Next]_vars
    PROVE  \/ UNCHANGED <<episode, applied, context>>
           \/ ApplyCommit
           \/ \E e \in Episodes, ended \in {"outcome", "no_outcome"} : CloseEpisode(e, ended)
           \/ \E p \in Servers : GetContext(p) \/ ApplyRefused(p)
<1>1. CASE UNCHANGED vars
  BY <1>1 DEF vars, tables, history
<1>2. CASE Checks
  BY <1>2 DEF Checks, WriteFind, PruneSelect, PromoteCheck, ReviewCheck, tables, history
<1>3. CASE Calls
  BY <1>3 DEF Calls, ApplyCheck, ApplyBegin, tables, history
<1>4. CASE EntryStep \/ SectionStep
  BY <1>4, EntryTxn, SectionTxn DEF tables, history
<1>5. CASE ApplyRollsBack \/ \E p \in Procs : Abort(p)
  BY <1>5 DEF ApplyRollsBack, Abort, tables, history
<1>6. CASE Direct
  BY <1>6 DEF Direct, Credit, Archive, history
<1>7. CASE Writes
  BY <1>7, WritesAre DEF history
<1>. QED BY <1>1, <1>2, <1>3, <1>4, <1>5, <1>6, <1>7, NextCases

LEMMA ActiveSteps ==
    ASSUME Inv, [Next]_vars, NEW o \in Observations, obs'[o] = "active"
    PROVE  \/ obs[o] = "active"
           \/ \E p \in Servers : work[p].step = "write" /\ work[p].observation = o
<1>1. CASE Same \/ Begins
  BY <1>1 DEF Same, Begins
<1>2. CASE EntryStep \/ SectionStep
  BY <1>2, EntryTxn, SectionTxn DEF Inv, tables
<1>3. CASE ApplyCommit
  BY <1>3, CommitObs DEF Inv
<1>4. CASE ApplyRollsBack
  BY <1>4 DEF ApplyRollsBack, tables
<1>5. CASE Writes
  <2>1. PICK p \in Procs : Wrote(work[p])
    BY <1>5, WritesAre DEF Inv
  <2>2. obs \in [Observations -> Statuses]
    BY DEF Inv, TypeInv, TypeOK
  <2>. QED BY <2>1, <2>2 DEF Wrote, Inv, Waiting
<1>6. CASE \/ \E p \in Servers, r \in Reflections : Credit(p, r)
           \/ \E p \in Servers, old \in SUBSET Observations : Archive(p, old)
  BY <1>6 DEF Credit, Archive
<1>. QED BY <1>1, <1>2, <1>3, <1>4, <1>5, <1>6, DataSteps DEF Inv

\* What a server is at after a step that shows no other episode to it.
LEMMA ServerSteps ==
    ASSUME Inv, DecidedApart, [Next]_vars, NEW p \in Servers, context'[p] = context[p]
    PROVE  /\ work'[p].step = "apply" => ~episode[context'[p]].synthesized
           /\ work'[p].step = "write" =>
                 ~episode[EpisodeOf[work'[p].observation]].synthesized
<1>0. p \in Procs /\ TypeInv /\ work[p] \in Work
  BY DEF Procs, Inv, TypeInv, TypeOK
<1>1. CASE work'[p] = work[p]
  BY <1>1 DEF DecidedApart
<1>2. CASE work'[p] = Idle
  BY <1>2 DEF Idle
<1>3. CASE ApplyCheck(p) /\ work'[p] = [step |-> "apply"]
  BY <1>3 DEF ApplyCheck
<1>4. CASE Began(p)
  <2>1. /\ work'[p].step # "apply"
        /\ work'[p].step = "write" =>
              /\ work'[p].observation \in Observations
              /\ episode[EpisodeOf[work'[p].observation]].ended = "open"
    BY <1>0, <1>4, BeganWork
  <2>. QED BY <2>1, ObservationsAssumption DEF DecidedApart
<1>. QED BY <1>0, <1>1, <1>2, <1>3, <1>4, WorkSteps DEF Worked

LEMMA DecidedKept ==
    ASSUME Inv, OneServer, DecidedApart, [Next]_vars
    PROVE  DecidedApart'
<1>0. /\ TypeInv /\ Servers \subseteq Procs
      /\ episode \in [Episodes -> [ended : {"open", "outcome", "no_outcome"},
                                   synthesized : BOOLEAN]]
      /\ applied \in [Episodes -> Nat]
      /\ \A o \in Observations : EpisodeOf[o] \in Episodes
      /\ \A p \in Procs : work[p] \in Work
  BY ObservationsAssumption DEF Inv, TypeInv, TypeOK, Procs
<1>1. \A o \in Observations : obs'[o] = "active" => ~episode[EpisodeOf[o]].synthesized
  BY ActiveSteps DEF DecidedApart, NoneStranded
<1>2. CASE UNCHANGED <<episode, applied, context>>
  BY <1>1, <1>2, ServerSteps DEF DecidedApart, NoneStranded
<1>3. CASE ApplyCommit
  <2>. DEFINE e == txn.episode
              q == txn.server
  <2>1. /\ txn # NoTxn /\ q \in Procs /\ e \in Episodes /\ Goto(q, Idle)
        /\ episode' = [episode EXCEPT ![e].synthesized = TRUE]
        /\ applied' = [applied EXCEPT ![e] = @ + 1] /\ UNCHANGED context
    BY <1>0, <1>3, CommitIs
  <2>2. /\ q \in Servers /\ work[q].step = "apply" /\ e = context[q]
        /\ context[q] # NoContext
    BY <1>0, <2>1 DEF Inv, TypeInv, Holding
  <2>3. /\ ~episode[e].synthesized /\ episode[e].ended # "open" /\ applied[e] = 0
    BY <2>1, <2>2 DEF DecidedApart
  <2>4. /\ episode'[e].synthesized /\ applied'[e] = 1
        /\ \A x \in Episodes : episode'[x].ended = episode[x].ended
        /\ \A x \in Episodes \ {e} :
              /\ episode'[x].synthesized = episode[x].synthesized
              /\ applied'[x] = applied[x]
    <3>. HIDE DEF e
    <3>. QED BY <1>0, <2>1, <2>3
  <2>. HIDE DEF e
  <2>5. \A x \in Episodes :
           /\ applied'[x] = IF episode'[x].synthesized THEN 1 ELSE 0
           /\ episode'[x].synthesized => episode'[x].ended # "open"
    BY <2>1, <2>3, <2>4 DEF DecidedApart
  <2>6. \A o \in Observations : obs'[o] = "active" => EpisodeOf[o] # e
    BY <1>0, <1>3, CommitObs DEF Inv, e
  <2>7. NoneStranded'
    BY <1>0, <1>1, <2>4, <2>6 DEF NoneStranded
  <2>8. \A p \in Servers : work'[p].step = "idle"
    BY <1>0, <2>1, <2>2, WorkAfter DEF OneServer, Idle
  <2>9. \A p \in Servers :
           context'[p] # NoContext => episode'[context'[p]].ended # "open"
    <3>. TAKE p \in Servers
    <3>. HAVE context'[p] # NoContext
    <3>1. context[p] \in Episodes /\ context'[p] = context[p]
      BY <2>1 DEF Inv, TypeInv, TypeOK
    <3>. QED BY <2>4, <3>1 DEF DecidedApart
  <2>. QED BY <2>5, <2>7, <2>8, <2>9 DEF DecidedApart
<1>4. ASSUME NEW e \in Episodes, NEW ended \in {"outcome", "no_outcome"}, CloseEpisode(e, ended)
      PROVE  DecidedApart'
  <2>1. /\ episode' = [episode EXCEPT ![e].ended = ended]
        /\ UNCHANGED <<obs, context, work, applied>>
    BY <1>4 DEF CloseEpisode, history
  <2>2. /\ \A x \in Episodes : /\ episode'[x].synthesized = episode[x].synthesized
                               /\ episode[x].ended # "open" => episode'[x].ended # "open"
    BY <1>0, <2>1
  <2>3. \A p \in Servers :
           /\ context'[p] # NoContext => episode'[context'[p]].ended # "open"
           /\ work'[p].step = "apply" => ~episode'[context'[p]].synthesized
           /\ work'[p].step = "write" =>
                 ~episode'[EpisodeOf[work'[p].observation]].synthesized
    <3>. TAKE p \in Servers
    <3>1. context[p] # NoContext => context[p] \in Episodes
      BY DEF Inv, TypeInv, TypeOK
    <3>2. work[p].step = "apply" => context[p] \in Episodes
      BY <1>0 DEF Inv, TypeInv, Holding
    <3>3. work[p].step = "write" => EpisodeOf[work[p].observation] \in Episodes
      BY <1>0, WorkShapes
    <3>. QED BY <2>1, <2>2, <3>1, <3>2, <3>3 DEF DecidedApart
  <2>. QED BY <1>0, <1>1, <2>1, <2>2, <2>3 DEF DecidedApart, NoneStranded
<1>5. ASSUME NEW q \in Servers, GetContext(q) \/ ApplyRefused(q) PROVE DecidedApart'
  <2>1. /\ UNCHANGED <<obs, episode, work, applied>> /\ work[q] = Idle
        /\ \/ context' = [context EXCEPT ![q] = NoContext]
           \/ \E e \in Episodes : /\ episode[e].ended # "open"
                                  /\ context' = [context EXCEPT ![q] = e]
    BY <1>5 DEF GetContext, ApplyRefused, Pending, tables, history
  <2>2. context \in [Servers -> Episodes \cup {NoContext}]
    BY DEF Inv, TypeInv, TypeOK
  <2>3. /\ context'[q] # NoContext => episode[context'[q]].ended # "open"
        /\ \A p \in Servers \ {q} : context'[p] = context[p]
    BY <2>1, <2>2
  <2>. QED BY <1>1, <2>1, <2>3 DEF DecidedApart, NoneStranded, Idle
<1>. QED BY <1>0, <1>2, <1>3, <1>4, <1>5, EpisodeSteps

LEMMA Decided == OneServer /\ Spec => []DecidedApart
<1>1. Init => DecidedApart
  <2>. SUFFICES ASSUME Init PROVE DecidedApart
    OBVIOUS
  <2>1. /\ \A e \in Episodes : /\ applied[e] = 0 /\ episode[e].synthesized = FALSE
        /\ \A p \in Servers : context[p] = NoContext /\ work[p].step = "idle"
        /\ \A o \in Observations : obs[o] = "absent"
    BY DEF Init, Idle, Procs
  <2>. QED BY <2>1 DEF DecidedApart, NoneStranded
<1>. SUFFICES ASSUME OneServer PROVE Spec => []DecidedApart
  OBVIOUS
<1>2. Inv /\ DecidedApart /\ [Next]_vars => DecidedApart'
  BY DecidedKept
<1>. QED BY <1>1, <1>2, Invariant, PTL DEF Spec

\* With one server an episode's decision is applied once, whenever the agent sends
\* it again and whatever the UI does meanwhile.
THEOREM Application == OneServer /\ Spec => []AppliedOnce
<1>1. DecidedApart => AppliedOnce
  BY DEF DecidedApart, AppliedOnce
<1>. QED BY <1>1, Decided, PTL

\* With one server no observation of a synthesized episode is left active: the
\* commit consumes what the decision did not name, and none is written later.
THEOREM Stranding == OneServer /\ Spec => []NoneStranded
<1>1. DecidedApart => NoneStranded
  BY DEF DecidedApart
<1>. QED BY <1>1, Decided, PTL

-----------------------------------------------------------------------------
(* When a UI is the only process: the counts, and the lifecycle.             *)

LEMMA Disjoint == None \notin Reflections /\ Live \cap Dead = {} /\ "absent" \notin Live \cup Dead
BY BoundType DEF None, Live, Dead

LEMMA NewKeepsTallied ==
    ASSUME NEW db \in Library, Tallied(db.refl), NEW r \in Reflections,
           NEW S \in SUBSET Observations, db.refl[r].status = "absent",
           NEW d, d = NewDb(db, r, S), NEW rf, rf = d.refl
    PROVE  Tallied(rf)
<1>. DEFINE old == db.refl
<1>1. /\ rf[r].status = "pending_review" /\ rf[r].by = None /\ rf[r].useful = 0
      /\ rf[r].evidence = Cardinality(rf[r].sources)
      /\ \A x \in Reflections \ {r} : rf[x] = old[x]
  BY NewFields
<1>2. old[r] \in Reflection /\ Bare(old) /\ Counted(old)
  BY DEF Library, Tallied
<1>. HIDE DEF old
<1>3. old[r].by = None
  BY <1>2 DEF Bare, Reflection, old
<1>4. \A x \in Reflections : rf[x].by = old[x].by
  BY <1>1, <1>3
<1>5. Bare(rf)
  BY <1>1, <1>2, Disjoint DEF Bare
<1>6. \A x \in Reflections : FamilyIn(rf, x) = FamilyIn(old, x)
  BY <1>4, FamilyByBy
<1>7. Total(credited, FamilyIn(old, r)) = 0
  BY <1>2 DEF Counted, old
<1>8. Counted(rf)
  BY <1>1, <1>2, <1>6, <1>7 DEF Counted
<1>. QED BY <1>5, <1>8 DEF Tallied

LEMMA AugmentKeepsTallied ==
    ASSUME NEW db \in Library, Tallied(db.refl), NEW r \in Reflections,
           NEW S \in SUBSET Observations, db.refl[r].status \in Live,
           NEW d, d = AugmentDb(db, r, S), NEW rf, rf = d.refl
    PROVE  Tallied(rf)
<1>. DEFINE old == db.refl
<1>1. /\ rf[r].status = old[r].status /\ rf[r].by = old[r].by
      /\ rf[r].useful = old[r].useful
      /\ rf[r].evidence = Cardinality(rf[r].sources)
      /\ \A x \in Reflections \ {r} : rf[x] = old[x]
  BY AugmentFields
<1>2. Bare(old) /\ Counted(old)
  BY DEF Tallied
<1>. HIDE DEF old
<1>3. Bare(rf)
  BY <1>1, <1>2 DEF Bare
<1>4. \A x \in Reflections : FamilyIn(rf, x) = FamilyIn(old, x)
  BY <1>1, FamilyByBy
<1>5. Counted(rf)
  BY <1>1, <1>2, <1>4 DEF Counted
<1>. QED BY <1>3, <1>5 DEF Tallied

LEMMA MergeKeepsTallied ==
    ASSUME credited \in [Reflections -> Nat],
           NEW db \in Library, Tallied(db.refl),
           NEW s \in Reflections, NEW t \in Reflections, s # t,
           db.refl[s].status \in Live, db.refl[t].status \in Live,
           NEW d, d = Merged(db, s, t), NEW rf, rf = d.refl
    PROVE  Tallied(rf)
<1>. DEFINE old == db.refl
<1>1. /\ rf[s].status = "superseded" /\ rf[s].by = t
      /\ rf[t].status = old[t].status /\ rf[t].by = old[t].by
      /\ rf[t].useful = old[t].useful + old[s].useful
      /\ rf[t].evidence = Cardinality(rf[t].sources)
      /\ \A x \in Reflections \ {s, t} : rf[x] = old[x]
  BY MergedFields
<1>2. /\ Bare(old) /\ Counted(old)
      /\ old[s].status \notin {"absent", "superseded"}
      /\ old[t].status \notin {"absent", "superseded"}
  BY DEF Tallied, Live
<1>. HIDE DEF old
<1>3. Bare(rf)
  BY <1>1, <1>2 DEF Bare
<1>4. /\ FamilyIn(rf, t) = FamilyIn(old, t) \cup FamilyIn(old, s)
      /\ FamilyIn(old, t) \cap FamilyIn(old, s) = {}
      /\ \A x \in Reflections \ {s, t} :
            old[x].status # "superseded" => FamilyIn(rf, x) = FamilyIn(old, x)
  BY <1>1, <1>2, FamilyOfMerge
<1>5. /\ old[t].useful = Total(credited, FamilyIn(old, t))
      /\ old[s].useful = Total(credited, FamilyIn(old, s))
  BY <1>2 DEF Counted
<1>6. Total(credited, FamilyIn(rf, t)) = rf[t].useful
  BY <1>1, <1>4, <1>5, TotalOfUnion
<1>7. ASSUME NEW x \in Reflections
      PROVE  /\ rf[x].status \in Live => rf[x].evidence = Cardinality(rf[x].sources)
             /\ rf[x].status # "superseded" => rf[x].useful = Total(credited, FamilyIn(rf, x))
             /\ rf[x].status = "absent" => rf[x].useful = 0
  <2>1. CASE x = s
    BY <1>1, <2>1 DEF Live
  <2>2. CASE x = t
    BY <1>1, <1>2, <1>6, <2>2
  <2>3. CASE x \notin {s, t}
    BY <1>1, <1>2, <1>4, <2>3 DEF Counted
  <2>. QED BY <2>1, <2>2, <2>3
<1>. QED BY <1>3, <1>7 DEF Tallied, Counted

LEMMA EntryKeepsTallied ==
    ASSUME credited \in [Reflections -> Nat],
           NEW db \in Library, Tallied(db.refl), NEW db2, Entry(db, db2),
           NEW rf, rf = db2.refl
    PROVE  Tallied(rf)
<1>1. ASSUME NEW S \in SUBSET Observations, db2 = IgnoreDb(db, S) PROVE Tallied(rf)
  BY <1>1 DEF IgnoreDb
<1>. QED BY <1>1, NewKeepsTallied, AugmentKeepsTallied, MergeKeepsTallied DEF Entry

LEMMA CreditKeepsTallied ==
    ASSUME TypeInv, Tallied(refl), NEW p \in Servers, NEW r \in Reflections, Credit(p, r)
    PROVE  Tallied(refl)'
<1>. DEFINE n == refl[r].useful + 1
            m == credited[r] + 1
<1>1. /\ refl' = [refl EXCEPT ![r].useful = n] /\ refl \in [Reflections -> Reflection]
      /\ refl[r].status \in Live
      /\ credited' = [credited EXCEPT ![r] = m]
      /\ credited \in [Reflections -> Nat] /\ credited' \in [Reflections -> Nat]
  BY CreditsAssumption DEF Credit, TypeInv, TypeOK
<1>2. /\ credited'[r] = credited[r] + 1
      /\ \A x \in Reflections \ {r} : credited'[x] = credited[x]
  BY <1>1
<1>. HIDE DEF n, m
<1>3. ASSUME NEW x \in Reflections
      PROVE  /\ refl'[x].status = refl[x].status /\ refl'[x].by = refl[x].by
             /\ refl'[x].sources = refl[x].sources /\ refl'[x].evidence = refl[x].evidence
             /\ refl'[x].useful = IF x = r THEN n ELSE refl[x].useful
  <2>1. refl[x] \in Reflection
    BY <1>1
  <2>. QED BY <1>1, <2>1 DEF Reflection
<1>4. Bare(refl')
  BY <1>3 DEF Tallied, Bare
<1>5. \A x \in Reflections : FamilyIn(refl', x) = FamilyIn(refl, x)
  BY <1>3, FamilyByBy
<1>6. \A x \in Reflections : Total(credited', FamilyIn(refl, x))
         = Total(credited, FamilyIn(refl, x)) + (IF r \in FamilyIn(refl, x) THEN 1 ELSE 0)
  <2>. SUFFICES ASSUME NEW x \in Reflections
                PROVE  Total(credited', FamilyIn(refl, x))
                         = Total(credited, FamilyIn(refl, x))
                           + (IF r \in FamilyIn(refl, x) THEN 1 ELSE 0)
    OBVIOUS
  <2>1. credited \in [Reflections -> Nat]
    BY <1>1
  <2>2. ASSUME NEW more \in [Reflections -> Nat], more[r] = credited[r] + 1,
               \A s \in Reflections \ {r} : more[s] = credited[s], NEW F
        PROVE  Total(more, F) = Total(credited, F) + (IF r \in F THEN 1 ELSE 0)
    BY <2>1, <2>2, TotalOfOneMore
  <2>3. credited' \in [Reflections -> Nat]
    BY <1>1
  <2>. QED BY <1>2, <2>2, <2>3
<1>7. \A x \in Reflections : Total(credited, FamilyIn(refl, x)) \in Nat
  BY <1>1, TotalType
<1>8. r \in FamilyIn(refl, r)
  BY FamilyClosed
<1>9. \A x \in Reflections \ {r} : refl[x].status # "superseded" => r \notin FamilyIn(refl, x)
  BY <1>1, FamilyMembers DEF Tallied, Live
<1>10. ASSUME NEW x \in Reflections, refl[x].status # "superseded"
       PROVE  refl'[x].useful = Total(credited', FamilyIn(refl', x))
  <2>1. refl[x].useful = Total(credited, FamilyIn(refl, x))
    BY <1>10 DEF Tallied, Counted
  <2>2. CASE x = r
    BY <1>3, <1>5, <1>6, <1>8, <2>1, <2>2 DEF n
  <2>3. CASE x # r
    BY <1>3, <1>5, <1>6, <1>7, <1>9, <1>10, <2>1, <2>3
  <2>. QED BY <2>2, <2>3
<1>11. \A x \in Reflections : refl[x].status = "absent" => x # r
  BY <1>1 DEF Live
<1>12. /\ \A x \in Reflections : refl'[x].status \in Live =>
             refl'[x].evidence = Cardinality(refl'[x].sources)
       /\ \A x \in Reflections : refl'[x].status = "absent" => refl'[x].useful = 0
  BY <1>3, <1>11 DEF Tallied, Counted
<1>. QED BY <1>3, <1>4, <1>10, <1>12 DEF Tallied, Counted

LEMMA ReviewKeepsTallied ==
    ASSUME TypeInv, Tallied(refl), NEW r \in Reflections, refl[r].status \in Live,
           NEW status \in {"confirmed", "retired"}, refl' = [refl EXCEPT ![r].status = status],
           UNCHANGED credited
    PROVE  Tallied(refl)'
<1>1. refl \in [Reflections -> Reflection]
  BY DEF TypeInv, TypeOK
<1>2. ASSUME NEW x \in Reflections
      PROVE  /\ refl'[x].status = IF x = r THEN status ELSE refl[x].status
             /\ refl'[x].by = refl[x].by /\ refl'[x].useful = refl[x].useful
             /\ refl'[x].sources = refl[x].sources /\ refl'[x].evidence = refl[x].evidence
  <2>1. refl[x] \in Reflection
    BY <1>1
  <2>. QED BY <1>1, <2>1 DEF Reflection
<1>3. refl[r].status \notin {"absent", "superseded"} /\ status \notin {"absent", "superseded"}
  BY DEF Live
<1>4. Bare(refl')
  BY <1>2, <1>3 DEF Tallied, Bare
<1>5. \A x \in Reflections : FamilyIn(refl', x) = FamilyIn(refl, x)
  BY <1>2, FamilyByBy
<1>6. ASSUME NEW x \in Reflections
      PROVE  /\ refl'[x].status \in Live => refl'[x].evidence = Cardinality(refl'[x].sources)
             /\ refl'[x].status # "superseded" =>
                   refl'[x].useful = Total(credited', FamilyIn(refl', x))
             /\ refl'[x].status = "absent" => refl'[x].useful = 0
  <2>1. /\ refl'[x].status \in Live => refl[x].status \in Live
        /\ refl'[x].status # "superseded" => refl[x].status # "superseded"
        /\ refl'[x].status = "absent" => refl[x].status = "absent"
    BY <1>2, <1>3
  <2>. QED BY <1>2, <1>5, <2>1 DEF Tallied, Counted
<1>. QED BY <1>4, <1>6 DEF Tallied, Counted

\* The arrows an observation's status moves along, one step at a time.
LEMMA ObsSteps ==
    ASSUME Inv, ReviewedApart, [Next]_vars, NEW o \in Observations
    PROVE  \/ obs'[o] = obs[o]
           \/ obs[o] = "absent" /\ obs'[o] = "active"
           \/ /\ obs[o] = "active"
              /\ obs'[o] \in {"consumed_into_reflection", "consumed_without_reflection"}
           \/ /\ obs[o] \notin {"absent", "archived", "pruned"}
              /\ obs'[o] = "archived"
           \/ obs[o] = "archived" /\ obs'[o] = "pruned"
<1>0. obs \in [Observations -> Statuses] /\ \A p \in Procs : work[p] \in Work
  BY DEF Inv, TypeInv, TypeOK
<1>1. CASE Same \/ Begins
  BY <1>1 DEF Same, Begins
<1>2. CASE EntryStep \/ SectionStep
  BY <1>2, EntryTxn, SectionTxn DEF Inv, tables
<1>3. CASE ApplyCommit
  BY <1>3, CommitObs DEF Inv
<1>4. CASE ApplyRollsBack
  BY <1>4 DEF ApplyRollsBack, tables
<1>5. CASE Writes
  <2>1. PICK p \in Procs : Wrote(work[p])
    BY <1>5, WritesAre DEF Inv
  <2>2. CASE work[p].step = "write"
    BY <1>0, <2>1, <2>2 DEF Wrote, Inv, Waiting
  <2>3. CASE work[p].step = "prune"
    BY <1>0, <2>1, <2>3 DEF Wrote, ReviewedApart
  <2>4. CASE work[p].step = "promote"
    BY <1>0, <2>1, <2>4 DEF Wrote, ReviewedApart
  <2>5. CASE work[p].step \in {"confirm", "retire"}
    BY <2>1, <2>5 DEF Wrote
  <2>. QED BY <2>1, <2>2, <2>3, <2>4, <2>5 DEF Wrote
<1>6. CASE \/ \E p \in Servers, r \in Reflections : Credit(p, r)
           \/ \E p \in Servers, old \in SUBSET Observations : Archive(p, old)
  BY <1>6 DEF Credit, Archive, Archivable
<1>. QED BY <1>1, <1>2, <1>3, <1>4, <1>5, <1>6, DataSteps DEF Inv

\* While the only process reviews, nothing changes under it.
LEMMA ReviewAlone ==
    ASSUME Inv, Apart, [Next]_vars, NEW u \in Procs,
           work[u].step \in {"promote", "confirm", "retire"}, work'[u] = work[u]
    PROVE  UNCHANGED <<obs, refl>>
<1>0. \A p \in Procs : p = u
  BY DEF Inv, Waiting, Apart
<1>1. CASE Same \/ Begins
  BY <1>1 DEF Same, Begins
<1>2. CASE EntryStep \/ SectionStep
  BY <1>2, EntryTxn, SectionTxn DEF Inv, tables
<1>3. ~ApplyCommit
  BY <1>0, CommitIs DEF Inv, TypeInv, Holding
<1>4. CASE ApplyRollsBack
  BY <1>4 DEF ApplyRollsBack, tables
<1>5. ~Writes
  BY <1>0, WritesAre, WorkAfter DEF Inv, Idle
<1>6. ~(\/ \E p \in Servers, r \in Reflections : Credit(p, r)
        \/ \E p \in Servers, old \in SUBSET Observations : Archive(p, old))
  BY <1>0 DEF Credit, Archive, Idle, Procs
<1>. QED BY <1>1, <1>2, <1>3, <1>4, <1>5, <1>6, DataSteps DEF Inv

LEMMA TalliedKept ==
    ASSUME Inv, ReviewedApart, [Next]_vars
    PROVE  Tallied(refl)' /\ (txn' # NoTxn => Tallied(txn.db.refl)')
<1>0. TypeInv /\ credited \in [Reflections -> Nat]
  BY CreditsAssumption DEF Inv, TypeInv, TypeOK
<1>. DEFINE Kept == Tallied(refl)' /\ (txn' # NoTxn => Tallied(txn.db.refl)')
<1>1. CASE Same
  BY <1>1 DEF Same, ReviewedApart, Tallied, Counted
<1>2. CASE Begins
  BY <1>2 DEF Begins, Committed, ReviewedApart, Tallied, Counted
<1>3. CASE EntryStep
  <2>1. /\ txn # NoTxn /\ Entry(txn.db, txn'.db) /\ txn.db \in Library
        /\ UNCHANGED <<refl, credited>>
    BY <1>0, <1>3, EntryTxn DEF tables, history
  <2>2. ASSUME NEW rf, rf = txn'.db.refl PROVE Tallied(rf)
    BY <1>0, <2>1, <2>2, EntryKeepsTallied DEF ReviewedApart
  <2>3. Tallied(txn'.db.refl)
    BY <2>2
  <2>. QED BY <2>1, <2>3 DEF ReviewedApart, Tallied, Counted
<1>4. CASE SectionStep
  <2>1. txn # NoTxn /\ txn'.db = txn.db /\ UNCHANGED <<refl, credited>>
    BY <1>0, <1>4, SectionTxn DEF tables, history
  <2>. QED BY <2>1 DEF ReviewedApart, Tallied, Counted
<1>5. CASE ApplyCommit
  <2>1. txn # NoTxn /\ txn' = NoTxn /\ refl' = txn.db.refl /\ UNCHANGED credited
    BY <1>0, <1>5, CommitIs
  <2>. QED BY <2>1 DEF ReviewedApart, Tallied, Counted
<1>6. CASE ApplyRollsBack
  BY <1>6 DEF ApplyRollsBack, tables, history, ReviewedApart, Tallied, Counted
<1>7. CASE Writes
  <2>1. txn' = NoTxn /\ UNCHANGED credited
    BY <1>0, <1>7, WritesAre DEF history
  <2>2. PICK p \in Procs : Wrote(work[p])
    BY <1>0, <1>7, WritesAre
  <2>3. CASE work[p].step \in {"confirm", "retire"}
    <3>1. PICK status \in {"confirmed", "retired"} :
             refl' = [refl EXCEPT ![work[p].reflection].status = status]
      BY <2>2, <2>3 DEF Wrote
    <3>2. work[p].reflection \in Reflections /\ refl[work[p].reflection].status \in Live
      BY <2>2, <2>3 DEF Wrote, ReviewedApart
    <3>3. Tallied(refl)'
      BY <1>0, <2>1, <3>1, <3>2, ReviewKeepsTallied DEF ReviewedApart
    <3>. QED BY <2>1, <3>3
  <2>4. CASE work[p].step \notin {"confirm", "retire"}
    <3>1. refl' = refl
      BY <2>2, <2>4 DEF Wrote
    <3>. QED BY <2>1, <3>1 DEF ReviewedApart, Tallied, Counted
  <2>. QED BY <2>3, <2>4
<1>8. ASSUME NEW p \in Servers, NEW r \in Reflections, Credit(p, r) PROVE Kept
  <2>1. txn' = NoTxn
    BY <1>8 DEF Credit, Unlocked
  <2>2. Tallied(refl)'
    BY <1>0, <1>8, CreditKeepsTallied DEF ReviewedApart
  <2>. QED BY <2>1, <2>2
<1>9. ASSUME NEW p \in Servers, NEW old \in SUBSET Observations, Archive(p, old) PROVE Kept
  BY <1>9 DEF Archive, Unlocked, history, ReviewedApart, Tallied, Counted
<1>. QED BY <1>0, <1>1, <1>2, <1>3, <1>4, <1>5, <1>6, <1>7, <1>8, <1>9, DataSteps

LEMMA ReviewedKept ==
    ASSUME Inv, Apart, ReviewedApart, [Next]_vars
    PROVE  ReviewedApart'
<1>1. Tallied(refl)' /\ (txn' # NoTxn => Tallied(txn.db.refl)')
  BY TalliedKept
<1>2. ASSUME NEW p \in Procs
      PROVE  /\ work'[p].step = "promote" => obs'[work'[p].observation] = "active"
             /\ work'[p].step \in {"confirm", "retire"} =>
                   refl'[work'[p].reflection].status \in Live
             /\ work'[p].step = "prune" =>
                   \A o \in work'[p].observations : obs'[o] \in {"archived", "pruned"}
  <2>0. TypeInv /\ work[p] \in Work
    BY DEF Inv, TypeInv, TypeOK
  <2>1. CASE work'[p] = work[p]
    <3>1. CASE work[p].step \in {"promote", "confirm", "retire"}
      BY <2>1, <3>1, ReviewAlone DEF ReviewedApart
    <3>2. CASE work[p].step = "prune"
      <4>1. ASSUME NEW o \in work[p].observations PROVE obs'[o] \in {"archived", "pruned"}
        <5>1. o \in Observations /\ obs[o] \in {"archived", "pruned"}
          BY <2>0, <3>2, <4>1, WorkShapes DEF ReviewedApart
        <5>. QED BY <5>1, ObsSteps
      <4>. QED BY <2>1, <3>2, <4>1
    <3>. QED BY <2>1, <3>1, <3>2
  <2>2. CASE work'[p] = Idle \/ work'[p] = [step |-> "apply"]
    BY <2>2 DEF Idle
  <2>3. CASE Began(p)
    <3>1. UNCHANGED <<obs, refl>>
      BY <2>3 DEF Began, tables
    <3>. QED BY <2>3, <3>1, BeganWork
  <2>. QED BY <2>0, <2>1, <2>2, <2>3, WorkSteps DEF Worked
<1>. QED BY <1>1, <1>2 DEF ReviewedApart

LEMMA InitReviewed ==
    ASSUME Init
    PROVE  ReviewedApart
<1>1. /\ \A r \in Reflections : refl[r].status = "absent" /\ refl[r].by = None
                                /\ refl[r].useful = 0
      /\ txn = NoTxn /\ \A p \in Procs : work[p].step = "idle"
  BY DEF Init, NoReflection, Idle
<1>2. credited = [r \in Reflections |-> 0]
  BY DEF Init
<1>3. \A r \in Reflections : Total(credited, FamilyIn(refl, r)) = 0
  BY <1>2, TotalOfZeros
<1>4. Tallied(refl)
  BY <1>1, <1>3, Disjoint DEF Tallied, Bare, Counted
<1>. QED BY <1>1, <1>4 DEF ReviewedApart

LEMMA Reviewed == Apart /\ Spec => []ReviewedApart
<1>. SUFFICES ASSUME Apart PROVE Spec => []ReviewedApart
  OBVIOUS
<1>1. Inv /\ ReviewedApart /\ [Next]_vars => ReviewedApart'
  BY ReviewedKept
<1>. QED BY <1>1, InitReviewed, Invariant, PTL DEF Spec

\* When a UI overlaps no server, a reflection that can be served counts exactly its
\* sources, whatever new, augment and merge made of it.
THEOREM Evidence == Apart /\ Spec => []EvidenceCounted
<1>1. ReviewedApart => EvidenceCounted
  BY DEF ReviewedApart, Tallied, Counted, EvidenceCounted
<1>. QED BY <1>1, Reviewed, PTL

\* When a UI overlaps no server, merging loses no rating and counts none twice: a
\* reflection that can be served has the ratings of all it absorbed.
THEOREM Ratings == Apart /\ Spec => []RatingsKept
<1>1. ReviewedApart => RatingsKept
  BY FamilyIsLeast DEF ReviewedApart, Tallied, Counted, RatingsKept, Live
<1>. QED BY <1>1, Reviewed, PTL

\* When a UI overlaps no server, synthesis, retention and the UI together refine
\* ObservationLifecycle: statuses only move along its arrows.
THEOREM Refinement == Apart /\ Spec => FollowsLifecycle
<1>. SUFFICES ASSUME Apart PROVE Spec => FollowsLifecycle
  OBVIOUS
<1>1. Init => Lifecycle!Init
  BY DEF Init, Lifecycle!Init
<1>2. Inv /\ ReviewedApart /\ [Next]_vars => [Lifecycle!Next]_obs
  <2>. SUFFICES ASSUME Inv, ReviewedApart, [Next]_vars PROVE Lifecycle!Next
    OBVIOUS
  <2>1. obs' \in [Observations -> Lifecycle!Statuses]
    BY NextInv DEF Inv, TypeInv, TypeOK, Statuses, Lifecycle!Statuses
  <2>2. ASSUME NEW o \in Observations
        PROVE  obs'[o] = obs[o] \/ obs'[o] \in Lifecycle!After[obs[o]]
    <3>1. obs[o] \in Statuses
      BY DEF Inv, TypeInv, TypeOK
    <3>. QED BY <3>1, ObsSteps DEF Statuses, Lifecycle!After
  <2>. QED BY <2>1, <2>2 DEF Lifecycle!Next
<1>3. Spec => []ReviewedApart
  BY Reviewed
<1>. QED BY <1>1, <1>2, <1>3, Invariant, PTL DEF Spec, FollowsLifecycle, Lifecycle!Spec
================================================================================
