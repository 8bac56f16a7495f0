---------------------------- MODULE GraphProofs ----------------------------
(***************************************************************************)
(* What the notions of TypeGraph mean, for modules of any size: the        *)
(* definitions that others reach, and those with a value of finite size.   *)
(* Both are sets computed in as many rounds as there are definitions; here *)
(* they are shown to be the smallest sets closed under a step.             *)
(***************************************************************************)
EXTENDS TypeGraph, FiniteSetTheorems, WellFoundedInduction, TLAPS

(* Induction over numbers, from the theorem that finite sets have minimal  *)
(* elements.                                                               *)

LEMMA SmallestOf ==
  ASSUME NEW T, T \subseteq Nat, T # {}
  PROVE  \E x \in T : \A y \in T : x <= y
<1>1. PICK n \in T : TRUE
  OBVIOUS
<1>2. n \in Nat
  OBVIOUS
<1> DEFINE R == StrictSubsetOrdering(0 .. n)
           S == FiniteSubsetsOf(0 .. n)
           F == {0 .. k : k \in {j \in T : j <= n}}
<1>3. IsWellFoundedOn(R, S)
  BY FS_StrictSubsetOrderingWellFounded
<1>4. IsFiniteSet(0 .. n)
  BY <1>2, FS_Interval
<1>5. S = SUBSET (0 .. n)
  BY <1>4, FS_FiniteSubsetsOfFinite
<1>6. F \subseteq S /\ F # {}
  BY <1>1, <1>2, <1>5
<1> HIDE DEF R, S, F
<1>7. \E X \in F : \A Y \in F : <<Y, X>> \notin R
  BY <1>3, <1>6, WFMin
<1>8. PICK k \in T : k <= n /\ \A Y \in F : <<Y, 0 .. k>> \notin R
  BY <1>7 DEF F
<1>9. ASSUME NEW y \in T, y < k PROVE FALSE
  <2>1. 0 .. y \in F
    BY <1>2, <1>8, <1>9 DEF F
  <2>2. <<0 .. y, 0 .. k>> \in R
    BY <1>2, <1>8, <1>9 DEF R, StrictSubsetOrdering
  <2> QED
    BY <1>8, <2>1, <2>2
<1> QED
  BY <1>8, <1>9

LEMMA UpTo ==
  ASSUME NEW n \in Nat, NEW S, 0 \in S, \A k \in 0 .. n - 1 : k \in S => k + 1 \in S
  PROVE  \A k \in 0 .. n : k \in S
<1> DEFINE Bad == {k \in 0 .. n : k \notin S}
<1> SUFFICES ASSUME Bad # {} PROVE FALSE
  OBVIOUS
<1>1. Bad \subseteq Nat
  OBVIOUS
<1> HIDE DEF Bad
<1>2. PICK k \in Bad : \A j \in Bad : k <= j
  BY <1>1, SmallestOf
<1>3. k \in 0 .. n /\ k \notin S /\ k # 0
  BY DEF Bad
<1>4. k - 1 \in 0 .. n - 1 /\ k - 1 \notin Bad
  BY <1>1, <1>2, <1>3
<1>5. k - 1 \in S
  BY <1>3, <1>4 DEF Bad
<1> QED
  BY <1>3, <1>4, <1>5

-----------------------------------------------------------------------------
(* Rounds that each make a set of the last one, by a function that is      *)
(* monotonic: as many rounds as there are nodes reach its smallest fixed   *)
(* point.                                                                  *)

IsRounds(f, F, first, n) ==
  f = [k \in 0 .. n |-> IF k = 0 THEN first ELSE F[f[k-1]]]

IsMonotonic(F, n) ==
  /\ F \in [SUBSET (1 .. n) -> SUBSET (1 .. n)]
  /\ \A X, Y \in SUBSET (1 .. n) : X \subseteq Y => F[X] \subseteq F[Y]

IsSmallest(R, F, first, n) ==
  /\ R \subseteq 1 .. n /\ first \subseteq R /\ F[R] = R
  /\ \A X \in SUBSET (1 .. n) : first \subseteq X /\ F[X] \subseteq X => R \subseteq X

LEMMA RoundsExist ==
  ASSUME NEW F, NEW first, NEW n \in Nat
  PROVE  \E f : IsRounds(f, F, first, n)
<1> DEFINE S == {k \in 0 .. n : \E f : IsRounds(f, F, first, k)}
<1>1. 0 \in S
  <2> DEFINE f == [k \in 0 .. 0 |-> first]
  <2>1. IsRounds(f, F, first, 0)
    BY DEF IsRounds
  <2> QED
    BY <2>1
<1>2. ASSUME NEW k \in 0 .. n - 1, k \in S PROVE k + 1 \in S
  <2>1. PICK f : IsRounds(f, F, first, k)
    BY <1>2
  <2>2. k \in Nat /\ k + 1 \in 0 .. n
    OBVIOUS
  <2> DEFINE g == [j \in 0 .. k + 1 |-> IF j <= k THEN f[j] ELSE F[f[k]]]
             h == [j \in 0 .. k + 1 |-> IF j = 0 THEN first ELSE F[g[j-1]]]
  <2>3. f = [j \in 0 .. k |-> IF j = 0 THEN first ELSE F[f[j-1]]]
    BY <2>1 DEF IsRounds
  <2>4. ASSUME NEW j \in 0 .. k + 1 PROVE g[j] = h[j]
    <3>1. CASE j <= k
      BY <2>2, <2>3, <3>1
    <3>2. CASE j = k + 1
      BY <2>2, <3>2
    <3> QED
      BY <2>2, <3>1, <3>2
  <2>5. g = [j \in 0 .. k + 1 |-> g[j]] /\ h = [j \in 0 .. k + 1 |-> h[j]]
    OBVIOUS
  <2> HIDE DEF g, h
  <2>6. g = h
    BY <2>4, <2>5
  <2>7. IsRounds(g, F, first, k + 1)
    BY <2>6 DEF IsRounds, h
  <2> QED
    BY <2>2, <2>7
<1> HIDE DEF S
<1>3. n \in S
  BY <1>1, <1>2, UpTo
<1> QED
  BY <1>3 DEF S

LEMMA RoundsStep ==
  ASSUME NEW f, NEW F, NEW first, NEW n \in Nat, IsRounds(f, F, first, n)
  PROVE  f[0] = first /\ \A k \in 0 .. n - 1 : f[k+1] = F[f[k]]
<1>1. \A k \in 0 .. n : f[k] = IF k = 0 THEN first ELSE F[f[k-1]]
  BY DEF IsRounds
<1>2. f[0] = first
  BY <1>1
<1>3. ASSUME NEW k \in 0 .. n - 1 PROVE f[k+1] = F[f[k]]
  <2>1. k + 1 \in 0 .. n /\ k + 1 # 0 /\ (k + 1) - 1 = k
    OBVIOUS
  <2> QED
    BY <1>1, <2>1
<1> QED
  BY <1>2, <1>3

\* The rounds stay within every set that the function does not leave.
LEMMA RoundsWithin ==
  ASSUME NEW f, NEW F, NEW first, NEW n \in Nat, IsRounds(f, F, first, n), IsMonotonic(F, n),
         NEW X \in SUBSET (1 .. n), first \subseteq X, F[X] \subseteq X
  PROVE  \A k \in 0 .. n : f[k] \subseteq X
<1> DEFINE S == {k \in 0 .. n : f[k] \subseteq X}
<1>1. 0 \in S
  <2>1. f[0] = first /\ 0 \in 0 .. n
    BY RoundsStep
  <2> QED
    BY <2>1
<1>2. ASSUME NEW k \in 0 .. n - 1, k \in S PROVE k + 1 \in S
  <2>1. f[k+1] = F[f[k]] /\ f[k] \subseteq X /\ k + 1 \in 0 .. n
    BY <1>2, RoundsStep
  <2>2. F[f[k]] \subseteq F[X]
    BY <2>1 DEF IsMonotonic
  <2> QED
    BY <2>1, <2>2
<1> HIDE DEF S
<1>3. \A k \in 0 .. n : k \in S
  BY <1>1, <1>2, UpTo
<1> QED
  BY <1>3 DEF S

LEMMA RoundsGrow ==
  ASSUME NEW f, NEW F, NEW first, NEW n \in Nat, IsRounds(f, F, first, n), IsMonotonic(F, n),
         first \subseteq 1 .. n, first \subseteq F[first]
  PROVE  \A k \in 0 .. n : f[k] \subseteq 1 .. n /\ f[k] \subseteq F[f[k]] /\ first \subseteq f[k]
<1> DEFINE S == {k \in 0 .. n : f[k] \subseteq 1 .. n /\ f[k] \subseteq F[f[k]] /\ first \subseteq f[k]}
<1>1. 0 \in S
  <2>1. f[0] = first /\ 0 \in 0 .. n
    BY RoundsStep
  <2> QED
    BY <2>1
<1>2. ASSUME NEW k \in 0 .. n - 1, k \in S PROVE k + 1 \in S
  <2>1. /\ f[k+1] = F[f[k]] /\ f[k] \subseteq F[f[k]] /\ f[k] \in SUBSET (1 .. n)
        /\ first \subseteq f[k] /\ k + 1 \in 0 .. n
    BY <1>2, RoundsStep
  <2>2. f[k+1] \in SUBSET (1 .. n)
    BY <2>1 DEF IsMonotonic
  <2>3. F[f[k]] \subseteq F[f[k+1]]
    BY <2>1, <2>2 DEF IsMonotonic
  <2> QED
    BY <2>1, <2>2, <2>3
<1> HIDE DEF S
<1>3. \A k \in 0 .. n : k \in S
  BY <1>1, <1>2, UpTo
<1> QED
  BY <1>3 DEF S

LEMMA RoundsSaturate ==
  ASSUME NEW f, NEW F, NEW first, NEW n \in Nat, IsRounds(f, F, first, n), IsMonotonic(F, n),
         first \subseteq 1 .. n, first \subseteq F[first]
  PROVE  F[f[n]] = f[n]
<1>1. \A k \in 0 .. n : f[k] \in SUBSET (1 .. n) /\ f[k] \subseteq F[f[k]]
  BY RoundsGrow
<1>2. IsFiniteSet(1 .. n) /\ Cardinality(1 .. n) = n
  BY FS_Interval
<1>3. \A k \in 0 .. n : IsFiniteSet(f[k]) /\ Cardinality(f[k]) \in Nat
  BY <1>1, <1>2, FS_Subset, FS_CardinalityType
<1> DEFINE S == {k \in 0 .. n : F[f[k]] = f[k] \/ Cardinality(f[k]) >= k}
<1>4. 0 \in S
  BY <1>3
<1>5. ASSUME NEW k \in 0 .. n - 1, k \in S PROVE k + 1 \in S
  <2>1. f[k+1] = F[f[k]] /\ k \in 0 .. n /\ k + 1 \in 0 .. n
    BY RoundsStep
  <2>2. CASE F[f[k]] = f[k]
    BY <2>1, <2>2
  <2>3. CASE F[f[k]] # f[k]
    <3>1. f[k] \subseteq f[k+1] /\ f[k] # f[k+1]
      BY <1>1, <2>1, <2>3
    <3>2. Cardinality(f[k]) >= k
      BY <1>5, <2>3
    <3>3. Cardinality(f[k]) <= Cardinality(f[k+1]) /\ Cardinality(f[k]) # Cardinality(f[k+1])
      BY <1>3, <2>1, <3>1, FS_Subset
    <3>4. Cardinality(f[k+1]) >= k + 1
      BY <1>3, <2>1, <3>2, <3>3
    <3> QED
      BY <2>1, <3>4
  <2> QED
    BY <2>2, <2>3
<1> HIDE DEF S
<1>6. n \in S
  BY <1>4, <1>5, UpTo
<1>7. n \in 0 .. n /\ (F[f[n]] = f[n] \/ Cardinality(f[n]) >= n)
  BY <1>6 DEF S
<1>8. CASE Cardinality(f[n]) >= n
  <2>1. Cardinality(f[n]) <= n
    BY <1>1, <1>2, <1>7, FS_Subset
  <2>2. Cardinality(f[n]) = Cardinality(1 .. n)
    BY <1>2, <1>3, <1>7, <1>8, <2>1
  <2>3. f[n] = 1 .. n
    BY <1>1, <1>2, <1>7, <2>2, FS_Subset
  <2>4. F[f[n]] \subseteq 1 .. n
    BY <1>1, <1>7 DEF IsMonotonic
  <2> QED
    BY <1>1, <1>7, <2>3, <2>4
<1> QED
  BY <1>7, <1>8

LEMMA RoundsSmallest ==
  ASSUME NEW f, NEW F, NEW first, NEW n \in Nat, IsRounds(f, F, first, n), IsMonotonic(F, n),
         first \subseteq 1 .. n, first \subseteq F[first]
  PROVE  IsSmallest(f[n], F, first, n)
<1>1. n \in 0 .. n
  OBVIOUS
<1>2. f[n] \subseteq 1 .. n /\ first \subseteq f[n]
  BY <1>1, RoundsGrow
<1>3. F[f[n]] = f[n]
  BY RoundsSaturate
<1>4. \A X \in SUBSET (1 .. n) : first \subseteq X /\ F[X] \subseteq X => f[n] \subseteq X
  BY <1>1, RoundsWithin
<1> QED
  BY <1>2, <1>3, <1>4 DEF IsSmallest

\* Rounds that are known to be so only where they are within the nodes.
LEMMA RoundsWherever ==
  ASSUME NEW g, NEW F, NEW first, NEW n \in Nat, IsMonotonic(F, n), first \subseteq 1 .. n,
         g = [k \in 0 .. n |-> g[k]], g[0] = first,
         \A k \in 0 .. n - 1 : g[k] \subseteq 1 .. n => g[k+1] = F[g[k]]
  PROVE  IsRounds(g, F, first, n)
<1> DEFINE S == {k \in 0 .. n : g[k] \subseteq 1 .. n}
<1>1. 0 \in S
  OBVIOUS
<1>2. ASSUME NEW k \in 0 .. n - 1, k \in S PROVE k + 1 \in S
  <2>1. k + 1 \in 0 .. n /\ g[k] \in SUBSET (1 .. n)
    BY <1>2
  <2>2. g[k+1] = F[g[k]]
    BY <2>1
  <2>3. F[g[k]] \subseteq 1 .. n
    BY <2>1 DEF IsMonotonic
  <2> QED
    BY <2>1, <2>2, <2>3
<1> HIDE DEF S
<1>3. \A k \in 0 .. n : k \in S
  BY <1>1, <1>2, UpTo
<1>4. \A k \in 0 .. n : g[k] \subseteq 1 .. n
  BY <1>3 DEF S
<1> DEFINE h == [k \in 0 .. n |-> IF k = 0 THEN first ELSE F[g[k-1]]]
<1>5. ASSUME NEW k \in 0 .. n PROVE g[k] = h[k]
  <2>1. CASE k = 0
    BY <2>1
  <2>2. CASE k # 0
    <3>1. k - 1 \in 0 .. n - 1 /\ k - 1 \in 0 .. n /\ (k - 1) + 1 = k
      BY <2>2
    <3>2. g[(k-1)+1] = F[g[k-1]]
      BY <1>4, <3>1
    <3> QED
      BY <2>2, <3>1, <3>2
  <2> QED
    BY <2>1, <2>2
<1>6. h = [k \in 0 .. n |-> h[k]]
  OBVIOUS
<1> HIDE DEF h
<1>7. g = h
  BY <1>5, <1>6
<1> QED
  BY <1>7 DEF h, IsRounds

-----------------------------------------------------------------------------
(* What the definitions of a module reach.                                 *)

LEMMA ModuleFacts ==
  ASSUME IsModule(types)
  PROVE  /\ Len(types) \in Nat /\ TypeDefs = 1 .. Len(types)
         /\ \A td \in TypeDefs :
              /\ types[td].kind \in Kinds /\ types[td].others \in Nat
              /\ Len(ElementsOf(td)) \in Nat /\ DOMAIN ElementsOf(td) = 1 .. Len(ElementsOf(td))
              /\ \A i \in DOMAIN ElementsOf(td) :
                   ElementsOf(td)[i].to \in TypeDefs /\ ElementsOf(td)[i].opt \in BOOLEAN
              /\ IsRef(td) => Len(ElementsOf(td)) = 1
              /\ types[td].kind = "library" => ElementsOf(td) = << >>
              /\ types[td].kind = "choice" => Arity(td) > 0
              /\ \A i \in DOMAIN ElementsOf(td) :
                   ElementsOf(td)[i].opt => types[td].kind \in {"set", "sequence"}
<1> DEFINE reference == [to : 1 .. Len(types), opt : BOOLEAN]
           definition == [kind : Kinds, refs : Seq(reference), others : Nat]
<1>1. types \in Seq(definition) /\ \A td \in DOMAIN types : types[td].kind = "ref" => Len(types[td].refs) = 1
  BY DEF IsModule
<1>0. ASSUME NEW td \in TypeDefs
      PROVE  /\ types[td].kind = "library" => ElementsOf(td) = << >>
             /\ types[td].kind = "choice" => Arity(td) > 0
             /\ \A i \in DOMAIN ElementsOf(td) :
                  ElementsOf(td)[i].opt => types[td].kind \in {"set", "sequence"}
  BY DEF IsModule, TypeDefs, ElementsOf, Arity
<1>2. Len(types) \in Nat /\ TypeDefs = 1 .. Len(types)
  <2> HIDE DEF definition
  <2> QED
    BY <1>1 DEF TypeDefs
<1>3. ASSUME NEW td \in TypeDefs
      PROVE  /\ types[td].kind \in Kinds /\ types[td].others \in Nat
             /\ ElementsOf(td) \in Seq(reference)
             /\ IsRef(td) => Len(ElementsOf(td)) = 1
  <2>1. types[td] \in definition
    <3> HIDE DEF definition
    <3> QED
      BY <1>1, <1>2
  <2> HIDE DEF reference
  <2> QED
    BY <1>1, <2>1 DEF ElementsOf, IsRef, TypeDefs
<1>4. ASSUME NEW td \in TypeDefs
      PROVE  /\ Len(ElementsOf(td)) \in Nat /\ DOMAIN ElementsOf(td) = 1 .. Len(ElementsOf(td))
             /\ \A i \in DOMAIN ElementsOf(td) :
                  ElementsOf(td)[i].to \in TypeDefs /\ ElementsOf(td)[i].opt \in BOOLEAN
  <2>1. ElementsOf(td) \in Seq(reference)
    BY <1>3
  <2>2. /\ Len(ElementsOf(td)) \in Nat /\ DOMAIN ElementsOf(td) = 1 .. Len(ElementsOf(td))
        /\ \A i \in DOMAIN ElementsOf(td) : ElementsOf(td)[i] \in reference
    <3> HIDE DEF reference
    <3> QED
      BY <2>1
  <2> QED
    BY <1>2, <2>2
<1> HIDE DEF definition, reference
<1> QED
  BY <1>0, <1>2, <1>3, <1>4

\* The references of a definition are among the definitions.
LEMMA StepsWithin ==
  ASSUME IsModule(types), NEW td \in TypeDefs
  PROVE  RefsOf(td) \subseteq TypeDefs /\ NothingBut(td) \subseteq RefsOf(td)
         /\ ByValueRefsOf(td) \subseteq RefsOf(td)
BY ModuleFacts DEF RefsOf, NothingBut, ByValueRefsOf

\* What a definition reaches is the smallest set that holds what it refers to
\* and all that its members refer to.
LEMMA ReachedByRefsOf ==
  ASSUME IsModule(types), NEW td \in TypeDefs
  PROVE  /\ ReachedBy(RefsOf, td) \subseteq TypeDefs
         /\ RefsOf(td) \subseteq ReachedBy(RefsOf, td)
         /\ \A d \in ReachedBy(RefsOf, td) : RefsOf(d) \subseteq ReachedBy(RefsOf, td)
         /\ \A X \in SUBSET TypeDefs :
              RefsOf(td) \subseteq X /\ (\A d \in X : RefsOf(d) \subseteq X) => ReachedBy(RefsOf, td) \subseteq X
<1> DEFINE n == Len(types)
           F == [X \in SUBSET (1 .. n) |-> X \cup UNION {RefsOf(d) : d \in X}]
           reached[k \in 0 .. n] ==
             IF k = 0 THEN RefsOf(td) ELSE reached[k-1] \cup UNION {RefsOf(d) : d \in reached[k-1]}
           Row(g) == [k \in 0 .. n |->
             IF k = 0 THEN RefsOf(td) ELSE g[k-1] \cup UNION {RefsOf(d) : d \in g[k-1]}]
<1>1. n \in Nat /\ n \in 0 .. n /\ TypeDefs = 1 .. n
  BY ModuleFacts
<1>2. \A d \in 1 .. n : RefsOf(d) \subseteq 1 .. n
  BY <1>1, StepsWithin
<1>3. \A X \in SUBSET (1 .. n) : F[X] = X \cup UNION {RefsOf(d) : d \in X} /\ F[X] \in SUBSET (1 .. n)
  BY <1>2
<1>4. ReachedBy(RefsOf, td) = reached[n]
  BY DEF ReachedBy
<1>5. IsMonotonic(F, n)
  <2>1. F = [X \in SUBSET (1 .. n) |-> F[X]]
    OBVIOUS
  <2> HIDE DEF F, reached
  <2>2. F \in [SUBSET (1 .. n) -> SUBSET (1 .. n)]
    BY <1>3, <2>1
  <2>3. \A X, Y \in SUBSET (1 .. n) : X \subseteq Y => F[X] \subseteq F[Y]
    BY <1>3
  <2> QED
    BY <2>2, <2>3 DEF IsMonotonic
<1> HIDE DEF F
<1>6. RefsOf(td) \in SUBSET (1 .. n) /\ RefsOf(td) \subseteq F[RefsOf(td)]
  BY <1>1, <1>2, <1>3
<1>7. reached = Row(reached)
  <2>1. PICK f : IsRounds(f, F, RefsOf(td), n)
    BY <1>1, RoundsExist
  <2>2. \A k \in 0 .. n : f[k] \in SUBSET (1 .. n)
    BY <1>1, <1>5, <1>6, <2>1, RoundsGrow
  <2>3. f = [k \in 0 .. n |-> IF k = 0 THEN RefsOf(td) ELSE F[f[k-1]]]
    BY <2>1 DEF IsRounds
  <2>4. \A k \in 0 .. n : k # 0 => F[f[k-1]] = f[k-1] \cup UNION {RefsOf(d) : d \in f[k-1]}
    BY <1>1, <1>3, <2>2
  <2>5. f = Row(f)
    BY <2>3, <2>4
  <2> QED
    BY <2>5
<1> HIDE DEF reached
<1>8. IsRounds(reached, F, RefsOf(td), n)
  <2>1. reached = [k \in 0 .. n |-> reached[k]] /\ reached[0] = RefsOf(td)
    BY <1>1, <1>7
  <2>2. ASSUME NEW k \in 0 .. n - 1, reached[k] \subseteq 1 .. n PROVE reached[k+1] = F[reached[k]]
    <3>1. k + 1 \in 0 .. n /\ k + 1 # 0 /\ (k + 1) - 1 = k
      BY <1>1
    <3>2. reached[k+1] = Row(reached)[k+1]
      BY <1>7
    <3>3. reached[k+1] = reached[k] \cup UNION {RefsOf(d) : d \in reached[k]}
      BY <3>1, <3>2
    <3> QED
      BY <1>3, <2>2, <3>3
  <2> QED
    BY <1>1, <1>5, <1>6, <2>1, <2>2, RoundsWherever
<1>9. IsSmallest(reached[n], F, RefsOf(td), n)
  BY <1>1, <1>5, <1>6, <1>8, RoundsSmallest
<1> DEFINE R == reached[n]
<1>10. /\ R \in SUBSET (1 .. n) /\ RefsOf(td) \subseteq R /\ F[R] = R
       /\ \A X \in SUBSET (1 .. n) : RefsOf(td) \subseteq X /\ F[X] \subseteq X => R \subseteq X
  BY <1>9 DEF IsSmallest
<1> HIDE DEF R
<1>11. \A d \in R : RefsOf(d) \subseteq R
  BY <1>3, <1>10
<1>12. \A X \in SUBSET (1 .. n) :
         RefsOf(td) \subseteq X /\ (\A d \in X : RefsOf(d) \subseteq X) => R \subseteq X
  <2> TAKE X \in SUBSET (1 .. n)
  <2> HAVE RefsOf(td) \subseteq X /\ (\A d \in X : RefsOf(d) \subseteq X)
  <2>1. F[X] \subseteq X
    BY <1>3
  <2> QED
    BY <1>10, <2>1
<1>13. ReachedBy(RefsOf, td) = R
  BY <1>4 DEF R
<1> QED
  BY <1>1, <1>10, <1>11, <1>12, <1>13

LEMMA ReachedByNothingBut ==
  ASSUME IsModule(types), NEW td \in TypeDefs
  PROVE  /\ ReachedBy(NothingBut, td) \subseteq TypeDefs
         /\ NothingBut(td) \subseteq ReachedBy(NothingBut, td)
         /\ \A d \in ReachedBy(NothingBut, td) : NothingBut(d) \subseteq ReachedBy(NothingBut, td)
         /\ \A X \in SUBSET TypeDefs :
              NothingBut(td) \subseteq X /\ (\A d \in X : NothingBut(d) \subseteq X) => ReachedBy(NothingBut, td) \subseteq X
<1> DEFINE n == Len(types)
           F == [X \in SUBSET (1 .. n) |-> X \cup UNION {NothingBut(d) : d \in X}]
           reached[k \in 0 .. n] ==
             IF k = 0 THEN NothingBut(td) ELSE reached[k-1] \cup UNION {NothingBut(d) : d \in reached[k-1]}
           Row(g) == [k \in 0 .. n |->
             IF k = 0 THEN NothingBut(td) ELSE g[k-1] \cup UNION {NothingBut(d) : d \in g[k-1]}]
<1>1. n \in Nat /\ n \in 0 .. n /\ TypeDefs = 1 .. n
  BY ModuleFacts
<1>2. \A d \in 1 .. n : NothingBut(d) \subseteq 1 .. n
  BY <1>1, StepsWithin
<1>3. \A X \in SUBSET (1 .. n) : F[X] = X \cup UNION {NothingBut(d) : d \in X} /\ F[X] \in SUBSET (1 .. n)
  BY <1>2
<1>4. ReachedBy(NothingBut, td) = reached[n]
  BY DEF ReachedBy
<1>5. IsMonotonic(F, n)
  <2>1. F = [X \in SUBSET (1 .. n) |-> F[X]]
    OBVIOUS
  <2> HIDE DEF F, reached
  <2>2. F \in [SUBSET (1 .. n) -> SUBSET (1 .. n)]
    BY <1>3, <2>1
  <2>3. \A X, Y \in SUBSET (1 .. n) : X \subseteq Y => F[X] \subseteq F[Y]
    BY <1>3
  <2> QED
    BY <2>2, <2>3 DEF IsMonotonic
<1> HIDE DEF F
<1>6. NothingBut(td) \in SUBSET (1 .. n) /\ NothingBut(td) \subseteq F[NothingBut(td)]
  BY <1>1, <1>2, <1>3
<1>7. reached = Row(reached)
  <2>1. PICK f : IsRounds(f, F, NothingBut(td), n)
    BY <1>1, RoundsExist
  <2>2. \A k \in 0 .. n : f[k] \in SUBSET (1 .. n)
    BY <1>1, <1>5, <1>6, <2>1, RoundsGrow
  <2>3. f = [k \in 0 .. n |-> IF k = 0 THEN NothingBut(td) ELSE F[f[k-1]]]
    BY <2>1 DEF IsRounds
  <2>4. \A k \in 0 .. n : k # 0 => F[f[k-1]] = f[k-1] \cup UNION {NothingBut(d) : d \in f[k-1]}
    BY <1>1, <1>3, <2>2
  <2>5. f = Row(f)
    BY <2>3, <2>4
  <2> QED
    BY <2>5
<1> HIDE DEF reached
<1>8. IsRounds(reached, F, NothingBut(td), n)
  <2>1. reached = [k \in 0 .. n |-> reached[k]] /\ reached[0] = NothingBut(td)
    BY <1>1, <1>7
  <2>2. ASSUME NEW k \in 0 .. n - 1, reached[k] \subseteq 1 .. n PROVE reached[k+1] = F[reached[k]]
    <3>1. k + 1 \in 0 .. n /\ k + 1 # 0 /\ (k + 1) - 1 = k
      BY <1>1
    <3>2. reached[k+1] = Row(reached)[k+1]
      BY <1>7
    <3>3. reached[k+1] = reached[k] \cup UNION {NothingBut(d) : d \in reached[k]}
      BY <3>1, <3>2
    <3> QED
      BY <1>3, <2>2, <3>3
  <2> QED
    BY <1>1, <1>5, <1>6, <2>1, <2>2, RoundsWherever
<1>9. IsSmallest(reached[n], F, NothingBut(td), n)
  BY <1>1, <1>5, <1>6, <1>8, RoundsSmallest
<1> DEFINE R == reached[n]
<1>10. /\ R \in SUBSET (1 .. n) /\ NothingBut(td) \subseteq R /\ F[R] = R
       /\ \A X \in SUBSET (1 .. n) : NothingBut(td) \subseteq X /\ F[X] \subseteq X => R \subseteq X
  BY <1>9 DEF IsSmallest
<1> HIDE DEF R
<1>11. \A d \in R : NothingBut(d) \subseteq R
  BY <1>3, <1>10
<1>12. \A X \in SUBSET (1 .. n) :
         NothingBut(td) \subseteq X /\ (\A d \in X : NothingBut(d) \subseteq X) => R \subseteq X
  <2> TAKE X \in SUBSET (1 .. n)
  <2> HAVE NothingBut(td) \subseteq X /\ (\A d \in X : NothingBut(d) \subseteq X)
  <2>1. F[X] \subseteq X
    BY <1>3
  <2> QED
    BY <1>10, <2>1
<1>13. ReachedBy(NothingBut, td) = R
  BY <1>4 DEF R
<1> QED
  BY <1>1, <1>10, <1>11, <1>12, <1>13

LEMMA ReachedByByValueRefsOf ==
  ASSUME IsModule(types), NEW td \in TypeDefs
  PROVE  /\ ReachedBy(ByValueRefsOf, td) \subseteq TypeDefs
         /\ ByValueRefsOf(td) \subseteq ReachedBy(ByValueRefsOf, td)
         /\ \A d \in ReachedBy(ByValueRefsOf, td) : ByValueRefsOf(d) \subseteq ReachedBy(ByValueRefsOf, td)
         /\ \A X \in SUBSET TypeDefs :
              ByValueRefsOf(td) \subseteq X /\ (\A d \in X : ByValueRefsOf(d) \subseteq X) => ReachedBy(ByValueRefsOf, td) \subseteq X
<1> DEFINE n == Len(types)
           F == [X \in SUBSET (1 .. n) |-> X \cup UNION {ByValueRefsOf(d) : d \in X}]
           reached[k \in 0 .. n] ==
             IF k = 0 THEN ByValueRefsOf(td) ELSE reached[k-1] \cup UNION {ByValueRefsOf(d) : d \in reached[k-1]}
           Row(g) == [k \in 0 .. n |->
             IF k = 0 THEN ByValueRefsOf(td) ELSE g[k-1] \cup UNION {ByValueRefsOf(d) : d \in g[k-1]}]
<1>1. n \in Nat /\ n \in 0 .. n /\ TypeDefs = 1 .. n
  BY ModuleFacts
<1>2. \A d \in 1 .. n : ByValueRefsOf(d) \subseteq 1 .. n
  BY <1>1, StepsWithin
<1>3. \A X \in SUBSET (1 .. n) : F[X] = X \cup UNION {ByValueRefsOf(d) : d \in X} /\ F[X] \in SUBSET (1 .. n)
  BY <1>2
<1>4. ReachedBy(ByValueRefsOf, td) = reached[n]
  BY DEF ReachedBy
<1>5. IsMonotonic(F, n)
  <2>1. F = [X \in SUBSET (1 .. n) |-> F[X]]
    OBVIOUS
  <2> HIDE DEF F, reached
  <2>2. F \in [SUBSET (1 .. n) -> SUBSET (1 .. n)]
    BY <1>3, <2>1
  <2>3. \A X, Y \in SUBSET (1 .. n) : X \subseteq Y => F[X] \subseteq F[Y]
    BY <1>3
  <2> QED
    BY <2>2, <2>3 DEF IsMonotonic
<1> HIDE DEF F
<1>6. ByValueRefsOf(td) \in SUBSET (1 .. n) /\ ByValueRefsOf(td) \subseteq F[ByValueRefsOf(td)]
  BY <1>1, <1>2, <1>3
<1>7. reached = Row(reached)
  <2>1. PICK f : IsRounds(f, F, ByValueRefsOf(td), n)
    BY <1>1, RoundsExist
  <2>2. \A k \in 0 .. n : f[k] \in SUBSET (1 .. n)
    BY <1>1, <1>5, <1>6, <2>1, RoundsGrow
  <2>3. f = [k \in 0 .. n |-> IF k = 0 THEN ByValueRefsOf(td) ELSE F[f[k-1]]]
    BY <2>1 DEF IsRounds
  <2>4. \A k \in 0 .. n : k # 0 => F[f[k-1]] = f[k-1] \cup UNION {ByValueRefsOf(d) : d \in f[k-1]}
    BY <1>1, <1>3, <2>2
  <2>5. f = Row(f)
    BY <2>3, <2>4
  <2> QED
    BY <2>5
<1> HIDE DEF reached
<1>8. IsRounds(reached, F, ByValueRefsOf(td), n)
  <2>1. reached = [k \in 0 .. n |-> reached[k]] /\ reached[0] = ByValueRefsOf(td)
    BY <1>1, <1>7
  <2>2. ASSUME NEW k \in 0 .. n - 1, reached[k] \subseteq 1 .. n PROVE reached[k+1] = F[reached[k]]
    <3>1. k + 1 \in 0 .. n /\ k + 1 # 0 /\ (k + 1) - 1 = k
      BY <1>1
    <3>2. reached[k+1] = Row(reached)[k+1]
      BY <1>7
    <3>3. reached[k+1] = reached[k] \cup UNION {ByValueRefsOf(d) : d \in reached[k]}
      BY <3>1, <3>2
    <3> QED
      BY <1>3, <2>2, <3>3
  <2> QED
    BY <1>1, <1>5, <1>6, <2>1, <2>2, RoundsWherever
<1>9. IsSmallest(reached[n], F, ByValueRefsOf(td), n)
  BY <1>1, <1>5, <1>6, <1>8, RoundsSmallest
<1> DEFINE R == reached[n]
<1>10. /\ R \in SUBSET (1 .. n) /\ ByValueRefsOf(td) \subseteq R /\ F[R] = R
       /\ \A X \in SUBSET (1 .. n) : ByValueRefsOf(td) \subseteq X /\ F[X] \subseteq X => R \subseteq X
  BY <1>9 DEF IsSmallest
<1> HIDE DEF R
<1>11. \A d \in R : ByValueRefsOf(d) \subseteq R
  BY <1>3, <1>10
<1>12. \A X \in SUBSET (1 .. n) :
         ByValueRefsOf(td) \subseteq X /\ (\A d \in X : ByValueRefsOf(d) \subseteq X) => R \subseteq X
  <2> TAKE X \in SUBSET (1 .. n)
  <2> HAVE ByValueRefsOf(td) \subseteq X /\ (\A d \in X : ByValueRefsOf(d) \subseteq X)
  <2>1. F[X] \subseteq X
    BY <1>3
  <2> QED
    BY <1>10, <2>1
<1>13. ReachedBy(ByValueRefsOf, td) = R
  BY <1>4 DEF R
<1> QED
  BY <1>1, <1>10, <1>11, <1>12, <1>13

-----------------------------------------------------------------------------
\* The chain of references that begins at a definition ends with the first one
\* that is no reference, or closes.
LEMMA ChainIsClosed ==
  ASSUME IsModule(types), NEW td \in TypeDefs
  PROVE  /\ Chain(td) \subseteq TypeDefs /\ td \in Chain(td)
         /\ \A d \in Chain(td) : IsRef(d) => Link(d) \in Chain(td)
         /\ \A X \in SUBSET TypeDefs :
              td \in X /\ (\A d \in X : IsRef(d) => Link(d) \in X) => Chain(td) \subseteq X
<1> DEFINE n == Len(types)
           F == [X \in SUBSET (1 .. n) |-> X \cup {Link(d) : d \in {e \in X : IsRef(e)}}]
           reached[k \in 0 .. n] ==
             IF k = 0 THEN {td} ELSE reached[k-1] \cup {Link(d) : d \in {e \in reached[k-1] : IsRef(e)}}
           Row(g) == [k \in 0 .. n |->
             IF k = 0 THEN {td} ELSE g[k-1] \cup {Link(d) : d \in {e \in g[k-1] : IsRef(e)}}]
<1>1. n \in Nat /\ n \in 0 .. n /\ TypeDefs = 1 .. n
  BY ModuleFacts
<1>2. \A d \in 1 .. n : IsRef(d) => Link(d) \in 1 .. n
  BY <1>1, ModuleFacts DEF Link
<1>3. \A X \in SUBSET (1 .. n) :
        F[X] = X \cup {Link(d) : d \in {e \in X : IsRef(e)}} /\ F[X] \in SUBSET (1 .. n)
  BY <1>2
<1>4. Chain(td) = reached[n]
  BY DEF Chain
<1>5. IsMonotonic(F, n)
  <2>1. F = [X \in SUBSET (1 .. n) |-> F[X]]
    OBVIOUS
  <2> HIDE DEF F, reached
  <2>2. F \in [SUBSET (1 .. n) -> SUBSET (1 .. n)]
    BY <1>3, <2>1
  <2>3. \A X, Y \in SUBSET (1 .. n) : X \subseteq Y => F[X] \subseteq F[Y]
    BY <1>3
  <2> QED
    BY <2>2, <2>3 DEF IsMonotonic
<1> HIDE DEF F
<1>6. {td} \in SUBSET (1 .. n) /\ {td} \subseteq F[{td}]
  BY <1>1, <1>2, <1>3
<1>7. reached = Row(reached)
  <2>1. PICK f : IsRounds(f, F, {td}, n)
    BY <1>1, RoundsExist
  <2>2. \A k \in 0 .. n : f[k] \in SUBSET (1 .. n)
    BY <1>1, <1>5, <1>6, <2>1, RoundsGrow
  <2>3. f = [k \in 0 .. n |-> IF k = 0 THEN {td} ELSE F[f[k-1]]]
    BY <2>1 DEF IsRounds
  <2>4. \A k \in 0 .. n : k # 0 => F[f[k-1]] = f[k-1] \cup {Link(d) : d \in {e \in f[k-1] : IsRef(e)}}
    BY <1>1, <1>3, <2>2
  <2>5. f = Row(f)
    BY <2>3, <2>4
  <2> QED
    BY <2>5
<1> HIDE DEF reached
<1>8. IsRounds(reached, F, {td}, n)
  <2>1. reached = [k \in 0 .. n |-> reached[k]] /\ reached[0] = {td}
    BY <1>1, <1>7
  <2>2. ASSUME NEW k \in 0 .. n - 1, reached[k] \subseteq 1 .. n PROVE reached[k+1] = F[reached[k]]
    <3>1. k + 1 \in 0 .. n /\ k + 1 # 0 /\ (k + 1) - 1 = k
      BY <1>1
    <3>2. reached[k+1] = Row(reached)[k+1]
      BY <1>7
    <3>3. reached[k+1] = reached[k] \cup {Link(d) : d \in {e \in reached[k] : IsRef(e)}}
      BY <3>1, <3>2
    <3> QED
      BY <1>3, <2>2, <3>3
  <2> QED
    BY <1>1, <1>5, <1>6, <2>1, <2>2, RoundsWherever
<1>9. IsSmallest(reached[n], F, {td}, n)
  BY <1>1, <1>5, <1>6, <1>8, RoundsSmallest
<1> DEFINE R == reached[n]
<1>10. /\ R \in SUBSET (1 .. n) /\ td \in R /\ F[R] = R
       /\ \A X \in SUBSET (1 .. n) : td \in X /\ F[X] \subseteq X => R \subseteq X
  BY <1>9 DEF IsSmallest
<1> HIDE DEF R
<1>11. \A d \in R : IsRef(d) => Link(d) \in R
  BY <1>3, <1>10
<1>12. \A X \in SUBSET (1 .. n) :
         td \in X /\ (\A d \in X : IsRef(d) => Link(d) \in X) => R \subseteq X
  <2> TAKE X \in SUBSET (1 .. n)
  <2> HAVE td \in X /\ (\A d \in X : IsRef(d) => Link(d) \in X)
  <2>1. F[X] \subseteq X
    BY <1>3
  <2> QED
    BY <1>10, <2>1
<1>13. Chain(td) = R
  BY <1>4 DEF R
<1> QED
  BY <1>1, <1>10, <1>11, <1>12, <1>13

-----------------------------------------------------------------------------
(* The definitions with a value of finite size.                            *)

\* More definitions known make more values.
LEMMA BuiltGrows ==
  ASSUME IsModule(types), NEW td \in TypeDefs, NEW X, NEW Y, X \subseteq Y, Built(td, X)
  PROVE  Built(td, Y)
<1>1. types[td].kind \in Kinds
  BY ModuleFacts
<1> QED
  BY <1>1 DEF Built, Kinds

\* They are the smallest set that holds whatever can be built of its members,
\* and it holds nothing else.
LEMMA FiniteIsBuilt ==
  ASSUME IsModule(types)
  PROVE  /\ Finite \subseteq TypeDefs
         /\ \A td \in TypeDefs : td \in Finite <=> Built(td, Finite)
         /\ \A X \in SUBSET TypeDefs :
              (\A td \in TypeDefs : Built(td, X) => td \in X) => Finite \subseteq X
<1> DEFINE n == Len(types)
           F == [X \in SUBSET (1 .. n) |-> {td \in TypeDefs : Built(td, X)}]
           finite[k \in 0 .. n] == IF k = 0 THEN {} ELSE {td \in TypeDefs : Built(td, finite[k-1])}
           Row(g) == [k \in 0 .. n |-> IF k = 0 THEN {} ELSE {td \in TypeDefs : Built(td, g[k-1])}]
<1>1. n \in Nat /\ n \in 0 .. n /\ TypeDefs = 1 .. n
  BY ModuleFacts
<1>2. \A X \in SUBSET (1 .. n) : F[X] = {td \in TypeDefs : Built(td, X)} /\ F[X] \in SUBSET (1 .. n)
  BY <1>1
<1>3. Finite = finite[n]
  BY DEF Finite
<1>4. IsMonotonic(F, n)
  <2>1. F = [X \in SUBSET (1 .. n) |-> F[X]]
    OBVIOUS
  <2> HIDE DEF F, finite
  <2>2. F \in [SUBSET (1 .. n) -> SUBSET (1 .. n)]
    BY <1>2, <2>1
  <2>3. ASSUME NEW X \in SUBSET (1 .. n), NEW Y \in SUBSET (1 .. n), X \subseteq Y
        PROVE  F[X] \subseteq F[Y]
    <3>1. \A td \in TypeDefs : Built(td, X) => Built(td, Y)
      BY <2>3, BuiltGrows
    <3> QED
      BY <1>2, <3>1
  <2> QED
    BY <2>2, <2>3 DEF IsMonotonic
<1> HIDE DEF F
<1>5. {} \in SUBSET (1 .. n) /\ {} \subseteq F[{}]
  OBVIOUS
<1>6. finite = Row(finite)
  <2>1. PICK f : IsRounds(f, F, {}, n)
    BY <1>1, RoundsExist
  <2>2. \A k \in 0 .. n : f[k] \in SUBSET (1 .. n)
    BY <1>1, <1>4, <1>5, <2>1, RoundsGrow
  <2>3. f = [k \in 0 .. n |-> IF k = 0 THEN {} ELSE F[f[k-1]]]
    BY <2>1 DEF IsRounds
  <2>4. \A k \in 0 .. n : k # 0 => F[f[k-1]] = {td \in TypeDefs : Built(td, f[k-1])}
    BY <1>1, <1>2, <2>2
  <2>5. f = Row(f)
    BY <2>3, <2>4
  <2> QED
    BY <2>5
<1> HIDE DEF finite
<1>7. IsRounds(finite, F, {}, n)
  <2>1. finite = [k \in 0 .. n |-> finite[k]] /\ finite[0] = {}
    BY <1>1, <1>6
  <2>2. ASSUME NEW k \in 0 .. n - 1, finite[k] \subseteq 1 .. n PROVE finite[k+1] = F[finite[k]]
    <3>1. k + 1 \in 0 .. n /\ k + 1 # 0 /\ (k + 1) - 1 = k
      BY <1>1
    <3>2. finite[k+1] = Row(finite)[k+1]
      BY <1>6
    <3>3. finite[k+1] = {td \in TypeDefs : Built(td, finite[k])}
      BY <3>1, <3>2
    <3> QED
      BY <1>2, <2>2, <3>3
  <2> QED
    BY <1>1, <1>4, <1>5, <2>1, <2>2, RoundsWherever
<1>8. IsSmallest(finite[n], F, {}, n)
  BY <1>1, <1>4, <1>5, <1>7, RoundsSmallest
<1>9. /\ Finite \in SUBSET (1 .. n) /\ F[Finite] = Finite
      /\ \A X \in SUBSET (1 .. n) : F[X] \subseteq X => Finite \subseteq X
  BY <1>3, <1>8 DEF IsSmallest
<1>10. \A X \in SUBSET (1 .. n) : (\A td \in TypeDefs : Built(td, X) => td \in X) => F[X] \subseteq X
  BY <1>2
<1>11. F[Finite] = {td \in TypeDefs : Built(td, Finite)}
  BY <1>2, <1>9
<1>12. \A td \in TypeDefs : td \in Finite <=> Built(td, Finite)
  BY <1>9, <1>11
<1>13. Finite \subseteq TypeDefs
  BY <1>1, <1>9
<1>14. \A X \in SUBSET TypeDefs : (\A td \in TypeDefs : Built(td, X) => td \in X) => Finite \subseteq X
  BY <1>1, <1>9, <1>10
<1> QED
  BY <1>12, <1>13, <1>14

\* A definition that a value of another must contain.
Needs(td, d) == \A X \in SUBSET TypeDefs : Built(td, X) => d \in X

\* Definitions that each need another of them have no value of finite size.
LEMMA NeedingEachOther ==
  ASSUME IsModule(types), NEW K \in SUBSET TypeDefs, \A td \in K : \E d \in K : Needs(td, d)
  PROVE  K \cap Finite = {}
<1> DEFINE X == TypeDefs \ K
<1>1. \A td \in TypeDefs : Built(td, X) => td \in X
  BY DEF Needs
<1>2. Finite \subseteq X
  BY <1>1, FiniteIsBuilt
<1> QED
  BY <1>2

-----------------------------------------------------------------------------
(* Looking for the way back to a node of a graph, as a walk does that      *)
(* leaves out the nodes it is in: s gives the nodes a node leads to.       *)

IsGraph(s, n) == n \in Nat /\ s \in [1 .. n -> SUBSET (1 .. n)]

\* The nodes that a path of one or more steps from d leads to.
Reach(s, n, d) ==
  {x \in 1 .. n : \A X \in SUBSET (1 .. n) : s[d] \subseteq X /\ (\A e \in X : s[e] \subseteq X) => x \in X}

\* o is e, or e leads to it by nodes that are not in A.
Attains(s, n, A, e, o) ==
  /\ e \notin A
  /\ \A X \in SUBSET (1 .. n) : e \in X /\ (\A d \in X : s[d] \ A \subseteq X) => o \in X

LEMMA ReachIsClosed ==
  ASSUME NEW s, NEW n, IsGraph(s, n), NEW d \in 1 .. n
  PROVE  /\ Reach(s, n, d) \in SUBSET (1 .. n) /\ s[d] \subseteq Reach(s, n, d)
         /\ \A e \in Reach(s, n, d) : s[e] \subseteq Reach(s, n, d)
         /\ \A X \in SUBSET (1 .. n) :
              s[d] \subseteq X /\ (\A e \in X : s[e] \subseteq X) => Reach(s, n, d) \subseteq X
<1>1. \A e \in 1 .. n : s[e] \in SUBSET (1 .. n)
  BY DEF IsGraph
<1> QED
  BY <1>1 DEF Reach

LEMMA AttainsFirst ==
  ASSUME NEW s, NEW n, IsGraph(s, n), NEW o \in 1 .. n, o \in Reach(s, n, o)
  PROVE  \E f \in s[o] : Attains(s, n, {}, f, o)
<1> SUFFICES ASSUME \A f \in s[o] : ~Attains(s, n, {}, f, o) PROVE FALSE
  OBVIOUS
<1> DEFINE Away == {X \in SUBSET (1 .. n) : o \notin X /\ \A d \in X : s[d] \subseteq X}
           U == UNION Away
<1>1. \A f \in s[o] : f \in U
  BY DEF Attains
<1>2. U \in SUBSET (1 .. n) /\ o \notin U /\ \A d \in U : s[d] \subseteq U
  OBVIOUS
<1> HIDE DEF U
<1>3. Reach(s, n, o) \subseteq U
  BY <1>1, <1>2, ReachIsClosed
<1> QED
  BY <1>2, <1>3

\* Where e is entered, one of the nodes it leads to is on the way.
LEMMA AttainsNext ==
  ASSUME NEW s, NEW n, IsGraph(s, n), NEW o \in 1 .. n, NEW A, NEW e \in 1 .. n,
         Attains(s, n, A, e, o), e # o
  PROVE  \E f \in s[e] : Attains(s, n, A \cup {e}, f, o)
<1> SUFFICES ASSUME \A f \in s[e] : ~Attains(s, n, A \cup {e}, f, o) PROVE FALSE
  OBVIOUS
<1> DEFINE B == A \cup {e}
           Away == {X \in SUBSET (1 .. n) : o \notin X /\ \A d \in X : s[d] \ B \subseteq X}
           U == UNION Away
<1>1. \A f \in s[e] : f \in B \/ f \in U
  BY DEF Attains
<1>2. U \in SUBSET (1 .. n) /\ o \notin U /\ \A d \in U : s[d] \ B \subseteq U
  OBVIOUS
<1> HIDE DEF U
<1>3. \A d \in U \cup {e} : s[d] \ A \subseteq U \cup {e}
  BY <1>1, <1>2
<1>4. o \in U \cup {e}
  BY <1>2, <1>3 DEF Attains
<1> QED
  BY <1>2, <1>4

\* Of nodes that each lead to one of them, one leads to itself: one that is led
\* to from a node that reaches as few as any.
LEMMA CycleAmong ==
  ASSUME NEW s, NEW n, IsGraph(s, n), NEW M \in SUBSET (1 .. n), M # {},
         \A d \in M : s[d] \cap M # {}
  PROVE  \E f \in M : f \in Reach(s, n, f)
<1> DEFINE size(d) == Cardinality(Reach(s, n, d))
           Sizes == {size(d) : d \in M}
<1>1. n \in Nat /\ IsFiniteSet(1 .. n)
  BY FS_Interval DEF IsGraph
<1>2. \A d \in M : IsFiniteSet(Reach(s, n, d)) /\ size(d) \in Nat
  BY <1>1, ReachIsClosed, FS_Subset, FS_CardinalityType
<1>3. Sizes \subseteq Nat /\ Sizes # {}
  BY <1>2
<1>4. PICK d \in M : \A e \in M : size(d) <= size(e)
  <2> HIDE DEF Sizes, size
  <2>1. PICK k \in Sizes : \A j \in Sizes : k <= j
    BY <1>3, SmallestOf
  <2> QED
    BY <2>1 DEF Sizes
<1>5. PICK f \in M : f \in s[d]
  OBVIOUS
<1>6. f \in Reach(s, n, d) /\ s[f] \subseteq Reach(s, n, d)
  BY <1>5, ReachIsClosed
<1>7. Reach(s, n, f) \subseteq Reach(s, n, d)
  BY <1>6, ReachIsClosed
<1>8. size(f) = size(d)
  <2>1. size(f) <= size(d)
    BY <1>2, <1>7, FS_Subset
  <2> QED
    BY <1>2, <1>4, <2>1
<1>9. Reach(s, n, f) = Reach(s, n, d)
  BY <1>2, <1>7, <1>8, FS_Subset
<1> QED
  BY <1>6, <1>9

-----------------------------------------------------------------------------
(* The three ways the walk of recursive.c looks at a reference: as any     *)
(* reference, as one to what a value must contain, and as one to what a    *)
(* value is nothing but.                                                   *)

Looks == {"any", "must", "only"}

Follows(look, td, j) ==
  CASE look = "any"  -> TRUE
    [] look = "must" -> ~IsList(td) /\ ~(types[td].kind = "choice" /\ Arity(td) > 1)
                        /\ ~ElementsOf(td)[j].opt
    [] look = "only" -> IsRef(td) \/ (types[td].kind = "choice" /\ Arity(td) = 1)

Steps(look) ==
  [td \in TypeDefs |->
    {ElementsOf(td)[i].to : i \in {j \in DOMAIN ElementsOf(td) : Follows(look, td, j)}}]

LEMMA StepsAreAGraph ==
  ASSUME IsModule(types), NEW look \in Looks
  PROVE  /\ IsGraph(Steps(look), Len(types)) /\ TypeDefs = 1 .. Len(types)
         /\ \A td \in TypeDefs : Steps(look)[td] \subseteq RefsOf(td)
<1>1. \A td \in TypeDefs : Steps(look)[td] \subseteq RefsOf(td)
  BY DEF Steps, RefsOf
<1>2. \A td \in TypeDefs : Steps(look)[td] \in SUBSET TypeDefs
  BY <1>1, StepsWithin
<1>3. Steps(look) = [td \in TypeDefs |-> Steps(look)[td]]
  BY DEF Steps
<1> QED
  BY <1>1, <1>2, <1>3, ModuleFacts DEF IsGraph

LEMMA AnyIsRefsOf ==
  ASSUME IsModule(types), NEW td \in TypeDefs
  PROVE  Steps("any")[td] = RefsOf(td) /\ Reach(Steps("any"), Len(types), td) = ReachedBy(RefsOf, td)
<1>1. \A d \in TypeDefs : Steps("any")[d] = RefsOf(d)
  BY DEF Steps, RefsOf, Follows
<1>2. IsGraph(Steps("any"), Len(types)) /\ TypeDefs = 1 .. Len(types)
  BY StepsAreAGraph DEF Looks
<1> DEFINE R == ReachedBy(RefsOf, td)
           Q == Reach(Steps("any"), Len(types), td)
<1>3. /\ R \in SUBSET TypeDefs /\ RefsOf(td) \subseteq R /\ \A d \in R : RefsOf(d) \subseteq R
      /\ \A X \in SUBSET TypeDefs : RefsOf(td) \subseteq X /\ (\A d \in X : RefsOf(d) \subseteq X) => R \subseteq X
  BY ReachedByRefsOf
<1>4. /\ Q \in SUBSET TypeDefs /\ Steps("any")[td] \subseteq Q /\ \A d \in Q : Steps("any")[d] \subseteq Q
      /\ \A X \in SUBSET TypeDefs :
           Steps("any")[td] \subseteq X /\ (\A d \in X : Steps("any")[d] \subseteq X) => Q \subseteq X
  BY <1>2, ReachIsClosed
<1> HIDE DEF R, Q
<1>5. Q \subseteq R /\ R \subseteq Q
  BY <1>1, <1>3, <1>4
<1> QED
  BY <1>1, <1>5 DEF R, Q

LEMMA OnlyIsNothingBut ==
  ASSUME IsModule(types), NEW td \in TypeDefs
  PROVE  /\ Steps("only")[td] = NothingBut(td)
         /\ Reach(Steps("only"), Len(types), td) = ReachedBy(NothingBut, td)
<1>1. \A d \in TypeDefs : Steps("only")[d] = NothingBut(d)
  BY DEF Steps, RefsOf, Follows, NothingBut
<1>2. IsGraph(Steps("only"), Len(types)) /\ TypeDefs = 1 .. Len(types)
  BY StepsAreAGraph DEF Looks
<1> DEFINE R == ReachedBy(NothingBut, td)
           Q == Reach(Steps("only"), Len(types), td)
<1>3. /\ R \in SUBSET TypeDefs /\ NothingBut(td) \subseteq R /\ \A d \in R : NothingBut(d) \subseteq R
      /\ \A X \in SUBSET TypeDefs : NothingBut(td) \subseteq X /\ (\A d \in X : NothingBut(d) \subseteq X) => R \subseteq X
  BY ReachedByNothingBut
<1>4. /\ Q \in SUBSET TypeDefs /\ Steps("only")[td] \subseteq Q /\ \A d \in Q : Steps("only")[d] \subseteq Q
      /\ \A X \in SUBSET TypeDefs :
           Steps("only")[td] \subseteq X /\ (\A d \in X : Steps("only")[d] \subseteq X) => Q \subseteq X
  BY <1>2, ReachIsClosed
<1> HIDE DEF R, Q
<1>5. Q \subseteq R /\ R \subseteq Q
  BY <1>1, <1>3, <1>4
<1> QED
  BY <1>1, <1>5 DEF R, Q

-----------------------------------------------------------------------------
\* Nothing of this changes while the definitions stay.
LEMMA SameTypes ==
  ASSUME types' = types
  PROVE  /\ TypeDefs' = TypeDefs
         /\ \A td : ElementsOf(td)' = ElementsOf(td)
         /\ \A td : RefsOf(td)' = RefsOf(td)
         /\ \A td : ReachedBy(RefsOf, td)' = ReachedBy(RefsOf, td)
         /\ \A td : ReachedBy(NothingBut, td)' = ReachedBy(NothingBut, td)
         /\ \A td : OnCycle(RefsOf, td)' = OnCycle(RefsOf, td)
         /\ \A td : OnCycle(NothingBut, td)' = OnCycle(NothingBut, td)
         /\ \A td, d : Needs(td, d)' = Needs(td, d)
         /\ \A look : Steps(look)' = Steps(look)
         /\ \A look, td, j : Follows(look, td, j)' = Follows(look, td, j)
         /\ Finite' = Finite
         /\ \A td : Chain(td)' = Chain(td)
<1>1. TypeDefs' = TypeDefs /\ \A td : ElementsOf(td)' = ElementsOf(td)
  BY DEF TypeDefs, ElementsOf
<1>2. \A td : RefsOf(td)' = RefsOf(td)
  BY <1>1 DEF RefsOf
<1>3. \A td : ReachedBy(RefsOf, td)' = ReachedBy(RefsOf, td)
  BY DEF ReachedBy, RefsOf, ElementsOf
<1>4. \A td : ReachedBy(NothingBut, td)' = ReachedBy(NothingBut, td)
  BY DEF ReachedBy, NothingBut, RefsOf, ElementsOf, IsRef, Arity
<1>5. \A td : OnCycle(RefsOf, td)' = OnCycle(RefsOf, td)
  BY <1>3 DEF OnCycle
<1>6. \A td : OnCycle(NothingBut, td)' = OnCycle(NothingBut, td)
  BY <1>4 DEF OnCycle
<1>7. \A td, X : Built(td, X)' = Built(td, X)
  BY DEF Built, RefsOf, ElementsOf, Link
<1>8. \A td, d : Needs(td, d)' = Needs(td, d)
  BY <1>1, <1>7 DEF Needs
<1>9. \A look : Steps(look)' = Steps(look)
  BY DEF Steps, TypeDefs, ElementsOf, Follows, IsList, IsRef, Arity
<1>12. \A look, td, j : Follows(look, td, j)' = Follows(look, td, j)
  BY DEF ElementsOf, Follows, IsList, IsRef, Arity
<1>10. Finite' = Finite
  BY DEF Finite, Built, TypeDefs, RefsOf, ElementsOf, Link
<1>11. \A td : Chain(td)' = Chain(td)
  BY DEF Chain, ElementsOf, Link, IsRef
<1> QED
  BY <1>1, <1>2, <1>3, <1>4, <1>5, <1>6, <1>8, <1>9, <1>10, <1>11, <1>12
=============================================================================
