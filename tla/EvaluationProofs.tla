-------------------------- MODULE EvaluationProofs --------------------------
(***************************************************************************)
(* Theorems about Evaluation, for any events, controls, frameworks, rules, *)
(* SLOs and times.                                                         *)
(***************************************************************************)
EXTENDS Evaluation, FiniteSetTheorems, WellFoundedInduction, TLAPS

-----------------------------------------------------------------------------
(* Induction, over numbers and over finite sets, as facts about sets: of   *)
(* what is left out something is least.                                    *)

LEMMA CountingUp ==
  ASSUME NEW G \in SUBSET Nat, 0 \in G, \A n \in G : n + 1 \in G
  PROVE  G = Nat
<1> SUFFICES ASSUME NEW b \in Nat, b \notin G PROVE FALSE
  OBVIOUS
<1> DEFINE C == {0..k : k \in Nat \ G}
<1>1. C \subseteq FiniteSubsetsOf(Nat) /\ C # {}
  <2> SUFFICES ASSUME NEW k \in Nat \ G PROVE 0..k \in FiniteSubsetsOf(Nat)
    OBVIOUS
  <2>1. IsFiniteSet(0..k)
    BY FS_Interval
  <2> QED  BY <2>1 DEF FiniteSubsetsOf
<1>2. PICK I \in C : \A J \in C : <<J, I>> \notin StrictSubsetOrdering(Nat)
  BY <1>1, FS_StrictSubsetOrderingWellFounded, WFMin
<1>3. PICK m \in Nat \ G : I = 0..m
  OBVIOUS
<1>4. m # 0 /\ m - 1 \in Nat /\ (m - 1) + 1 = m
  OBVIOUS
<1>5. m - 1 \notin G
  BY <1>4
<1>6. 0..(m - 1) \in C /\ 0..(m - 1) \subseteq 0..m /\ 0..(m - 1) # 0..m
  BY <1>4, <1>5
<1>7. <<0..(m - 1), I>> \in StrictSubsetOrdering(Nat)
  BY <1>3, <1>6 DEF StrictSubsetOrdering
<1> QED  BY <1>2, <1>6, <1>7

AddsUp(S, G) ==
    G \subseteq SUBSET S /\ {} \in G /\ \A T \in G : \A x \in S \ T : T \cup {x} \in G

LEMMA AddingUp ==
  ASSUME NEW S, IsFiniteSet(S), NEW G, AddsUp(S, G)
  PROVE  G = SUBSET S
<1>0. G \subseteq SUBSET S /\ {} \in G /\ \A T \in G : \A x \in S \ T : T \cup {x} \in G
  BY DEF AddsUp
<1> DEFINE C == (SUBSET S) \ G
<1> SUFFICES ASSUME C # {} PROVE FALSE
  BY <1>0
<1>1. C \subseteq FiniteSubsetsOf(S)
  BY FS_Subset DEF FiniteSubsetsOf
<1>2. PICK T \in C : \A U \in C : <<U, T>> \notin StrictSubsetOrdering(S)
  BY <1>1, FS_StrictSubsetOrderingWellFounded, WFMin
<1>3. PICK x \in T : TRUE
  BY <1>0
<1>4. T \ {x} \subseteq T /\ T \ {x} # T /\ T \ {x} \subseteq S /\ (T \ {x}) \cup {x} = T
  BY <1>3
<1>5. T \ {x} \in G
  <2>1. <<T \ {x}, T>> \in StrictSubsetOrdering(S)
    BY <1>4 DEF StrictSubsetOrdering
  <2> QED  BY <2>1, <1>2, <1>4
<1> QED  BY <1>0, <1>3, <1>4, <1>5

-----------------------------------------------------------------------------
(* Totals.                                                                 *)

Pick(s) == CHOOSE x \in s : TRUE

\* it[s] is the sum of f over s, for every s that is smaller than n.
Sums(f, S, it, n) ==
    /\ it \in [SUBSET S -> Nat]
    /\ \A s \in SUBSET S : Cardinality(s) < n =>
         it[s] = IF s = {} THEN 0 ELSE f[Pick(s)] + it[s \ {Pick(s)}]

LEMMA PickFacts ==
  ASSUME NEW s, IsFiniteSet(s), s # {}
  PROVE  /\ Pick(s) \in s /\ s \ {Pick(s)} \subseteq s
         /\ IsFiniteSet(s \ {Pick(s)}) /\ Cardinality(s \ {Pick(s)}) = Cardinality(s) - 1
         /\ Cardinality(s) \in Nat
<1>1. Pick(s) \in s
  BY DEF Pick
<1> QED  BY <1>1, FS_RemoveElement, FS_CardinalityType

LEMMA SumsExist ==
  ASSUME NEW S, IsFiniteSet(S), NEW f \in [S -> Nat], NEW n \in Nat
  PROVE  \E it : Sums(f, S, it, n)
<1> DEFINE G == {k \in Nat : \E it : Sums(f, S, it, k)}
<1>0. \A s \in SUBSET S : IsFiniteSet(s) /\ Cardinality(s) \in Nat
  BY FS_Subset, FS_CardinalityType
<1>1. 0 \in G
  <2>1. [s \in SUBSET S |-> 0] \in [SUBSET S -> Nat]
    OBVIOUS
  <2>2. Sums(f, S, [s \in SUBSET S |-> 0], 0)
    BY <1>0, <2>1 DEF Sums
  <2> QED  BY <2>2
<1>2. ASSUME NEW k \in G PROVE k + 1 \in G
  <2>1. PICK it : Sums(f, S, it, k)
    OBVIOUS
  <2> DEFINE Sum(s) == IF s = {} THEN 0 ELSE f[Pick(s)] + it[s \ {Pick(s)}]
             next == [s \in SUBSET S |-> Sum(s)]
  <2>2. \A s \in SUBSET S : Sum(s) \in Nat
    <3> SUFFICES ASSUME NEW s \in SUBSET S, s # {} PROVE f[Pick(s)] + it[s \ {Pick(s)}] \in Nat
      OBVIOUS
    <3>1. Pick(s) \in S /\ s \ {Pick(s)} \in SUBSET S
      BY <1>0, PickFacts
    <3> QED  BY <3>1, <2>1 DEF Sums
  <2>3. next \in [SUBSET S -> Nat]
    BY <2>2
  <2>4. ASSUME NEW s \in SUBSET S, Cardinality(s) < k + 1
        PROVE  next[s] = IF s = {} THEN 0 ELSE f[Pick(s)] + next[s \ {Pick(s)}]
    <3>1. CASE s = {}
      BY <3>1
    <3>2. CASE s # {}
      <4> DEFINE r == s \ {Pick(s)}
      <4>1. r \in SUBSET S /\ Cardinality(r) < k
        BY <3>2, <1>0, <2>4, PickFacts
      <4>2. it[r] = Sum(r)
        BY <4>1, <2>1 DEF Sums
      <4> QED  BY <3>2, <4>1, <4>2
    <3> QED  BY <3>1, <3>2
  <2>5. Sums(f, S, next, k + 1)
    BY <2>3, <2>4 DEF Sums
  <2> QED  BY <2>5
<1> HIDE DEF G
<1>3. G \in SUBSET Nat
  BY DEF G
<1>4. G = Nat
  BY <1>1, <1>2, <1>3, CountingUp
<1> QED  BY <1>4 DEF G

\* A total over a subset is what any such sums give for it.
LEMMA TotalIsSum ==
  ASSUME NEW S, IsFiniteSet(S), NEW f \in [S -> Nat], NEW sum, Sums(f, S, sum, Cardinality(S) + 1),
         NEW T \in SUBSET S
  PROVE  Total([x \in T |-> f[x]]) = sum[T]
<1> DEFINE g == [x \in T |-> f[x]]
           it == CHOOSE it : it = [s \in SUBSET T |->
                   IF s = {} THEN 0 ELSE g[Pick(s)] + it[s \ {Pick(s)}]]
<1>0. /\ IsFiniteSet(T) /\ Cardinality(T) \in Nat /\ Cardinality(S) \in Nat
      /\ \A s \in SUBSET T : /\ IsFiniteSet(s) /\ Cardinality(s) \in Nat
                             /\ Cardinality(s) < Cardinality(T) + 1
                             /\ Cardinality(s) < Cardinality(S) + 1
  <2>1. IsFiniteSet(T) /\ Cardinality(T) \in Nat /\ Cardinality(S) \in Nat
        /\ Cardinality(T) <= Cardinality(S)
    BY FS_Subset, FS_CardinalityType
  <2>2. ASSUME NEW s \in SUBSET T
        PROVE  IsFiniteSet(s) /\ Cardinality(s) \in Nat /\ Cardinality(s) <= Cardinality(T)
    BY <2>1, FS_Subset, FS_CardinalityType
  <2> QED  BY <2>1, <2>2
<1>1. Total(g) = it[T]
  BY DEF Total, MapThenSumSet, MapThenFoldSet, Pick
<1>2. it = [s \in SUBSET T |-> IF s = {} THEN 0 ELSE g[Pick(s)] + it[s \ {Pick(s)}]]
  <2>1. g \in [T -> Nat] /\ Cardinality(T) + 1 \in Nat
    BY <1>0
  <2> HIDE DEF g
  <2>2. PICK own : Sums(g, T, own, Cardinality(T) + 1)
    BY <1>0, <2>1, SumsExist
  <2>3. own = [s \in SUBSET T |-> IF s = {} THEN 0 ELSE g[Pick(s)] + own[s \ {Pick(s)}]]
    BY <1>0, <2>2 DEF Sums
  <2> QED  BY <2>3
<1> HIDE DEF it
<1> DEFINE G == {k \in Nat : \A s \in SUBSET T : Cardinality(s) < k => it[s] = sum[s]}
<1>3. 0 \in G
  BY <1>0
<1>4. ASSUME NEW k \in G PROVE k + 1 \in G
  <2> SUFFICES ASSUME NEW s \in SUBSET T, Cardinality(s) < k + 1 PROVE it[s] = sum[s]
    OBVIOUS
  <2>1. sum[s] = IF s = {} THEN 0 ELSE f[Pick(s)] + sum[s \ {Pick(s)}]
    BY <1>0 DEF Sums
  <2>2. CASE s = {}
    BY <1>2, <2>1, <2>2
  <2>3. CASE s # {}
    <3>1. /\ Pick(s) \in s /\ s \ {Pick(s)} \in SUBSET T
          /\ Cardinality(s \ {Pick(s)}) < k
      BY <1>0, <2>3, PickFacts
    <3>2. it[s \ {Pick(s)}] = sum[s \ {Pick(s)}]
      BY <3>1
    <3>3. it[s] = g[Pick(s)] + it[s \ {Pick(s)}]
      BY <1>2, <2>3
    <3> QED  BY <2>1, <2>3, <3>1, <3>2, <3>3
  <2> QED  BY <2>2, <2>3
<1> HIDE DEF G
<1>5. G \in SUBSET Nat
  BY DEF G
<1>6. G = Nat
  BY <1>3, <1>4, <1>5, CountingUp
<1>7. it[T] = sum[T]
  <2>1. Cardinality(T) + 1 \in G
    BY <1>0, <1>6
  <2> QED  BY <1>0, <2>1 DEF G
<1> QED  BY <1>1, <1>7

\* The order in which the elements are added does not matter.
LEMMA SumRemoves ==
  ASSUME NEW S, IsFiniteSet(S), NEW f \in [S -> Nat], NEW sum, Sums(f, S, sum, Cardinality(S) + 1),
         NEW T \in SUBSET S, NEW x \in T
  PROVE  sum[T] = f[x] + sum[T \ {x}]
<1>0. \A s \in SUBSET S : /\ IsFiniteSet(s) /\ Cardinality(s) \in Nat
                          /\ Cardinality(s) < Cardinality(S) + 1 /\ sum[s] \in Nat
  <2>1. Cardinality(S) \in Nat
    BY FS_CardinalityType
  <2>2. ASSUME NEW s \in SUBSET S
        PROVE  IsFiniteSet(s) /\ Cardinality(s) \in Nat /\ Cardinality(s) <= Cardinality(S)
    BY FS_Subset, FS_CardinalityType
  <2> QED  BY <2>1, <2>2 DEF Sums
<1>1. ASSUME NEW s \in SUBSET S, s # {}
      PROVE  Pick(s) \in s /\ sum[s] = f[Pick(s)] + sum[s \ {Pick(s)}]
  BY <1>0, <1>1, PickFacts DEF Sums
<1> DEFINE G == {k \in Nat : \A s \in SUBSET S : Cardinality(s) < k =>
                               \A y \in s : sum[s] = f[y] + sum[s \ {y}]}
<1>2. 0 \in G
  BY <1>0
<1>3. ASSUME NEW k \in G PROVE k + 1 \in G
  <2> SUFFICES ASSUME NEW s \in SUBSET S, Cardinality(s) < k + 1, NEW z \in s
               PROVE  sum[s] = f[z] + sum[s \ {z}]
    OBVIOUS
  <2>1. PICK y \in s : sum[s] = f[y] + sum[s \ {y}]
    BY <1>1
  <2>2. CASE z = y
    BY <2>1, <2>2
  <2>3. CASE z # y
    <3>1. /\ s \ {y} \in SUBSET S /\ Cardinality(s \ {y}) < k /\ z \in s \ {y}
          /\ s \ {z} \in SUBSET S /\ Cardinality(s \ {z}) < k /\ y \in s \ {z}
      <4>1. /\ Cardinality(s \ {y}) = Cardinality(s) - 1
            /\ Cardinality(s \ {z}) = Cardinality(s) - 1
        BY <1>0, FS_RemoveElement
      <4>2. Cardinality(s) \in Nat
        BY <1>0
      <4> QED  BY <2>3, <4>1, <4>2
    <3>2. /\ sum[s \ {y}] = f[z] + sum[(s \ {y}) \ {z}]
          /\ sum[s \ {z}] = f[y] + sum[(s \ {z}) \ {y}]
      BY <3>1
    <3>3. (s \ {y}) \ {z} = (s \ {z}) \ {y} /\ (s \ {z}) \ {y} \in SUBSET S
      OBVIOUS
    <3>4. f[z] \in Nat /\ f[y] \in Nat /\ sum[(s \ {z}) \ {y}] \in Nat
      BY <1>0, <2>1, <3>3
    <3>5. ASSUME NEW a \in Nat, NEW b \in Nat, NEW rest \in Nat PROVE a + (b + rest) = b + (a + rest)
      OBVIOUS
    <3>6. sum[s] = f[y] + (f[z] + sum[(s \ {z}) \ {y}])
      BY <2>1, <3>2, <3>3
    <3>7. f[z] + sum[s \ {z}] = f[z] + (f[y] + sum[(s \ {z}) \ {y}])
      BY <3>2
    <3> QED  BY <3>4, <3>5, <3>6, <3>7
  <2> QED  BY <2>2, <2>3
<1> HIDE DEF G
<1>4. G \in SUBSET Nat
  BY DEF G
<1>5. G = Nat
  BY <1>2, <1>3, <1>4, CountingUp
<1>6. Cardinality(S) + 1 \in G
  BY <1>5, FS_CardinalityType
<1> QED  BY <1>0, <1>6 DEF G

\* What there is to know of totals.
TotalsOf(f, S, sum) ==
    /\ sum \in [SUBSET S -> Nat]
    /\ sum[{}] = 0
    /\ \A T \in SUBSET S : Total([x \in T |-> f[x]]) = sum[T]
    /\ \A T \in SUBSET S : \A x \in T : sum[T] = f[x] + sum[T \ {x}]
    /\ Total(f) = sum[S]

LEMMA Totals ==
  ASSUME NEW S, IsFiniteSet(S), NEW f \in [S -> Nat]
  PROVE  \E sum : TotalsOf(f, S, sum)
<1>1. Cardinality(S) \in Nat /\ Cardinality({}) = 0
  BY FS_CardinalityType, FS_EmptySet
<1>2. PICK sum : Sums(f, S, sum, Cardinality(S) + 1)
  BY <1>1, SumsExist
<1>3. sum \in [SUBSET S -> Nat] /\ sum[{}] = 0
  BY <1>1, <1>2 DEF Sums
<1>4. \A T \in SUBSET S : Total([x \in T |-> f[x]]) = sum[T]
  BY <1>2, TotalIsSum
<1>5. ASSUME NEW T \in SUBSET S, NEW x \in T PROVE sum[T] = f[x] + sum[T \ {x}]
  BY <1>2, SumRemoves
<1>6. Total(f) = sum[S]
  <2>1. f = [x \in S |-> f[x]]
    OBVIOUS
  <2> QED  BY <1>4, <2>1
<1>7. TotalsOf(f, S, sum)
  BY <1>3, <1>4, <1>5, <1>6 DEF TotalsOf
<1> QED  BY <1>7

\* Element by element, totals are numbers, and a total of what is smaller is
\* smaller.
LEMMA TotalType ==
  ASSUME NEW S, IsFiniteSet(S), NEW f \in [S -> Nat]
  PROVE  Total(f) \in Nat
<1>1. PICK sum : TotalsOf(f, S, sum)
  BY Totals
<1> QED  BY <1>1 DEF TotalsOf

LEMMA TotalGrows ==
  ASSUME NEW S, IsFiniteSet(S), NEW f \in [S -> Nat], NEW g \in [S -> Nat], NEW k \in Nat,
         \A x \in S : f[x] <= k * g[x]
  PROVE  Total(f) <= k * Total(g)
<1>2. PICK sf : TotalsOf(f, S, sf)
  BY Totals
<1>3. PICK sg : TotalsOf(g, S, sg)
  BY Totals
<1> DEFINE G == {T \in SUBSET S : sf[T] <= k * sg[T]}
<1>4. {} \in G
  <2>1. {} \in SUBSET S /\ sf[{}] = 0 /\ sg[{}] = 0 /\ 0 <= k * 0
    BY <1>2, <1>3 DEF TotalsOf
  <2> QED  BY <2>1
<1>5. ASSUME NEW T \in G, NEW x \in S \ T PROVE T \cup {x} \in G
  <2>1. /\ sf[T \cup {x}] = f[x] + sf[T] /\ sg[T \cup {x}] = g[x] + sg[T]
    <3>1. T \cup {x} \in SUBSET S /\ x \in T \cup {x} /\ (T \cup {x}) \ {x} = T
      OBVIOUS
    <3> QED  BY <3>1, <1>2, <1>3 DEF TotalsOf
  <2>2. /\ f[x] \in Nat /\ g[x] \in Nat /\ sf[T] \in Nat /\ sg[T] \in Nat
        /\ f[x] <= k * g[x] /\ sf[T] <= k * sg[T]
    BY <1>2, <1>3 DEF TotalsOf
  <2>3. k * (g[x] + sg[T]) = k * g[x] + k * sg[T] /\ k * g[x] \in Nat /\ k * sg[T] \in Nat
    <3> HIDE DEF G
    <3>1. ASSUME NEW a \in Nat, NEW b \in Nat
          PROVE  k * (a + b) = k * a + k * b /\ k * a \in Nat /\ k * b \in Nat
      OBVIOUS
    <3> QED  BY <3>1, <2>2
  <2>4. sf[T \cup {x}] <= k * sg[T \cup {x}]
    <3> HIDE DEF G
    <3> QED  BY <2>1, <2>2, <2>3
  <2> QED  BY <2>4
<1> HIDE DEF G
<1>6. AddsUp(S, G)
  <2>1. G \subseteq SUBSET S
    BY DEF G
  <2> QED  BY <1>4, <1>5, <2>1 DEF AddsUp
<1>7. G = SUBSET S
  BY <1>6, AddingUp
<1>8. sf[S] <= k * sg[S]
  BY <1>7 DEF G
<1> QED  BY <1>2, <1>3, <1>8 DEF TotalsOf

LEMMA TotalLess ==
  ASSUME NEW S, IsFiniteSet(S), NEW f \in [S -> Nat], NEW g \in [S -> Nat],
         \A x \in S : f[x] <= g[x]
  PROVE  Total(f) <= Total(g)
<1>1. \A x \in S : f[x] <= 1 * g[x]
  OBVIOUS
<1>2. Total(f) <= 1 * Total(g) /\ Total(g) \in Nat
  BY <1>1, TotalGrows, TotalType
<1> QED  BY <1>2

\* Leaving elements out makes a total no greater.
LEMMA TotalOfSome ==
  ASSUME NEW S, IsFiniteSet(S), NEW f \in [S -> Nat], NEW T \in SUBSET S
  PROVE  Total([x \in T |-> f[x]]) <= Total(f)
<1>2. PICK sum : TotalsOf(f, S, sum)
  BY Totals
<1> DEFINE G == {U \in SUBSET (S \ T) : sum[T] <= sum[T \cup U]}
<1>3. {} \in G
  <2>1. sum[T] \in Nat /\ T \cup {} = T
    BY <1>2 DEF TotalsOf
  <2> QED  BY <2>1
<1>4. ASSUME NEW U \in G, NEW x \in (S \ T) \ U PROVE U \cup {x} \in G
  <2>1. /\ T \cup (U \cup {x}) \in SUBSET S /\ x \in T \cup (U \cup {x})
        /\ (T \cup (U \cup {x})) \ {x} = T \cup U /\ T \cup U \in SUBSET S
    OBVIOUS
  <2>2. sum[T \cup (U \cup {x})] = f[x] + sum[T \cup U]
    BY <1>2, <2>1 DEF TotalsOf
  <2>3. /\ f[x] \in Nat /\ sum[T] \in Nat /\ sum[T \cup U] \in Nat /\ sum[T] <= sum[T \cup U]
    BY <1>2, <2>1 DEF TotalsOf
  <2>4. sum[T] <= sum[T \cup (U \cup {x})]
    BY <2>2, <2>3
  <2> QED  BY <2>4
<1> HIDE DEF G
<1>5. AddsUp(S \ T, G) /\ IsFiniteSet(S \ T)
  <2>1. G \subseteq SUBSET (S \ T)
    BY DEF G
  <2>2. IsFiniteSet(S \ T)
    BY FS_Subset
  <2> QED  BY <1>3, <1>4, <2>1, <2>2 DEF AddsUp
<1>6. G = SUBSET (S \ T)
  BY <1>5, AddingUp
<1>7. sum[T] <= sum[S]
  <2>1. S \ T \in G /\ T \cup (S \ T) = S
    BY <1>6
  <2> QED  BY <2>1 DEF G
<1> QED  BY <1>2, <1>7 DEF TotalsOf

\* Sets that have no element in common hold as many elements as they hold together.
LEMMA TotalCount ==
  ASSUME NEW S, IsFiniteSet(S), NEW F, DOMAIN F = S, \A c \in S : IsFiniteSet(F[c]),
         \A c, d \in S : c # d => F[c] \cap F[d] = {}
  PROVE  /\ IsFiniteSet(UNION {F[c] : c \in S})
         /\ Cardinality(UNION {F[c] : c \in S}) = Total([c \in S |-> Cardinality(F[c])])
<1> DEFINE f == [c \in S |-> Cardinality(F[c])]
<1>1. f \in [S -> Nat]
  BY FS_CardinalityType
<1>2. PICK sum : TotalsOf(f, S, sum)
  <2> HIDE DEF f
  <2> QED  BY <1>1, Totals
<1> DEFINE All(T) == UNION {F[c] : c \in T}
           G == {T \in SUBSET S : IsFiniteSet(All(T)) /\ Cardinality(All(T)) = sum[T]}
<1>3. {} \in G
  <2>1. All({}) = {}
    OBVIOUS
  <2>2. sum[{}] = 0 /\ {} \in SUBSET S
    BY <1>2 DEF TotalsOf
  <2> QED  BY <2>1, <2>2, FS_EmptySet
<1>4. ASSUME NEW T \in G, NEW x \in S \ T PROVE T \cup {x} \in G
  <2>1. All(T \cup {x}) = All(T) \cup F[x] /\ All(T) \cap F[x] = {}
    OBVIOUS
  <2>2. IsFiniteSet(All(T)) /\ IsFiniteSet(F[x]) /\ Cardinality(All(T)) = sum[T]
    OBVIOUS
  <2>3. (T \cup {x}) \ {x} = T /\ T \cup {x} \in SUBSET S
    OBVIOUS
  <2>4. sum[T \cup {x}] = Cardinality(F[x]) + sum[T]
    <3>1. f[x] = Cardinality(F[x]) /\ x \in T \cup {x}
      OBVIOUS
    <3> HIDE DEF f, G, All
    <3> QED  BY <1>2, <2>3, <3>1 DEF TotalsOf
  <2> HIDE DEF All, G, f
  <2>5. /\ IsFiniteSet(All(T) \cup F[x])
        /\ Cardinality(All(T) \cup F[x]) =
             Cardinality(All(T)) + Cardinality(F[x]) - Cardinality(All(T) \cap F[x])
    BY <2>2, FS_Union
  <2>6. Cardinality(All(T)) \in Nat /\ Cardinality(F[x]) \in Nat
    BY <2>2, FS_CardinalityType
  <2>7. Cardinality(All(T) \cup F[x]) = Cardinality(All(T)) + Cardinality(F[x])
    <3>1. Cardinality(All(T) \cap F[x]) = 0
      BY <2>1, FS_EmptySet
    <3> QED  BY <2>5, <2>6, <3>1
  <2>8. Cardinality(All(T \cup {x})) = sum[T \cup {x}]
    <3>1. Cardinality(All(T \cup {x})) = sum[T] + Cardinality(F[x]) /\ sum[T] \in Nat
      BY <2>1, <2>2, <2>6, <2>7
    <3> QED  BY <2>4, <2>6, <3>1
  <2> QED  BY <2>1, <2>3, <2>5, <2>8 DEF G
<1> HIDE DEF G
<1>5. AddsUp(S, G)
  <2>1. G \subseteq SUBSET S
    BY DEF G
  <2> QED  BY <1>3, <1>4, <2>1 DEF AddsUp
<1>6. G = SUBSET S
  BY <1>5, AddingUp
<1>7. IsFiniteSet(All(S)) /\ Cardinality(All(S)) = sum[S]
  BY <1>6 DEF G
<1>8. Total(f) = sum[S]
  <2> HIDE DEF f
  <2> QED  BY <1>2 DEF TotalsOf
<1> QED  BY <1>7, <1>8

-----------------------------------------------------------------------------
(* Averages.                                                               *)

LEMMA Quotient ==
  ASSUME NEW a \in Nat, NEW d \in Nat \ {0}
  PROVE  a \div d \in Nat /\ \E r \in 0..(d - 1) : a = d * (a \div d) + r
OBVIOUS

LEMMA QuotientGrows ==
  ASSUME NEW a \in Nat, NEW b \in Nat, a <= b, NEW d \in Nat \ {0}
  PROVE  a \div d <= b \div d
<1> DEFINE p == a \div d
           q == b \div d
<1>1. p \in Nat /\ q \in Nat /\ (\E r \in 0..(d - 1) : a = d * p + r) /\ \E s \in 0..(d - 1) : b = d * q + s
  BY Quotient
<1> HIDE DEF p, q
<1>2. PICK r \in 0..(d - 1) : a = d * p + r
  BY <1>1
<1>3. PICK s \in 0..(d - 1) : b = d * q + s
  BY <1>1
<1>4. ASSUME p > q PROVE FALSE
  <2>1. PICK t \in Nat : p = q + 1 + t
    <3>1. p - q - 1 \in Nat /\ p = q + 1 + (p - q - 1)
      BY <1>1, <1>4
    <3> QED  BY <3>1
  <2>2. d * p = d * q + d + d * t /\ d * t \in Nat /\ d * q \in Nat
    BY <1>1, <2>1
  <2> QED  BY <1>2, <1>3, <2>2, <1>1
<1>5. p <= q
  BY <1>1, <1>4
<1> QED  BY <1>5 DEF p, q

\* So do they when they are rounded.
LEMMA NearestGrows ==
  ASSUME NEW a \in Nat, NEW b \in Nat, a <= b, NEW d \in Nat \ {0}
  PROVE  Nearest(a, d) \in Nat /\ Nearest(b, d) \in Nat /\ Nearest(a, d) <= Nearest(b, d)
<1>1. /\ 2 * a + d \in Nat /\ 2 * b + d \in Nat /\ 2 * a + d <= 2 * b + d
      /\ 2 * d \in Nat \ {0}
  OBVIOUS
<1> DEFINE x == 2 * a + d
           y == 2 * b + d
           e == 2 * d
<1>2. x \div e \in Nat /\ y \div e \in Nat /\ x \div e <= y \div e
  <2> HIDE DEF x, y, e
  <2>1. x \in Nat /\ y \in Nat /\ x <= y /\ e \in Nat \ {0}
    BY <1>1 DEF x, y, e
  <2> QED  BY <2>1, Quotient, QuotientGrows
<1> QED  BY <1>2 DEF Nearest

LEMMA NearestBound ==
  ASSUME NEW a \in Nat, NEW k \in Nat, NEW d \in Nat \ {0}, a <= k * d
  PROVE  Nearest(a, d) \in 0..k
<1>1. k * d \in Nat /\ 2 * d \in Nat \ {0} /\ 2 * (k * d) + d = (2 * d) * k + d
  OBVIOUS
<1>2. Nearest(a, d) \in Nat /\ Nearest(a, d) <= Nearest(k * d, d)
  BY <1>1, NearestGrows
<1>3. Nearest(k * d, d) = k
  <2> DEFINE e == 2 * d
             q == (e * k + d) \div e
  <2>1. e \in Nat \ {0} /\ d < e /\ e * k \in Nat /\ e * k + d \in Nat
    BY <1>1
  <2>2. q \in Nat /\ \E r \in 0..(e - 1) : e * k + d = e * q + r
    <3> HIDE DEF e
    <3> QED  BY <2>1, Quotient
  <2>3. Nearest(k * d, d) = q
    BY <1>1 DEF Nearest
  <2> HIDE DEF q, e
  <2>4. PICK r \in 0..(e - 1) : e * k + d = e * q + r
    BY <2>2
  <2>5. ASSUME q > k PROVE FALSE
    <3>1. PICK t \in Nat : q = k + 1 + t
      <4>1. q - k - 1 \in Nat /\ q = k + 1 + (q - k - 1)
        BY <2>2, <2>5
      <4> QED  BY <4>1
    <3>2. e * q = e * k + e + e * t /\ e * t \in Nat
      BY <2>1, <3>1
    <3> QED  BY <2>1, <2>4, <3>2
  <2>6. ASSUME q < k PROVE FALSE
    <3>1. PICK t \in Nat : k = q + 1 + t
      <4>1. k - q - 1 \in Nat /\ k = q + 1 + (k - q - 1)
        BY <2>2, <2>6
      <4> QED  BY <4>1
    <3>2. e * k = e * q + e + e * t /\ e * t \in Nat /\ e * q \in Nat
      BY <2>1, <2>2, <3>1
    <3> QED  BY <2>1, <2>4, <3>2
  <2> QED  BY <2>2, <2>3, <2>5, <2>6
<1> QED  BY <1>2, <1>3

-----------------------------------------------------------------------------
(* Rules.                                                                  *)

Verdicts == {"match", "no", "raise"}

LEMMA LeafVerdict ==
  ASSUME NEW key \in LeafKeys, NEW spec, NEW ctx
  PROVE  Leaf(key, spec, ctx) \in Verdicts
BY DEF Leaf, If, Verdicts, LeafKeys

LEMMA CombineVerdict ==
  ASSUME NEW pred, NEW found, NEW ctx
  PROVE  Combine(pred, found, ctx) \in Verdicts
<1>1. EvalLeaf(pred, ctx) \in Verdicts
  BY LeafVerdict DEF EvalLeaf, Verdicts
<1> QED  BY <1>1 DEF Combine, If, Verdicts, Connectives, Has

\* The predicates of the first n levels.
Below(n) == UNION {Levels[j] : j \in 1..n}

\* v has the verdicts of the predicates of the first n levels.
Judges(v, ctx, n) ==
    /\ v \in [Predicates -> Verdicts]
    /\ \A p \in Below(n) : v[p] = Combine(p, {v[q] : q \in Members(p)}, ctx)

LEMMA BelowFacts ==
  /\ Below(0) = {} /\ Below(Len(Levels)) = Predicates
  /\ \A n \in Nat : n < Len(Levels) =>
       /\ Below(n) \subseteq Below(n + 1) /\ Below(n + 1) \subseteq Predicates
       /\ \A p \in Below(n + 1) : Members(p) \subseteq Below(n)
<1>1. Len(Levels) \in Nat /\ DOMAIN Levels = 1..Len(Levels)
  BY PolicyAssumption
<1>2. Predicates = UNION {Levels[j] : j \in 1..Len(Levels)}
  BY <1>1 DEF Predicates, Range
<1>3. ASSUME NEW n \in Nat, n < Len(Levels)
      PROVE  /\ Below(n) \subseteq Below(n + 1) /\ Below(n + 1) \subseteq Predicates
             /\ \A p \in Below(n + 1) : Members(p) \subseteq Below(n)
  <2>1. 1..n \subseteq 1..(n + 1) /\ 1..(n + 1) \subseteq 1..Len(Levels)
    BY <1>1, <1>3
  <2>2. Below(n) \subseteq Below(n + 1) /\ Below(n + 1) \subseteq Predicates
    BY <2>1, <1>2 DEF Below
  <2>3. ASSUME NEW i \in 1..(n + 1), NEW p \in Levels[i] PROVE Members(p) \subseteq Below(n)
    <3>1. Members(p) \subseteq UNION {Levels[j] : j \in 1..(i - 1)}
      BY <1>1, <2>1, PolicyAssumption
    <3>2. 1..(i - 1) \subseteq 1..n
      OBVIOUS
    <3> QED  BY <3>1, <3>2 DEF Below
  <2>4. \A p \in Below(n + 1) : \E i \in 1..(n + 1) : p \in Levels[i]
    BY DEF Below
  <2> QED  BY <2>2, <2>3, <2>4
<1>4. Below(0) = {}
  BY DEF Below
<1> QED  BY <1>2, <1>3, <1>4 DEF Below

\* As nesting ends, the predicates can be evaluated.
LEMMA VerdictsExist ==
  ASSUME NEW ctx
  PROVE  \E v : Judges(v, ctx, Len(Levels))
<1> DEFINE G == {n \in Nat : n <= Len(Levels) => \E v : Judges(v, ctx, n)}
<1>0. Len(Levels) \in Nat
  BY PolicyAssumption
<1>1. 0 \in G
  <2>1. [p \in Predicates |-> "no"] \in [Predicates -> Verdicts]
    BY DEF Verdicts
  <2>2. Judges([p \in Predicates |-> "no"], ctx, 0)
    BY <2>1, BelowFacts DEF Judges
  <2> QED  BY <2>2
<1>2. ASSUME NEW n \in G PROVE n + 1 \in G
  <2> SUFFICES ASSUME n + 1 <= Len(Levels) PROVE \E v : Judges(v, ctx, n + 1)
    OBVIOUS
  <2>1. PICK v : Judges(v, ctx, n)
    BY <1>0
  <2>2. /\ Below(n) \subseteq Below(n + 1) /\ Below(n + 1) \subseteq Predicates
        /\ \A p \in Below(n + 1) : Members(p) \subseteq Below(n)
    BY <1>0, BelowFacts
  <2> DEFINE w == [p \in Predicates |->
               IF p \in Below(n) THEN v[p] ELSE Combine(p, {v[q] : q \in Members(p)}, ctx)]
  <2>3. w \in [Predicates -> Verdicts]
    BY <2>1, CombineVerdict DEF Judges
  <2>4. ASSUME NEW p \in Below(n + 1) PROVE w[p] = Combine(p, {w[q] : q \in Members(p)}, ctx)
    <3>1. \A q \in Members(p) : w[q] = v[q]
      BY <2>2
    <3>2. {w[q] : q \in Members(p)} = {v[q] : q \in Members(p)}
      BY <3>1
    <3>3. w[p] = Combine(p, {v[q] : q \in Members(p)}, ctx)
      BY <2>1, <2>2 DEF Judges
    <3> QED  BY <3>2, <3>3
  <2>5. Judges(w, ctx, n + 1)
    BY <2>3, <2>4 DEF Judges
  <2> QED  BY <2>5
<1> HIDE DEF G
<1>3. G \in SUBSET Nat
  BY DEF G
<1>4. Len(Levels) \in G
  BY <1>0, <1>1, <1>2, <1>3, CountingUp
<1> QED  BY <1>0, <1>4 DEF G

\* What evaluating a predicate comes to.
LEMMA Evaluates ==
  ASSUME NEW ctx, NEW pred \in Predicates
  PROVE  /\ EvalPredicate(pred, ctx) \in Verdicts
         /\ EvalPredicate(pred, ctx) =
              Combine(pred, {EvalPredicate(q, ctx) : q \in Members(pred)}, ctx)
         /\ Members(pred) \subseteq Predicates
<1> DEFINE eval == CHOOSE eval : eval = [p \in Predicates |->
                     Combine(p, {eval[q] : q \in Members(p)}, ctx)]
<1>1. eval = [p \in Predicates |-> Combine(p, {eval[q] : q \in Members(p)}, ctx)]
  <2>1. PICK v : Judges(v, ctx, Len(Levels))
    BY VerdictsExist
  <2>2. v = [p \in Predicates |-> Combine(p, {v[q] : q \in Members(p)}, ctx)]
    BY <2>1, BelowFacts DEF Judges
  <2> QED  BY <2>2
<1>2. \A p : EvalPredicate(p, ctx) = eval[p]
  BY DEF EvalPredicate
<1> HIDE DEF eval
<1>3. eval[pred] = Combine(pred, {eval[q] : q \in Members(pred)}, ctx)
  BY <1>1
<1>4. {eval[q] : q \in Members(pred)} = {EvalPredicate(q, ctx) : q \in Members(pred)}
  BY <1>2
<1>5. Members(pred) \subseteq Predicates
  <2>1. Len(Levels) \in Nat /\ DOMAIN Levels = 1..Len(Levels)
    BY PolicyAssumption
  <2>2. PICK i \in 1..Len(Levels) : pred \in Levels[i]
    BY <2>1 DEF Predicates, Range
  <2>3. i - 1 \in Nat /\ i - 1 < Len(Levels) /\ (i - 1) + 1 = i
    BY <2>1
  <2>4. pred \in Below(i)
    BY <2>2 DEF Below
  <2> QED  BY <2>3, <2>4, BelowFacts
<1> QED  BY <1>2, <1>3, <1>4, <1>5, CombineVerdict

-----------------------------------------------------------------------------
(* What the lint leaves open.                                              *)

\* What the lint asks of a predicate, besides what it asks of its members.
WellFormed(p) ==
    /\ p # NotObject
    /\ IF DOMAIN p \cap Connectives = {} THEN DOMAIN p \cap LeafKeys # {}
       ELSE (Has(p, "all") => p.all # NotObject) /\ (Has(p, "any") /\ ~Has(p, "all") => p.any # NotObject)

\* v has the results of the lint on the predicates of the first n levels.
LintsBelow(v, n) ==
    /\ v \in [Predicates -> BOOLEAN]
    /\ \A p \in Below(n) : v[p] = (WellFormed(p) /\ \A q \in Members(p) : v[q])

LEMMA LintingEnds == \E v : LintsBelow(v, Len(Levels))
<1> DEFINE G == {n \in Nat : n <= Len(Levels) => \E v : LintsBelow(v, n)}
<1>0. Len(Levels) \in Nat
  BY PolicyAssumption
<1>1. 0 \in G
  <2>1. LintsBelow([p \in Predicates |-> FALSE], 0)
    BY BelowFacts DEF LintsBelow
  <2> QED  BY <2>1
<1>2. ASSUME NEW n \in G PROVE n + 1 \in G
  <2> SUFFICES ASSUME n + 1 <= Len(Levels) PROVE \E v : LintsBelow(v, n + 1)
    OBVIOUS
  <2>1. PICK v : LintsBelow(v, n)
    BY <1>0
  <2>2. /\ Below(n) \subseteq Below(n + 1) /\ Below(n + 1) \subseteq Predicates
        /\ \A p \in Below(n + 1) : Members(p) \subseteq Below(n)
    BY <1>0, BelowFacts
  <2> DEFINE w == [p \in Predicates |->
               IF p \in Below(n) THEN v[p] ELSE WellFormed(p) /\ \A q \in Members(p) : v[q]]
  <2>3. w \in [Predicates -> BOOLEAN]
    BY <2>1 DEF LintsBelow, WellFormed
  <2>4. ASSUME NEW p \in Below(n + 1) PROVE w[p] = (WellFormed(p) /\ \A q \in Members(p) : w[q])
    <3>1. \A q \in Members(p) : w[q] = v[q]
      BY <2>2
    <3>2. w[p] = (WellFormed(p) /\ \A q \in Members(p) : v[q])
      <4>1. CASE p \in Below(n)
        <5>1. w[p] = v[p]
          BY <2>2, <4>1
        <5> HIDE DEF w
        <5> QED  BY <2>1, <4>1, <5>1 DEF LintsBelow
      <4>2. CASE p \notin Below(n)
        BY <2>2, <4>2
      <4> QED  BY <4>1, <4>2
    <3> HIDE DEF w
    <3> QED  BY <3>1, <3>2
  <2>5. LintsBelow(w, n + 1)
    <3> HIDE DEF w
    <3> QED  BY <2>3, <2>4 DEF LintsBelow
  <2> QED  BY <2>5
<1> HIDE DEF G
<1>3. G \in SUBSET Nat
  BY DEF G
<1>4. Len(Levels) \in G
  BY <1>0, <1>1, <1>2, <1>3, CountingUp
<1> QED  BY <1>0, <1>4 DEF G

\* What linting a predicate comes to.
LEMMA LintsWhole ==
  ASSUME NEW pred \in Predicates, PredicateLints(pred)
  PROVE  WellFormed(pred) /\ \A q \in Members(pred) : PredicateLints(q)
<1> DEFINE Rule(lints) == [p \in Predicates |->
          /\ p # NotObject
          /\ IF DOMAIN p \cap Connectives = {} THEN DOMAIN p \cap LeafKeys # {}
             ELSE /\ Has(p, "all") => p.all # NotObject
                  /\ Has(p, "any") /\ ~Has(p, "all") => p.any # NotObject
                  /\ \A q \in Members(p) : lints[q]]
           lints == CHOOSE lints : lints = Rule(lints)
<1>1. ASSUME NEW p, DOMAIN p \cap Connectives = {}, p # NotObject PROVE Members(p) = {}
  BY <1>1 DEF Members, Has, Connectives
<1>2. ASSUME NEW v, NEW p \in Predicates
      PROVE  Rule(v)[p] = (WellFormed(p) /\ \A q \in Members(p) : v[q])
  BY <1>1 DEF WellFormed
<1>3. \E v : v = Rule(v)
  <2>1. PICK v : LintsBelow(v, Len(Levels))
    BY LintingEnds
  <2>2. v \in [Predicates -> BOOLEAN]
    BY <2>1 DEF LintsBelow
  <2>3. \A p \in Predicates : v[p] = Rule(v)[p]
    <3> HIDE DEF Rule
    <3> QED  BY <1>2, <2>1, BelowFacts DEF LintsBelow
  <2>4. DOMAIN Rule(v) = Predicates /\ Rule(v) = [p \in Predicates |-> Rule(v)[p]]
    OBVIOUS
  <2>5. v = Rule(v)
    <3> HIDE DEF Rule
    <3> QED  BY <2>2, <2>3, <2>4
  <2> QED  BY <2>5
<1>4. lints = Rule(lints)
  <2> HIDE DEF Rule
  <2> QED  BY <1>3
<1>5. \A p : PredicateLints(p) = lints[p]
  BY DEF PredicateLints
<1> HIDE DEF lints, Rule
<1>6. lints[pred] = (WellFormed(pred) /\ \A q \in Members(pred) : lints[q])
  BY <1>2, <1>4
<1> QED  BY <1>5, <1>6

\* A predicate and all it is made of.
Whole(S) == S \subseteq Predicates /\ \A p \in S : Members(p) \subseteq S
Parts(pred) == {p \in Predicates : \A S \in SUBSET Predicates : Whole(S) /\ pred \in S => p \in S}

\* What the lint does not ask: that a leaf names one thing, and describes it by an
\* object, not by a number.
Clean(p) ==
    DOMAIN p \cap Connectives = {} =>
        \A k, l \in DOMAIN p \cap LeafKeys :
            k = l /\ (k # "evidence_present" => p[k] # NotObject)

LEMMA PartsAreWhole ==
  ASSUME NEW pred \in Predicates
  PROVE  Whole(Parts(pred)) /\ pred \in Parts(pred)
<1>1. \A p \in Predicates : Members(p) \subseteq Predicates
  BY Evaluates
<1> QED  BY <1>1 DEF Whole, Parts

\* A leaf raises exactly if it is not clean.
LEMMA LeafRaises ==
  ASSUME NEW p, p # NotObject, DOMAIN p \cap Connectives = {}, DOMAIN p \cap LeafKeys # {}, NEW ctx
  PROVE  EvalLeaf(p, ctx) = "raise" <=> ~Clean(p)
<1> DEFINE keys == DOMAIN p \cap LeafKeys
<1>1. CASE \E k \in keys : keys = {k}
  <2>1. PICK k \in keys : keys = {k}
    BY <1>1
  <2>2. (CHOOSE x \in keys : TRUE) = k
    BY <2>1
  <2>3. EvalLeaf(p, ctx) = Leaf(k, p[k], ctx)
    BY <2>1, <2>2 DEF EvalLeaf
  <2>4. Clean(p) <=> (k # "evidence_present" => p[k] # NotObject)
    BY <2>1 DEF Clean
  <2>5. k \in LeafKeys
    OBVIOUS
  <2>6. Leaf(k, p[k], ctx) = "raise" <=> k # "evidence_present" /\ p[k] = NotObject
    BY <2>5 DEF Leaf, If, LeafKeys
  <2> QED  BY <2>3, <2>4, <2>6
<1>2. CASE ~\E k \in keys : keys = {k}
  <2>1. EvalLeaf(p, ctx) = "raise"
    BY <1>2 DEF EvalLeaf
  <2>2. PICK k \in keys, l \in keys : k # l
    BY <1>2
  <2> QED  BY <2>1, <2>2 DEF Clean
<1> QED  BY <1>1, <1>2

\* A connective raises exactly if a member does.
LEMMA ConnectiveRaises ==
  ASSUME NEW p, WellFormed(p), DOMAIN p \cap Connectives # {}, NEW found, NEW ctx
  PROVE  Combine(p, found, ctx) = "raise" <=> "raise" \in found
<1>1. p # NotObject /\ (Has(p, "all") \/ Has(p, "any") \/ Has(p, "not"))
  BY DEF WellFormed, Connectives, Has
<1>2. CASE Has(p, "all")
  BY <1>1, <1>2 DEF Combine, If, WellFormed, Has, Connectives
<1>3. CASE Has(p, "any") /\ ~Has(p, "all")
  BY <1>1, <1>3 DEF Combine, If, WellFormed, Has, Connectives
<1>4. CASE Has(p, "not") /\ ~Has(p, "all") /\ ~Has(p, "any")
  BY <1>1, <1>4 DEF Combine, If, WellFormed, Has, Connectives
<1> QED  BY <1>1, <1>2, <1>3, <1>4

LEMMA LintedPredicateRaises ==
  ASSUME NEW pred \in Predicates, PredicateLints(pred), NEW ctx
  PROVE  EvalPredicate(pred, ctx) = "raise" <=> \E p \in Parts(pred) : ~Clean(p)
<1> DEFINE Sound(p) == PredicateLints(p) => EvalPredicate(p, ctx) # "raise"
<1>1. ASSUME NEW p \in Predicates, PredicateLints(p)
      PROVE  EvalPredicate(p, ctx) = "raise" <=>
               IF DOMAIN p \cap Connectives = {} THEN ~Clean(p)
               ELSE \E q \in Members(p) : EvalPredicate(q, ctx) = "raise"
  <2>1. WellFormed(p)
    BY <1>1, LintsWhole
  <2> DEFINE found == {EvalPredicate(q, ctx) : q \in Members(p)}
  <2>2. EvalPredicate(p, ctx) = Combine(p, found, ctx)
    BY Evaluates
  <2>3. CASE DOMAIN p \cap Connectives = {}
    <3>1. Combine(p, found, ctx) = EvalLeaf(p, ctx)
      BY <2>1, <2>3 DEF Combine, WellFormed, Has, Connectives
    <3>2. p # NotObject /\ DOMAIN p \cap LeafKeys # {}
      BY <2>1, <2>3 DEF WellFormed
    <3> QED  BY <2>2, <2>3, <3>1, <3>2, LeafRaises
  <2>4. CASE DOMAIN p \cap Connectives # {}
    <3>1. Combine(p, found, ctx) = "raise" <=> "raise" \in found
      BY <2>1, <2>4, ConnectiveRaises
    <3> QED  BY <2>2, <2>4, <3>1
  <2> QED  BY <2>3, <2>4
<1>2. ASSUME \A p \in Parts(pred) : Clean(p) PROVE EvalPredicate(pred, ctx) # "raise"
  <2> DEFINE G == {n \in Nat : n <= Len(Levels) => \A p \in Below(n) \cap Parts(pred) : Sound(p)}
  <2>0. Len(Levels) \in Nat
    BY PolicyAssumption
  <2>1. 0 \in G
    BY BelowFacts
  <2>2. ASSUME NEW n \in G PROVE n + 1 \in G
    <3> SUFFICES ASSUME n + 1 <= Len(Levels), NEW p \in Below(n + 1) \cap Parts(pred),
                        PredicateLints(p)
                 PROVE  EvalPredicate(p, ctx) # "raise"
      OBVIOUS
    <3>1. p \in Predicates /\ Members(p) \subseteq Below(n)
      BY <2>0, BelowFacts
    <3>2. Members(p) \subseteq Parts(pred)
      BY PartsAreWhole DEF Whole
    <3>3. \A q \in Members(p) : PredicateLints(q)
      BY <3>1, LintsWhole
    <3>4. \A q \in Members(p) : EvalPredicate(q, ctx) # "raise"
      BY <2>0, <3>1, <3>2, <3>3
    <3> QED  BY <1>1, <1>2, <3>1, <3>4
  <2> HIDE DEF G
  <2>3. G \in SUBSET Nat
    BY DEF G
  <2>4. Len(Levels) \in G
    BY <2>0, <2>1, <2>2, <2>3, CountingUp
  <2> QED  BY <2>0, <2>4, BelowFacts, PartsAreWhole DEF G
<1>3. ASSUME EvalPredicate(pred, ctx) # "raise" PROVE \A p \in Parts(pred) : Clean(p)
  <2> DEFINE S == {p \in Predicates : PredicateLints(p) /\ EvalPredicate(p, ctx) # "raise"}
  <2>1. ASSUME NEW p \in S PROVE Clean(p) /\ Members(p) \subseteq S
    <3>1. Members(p) \subseteq Predicates /\ \A q \in Members(p) : PredicateLints(q)
      BY Evaluates, LintsWhole
    <3>2. CASE DOMAIN p \cap Connectives = {}
      <4>1. WellFormed(p)
        BY LintsWhole
      <4>2. Members(p) = {}
        BY <3>2, <4>1 DEF Members, Has, Connectives, WellFormed
      <4> QED  BY <1>1, <3>2, <4>2
    <3>3. CASE DOMAIN p \cap Connectives # {}
      <4>1. Clean(p)
        BY <3>3 DEF Clean
      <4> QED  BY <1>1, <3>1, <3>3, <4>1
    <3> QED  BY <3>2, <3>3
  <2>2. Whole(S) /\ pred \in S
    BY <1>3, <2>1 DEF Whole
  <2>3. Parts(pred) \subseteq S
    <3> HIDE DEF S
    <3> QED  BY <2>2 DEF Parts, Whole
  <2> QED  BY <2>1, <2>3
<1> QED  BY <1>2, <1>3

\* A rule that lints (validate_rule) raises when it is evaluated (evaluate_control) just
\* if some leaf in it names two things or describes one by a number.
\* So it raises for every control it is given to and whatever its evidence, or for none.
THEOREM LintedRuleRaises ==
  ASSUME NEW rule, Lints(rule), Resolve(rule) \in Predicates, NEW ctx
  PROVE  EvaluateControl(rule, ctx) = "raise" <=> \E p \in Parts(Resolve(rule)) : ~Clean(p)
<1>1. Resolvable(rule) /\ PredicateLints(Resolve(rule))
  BY DEF Lints
<1>2. EvalPredicate(Resolve(rule), ctx) \in Verdicts
  BY Evaluates
<1>3. EvaluateControl(rule, ctx) = "raise" <=> EvalPredicate(Resolve(rule), ctx) = "raise"
  BY <1>1, <1>2 DEF EvaluateControl, Verdicts
<1> QED  BY <1>1, <1>3, LintedPredicateRaises

-----------------------------------------------------------------------------
(* The named rules.                                                        *)

NoEvidence == [evidence_present |-> FALSE]
HighSeverity == [max_severity |-> [at_least |-> "high"]]
RuleNames == {"fail_when_open_violation", "fail_when_stale_evidence",
              "fail_when_open_violation_or_stale_evidence", "fail_when_missing_evidence",
              "fail_when_high_severity_open"}

LEMMA NamedFacts ==
  /\ DOMAIN NAMED_RULES = RuleNames
  /\ \A n \in RuleNames : NAMED_RULES[n] \in Range(NAMED_RULES)
  /\ NAMED_RULES["fail_when_open_violation"] = AnOpenViolation
  /\ NAMED_RULES["fail_when_stale_evidence"] = [any |-> <<StaleEvidence, AnOpenViolation>>]
  /\ NAMED_RULES["fail_when_open_violation_or_stale_evidence"] =
       [any |-> <<AnOpenViolation, StaleEvidence>>]
  /\ NAMED_RULES["fail_when_missing_evidence"] = [any |-> <<NoEvidence, AnOpenViolation>>]
  /\ NAMED_RULES["fail_when_high_severity_open"] = [all |-> <<AnOpenViolation, HighSeverity>>]
BY DEF NAMED_RULES, RuleNames, Range, NoEvidence, HighSeverity

LEMMA PairRange == \A a, b : Range(<<a, b>>) = {a, b}
<1> SUFFICES ASSUME NEW a, NEW b PROVE Range(<<a, b>>) = {a, b}
  OBVIOUS
<1>1. DOMAIN <<a, b>> = {1, 2} /\ <<a, b>>[1] = a /\ <<a, b>>[2] = b
  OBVIOUS
<1> QED  BY <1>1 DEF Range

\* The connectives of the named rules.
LEMMA AnyOfTwo ==
  ASSUME NEW ctx, NEW a, NEW b, [any |-> <<a, b>>] \in Predicates,
         [any |-> <<a, b>>] # NotObject, <<a, b>> # NotObject
  PROVE  /\ Members([any |-> <<a, b>>]) = {a, b}
         /\ EvalPredicate(a, ctx) # "raise" /\ EvalPredicate(b, ctx) # "raise" =>
              EvalPredicate([any |-> <<a, b>>], ctx) =
                If(EvalPredicate(a, ctx) = "match" \/ EvalPredicate(b, ctx) = "match")
<1> DEFINE pred == [any |-> <<a, b>>]
<1>1. DOMAIN pred = {"any"} /\ pred.any = <<a, b>>
  OBVIOUS
<1>0. DOMAIN pred \cap Connectives # {}
  BY <1>1 DEF Connectives
<1>2. Has(pred, "any") /\ ~Has(pred, "all")
  BY <1>1 DEF Has
<1>3. pred \in Predicates /\ pred # NotObject /\ pred.any # NotObject
  BY <1>1
<1> HIDE DEF pred
<1>4. Members(pred) = {a, b}
  <2>1. Members(pred) = Range(pred.any)
    BY <1>0, <1>2, <1>3 DEF Members
  <2> QED  BY <1>1, <2>1, PairRange
<1>5. {EvalPredicate(q, ctx) : q \in Members(pred)} = {EvalPredicate(a, ctx), EvalPredicate(b, ctx)}
  BY <1>4
<1>6. EvalPredicate(pred, ctx) =
        Combine(pred, {EvalPredicate(a, ctx), EvalPredicate(b, ctx)}, ctx)
  BY <1>3, <1>5, Evaluates
<1>7. EvalPredicate(a, ctx) # "raise" /\ EvalPredicate(b, ctx) # "raise" =>
        EvalPredicate(pred, ctx) = If(EvalPredicate(a, ctx) = "match" \/ EvalPredicate(b, ctx) = "match")
  <2> DEFINE x == EvalPredicate(a, ctx)
             y == EvalPredicate(b, ctx)
  <2>1. Combine(pred, {x, y}, ctx) =
          IF pred.any = NotObject \/ "raise" \in {x, y} THEN "raise" ELSE If("match" \in {x, y})
    BY <1>0, <1>2, <1>3 DEF Combine
  <2> QED  BY <1>3, <1>6, <2>1 DEF If
<1> QED  BY <1>4, <1>7 DEF pred

LEMMA AllOfTwo ==
  ASSUME NEW ctx, NEW a, NEW b, [all |-> <<a, b>>] \in Predicates,
         [all |-> <<a, b>>] # NotObject, <<a, b>> # NotObject
  PROVE  /\ Members([all |-> <<a, b>>]) = {a, b}
         /\ EvalPredicate(a, ctx) # "raise" /\ EvalPredicate(b, ctx) # "raise" =>
              EvalPredicate([all |-> <<a, b>>], ctx) =
                If(EvalPredicate(a, ctx) # "no" /\ EvalPredicate(b, ctx) # "no")
<1> DEFINE pred == [all |-> <<a, b>>]
<1>1. DOMAIN pred = {"all"} /\ pred.all = <<a, b>>
  OBVIOUS
<1>0. DOMAIN pred \cap Connectives # {}
  BY <1>1 DEF Connectives
<1>2. Has(pred, "all")
  BY <1>1 DEF Has
<1>3. pred \in Predicates /\ pred # NotObject /\ pred.all # NotObject
  BY <1>1
<1> HIDE DEF pred
<1>4. Members(pred) = {a, b}
  <2>1. Members(pred) = Range(pred.all)
    BY <1>0, <1>2, <1>3 DEF Members
  <2> QED  BY <1>1, <2>1, PairRange
<1>5. {EvalPredicate(q, ctx) : q \in Members(pred)} = {EvalPredicate(a, ctx), EvalPredicate(b, ctx)}
  BY <1>4
<1>6. EvalPredicate(pred, ctx) =
        Combine(pred, {EvalPredicate(a, ctx), EvalPredicate(b, ctx)}, ctx)
  BY <1>3, <1>5, Evaluates
<1>7. EvalPredicate(a, ctx) # "raise" /\ EvalPredicate(b, ctx) # "raise" =>
        EvalPredicate(pred, ctx) = If(EvalPredicate(a, ctx) # "no" /\ EvalPredicate(b, ctx) # "no")
  <2> DEFINE x == EvalPredicate(a, ctx)
             y == EvalPredicate(b, ctx)
  <2>1. Combine(pred, {x, y}, ctx) =
          IF pred.all = NotObject \/ "raise" \in {x, y} THEN "raise" ELSE If("no" \notin {x, y})
    BY <1>0, <1>2, <1>3 DEF Combine
  <2> QED  BY <1>3, <1>6, <2>1 DEF If
<1> QED  BY <1>4, <1>7 DEF pred

\* The predicates of the named rules are there, and so are what they are made of.
LEMMA NamedPredicates ==
  /\ {AnOpenViolation, StaleEvidence, NoEvidence, HighSeverity} \subseteq Predicates
  /\ \A p \in {AnOpenViolation, StaleEvidence, NoEvidence, HighSeverity} :
       p # NotObject /\ \A k \in DOMAIN p : p[k] # NotObject
  /\ \A n \in RuleNames : /\ NAMED_RULES[n] \in Predicates /\ NAMED_RULES[n] # NotObject
                          /\ \A k \in DOMAIN NAMED_RULES[n] : NAMED_RULES[n][k] # NotObject
<1>1. \A n \in RuleNames : /\ NAMED_RULES[n] \in Predicates /\ NAMED_RULES[n] # NotObject
                           /\ \A k \in DOMAIN NAMED_RULES[n] : NAMED_RULES[n][k] # NotObject
                           /\ \A p \in Members(NAMED_RULES[n]) :
                                /\ p \in Predicates /\ p # NotObject
                                /\ \A k \in DOMAIN p : p[k] # NotObject
  <2> SUFFICES ASSUME NEW n \in RuleNames
               PROVE  /\ NAMED_RULES[n] \in Predicates /\ NAMED_RULES[n] # NotObject
                      /\ \A k \in DOMAIN NAMED_RULES[n] : NAMED_RULES[n][k] # NotObject
                      /\ \A p \in Members(NAMED_RULES[n]) :
                           /\ p \in Predicates /\ p # NotObject
                           /\ \A k \in DOMAIN p : p[k] # NotObject
    OBVIOUS
  <2> DEFINE r == NAMED_RULES[n]
  <2>1. r \in Range(NAMED_RULES)
    BY NamedFacts
  <2> HIDE DEF r
  <2>2. r \in Predicates /\ \A p \in {r} \cup Members(r) :
          p # NotObject /\ \A k \in DOMAIN p : p[k] # NotObject
    BY <2>1, PolicyAssumption
  <2>3. Members(r) \subseteq Predicates
    BY <2>2, Evaluates
  <2> QED  BY <2>2, <2>3 DEF r
<1>2. Members(NAMED_RULES["fail_when_stale_evidence"]) = {StaleEvidence, AnOpenViolation}
  <2> DEFINE r == NAMED_RULES["fail_when_stale_evidence"]
  <2>1. r = [any |-> <<StaleEvidence, AnOpenViolation>>] /\ r \in Predicates /\ r # NotObject
        /\ \A k \in DOMAIN r : r[k] # NotObject
    BY <1>1, NamedFacts DEF RuleNames
  <2> HIDE DEF r
  <2>2. <<StaleEvidence, AnOpenViolation>> # NotObject
    BY <2>1
  <2>3. Members(r) = {StaleEvidence, AnOpenViolation}
    BY <2>1, <2>2, AnyOfTwo
  <2> QED  BY <2>3 DEF r
<1>3. Members(NAMED_RULES["fail_when_missing_evidence"]) = {NoEvidence, AnOpenViolation}
  <2> DEFINE r == NAMED_RULES["fail_when_missing_evidence"]
  <2>1. r = [any |-> <<NoEvidence, AnOpenViolation>>] /\ r \in Predicates /\ r # NotObject
        /\ \A k \in DOMAIN r : r[k] # NotObject
    BY <1>1, NamedFacts DEF RuleNames
  <2> HIDE DEF r
  <2>2. <<NoEvidence, AnOpenViolation>> # NotObject
    BY <2>1
  <2>3. Members(r) = {NoEvidence, AnOpenViolation}
    BY <2>1, <2>2, AnyOfTwo
  <2> QED  BY <2>3 DEF r
<1>4. Members(NAMED_RULES["fail_when_high_severity_open"]) = {AnOpenViolation, HighSeverity}
  <2> DEFINE r == NAMED_RULES["fail_when_high_severity_open"]
  <2>1. r = [all |-> <<AnOpenViolation, HighSeverity>>] /\ r \in Predicates /\ r # NotObject
        /\ \A k \in DOMAIN r : r[k] # NotObject
    BY <1>1, NamedFacts DEF RuleNames
  <2> HIDE DEF r
  <2>2. <<AnOpenViolation, HighSeverity>> # NotObject
    BY <2>1
  <2>3. Members(r) = {AnOpenViolation, HighSeverity}
    BY <2>1, <2>2, AllOfTwo
  <2> QED  BY <2>3 DEF r
<1> QED  BY <1>1, <1>2, <1>3, <1>4 DEF RuleNames

\* A leaf says what it says.
LEMMA LeafOf ==
  ASSUME NEW ctx, NEW key \in LeafKeys, NEW pred \in Predicates, pred # NotObject, DOMAIN pred = {key}
  PROVE  EvalPredicate(pred, ctx) = Leaf(key, pred[key], ctx)
<1>1. DOMAIN pred \cap Connectives = {} /\ DOMAIN pred \cap LeafKeys = {key}
  BY DEF LeafKeys, Connectives
<1>2. ~Has(pred, "all") /\ ~Has(pred, "any") /\ ~Has(pred, "not")
  BY <1>1 DEF Has, Connectives
<1>3. EvalPredicate(pred, ctx) = EvalLeaf(pred, ctx)
  <2>1. EvalPredicate(pred, ctx) = Combine(pred, {EvalPredicate(q, ctx) : q \in Members(pred)}, ctx)
    BY Evaluates
  <2> QED  BY <1>1, <1>2, <2>1 DEF Combine
<1> QED  BY <1>1, <1>3 DEF EvalLeaf

LEMMA LeafVerdicts ==
  ASSUME NEW ctx, ctx.open \in Nat, ctx.evidence \in Nat
  PROVE  /\ EvalPredicate(AnOpenViolation, ctx) = If(ctx.open >= 1)
         /\ EvalPredicate(StaleEvidence, ctx) = If(ctx.status \in STALE_EVIDENCE)
         /\ EvalPredicate(NoEvidence, ctx) = If(~(ctx.evidence > 0))
         /\ EvalPredicate(HighSeverity, ctx) = If(Rank(ctx.severity) >= 3 /\ ctx.open > 0)
<1>1. EvalPredicate(AnOpenViolation, ctx) = If(ctx.open >= 1)
  <2>1. EvalPredicate(AnOpenViolation, ctx) = Leaf("open_violations", [min |-> 1], ctx)
    <3>1. DOMAIN AnOpenViolation = {"open_violations"} /\ AnOpenViolation["open_violations"] = [min |-> 1]
      BY DEF AnOpenViolation
    <3>2. "open_violations" \in LeafKeys /\ AnOpenViolation \in Predicates /\ AnOpenViolation # NotObject
      BY NamedPredicates DEF LeafKeys
    <3> QED  BY <3>1, <3>2, LeafOf
  <2>2. [min |-> 1] # NotObject
    BY NamedPredicates DEF AnOpenViolation
  <2>3. Has([min |-> 1], "min") /\ ~Has([min |-> 1], "max") /\ [min |-> 1].min = 1
    BY DEF Has
  <2> QED  BY <2>1, <2>2, <2>3 DEF Leaf, If
<1>2. EvalPredicate(StaleEvidence, ctx) = If(ctx.status \in STALE_EVIDENCE)
  <2>1. EvalPredicate(StaleEvidence, ctx) = Leaf("evidence_status", [in |-> STALE_EVIDENCE], ctx)
    <3>1. DOMAIN StaleEvidence = {"evidence_status"}
          /\ StaleEvidence["evidence_status"] = [in |-> STALE_EVIDENCE]
      BY DEF StaleEvidence
    <3>2. "evidence_status" \in LeafKeys /\ StaleEvidence \in Predicates /\ StaleEvidence # NotObject
      BY NamedPredicates DEF LeafKeys
    <3> QED  BY <3>1, <3>2, LeafOf
  <2>2. [in |-> STALE_EVIDENCE] # NotObject
    BY NamedPredicates DEF StaleEvidence
  <2>3. Has([in |-> STALE_EVIDENCE], "in") /\ [in |-> STALE_EVIDENCE].in = STALE_EVIDENCE
    BY DEF Has
  <2> QED  BY <2>1, <2>2, <2>3 DEF Leaf
<1>3. EvalPredicate(NoEvidence, ctx) = If(~(ctx.evidence > 0))
  <2>1. EvalPredicate(NoEvidence, ctx) = Leaf("evidence_present", FALSE, ctx)
    <3>1. DOMAIN NoEvidence = {"evidence_present"} /\ NoEvidence["evidence_present"] = FALSE
      BY DEF NoEvidence
    <3>2. "evidence_present" \in LeafKeys /\ NoEvidence \in Predicates /\ NoEvidence # NotObject
      BY NamedPredicates DEF LeafKeys
    <3> QED  BY <3>1, <3>2, LeafOf
  <2>2. Leaf("evidence_present", FALSE, ctx) = If((ctx.evidence > 0) = (FALSE # FALSE))
    BY DEF Leaf
  <2>3. CASE ctx.evidence > 0
    <3>1. ((ctx.evidence > 0) = (FALSE # FALSE)) = FALSE
      BY <2>3
    <3> QED  BY <2>1, <2>2, <2>3, <3>1 DEF If
  <2>4. CASE ~(ctx.evidence > 0)
    <3>1. ((ctx.evidence > 0) = (FALSE # FALSE)) = TRUE
      BY <2>4
    <3> QED  BY <2>1, <2>2, <2>4, <3>1 DEF If
  <2> QED  BY <2>3, <2>4
<1>4. EvalPredicate(HighSeverity, ctx) = If(Rank(ctx.severity) >= 3 /\ ctx.open > 0)
  <2>1. EvalPredicate(HighSeverity, ctx) = Leaf("max_severity", [at_least |-> "high"], ctx)
    <3>1. DOMAIN HighSeverity = {"max_severity"} /\ HighSeverity["max_severity"] = [at_least |-> "high"]
      BY DEF HighSeverity
    <3>2. "max_severity" \in LeafKeys /\ HighSeverity \in Predicates /\ HighSeverity # NotObject
      BY NamedPredicates DEF LeafKeys
    <3> QED  BY <3>1, <3>2, LeafOf
  <2>2. [at_least |-> "high"] # NotObject
    BY NamedPredicates DEF HighSeverity
  <2>3. Has([at_least |-> "high"], "at_least") /\ RankOr([at_least |-> "high"].at_least, 3) = 3
    BY DEF Has, RankOr, SEVERITY_ORDER
  <2> QED  BY <2>1, <2>2, <2>3 DEF Leaf
<1> QED  BY <1>1, <1>2, <1>3, <1>4

\* When a rule of this name fails a control.
Fails(n, ctx) ==
    \/ n # "fail_when_high_severity_open" /\ ctx.open >= 1
    \/ /\ n \in {"fail_when_stale_evidence", "fail_when_open_violation_or_stale_evidence"}
       /\ ctx.status \in STALE_EVIDENCE
    \/ n = "fail_when_missing_evidence" /\ ~(ctx.evidence > 0)
    \/ n = "fail_when_high_severity_open" /\ ctx.open >= 1 /\ Rank(ctx.severity) >= 3

LEMMA NamedVerdict ==
  ASSUME NEW ctx, ctx.open \in Nat, ctx.evidence \in Nat, NEW n \in RuleNames
  PROVE  EvalPredicate(NAMED_RULES[n], ctx) = If(Fails(n, ctx))
<1>1. \A p \in {AnOpenViolation, StaleEvidence, NoEvidence, HighSeverity} :
        EvalPredicate(p, ctx) # "raise"
  BY LeafVerdicts DEF If
<1>2. NAMED_RULES[n] \in Predicates /\ NAMED_RULES[n] # NotObject
      /\ \A k \in DOMAIN NAMED_RULES[n] : NAMED_RULES[n][k] # NotObject
  BY NamedPredicates
<1>3. CASE n = "fail_when_open_violation"
  <2>1. NAMED_RULES[n] = AnOpenViolation
    BY <1>3, NamedFacts
  <2> QED  BY <1>3, <2>1, LeafVerdicts DEF Fails, If
<1>4. CASE n = "fail_when_stale_evidence"
  <2>1. NAMED_RULES[n] = [any |-> <<StaleEvidence, AnOpenViolation>>]
    BY <1>4, NamedFacts
  <2>2. <<StaleEvidence, AnOpenViolation>> # NotObject
    BY <1>2, <2>1
  <2>3. EvalPredicate(NAMED_RULES[n], ctx) =
          If(EvalPredicate(StaleEvidence, ctx) = "match" \/ EvalPredicate(AnOpenViolation, ctx) = "match")
    BY <1>1, <1>2, <2>1, <2>2, AnyOfTwo
  <2> QED  BY <1>4, <2>3, LeafVerdicts DEF Fails, If
<1>5. CASE n = "fail_when_open_violation_or_stale_evidence"
  <2>1. NAMED_RULES[n] = [any |-> <<AnOpenViolation, StaleEvidence>>]
    BY <1>5, NamedFacts
  <2>2. <<AnOpenViolation, StaleEvidence>> # NotObject
    BY <1>2, <2>1
  <2>3. EvalPredicate(NAMED_RULES[n], ctx) =
          If(EvalPredicate(AnOpenViolation, ctx) = "match" \/ EvalPredicate(StaleEvidence, ctx) = "match")
    BY <1>1, <1>2, <2>1, <2>2, AnyOfTwo
  <2> QED  BY <1>5, <2>3, LeafVerdicts DEF Fails, If
<1>6. CASE n = "fail_when_missing_evidence"
  <2>1. NAMED_RULES[n] = [any |-> <<NoEvidence, AnOpenViolation>>]
    BY <1>6, NamedFacts
  <2>2. <<NoEvidence, AnOpenViolation>> # NotObject
    BY <1>2, <2>1
  <2>3. EvalPredicate(NAMED_RULES[n], ctx) =
          If(EvalPredicate(NoEvidence, ctx) = "match" \/ EvalPredicate(AnOpenViolation, ctx) = "match")
    BY <1>1, <1>2, <2>1, <2>2, AnyOfTwo
  <2> QED  BY <1>6, <2>3, LeafVerdicts DEF Fails, If
<1>7. CASE n = "fail_when_high_severity_open"
  <2>1. NAMED_RULES[n] = [all |-> <<AnOpenViolation, HighSeverity>>]
    BY <1>7, NamedFacts
  <2>2. <<AnOpenViolation, HighSeverity>> # NotObject
    BY <1>2, <2>1
  <2>3. EvalPredicate(NAMED_RULES[n], ctx) =
          If(EvalPredicate(AnOpenViolation, ctx) # "no" /\ EvalPredicate(HighSeverity, ctx) # "no")
    BY <1>1, <1>2, <2>1, <2>2, AllOfTwo
  <2> QED  BY <1>7, <2>3, LeafVerdicts DEF Fails, If
<1> QED  BY <1>3, <1>4, <1>5, <1>6, <1>7 DEF RuleNames

\* A rule that is named, or falls back to the default, never raises, and fails a
\* control when the rule of some name does.
LEMMA NamedStatus ==
  ASSUME NEW rule, IsNamed(rule)
  PROVE  \E n \in RuleNames :
           /\ StaleSensitive(rule) =>
                n \in {"fail_when_stale_evidence", "fail_when_open_violation_or_stale_evidence"}
           /\ \A ctx : ctx.open \in Nat /\ ctx.evidence \in Nat =>
                EvaluateControl(rule, ctx) = IF Fails(n, ctx) THEN "fail" ELSE "pass"
<1>1. ASSUME NEW n \in RuleNames, NEW ctx, ctx.open \in Nat, ctx.evidence \in Nat,
             (IF Resolvable(rule) THEN Resolve(rule) ELSE DefaultPredicate) = NAMED_RULES[n]
      PROVE  EvaluateControl(rule, ctx) = IF Fails(n, ctx) THEN "fail" ELSE "pass"
  <2>1. EvalPredicate(NAMED_RULES[n], ctx) = If(Fails(n, ctx))
    BY <1>1, NamedVerdict
  <2> QED  BY <1>1, <2>1 DEF EvaluateControl, If
<1>2. CASE Resolvable(rule) /\ rule.kind = "name"
  <2>1. rule.name \in RuleNames /\ Resolve(rule) = NAMED_RULES[rule.name]
    BY <1>2, NamedFacts DEF Resolvable, Resolve
  <2>2. StaleSensitive(rule) =>
          rule.name \in {"fail_when_stale_evidence", "fail_when_open_violation_or_stale_evidence"}
    BY DEF StaleSensitive, Named
  <2> QED  BY <1>1, <1>2, <2>1, <2>2
<1>3. CASE ~(Resolvable(rule) /\ rule.kind = "name")
  <2>1. "fail_when_open_violation" \in RuleNames
    BY DEF RuleNames
  <2>2. (IF Resolvable(rule) THEN Resolve(rule) ELSE DefaultPredicate)
          = NAMED_RULES["fail_when_open_violation"]
    BY <1>3 DEF IsNamed, Resolvable, Resolve, DefaultPredicate
  <2>3. ~StaleSensitive(rule)
    <3>1. ASSUME StaleSensitive(rule) PROVE FALSE
      <4>1. rule.kind = "name" /\ rule.name \in RuleNames
        BY <3>1 DEF StaleSensitive, Named, RuleNames
      <4> QED  BY <1>3, <4>1, NamedFacts DEF Resolvable
    <3> QED  BY <3>1
  <2> QED  BY <1>1, <2>1, <2>2, <2>3
<1> QED  BY <1>2, <1>3

LEMMA StaleSensitiveIsNamed == \A rule : StaleSensitive(rule) => IsNamed(rule)
  BY DEF StaleSensitive, IsNamed, Named

LEMMA StatusVerdict ==
  ASSUME NEW choice \in RuleChoices, NEW c \in Controls, NEW ctx
  PROVE  EvaluateControl(choice[c], ctx) \in {"pass", "fail", "raise"}
<1> DEFINE pred == IF Resolvable(choice[c]) THEN Resolve(choice[c]) ELSE DefaultPredicate
<1>1. DefaultPredicate \in Predicates
  BY NamedPredicates DEF DefaultPredicate, RuleNames
<1>2. pred \in Predicates
  BY <1>1, EvaluationAssumption
<1> HIDE DEF pred
<1>3. EvalPredicate(pred, ctx) \in Verdicts
  BY <1>2, Evaluates
<1> QED  BY <1>3 DEF EvaluateControl, Verdicts, pred

-----------------------------------------------------------------------------
(* Rows.                                                                   *)

Typed(rows) == DOMAIN rows \subseteq Events /\ \A e \in DOMAIN rows : rows[e] \in Row

LEMMA RowFacts ==
  ASSUME NEW rows, Typed(rows), NEW e \in DOMAIN rows
  PROVE  /\ rows[e] \in Row
         /\ rows[e].cites \in SUBSET Controls /\ rows[e].severity \in DOMAIN SEVERITY_SCORE
         /\ rows[e].type \in Types /\ rows[e].at \in Nat /\ Slo[rows[e].type] \in Nat
         /\ rows[e].open \in BOOLEAN /\ rows[e].ref \in BOOLEAN
<1>1. rows[e] \in Row
  BY DEF Typed
<1>2. rows[e].cites \in CiteChoices /\ rows[e].severity \in Severities /\ rows[e].type \in Types
      /\ rows[e].at \in 0..MaxClock /\ rows[e].open \in BOOLEAN /\ rows[e].ref \in BOOLEAN
  BY <1>1 DEF Row
<1> QED  BY <1>1, <1>2, EvaluationAssumption

\* Sets of events can be counted, and so can controls.
LEMMA Countable ==
  ASSUME NEW rows, Typed(rows), NEW s \in SUBSET DOMAIN rows
  PROVE  /\ IsFiniteSet(s) /\ Cardinality(s) \in Nat
         /\ Cardinality(s) \in 0..Cardinality(Events)
         /\ Cardinality(s) > 0 <=> s # {}
<1>1. s \in SUBSET Events /\ IsFiniteSet(Events)
  BY EvaluationAssumption DEF Typed
<1>2. IsFiniteSet(s) /\ Cardinality(s) <= Cardinality(Events)
  BY <1>1, FS_Subset
<1>3. Cardinality(s) \in Nat /\ Cardinality(Events) \in Nat
  BY <1>1, <1>2, FS_CardinalityType
<1>4. Cardinality(s) = 0 <=> s = {}
  BY <1>2, FS_EmptySet
<1> QED  BY <1>2, <1>3, <1>4

LEMMA CountableControls ==
  ASSUME NEW s \in SUBSET Controls
  PROVE  /\ IsFiniteSet(s) /\ Cardinality(s) \in Nat
         /\ Cardinality(s) > 0 <=> s # {}
<1>1. IsFiniteSet(s)
  BY FS_Subset, EvaluationAssumption
<1>2. Cardinality(s) \in Nat /\ (Cardinality(s) = 0 <=> s = {})
  BY <1>1, FS_CardinalityType, FS_EmptySet
<1> QED  BY <1>1, <1>2

LEMMA CitedControls ==
  ASSUME NEW rows, Typed(rows)
  PROVE  /\ Cited(rows) \in SUBSET Controls
         /\ \A now : StaleControls(rows, now) \in SUBSET Cited(rows)
         /\ \A c : c \in Cited(rows) <=> Citing(rows, c) # {}
BY RowFacts DEF Cited, StaleControls, Citing

\* The worst open severity: no open event has a higher score.
LEMMA Worst ==
  ASSUME NEW rows, Typed(rows), NEW c, Open(rows, c) # {}
  PROVE  /\ \E e \in Open(rows, c) : WorstOpen(rows, c) = rows[e].severity
         /\ \A e \in Open(rows, c) :
              SEVERITY_SCORE[rows[e].severity] <= SEVERITY_SCORE[WorstOpen(rows, c)]
<1> DEFINE open == {rows[e].severity : e \in Open(rows, c)}
<1>1. open # {} /\ open \subseteq DOMAIN SEVERITY_SCORE
  BY RowFacts DEF Open, Citing
<1>2. \E s \in open : \A t \in open : SEVERITY_SCORE[t] <= SEVERITY_SCORE[s]
  <2>1. open \subseteq {"critical", "high", "medium", "low", "info", "none"}
    BY <1>1 DEF SEVERITY_SCORE
  <2> HIDE DEF open
  <2>2. CASE "critical" \in open
    BY <2>1, <2>2 DEF SEVERITY_SCORE
  <2>3. CASE "critical" \notin open /\ "high" \in open
    BY <2>1, <2>3 DEF SEVERITY_SCORE
  <2>4. CASE "critical" \notin open /\ "high" \notin open /\ "medium" \in open
    BY <2>1, <2>4 DEF SEVERITY_SCORE
  <2>5. CASE open \subseteq {"low", "info", "none"} /\ "low" \in open
    BY <2>5 DEF SEVERITY_SCORE
  <2>6. CASE open \subseteq {"info", "none"} /\ "info" \in open
    BY <2>6 DEF SEVERITY_SCORE
  <2>7. CASE open \subseteq {"none"}
    BY <1>1, <2>7 DEF SEVERITY_SCORE
  <2> QED  BY <2>1, <2>2, <2>3, <2>4, <2>5, <2>6, <2>7
<1>3. WorstOpen(rows, c) = CHOOSE s \in open : \A t \in open : SEVERITY_SCORE[t] <= SEVERITY_SCORE[s]
  BY <1>1 DEF WorstOpen
<1>4. WorstOpen(rows, c) \in open
      /\ \A t \in open : SEVERITY_SCORE[t] <= SEVERITY_SCORE[WorstOpen(rows, c)]
  <2> HIDE DEF open
  <2> QED  BY <1>2, <1>3
<1> QED  BY <1>4

\* The score of a severity and its rank agree on what is high.
LEMMA HighScore ==
  ASSUME NEW s \in DOMAIN SEVERITY_SCORE
  PROVE  /\ SEVERITY_SCORE[s] \in 0..100
         /\ Rank(s) >= 3 <=> SEVERITY_SCORE[s] >= 80
BY DEF SEVERITY_SCORE, SEVERITY_ORDER, Rank, RankOr

LEMMA HighOpen ==
  ASSUME NEW rows, Typed(rows), NEW c, Open(rows, c) # {}
  PROVE  Rank(WorstOpen(rows, c)) >= 3 <=> \E e \in Open(rows, c) : Rank(rows[e].severity) >= 3
<1>1. PICK e \in Open(rows, c) : WorstOpen(rows, c) = rows[e].severity
  BY Worst
<1>2. \A x \in Open(rows, c) : rows[x].severity \in DOMAIN SEVERITY_SCORE
  BY RowFacts DEF Open, Citing
<1>3. ASSUME NEW x \in Open(rows, c), Rank(rows[x].severity) >= 3
      PROVE  Rank(WorstOpen(rows, c)) >= 3
  <2>1. SEVERITY_SCORE[rows[x].severity] <= SEVERITY_SCORE[WorstOpen(rows, c)]
    BY Worst
  <2>2. SEVERITY_SCORE[rows[x].severity] >= 80 /\ SEVERITY_SCORE[rows[x].severity] \in 0..100
    BY <1>2, <1>3, HighScore
  <2>3. WorstOpen(rows, c) \in DOMAIN SEVERITY_SCORE
        /\ SEVERITY_SCORE[WorstOpen(rows, c)] \in 0..100
    BY <1>1, <1>2, HighScore
  <2>4. SEVERITY_SCORE[WorstOpen(rows, c)] >= 80
    BY <2>1, <2>2, <2>3
  <2> QED  BY <2>3, <2>4, HighScore
<1> QED  BY <1>1, <1>3

\* What a rule sees of a control.
LEMMA ContextFacts ==
  ASSUME NEW rows, Typed(rows), NEW c, NEW now
  PROVE  /\ Context(rows, c, now).open \in Nat /\ Context(rows, c, now).evidence \in Nat
         /\ Context(rows, c, now).open >= 1 <=> Open(rows, c) # {}
         /\ Context(rows, c, now).evidence > 0 <=> Evidence(rows, c) # {}
         /\ Context(rows, c, now).status \in STALE_EVIDENCE <=> c \in StaleControls(rows, now)
         /\ Context(rows, c, now).severity = WorstOpen(rows, c)
<1>1. Open(rows, c) \in SUBSET DOMAIN rows /\ Evidence(rows, c) \in SUBSET DOMAIN rows
  BY DEF Open, Evidence, Citing
<1>2. /\ Cardinality(Open(rows, c)) \in Nat /\ Cardinality(Evidence(rows, c)) \in Nat
      /\ Cardinality(Open(rows, c)) > 0 <=> Open(rows, c) # {}
      /\ Cardinality(Evidence(rows, c)) > 0 <=> Evidence(rows, c) # {}
  BY <1>1, Countable
<1>3. /\ Context(rows, c, now).open = Cardinality(Open(rows, c))
      /\ Context(rows, c, now).evidence = Cardinality(Evidence(rows, c))
      /\ Context(rows, c, now).severity = WorstOpen(rows, c)
      /\ Context(rows, c, now).status = IF c \in StaleControls(rows, now) THEN "stale" ELSE "fresh"
  BY DEF Context
<1> QED  BY <1>2, <1>3 DEF STALE_EVIDENCE

\* When a rule of this name fails this control.
FailsControl(n, rows, c, now) ==
    \/ n # "fail_when_high_severity_open" /\ Open(rows, c) # {}
    \/ /\ n \in {"fail_when_stale_evidence", "fail_when_open_violation_or_stale_evidence"}
       /\ c \in StaleControls(rows, now)
    \/ n = "fail_when_missing_evidence" /\ Evidence(rows, c) = {}
    \/ n = "fail_when_high_severity_open" /\ \E e \in Open(rows, c) : Rank(rows[e].severity) >= 3

\* The control fails under the rule of this name, and passes otherwise.
StatusFollows(rule, n) ==
    \A rows, c, now : Typed(rows) =>
       EvaluateControl(rule, Context(rows, c, now)) =
          IF FailsControl(n, rows, c, now) THEN "fail" ELSE "pass"

LEMMA NamedControl ==
  ASSUME NEW rule, IsNamed(rule)
  PROVE  \E n \in RuleNames :
           /\ StaleSensitive(rule) =>
                n \in {"fail_when_stale_evidence", "fail_when_open_violation_or_stale_evidence"}
           /\ StatusFollows(rule, n)
<1>1. PICK n \in RuleNames :
           /\ StaleSensitive(rule) =>
                n \in {"fail_when_stale_evidence", "fail_when_open_violation_or_stale_evidence"}
           /\ \A ctx : ctx.open \in Nat /\ ctx.evidence \in Nat =>
                EvaluateControl(rule, ctx) = IF Fails(n, ctx) THEN "fail" ELSE "pass"
  BY NamedStatus
<1>2. ASSUME NEW rows, NEW c, NEW now, Typed(rows)
      PROVE  EvaluateControl(rule, Context(rows, c, now)) =
                IF FailsControl(n, rows, c, now) THEN "fail" ELSE "pass"
  <2> DEFINE ctx == Context(rows, c, now)
  <2>1. /\ ctx.open \in Nat /\ ctx.evidence \in Nat
        /\ ctx.open >= 1 <=> Open(rows, c) # {}
        /\ ctx.evidence > 0 <=> Evidence(rows, c) # {}
        /\ ctx.status \in STALE_EVIDENCE <=> c \in StaleControls(rows, now)
        /\ ctx.severity = WorstOpen(rows, c)
    BY <1>2, ContextFacts
  <2> HIDE DEF ctx
  <2>2. EvaluateControl(rule, ctx) = IF Fails(n, ctx) THEN "fail" ELSE "pass"
    BY <1>1, <2>1
  <2>3. Open(rows, c) # {} =>
          (Rank(ctx.severity) >= 3 <=> \E e \in Open(rows, c) : Rank(rows[e].severity) >= 3)
    BY <1>2, <2>1, HighOpen
  <2>4. Fails(n, ctx) <=> FailsControl(n, rows, c, now)
    BY <2>1, <2>3 DEF Fails, FailsControl
  <2> QED  BY <2>2, <2>4 DEF ctx
<1>3. StatusFollows(rule, n)
  BY <1>2 DEF StatusFollows
<1> QED  BY <1>1, <1>3

\* Evidence only ages.
LEMMA StaleLater ==
  ASSUME NEW rows, Typed(rows), NEW now \in Nat, NEW later \in Nat, now <= later
  PROVE  StaleControls(rows, now) \subseteq StaleControls(rows, later)
<1>1. ASSUME NEW e \in DOMAIN rows, Stale(rows[e], now) PROVE Stale(rows[e], later)
  <2> DEFINE slo == Slo[rows[e].type]
             at == rows[e].at
  <2>1. slo \in Nat /\ at \in Nat /\ rows[e].ref \in BOOLEAN
    BY RowFacts
  <2>2. CASE ~rows[e].ref
    BY <2>2 DEF Stale, FreshnessOf, STALE_STATUSES
  <2>3. CASE rows[e].ref
    <3> DEFINE age == IF now > at THEN now - at ELSE 0
               aged == IF later > at THEN later - at ELSE 0
    <3>1. age \in Nat /\ aged \in Nat /\ age <= aged
      BY <2>1
    <3>2. age > slo
      <4>1. age <= slo => FreshnessOf(rows[e], now) = "fresh"
        <5>1. FreshnessOf(rows[e], now) =
                CASE ~rows[e].ref -> "missing"
                  [] rows[e].ref /\ age <= slo -> "fresh"
                  [] rows[e].ref /\ age > slo /\ age <= 2 * slo -> "stale"
                  [] rows[e].ref /\ age > slo /\ age > 2 * slo -> "expired"
          BY DEF FreshnessOf
        <5> HIDE DEF age, slo, aged, at
        <5>2. age <= slo => ~(age > slo)
          BY <2>1, <3>1
        <5> QED  BY <2>3, <5>1, <5>2
      <4>2. FreshnessOf(rows[e], now) # "fresh"
        BY <1>1 DEF Stale, STALE_STATUSES
      <4> QED  BY <2>1, <3>1, <4>1, <4>2
    <3>3. aged > slo
      BY <2>1, <3>1, <3>2
    <3>4. FreshnessOf(rows[e], later) =
            CASE ~rows[e].ref -> "missing"
              [] rows[e].ref /\ aged <= slo -> "fresh"
              [] rows[e].ref /\ aged > slo /\ aged <= 2 * slo -> "stale"
              [] rows[e].ref /\ aged > slo /\ aged > 2 * slo -> "expired"
      BY DEF FreshnessOf
    <3> HIDE DEF aged, slo, age, at
    <3>5. aged <= 2 * slo \/ aged > 2 * slo
      BY <2>1, <3>1
    <3>6. ~(aged <= slo)
      BY <2>1, <3>1, <3>3
    <3>7. FreshnessOf(rows[e], later) \in {"stale", "expired"}
      BY <2>3, <3>3, <3>4, <3>5, <3>6
    <3> QED  BY <3>7 DEF Stale, STALE_STATUSES
  <2> QED  BY <2>1, <2>2, <2>3
<1> QED  BY <1>1 DEF StaleControls

\* What fails a control fails it later as well; an open critical event fails it
\* under every name.
LEMMA FailsLater ==
  ASSUME NEW rows, Typed(rows), NEW now \in Nat, NEW later \in Nat, now <= later,
         NEW n, NEW c, FailsControl(n, rows, c, now)
  PROVE  FailsControl(n, rows, c, later)
BY StaleLater DEF FailsControl

LEMMA CriticalFails ==
  ASSUME NEW rows, NEW now, NEW n, NEW e \in DOMAIN rows, rows[e].open,
         rows[e].severity = "critical", NEW c \in rows[e].cites
  PROVE  FailsControl(n, rows, c, now) /\ e \in Open(rows, c)
<1>1. e \in Open(rows, c)
  BY DEF Open, Citing
<1>2. Rank(rows[e].severity) >= 3
  BY DEF Rank, RankOr, SEVERITY_ORDER
<1> QED  BY <1>1, <1>2 DEF FailsControl

-----------------------------------------------------------------------------
(* Control rows and tests.                                                 *)

LEMMA ControlRowFacts ==
  ASSUME rules \in RuleChoices, NEW rows, Typed(rows), NEW now, ~Raises(rows, now)
  PROVE  /\ DOMAIN ControlRows(rows, now) = Cited(rows)
         /\ \A c \in Cited(rows) :
              /\ ControlRows(rows, now)[c] \in
                    [status: {"pass", "fail"}, open: 0..Cardinality(Events),
                     evidence: 0..Cardinality(Events)]
              /\ ControlRows(rows, now)[c].status = Status(rows, c, now)
              /\ ControlRows(rows, now)[c].open = Cardinality(Open(rows, c))
              /\ ControlRows(rows, now)[c].evidence = Cardinality(Evidence(rows, c))
<1>1. ASSUME NEW c \in Cited(rows)
      PROVE  Status(rows, c, now) \in {"pass", "fail"}
  <2>1. c \in Controls
    BY CitedControls
  <2>2. Status(rows, c, now) \in {"pass", "fail", "raise"}
    BY <2>1, StatusVerdict DEF Status
  <2>3. Status(rows, c, now) # "raise"
    BY DEF Raises
  <2> QED  BY <2>2, <2>3
<1>2. ASSUME NEW c \in Cited(rows)
      PROVE  /\ Cardinality(Open(rows, c)) \in 0..Cardinality(Events)
             /\ Cardinality(Evidence(rows, c)) \in 0..Cardinality(Events)
  <2>1. Open(rows, c) \in SUBSET DOMAIN rows /\ Evidence(rows, c) \in SUBSET DOMAIN rows
    BY DEF Open, Evidence, Citing
  <2> QED  BY <2>1, Countable
<1> QED  BY <1>1, <1>2 DEF ControlRows

\* Among events there is a newest, and among statuses a first in the alphabet.
LEMMA NewestIsThere ==
  ASSUME NEW rows, Typed(rows), NEW evidence \in SUBSET DOMAIN rows, evidence # {}
  PROVE  \E e \in evidence : \A x \in evidence : rows[x].at <= rows[e].at
<1> DEFINE HasNewest(T) == \E e \in T : \A x \in T : rows[x].at <= rows[e].at
           G == {T \in SUBSET evidence : T = {} \/ HasNewest(T)}
<1>0. \A e \in evidence : rows[e].at \in Nat
  BY RowFacts
<1>1. {} \in G
  OBVIOUS
<1>2. ASSUME NEW T \in G, NEW y \in evidence \ T PROVE T \cup {y} \in G
  <2>1. CASE T = {}
    <3>1. rows[y].at <= rows[y].at
      BY <1>0
    <3> QED  BY <2>1, <3>1
  <2>2. CASE HasNewest(T)
    <3>1. PICK e \in T : \A x \in T : rows[x].at <= rows[e].at
      BY <2>2
    <3>2. T \in SUBSET evidence
      OBVIOUS
    <3>3. CASE rows[y].at <= rows[e].at
      BY <3>1, <3>2, <3>3
    <3>4. CASE ~(rows[y].at <= rows[e].at)
      <4>1. \A x \in T \cup {y} : rows[x].at <= rows[y].at
        <5> SUFFICES ASSUME NEW x \in T \cup {y} PROVE rows[x].at <= rows[y].at
          OBVIOUS
        <5>1. rows[x].at \in Nat /\ rows[y].at \in Nat /\ rows[e].at \in Nat
          BY <1>0, <3>1, <3>2
        <5>2. x = y \/ rows[x].at <= rows[e].at
          BY <3>1
        <5> QED  BY <3>4, <5>1, <5>2
      <4> QED  BY <3>2, <4>1
    <3> QED  BY <3>3, <3>4
  <2> QED  BY <2>1, <2>2
<1> HIDE DEF G
<1>3. AddsUp(evidence, G)
  <2>1. G \subseteq SUBSET evidence
    BY DEF G
  <2> QED  BY <1>1, <1>2, <2>1 DEF AddsUp
<1>4. G = SUBSET evidence
  BY <1>3, AddingUp, Countable
<1> QED  BY <1>4 DEF G

LEMMA FreshnessType ==
  ASSUME NEW rows, Typed(rows), NEW e \in DOMAIN rows, NEW now \in Nat
  PROVE  /\ FreshnessOf(rows[e], now) \in {"missing", "fresh", "stale", "expired"}
         /\ FreshnessOf(rows[e], now) = "missing" <=> ~rows[e].ref
         /\ FreshnessOf(rows[e], now) = "fresh" => now <= rows[e].at + Slo[rows[e].type]
<1> DEFINE slo == Slo[rows[e].type]
           at == rows[e].at
           ref == rows[e].ref
           age == IF now > at THEN now - at ELSE 0
<1>1. slo \in Nat /\ at \in Nat /\ age \in Nat /\ ref \in BOOLEAN
  BY RowFacts
<1>2. FreshnessOf(rows[e], now) =
        CASE ~ref -> "missing"
          [] ref /\ age <= slo -> "fresh"
          [] ref /\ age > slo /\ age <= 2 * slo -> "stale"
          [] ref /\ age > slo /\ age > 2 * slo -> "expired"
  BY DEF FreshnessOf
<1>3. age <= slo => now <= at + slo
  BY <1>1
<1> HIDE DEF age, slo, at, ref
<1>4. CASE ~ref
  BY <1>2, <1>4 DEF ref
<1>5. CASE ref /\ age <= slo
  <2>1. ~(age > slo)
    BY <1>1, <1>5
  <2>2. FreshnessOf(rows[e], now) = "fresh"
    BY <1>2, <1>5, <2>1
  <2>3. now <= rows[e].at + Slo[rows[e].type]
    BY <1>3, <1>5 DEF at, slo
  <2> QED  BY <1>5, <2>2, <2>3 DEF ref
<1>6. CASE ref /\ ~(age <= slo)
  <2>1. age > slo /\ (age <= 2 * slo \/ age > 2 * slo) /\ ~(age <= 2 * slo /\ age > 2 * slo)
    BY <1>1, <1>6
  <2>2. FreshnessOf(rows[e], now) \in {"stale", "expired"}
    BY <1>2, <1>6, <2>1
  <2> QED  BY <1>6, <2>2 DEF ref
<1> QED  BY <1>4, <1>5, <1>6

\* The status of a type is that of one of its newest events.
LEMMA LatestIsThere ==
  ASSUME NEW rows, Typed(rows), NEW evidence \in SUBSET DOMAIN rows, evidence # {}, NEW now \in Nat
  PROVE  \E e \in evidence : LatestStatus(rows, evidence, now) = FreshnessOf(rows[e], now)
<1> DEFINE newest == {e \in evidence : \A x \in evidence : rows[x].at <= rows[e].at}
           statuses == {FreshnessOf(rows[e], now) : e \in newest}
<1>1. newest # {} /\ newest \subseteq evidence
  BY NewestIsThere
<1>2. statuses # {} /\ statuses \subseteq {"missing", "fresh", "stale", "expired"}
  BY <1>1, FreshnessType
<1>3. \E s \in statuses : \A t \in statuses : Alphabet[s] <= Alphabet[t]
  <2> HIDE DEF statuses
  <2>1. CASE "expired" \in statuses
    BY <1>2, <2>1 DEF Alphabet
  <2>2. CASE "expired" \notin statuses /\ "fresh" \in statuses
    BY <1>2, <2>2 DEF Alphabet
  <2>3. CASE statuses \subseteq {"missing", "stale"} /\ "missing" \in statuses
    BY <2>3 DEF Alphabet
  <2>4. CASE statuses \subseteq {"stale"}
    <3>1. statuses = {"stale"}
      BY <1>2, <2>4
    <3> QED  BY <3>1 DEF Alphabet
  <2> QED  BY <1>2, <2>1, <2>2, <2>3, <2>4
<1>4. LatestStatus(rows, evidence, now) =
        CHOOSE s \in statuses : \A t \in statuses : Alphabet[s] <= Alphabet[t]
  BY DEF LatestStatus
<1>5. LatestStatus(rows, evidence, now) \in statuses
  <2> HIDE DEF statuses
  <2> QED  BY <1>3, <1>4
<1> QED  BY <1>1, <1>5

\* Freshness looks at every type the control's test asks for.
LEMMA FreshControl ==
  ASSUME NEW rows, Typed(rows), NEW c \in Controls, NEW now \in Nat,
         ControlFreshness(rows, c, now) \notin STALE_STATUSES,
         \A e \in Citing(rows, c) : rows[e].ref,
         NEW ty \in Required[c]
  PROVE  \E e \in {x \in Citing(rows, c) : rows[x].type = ty} : now <= rows[e].at + Slo[ty]
<1> DEFINE ofType(k) == {e \in Citing(rows, c) : rows[e].type = k}
           missing == {k \in Required[c] : ofType(k) = {}}
           having(status) ==
             {k \in Required[c] \ missing : LatestStatus(rows, ofType(k), now) = status}
<1>1. ControlFreshness(rows, c, now) =
        IF missing # {} /\ missing = Required[c] THEN "missing"
        ELSE IF having("expired") # {} THEN "expired"
        ELSE IF having("stale") # {} \/ missing # {} THEN "stale"
        ELSE "fresh"
  BY DEF ControlFreshness
<1>2. missing = {} /\ having("expired") = {} /\ having("stale") = {}
  <2> HIDE DEF missing, having
  <2> QED  BY <1>1 DEF STALE_STATUSES
<1>3. ofType(ty) # {} /\ ofType(ty) \in SUBSET DOMAIN rows
  BY <1>2 DEF Citing
<1>4. LatestStatus(rows, ofType(ty), now) \notin {"expired", "stale"}
  BY <1>2
<1>5. PICK e \in ofType(ty) : LatestStatus(rows, ofType(ty), now) = FreshnessOf(rows[e], now)
  <2> HIDE DEF ofType
  <2> QED  BY <1>3, LatestIsThere
<1>6. e \in DOMAIN rows /\ rows[e].ref /\ rows[e].type = ty
  BY <1>5 DEF Citing
<1>7. FreshnessOf(rows[e], now) = "fresh"
  BY <1>4, <1>5, <1>6, FreshnessType
<1>8. now <= rows[e].at + Slo[ty]
  BY <1>6, <1>7, FreshnessType
<1> QED  BY <1>5, <1>8

-----------------------------------------------------------------------------
(* Scores.                                                                 *)

\* The violations of some controls are the open events of each of them.
LEMMA ViolationsOf ==
  ASSUME NEW rows, Typed(rows), NEW T \in SUBSET Controls
  PROVE  LET mine == {v \in Violations(rows) : v[2] \in T} IN
         /\ IsFiniteSet(mine)
         /\ Cardinality(mine) = Total([c \in T |-> Cardinality(Open(rows, c))])
<1> DEFINE mine == {v \in Violations(rows) : v[2] \in T}
           F == [c \in T |-> Open(rows, c) \X {c}]
<1>0. IsFiniteSet(T)
  BY CountableControls
<1>1. ASSUME NEW c \in T
      PROVE  IsFiniteSet(F[c]) /\ Cardinality(F[c]) = Cardinality(Open(rows, c))
  <2>1. Open(rows, c) \in SUBSET DOMAIN rows
    BY DEF Open, Citing
  <2>2. IsFiniteSet(Open(rows, c)) /\ Cardinality(Open(rows, c)) \in Nat
    BY <2>1, Countable
  <2>3. IsFiniteSet({c}) /\ Cardinality({c}) = 1
    BY FS_Singleton
  <2>4. /\ IsFiniteSet(Open(rows, c) \X {c})
        /\ Cardinality(Open(rows, c) \X {c}) = Cardinality(Open(rows, c)) * 1
    BY <2>2, <2>3, FS_Product
  <2> QED  BY <2>2, <2>4
<1>2. \A c, d \in T : c # d => F[c] \cap F[d] = {}
  OBVIOUS
<1>3. UNION {F[c] : c \in T} = mine
  <2>1. ASSUME NEW v \in mine PROVE \E c \in T : v \in F[c]
    <3>1. v \in (DOMAIN rows) \X Controls /\ rows[v[1]].open /\ v[2] \in rows[v[1]].cites /\ v[2] \in T
      BY DEF Violations
    <3>2. v[1] \in Open(rows, v[2]) /\ v = <<v[1], v[2]>>
      BY <3>1 DEF Open, Citing
    <3>3. v \in F[v[2]]
      BY <3>1, <3>2
    <3> QED  BY <3>1, <3>3
  <2>2. ASSUME NEW c \in T, NEW v \in F[c] PROVE v \in mine
    <3>1. PICK e \in Open(rows, c) : v = <<e, c>>
      OBVIOUS
    <3>2. e \in DOMAIN rows /\ rows[e].open /\ c \in rows[e].cites /\ c \in Controls
      BY DEF Open, Citing
    <3>3. v \in (DOMAIN rows) \X Controls /\ v[1] = e /\ v[2] = c
      BY <3>1, <3>2
    <3> QED  BY <3>2, <3>3 DEF Violations
  <2> HIDE DEF F, mine
  <2> QED  BY <2>1, <2>2
<1>4. [c \in T |-> Cardinality(F[c])] = [c \in T |-> Cardinality(Open(rows, c))]
  <2>1. \A c \in T : Cardinality(F[c]) = Cardinality(Open(rows, c))
    BY <1>1
  <2> HIDE DEF F
  <2> QED  BY <2>1
<1>5. IsFiniteSet(mine) /\ Cardinality(mine) = Total([c \in T |-> Cardinality(F[c])])
  <2>1. DOMAIN F = T
    OBVIOUS
  <2> HIDE DEF F, mine
  <2> QED  BY <1>0, <1>1, <1>2, <1>3, <2>1, TotalCount
<1> HIDE DEF F
<1> QED  BY <1>4, <1>5

LEMMA ViolationFacts ==
  ASSUME NEW rows, Typed(rows)
  PROVE  /\ IsFiniteSet(Violations(rows)) /\ Cardinality(Violations(rows)) \in Nat
         /\ {v \in Violations(rows) : v[2] \in Cited(rows)} = Violations(rows)
         /\ \A v \in Violations(rows) : /\ v[1] \in DOMAIN rows
                                        /\ SEVERITY_SCORE[rows[v[1]].severity] \in Nat
<1>1. \A v \in Violations(rows) :
        v[1] \in DOMAIN rows /\ v[2] \in rows[v[1]].cites /\ v[2] \in Controls
  BY DEF Violations
<1>2. {v \in Violations(rows) : v[2] \in Controls} = Violations(rows)
  BY <1>1
<1>3. IsFiniteSet(Violations(rows))
  BY <1>2, ViolationsOf
<1>4. \A v \in Violations(rows) : SEVERITY_SCORE[rows[v[1]].severity] \in Nat
  <2> SUFFICES ASSUME NEW v \in Violations(rows) PROVE SEVERITY_SCORE[rows[v[1]].severity] \in Nat
    OBVIOUS
  <2>1. rows[v[1]].severity \in DOMAIN SEVERITY_SCORE
    BY <1>1, RowFacts
  <2> QED  BY <2>1, HighScore
<1>5. {v \in Violations(rows) : v[2] \in Cited(rows)} = Violations(rows)
  BY <1>1 DEF Cited
<1> QED  BY <1>1, <1>3, <1>4, <1>5, FS_CardinalityType

\* More violations cost at least as much.
LEMMA PenaltyLess ==
  ASSUME NEW rows, Typed(rows), NEW some, NEW all \in SUBSET Violations(rows), some \subseteq all
  PROVE  /\ Penalty(rows, some) \in Nat /\ Penalty(rows, all) \in Nat
         /\ Penalty(rows, some) <= Penalty(rows, all)
<1> DEFINE f == [v \in all |-> SEVERITY_SCORE[rows[v[1]].severity]]
           g == [v \in some |-> SEVERITY_SCORE[rows[v[1]].severity]]
<1>1. IsFiniteSet(all) /\ IsFiniteSet(some)
  BY ViolationFacts, FS_Subset
<1>2. f \in [all -> Nat] /\ g \in [some -> Nat]
  BY ViolationFacts
<1>3. g = [v \in some |-> f[v]]
  OBVIOUS
<1>4. Penalty(rows, some) = Total(g) /\ Penalty(rows, all) = Total(f)
  BY DEF Penalty
<1> HIDE DEF f, g
<1>5. Total(g) \in Nat /\ Total(f) \in Nat
  BY <1>1, <1>2, TotalType
<1>6. Total([v \in some |-> f[v]]) <= Total(f)
  BY <1>1, <1>2, TotalOfSome
<1> QED  BY <1>3, <1>4, <1>5, <1>6

LEMMA ScoreRange ==
  ASSUME NEW penalty \in Nat, NEW total \in Nat \ {0}, NEW stale \in Nat
  PROVE  FrameworkScore(penalty, total, stale) \in Points
<1> DEFINE x == Nearest(100 * penalty, total)
<1>1. x \in Nat
  <2>1. 100 * penalty \in Nat
    OBVIOUS
  <2> QED  BY <2>1, NearestGrows
<1>2. FrameworkScore(penalty, total, stale) =
        IF 10000 - x - 500 * stale < 0 THEN 0 ELSE 10000 - x - 500 * stale
  BY DEF FrameworkScore
<1> HIDE DEF x
<1> QED  BY <1>1, <1>2 DEF Points

LEMMA ScoreFalls ==
  ASSUME NEW p \in Nat, NEW q \in Nat, p <= q, NEW total \in Nat \ {0},
         NEW a \in Nat, NEW b \in Nat, a <= b
  PROVE  FrameworkScore(q, total, b) <= FrameworkScore(p, total, a)
<1>1. 100 * p \in Nat /\ 100 * q \in Nat /\ 100 * p <= 100 * q
  OBVIOUS
<1>2. /\ Nearest(100 * p, total) \in Nat /\ Nearest(100 * q, total) \in Nat
      /\ Nearest(100 * p, total) <= Nearest(100 * q, total)
  BY <1>1, NearestGrows
<1> DEFINE x == Nearest(100 * p, total)
           y == Nearest(100 * q, total)
<1>3. /\ FrameworkScore(p, total, a) = IF 10000 - x - 500 * a < 0 THEN 0 ELSE 10000 - x - 500 * a
      /\ FrameworkScore(q, total, b) = IF 10000 - y - 500 * b < 0 THEN 0 ELSE 10000 - y - 500 * b
  BY DEF FrameworkScore
<1> HIDE DEF x, y
<1> QED  BY <1>2, <1>3 DEF x, y

\* The weighted average of points are points.
Weighed(frameworks, S) ==
    /\ DOMAIN frameworks = S /\ IsFiniteSet(S)
    /\ \A f \in S : frameworks[f].score \in Points /\ frameworks[f].controls \in Nat

LEMMA PointsAre == \A n : n \in Points <=> n \in Nat /\ n <= 10000
<1>1. ASSUME NEW n \in Points PROVE n \in Nat /\ n <= 10000
  BY DEF Points
<1>2. ASSUME NEW n \in Nat, n <= 10000 PROVE n \in Points
  BY <1>2 DEF Points
<1> QED  BY <1>1, <1>2

LEMMA WeighedFacts ==
  ASSUME NEW S, NEW frameworks, Weighed(frameworks, S), NEW f \in S
  PROVE  /\ frameworks[f].score \in Nat /\ frameworks[f].score <= 10000
         /\ frameworks[f].controls \in Nat
<1>1. frameworks[f].score \in Points /\ frameworks[f].controls \in Nat
  BY DEF Weighed
<1> QED  BY <1>1, PointsAre

Weight(frameworks, S) == Total([f \in S |-> frameworks[f].controls])
Weighted(frameworks, S) == Total([f \in S |-> frameworks[f].score * frameworks[f].controls])

LEMMA AverageFacts ==
  ASSUME NEW S, NEW frameworks, Weighed(frameworks, S)
  PROVE  /\ Weight(frameworks, S) \in Nat /\ Weighted(frameworks, S) \in Nat
         /\ Weighted(frameworks, S) <= 10000 * Weight(frameworks, S)
         /\ WeightedPostureScore(frameworks) =
              IF Weight(frameworks, S) = 0 THEN 10000
              ELSE Nearest(Weighted(frameworks, S), Weight(frameworks, S))
<1> DEFINE g == [f \in S |-> frameworks[f].controls]
           h == [f \in S |-> frameworks[f].score * frameworks[f].controls]
<1>1. ASSUME NEW f \in S
      PROVE  g[f] \in Nat /\ h[f] \in Nat /\ h[f] <= 10000 * g[f]
  <2>1. /\ frameworks[f].score \in Nat /\ frameworks[f].score <= 10000
        /\ frameworks[f].controls \in Nat
    BY WeighedFacts
  <2>2. ASSUME NEW x \in Nat, x <= 10000, NEW y \in Nat PROVE x * y \in Nat /\ x * y <= 10000 * y
    <3>1. PICK z \in Nat : x + z = 10000
      <4>1. 10000 - x \in Nat /\ x + (10000 - x) = 10000
        BY <2>2
      <4> QED  BY <4>1
    <3>2. x * y \in Nat /\ z * y \in Nat /\ (x + z) * y = x * y + z * y
      OBVIOUS
    <3> QED  BY <3>1, <3>2
  <2>3. g[f] = frameworks[f].controls /\ h[f] = frameworks[f].score * frameworks[f].controls
    OBVIOUS
  <2>4. /\ frameworks[f].score * frameworks[f].controls \in Nat
        /\ frameworks[f].score * frameworks[f].controls <= 10000 * frameworks[f].controls
    BY <2>1, <2>2
  <2> HIDE DEF g, h
  <2> QED  BY <2>1, <2>3, <2>4
<1>2. g \in [S -> Nat] /\ h \in [S -> Nat] /\ \A f \in S : h[f] <= 10000 * g[f]
  <2>1. g \in [S -> Nat]
    BY <1>1
  <2>2. h \in [S -> Nat]
    BY <1>1
  <2> HIDE DEF g, h
  <2> QED  BY <1>1, <2>1, <2>2
<1>3. IsFiniteSet(S)
  BY DEF Weighed
<1> HIDE DEF g, h
<1>4. Total(g) \in Nat /\ Total(h) \in Nat /\ Total(h) <= 10000 * Total(g)
  BY <1>2, <1>3, TotalType, TotalGrows
<1>5. WeightedPostureScore(frameworks) = IF Total(g) = 0 THEN 10000 ELSE Nearest(Total(h), Total(g))
  BY DEF WeightedPostureScore, Weighed, g, h
<1> QED  BY <1>4, <1>5 DEF g, h, Weight, Weighted

LEMMA AverageRange ==
  ASSUME NEW S, NEW frameworks, Weighed(frameworks, S)
  PROVE  WeightedPostureScore(frameworks) \in Points
<1> DEFINE total == Weight(frameworks, S)
           points == Weighted(frameworks, S)
<1>1. /\ total \in Nat /\ points \in Nat /\ points <= 10000 * total
      /\ WeightedPostureScore(frameworks) = IF total = 0 THEN 10000 ELSE Nearest(points, total)
  BY AverageFacts
<1> HIDE DEF total, points
<1>2. ASSUME total # 0 PROVE Nearest(points, total) \in 0..10000
  <2> DEFINE most == 10000
  <2>1. total \in Nat \ {0} /\ most \in Nat /\ points \in Nat /\ points <= most * total
    BY <1>1, <1>2
  <2>2. Nearest(points, total) \in 0..most
    <3> HIDE DEF most
    <3> QED  BY <2>1, NearestBound
  <2> QED  BY <2>2
<1> QED  BY <1>1, <1>2 DEF Points

\* It falls when the points of every framework do.
LEMMA AverageFalls ==
  ASSUME NEW S, NEW g, NEW h, Weighed(g, S), Weighed(h, S),
         \A f \in S : h[f].score <= g[f].score /\ h[f].controls = g[f].controls
  PROVE  WeightedPostureScore(h) <= WeightedPostureScore(g)
<1>1. /\ Weight(g, S) \in Nat /\ Weighted(g, S) \in Nat /\ Weighted(h, S) \in Nat
      /\ WeightedPostureScore(g) =
           IF Weight(g, S) = 0 THEN 10000 ELSE Nearest(Weighted(g, S), Weight(g, S))
      /\ WeightedPostureScore(h) =
           IF Weight(h, S) = 0 THEN 10000 ELSE Nearest(Weighted(h, S), Weight(h, S))
  BY AverageFacts
<1>2. Weight(h, S) = Weight(g, S)
  <2>1. [f \in S |-> h[f].controls] = [f \in S |-> g[f].controls]
    OBVIOUS
  <2> QED  BY <2>1 DEF Weight
<1>3. Weighted(h, S) <= Weighted(g, S)
  <2> DEFINE a == [f \in S |-> h[f].score * h[f].controls]
             b == [f \in S |-> g[f].score * g[f].controls]
  <2>1. ASSUME NEW f \in S PROVE a[f] \in Nat /\ b[f] \in Nat /\ a[f] <= b[f]
    <3> HIDE DEF a, b
    <3>1. /\ h[f].score \in Nat /\ g[f].score \in Nat /\ g[f].controls \in Nat
          /\ h[f].score <= g[f].score /\ h[f].controls = g[f].controls
      BY WeighedFacts
    <3>2. ASSUME NEW x \in Nat, NEW z \in Nat, x <= z, NEW y \in Nat
          PROVE  x * y \in Nat /\ z * y \in Nat /\ x * y <= z * y
      <4>1. PICK d \in Nat : z = x + d
        <5>1. z - x \in Nat /\ z = x + (z - x)
          BY <3>2
        <5> QED  BY <5>1
      <4>2. x * y \in Nat /\ d * y \in Nat /\ (x + d) * y = x * y + d * y
        OBVIOUS
      <4> QED  BY <4>1, <4>2
    <3>3. a[f] = h[f].score * g[f].controls /\ b[f] = g[f].score * g[f].controls
      BY <3>1 DEF a, b
    <3> QED  BY <3>1, <3>2, <3>3
  <2>2. a \in [S -> Nat]
    BY <2>1
  <2>3. b \in [S -> Nat]
    BY <2>1
  <2>4. IsFiniteSet(S)
    BY DEF Weighed
  <2> HIDE DEF a, b
  <2>5. Total(a) <= Total(b)
    BY <2>1, <2>2, <2>3, <2>4, TotalLess
  <2> QED  BY <2>5 DEF a, b, Weighted
<1>4. Weight(g, S) # 0 =>
        Nearest(Weighted(h, S), Weight(g, S)) <= Nearest(Weighted(g, S), Weight(g, S))
  BY <1>1, <1>3, NearestGrows
<1> QED  BY <1>1, <1>2, <1>4

-----------------------------------------------------------------------------
(* Postures.                                                               *)

Mine(held, f) == {c \in DOMAIN held : Framework[c] = f}
StaleOf(rows, held, f, now) == Mine(held, f) \cap StaleControls(rows, now)
ViolationsIn(rows, held, f) == {v \in Violations(rows) : v[2] \in Mine(held, f)}
FrameworksOf(held) == {Framework[c] : c \in DOMAIN held}

\* What the row of a framework says.
Reports(row, rows, held, f, now) ==
    /\ row \in [score: Points, state: {"ready", "attention_required"},
                controls: Nat, violations: Nat]
    /\ row.score = FrameworkScore(Penalty(rows, ViolationsIn(rows, held, f)),
                                  Cardinality(Mine(held, f)),
                                  Cardinality(StaleOf(rows, held, f, now)))
    /\ row.controls = Cardinality(Mine(held, f))
    /\ row.violations = Total([c \in Mine(held, f) |-> Cardinality(Open(rows, c))])
    /\ row.state = "ready" => \A c \in Mine(held, f) : held[c].status # "fail"

LEMMA FrameworkFacts ==
  ASSUME NEW rows, Typed(rows), NEW held, DOMAIN held \in SUBSET Controls, NEW now,
         NEW f \in FrameworksOf(held)
  PROVE  /\ Reports(FrameworkRow(rows, held, f, now), rows, held, f, now)
         /\ Penalty(rows, ViolationsIn(rows, held, f)) \in Nat
         /\ Cardinality(Mine(held, f)) \in Nat \ {0}
         /\ Cardinality(StaleOf(rows, held, f, now)) \in Nat
<1> DEFINE row == FrameworkRow(rows, held, f, now)
           mine == Mine(held, f)
           stale == StaleOf(rows, held, f, now)
           violations == ViolationsIn(rows, held, f)
           failing == {c \in mine : held[c].status = "fail"}
<1>1. row = [score |-> FrameworkScore(Penalty(rows, violations), Cardinality(mine),
                                      Cardinality(stale)),
             state |-> IF failing = {} /\ stale = {} THEN "ready" ELSE "attention_required",
             controls |-> Cardinality(mine),
             violations |-> Cardinality(violations)]
  BY DEF FrameworkRow, Mine, StaleOf, ViolationsIn
<1>2. mine \in SUBSET Controls /\ mine # {} /\ stale \in SUBSET Controls
      /\ violations \in SUBSET Violations(rows)
  BY DEF Mine, StaleOf, ViolationsIn, FrameworksOf
<1>3. /\ IsFiniteSet(violations)
      /\ Cardinality(violations) = Total([c \in mine |-> Cardinality(Open(rows, c))])
  BY <1>2, ViolationsOf DEF ViolationsIn
<1> HIDE DEF row, mine, stale, violations
<1>4. Cardinality(mine) \in Nat \ {0} /\ Cardinality(stale) \in Nat
  BY <1>2, CountableControls
<1>5. Cardinality(violations) \in Nat
  BY <1>3, FS_CardinalityType
<1>6. Penalty(rows, violations) \in Nat
  BY <1>2, PenaltyLess
<1>7. FrameworkScore(Penalty(rows, violations), Cardinality(mine), Cardinality(stale)) \in Points
  BY <1>4, <1>6, ScoreRange
<1>8. /\ row \in [score: Points, state: {"ready", "attention_required"},
                  controls: Nat, violations: Nat]
      /\ row.score = FrameworkScore(Penalty(rows, violations), Cardinality(mine), Cardinality(stale))
      /\ row.controls = Cardinality(mine)
      /\ row.violations = Cardinality(violations)
      /\ row.state = "ready" => failing = {}
  BY <1>1, <1>4, <1>5, <1>7
<1>9. Reports(row, rows, held, f, now)
  BY <1>3, <1>8 DEF Reports, mine, stale, violations, failing
<1> QED  BY <1>4, <1>6, <1>9 DEF row, mine, stale, violations

LEMMA FiniteFrameworks ==
  ASSUME NEW held, DOMAIN held \in SUBSET Controls
  PROVE  IsFiniteSet(FrameworksOf(held))
<1> DEFINE S == DOMAIN held
           F == [c \in S |-> Framework[c]]
<1>1. F \in Surjection(S, FrameworksOf(held))
  BY DEF FrameworksOf, Surjection
<1>2. IsFiniteSet(S)
  BY CountableControls
<1> QED  BY <1>1, <1>2, FS_Surjection

LEMMA FrameworksWeighed ==
  ASSUME NEW rows, Typed(rows), NEW held, DOMAIN held \in SUBSET Controls, NEW now
  PROVE  /\ Weighed(FrameworkScores(rows, held, now), FrameworksOf(held))
         /\ \A f \in FrameworksOf(held) :
              FrameworkScores(rows, held, now)[f] = FrameworkRow(rows, held, f, now)
<1> DEFINE scores == FrameworkScores(rows, held, now)
<1>1. scores = [f \in FrameworksOf(held) |-> FrameworkRow(rows, held, f, now)]
  BY DEF FrameworkScores, FrameworksOf
<1>2. DOMAIN scores = FrameworksOf(held)
      /\ \A f \in FrameworksOf(held) : scores[f] = FrameworkRow(rows, held, f, now)
  BY <1>1
<1> HIDE DEF scores
<1>3. ASSUME NEW f \in FrameworksOf(held)
      PROVE  scores[f].score \in Points /\ scores[f].controls \in Nat
  <2>1. FrameworkRow(rows, held, f, now) \in
          [score: Points, state: {"ready", "attention_required"}, controls: Nat, violations: Nat]
    BY FrameworkFacts DEF Reports
  <2>2. FrameworkRow(rows, held, f, now).score \in Points
        /\ FrameworkRow(rows, held, f, now).controls \in Nat
    BY <2>1
  <2> QED  BY <1>2, <2>2
<1>4. Weighed(scores, FrameworksOf(held))
  BY <1>2, <1>3, FiniteFrameworks DEF Weighed
<1> QED  BY <1>2, <1>4 DEF scores

IsPosture(p) ==
    /\ p.score \in Points
    /\ p.state \in {"critical", "attention_required", "ready"}
    /\ p.open \in Nat
    /\ \A f \in DOMAIN p.frameworks :
          p.frameworks[f] \in [score: Points, state: {"ready", "attention_required"},
                               controls: Nat, violations: Nat]

Critical(rows) == OfSeverity(rows, Violations(rows), "critical")

LEMMA PostureFacts ==
  ASSUME NEW rows, Typed(rows), NEW held, DOMAIN held \in SUBSET Controls, NEW now
  PROVE  LET p == BuildCurrentPosture(rows, held, now) IN
         /\ IsPosture(p)
         /\ p.score = WeightedPostureScore(FrameworkScores(rows, held, now))
         /\ p.state = PostureState(p.score, Critical(rows), StaleControls(rows, now))
         /\ p.open = Cardinality(Violations(rows))
         /\ DOMAIN p.frameworks = FrameworksOf(held)
         /\ \A f \in FrameworksOf(held) : p.frameworks[f] = FrameworkRow(rows, held, f, now)
<1> DEFINE p == BuildCurrentPosture(rows, held, now)
           scores == FrameworkScores(rows, held, now)
           score == WeightedPostureScore(scores)
<1>1. /\ p.score = score
      /\ p.state = PostureState(score, Critical(rows), StaleControls(rows, now))
      /\ p.open = Cardinality(Violations(rows))
      /\ p.frameworks = scores
  BY DEF BuildCurrentPosture, Critical
<1>2. DOMAIN scores = FrameworksOf(held)
      /\ \A f \in FrameworksOf(held) : scores[f] = FrameworkRow(rows, held, f, now)
  BY FrameworksWeighed DEF Weighed
<1>3. score \in Points
  BY FrameworksWeighed, AverageRange
<1>4. Cardinality(Violations(rows)) \in Nat
  BY ViolationFacts
<1> HIDE DEF p, scores, score
<1>5. p.state \in {"critical", "attention_required", "ready"}
  BY <1>1 DEF PostureState
<1>6. \A f \in DOMAIN p.frameworks :
          p.frameworks[f] \in [score: Points, state: {"ready", "attention_required"},
                               controls: Nat, violations: Nat]
  <2> SUFFICES ASSUME NEW f \in FrameworksOf(held)
               PROVE  FrameworkRow(rows, held, f, now) \in
                        [score: Points, state: {"ready", "attention_required"},
                         controls: Nat, violations: Nat]
    BY <1>1, <1>2
  <2> QED  BY FrameworkFacts DEF Reports
<1>7. IsPosture(p)
  BY <1>1, <1>3, <1>4, <1>5, <1>6 DEF IsPosture
<1> QED  BY <1>1, <1>2, <1>7 DEF p, scores, score

\* As time passes the score falls and the state gets no better.
LEMMA PostureAges ==
  ASSUME NEW rows, Typed(rows), NEW held, DOMAIN held \in SUBSET Controls,
         NEW now \in Nat, NEW later \in Nat, now <= later
  PROVE  /\ BuildCurrentPosture(rows, held, later).score
              <= BuildCurrentPosture(rows, held, now).score
         /\ Severeness[BuildCurrentPosture(rows, held, later).state]
              >= Severeness[BuildCurrentPosture(rows, held, now).state]
<1> DEFINE g == FrameworkScores(rows, held, now)
           h == FrameworkScores(rows, held, later)
           S == FrameworksOf(held)
<1>1. StaleControls(rows, now) \subseteq StaleControls(rows, later)
  BY StaleLater
<1>2. ASSUME NEW f \in S
      PROVE  h[f].score <= g[f].score /\ h[f].controls = g[f].controls
  <2> DEFINE penalty == Penalty(rows, ViolationsIn(rows, held, f))
             total == Cardinality(Mine(held, f))
             stale(t) == Cardinality(StaleOf(rows, held, f, t))
  <2>1. /\ penalty \in Nat /\ total \in Nat \ {0} /\ stale(now) \in Nat /\ stale(later) \in Nat
        /\ FrameworkRow(rows, held, f, now).score = FrameworkScore(penalty, total, stale(now))
        /\ FrameworkRow(rows, held, f, later).score = FrameworkScore(penalty, total, stale(later))
        /\ FrameworkRow(rows, held, f, now).controls = total
        /\ FrameworkRow(rows, held, f, later).controls = total
    <3>1. ASSUME NEW t \in {now, later}
          PROVE  /\ penalty \in Nat /\ total \in Nat \ {0} /\ stale(t) \in Nat
                 /\ FrameworkRow(rows, held, f, t).score = FrameworkScore(penalty, total, stale(t))
                 /\ FrameworkRow(rows, held, f, t).controls = total
      <4>1. /\ Reports(FrameworkRow(rows, held, f, t), rows, held, f, t)
            /\ penalty \in Nat /\ total \in Nat \ {0} /\ stale(t) \in Nat
        BY FrameworkFacts
      <4> QED  BY <4>1 DEF Reports
    <3> HIDE DEF penalty, total, stale
    <3> QED  BY <3>1
  <2>2. stale(now) <= stale(later)
    <3>1. StaleOf(rows, held, f, now) \in SUBSET StaleOf(rows, held, f, later)
      BY <1>1 DEF StaleOf
    <3>2. StaleOf(rows, held, f, later) \in SUBSET Controls
      BY DEF StaleOf, Mine
    <3> QED  BY <3>1, <3>2, CountableControls, FS_Subset
  <2>3. g[f] = FrameworkRow(rows, held, f, now) /\ h[f] = FrameworkRow(rows, held, f, later)
    BY FrameworksWeighed
  <2> HIDE DEF penalty, total, stale, g, h
  <2>4. penalty <= penalty
    BY <2>1
  <2>5. FrameworkScore(penalty, total, stale(later)) <= FrameworkScore(penalty, total, stale(now))
    BY <2>1, <2>2, <2>4, ScoreFalls
  <2> QED  BY <2>1, <2>3, <2>5
<1>3. Weighed(g, S) /\ Weighed(h, S)
  BY FrameworksWeighed
<1>4. WeightedPostureScore(h) <= WeightedPostureScore(g)
  <2> HIDE DEF g, h, S
  <2> QED  BY <1>2, <1>3, AverageFalls
<1>5. WeightedPostureScore(h) \in Points /\ WeightedPostureScore(g) \in Points
  <2> HIDE DEF g, h, S
  <2> QED  BY <1>3, AverageRange
<1> DEFINE p == BuildCurrentPosture(rows, held, now)
           q == BuildCurrentPosture(rows, held, later)
<1>6. /\ p.score = WeightedPostureScore(g)
      /\ p.state = PostureState(p.score, Critical(rows), StaleControls(rows, now))
  BY PostureFacts
<1>7. /\ q.score = WeightedPostureScore(h)
      /\ q.state = PostureState(q.score, Critical(rows), StaleControls(rows, later))
  BY PostureFacts
<1> HIDE DEF p, q, g, h
<1>8. q.score <= p.score /\ q.score \in Nat /\ p.score \in Nat
  BY <1>4, <1>5, <1>6, <1>7, PointsAre
<1>9. Severeness[q.state] >= Severeness[p.state]
  BY <1>1, <1>6, <1>7, <1>8 DEF PostureState, Severeness
<1> QED  BY <1>8, <1>9 DEF p, q

-----------------------------------------------------------------------------
(* Closing a finding.                                                      *)

Closed(rows, e) == [rows EXCEPT ![e].open = FALSE]

LEMMA ClosedRows ==
  ASSUME NEW rows, Typed(rows), NEW e \in DOMAIN rows
  PROVE  /\ Typed(Closed(rows, e))
         /\ DOMAIN Closed(rows, e) = DOMAIN rows
         /\ \A x \in DOMAIN rows :
              /\ Closed(rows, e)[x].cites = rows[x].cites
              /\ Closed(rows, e)[x].severity = rows[x].severity
              /\ Closed(rows, e)[x].type = rows[x].type
              /\ Closed(rows, e)[x].at = rows[x].at
              /\ Closed(rows, e)[x].ref = rows[x].ref
              /\ Closed(rows, e)[x].open => rows[x].open
<1> DEFINE closed == Closed(rows, e)
<1>1. DOMAIN closed = DOMAIN rows
  BY DEF Closed
<1>2. ASSUME NEW x \in DOMAIN rows
      PROVE  /\ closed[x] \in Row
             /\ closed[x].cites = rows[x].cites /\ closed[x].severity = rows[x].severity
             /\ closed[x].type = rows[x].type /\ closed[x].at = rows[x].at
             /\ closed[x].ref = rows[x].ref /\ (closed[x].open => rows[x].open)
  <2>1. rows[x] \in Row
    BY RowFacts
  <2>2. CASE x = e
    <3>1. closed[x] = [rows[e] EXCEPT !.open = FALSE]
      BY <2>2 DEF Closed
    <3>2. rows[e] \in Row
      BY RowFacts
    <3> HIDE DEF closed
    <3> QED  BY <2>2, <3>1, <3>2 DEF Row
  <2>3. CASE x # e
    <3>1. closed[x] = rows[x]
      BY <2>3 DEF Closed
    <3> QED  BY <2>1, <3>1
  <2> QED  BY <2>2, <2>3
<1> HIDE DEF closed
<1>3. Typed(closed)
  BY <1>1, <1>2 DEF Typed
<1> QED  BY <1>1, <1>2, <1>3 DEF closed

LEMMA ClosedFacts ==
  ASSUME NEW rows, Typed(rows), NEW e \in DOMAIN rows
  PROVE  /\ \A c : /\ Citing(Closed(rows, e), c) = Citing(rows, c)
                   /\ Evidence(Closed(rows, e), c) = Evidence(rows, c)
                   /\ Open(Closed(rows, e), c) \subseteq Open(rows, c)
         /\ Cited(Closed(rows, e)) = Cited(rows)
         /\ \A now : StaleControls(Closed(rows, e), now) = StaleControls(rows, now)
         /\ Violations(Closed(rows, e)) \subseteq Violations(rows)
<1> DEFINE closed == Closed(rows, e)
<1>0. /\ DOMAIN closed = DOMAIN rows
      /\ \A x \in DOMAIN rows :
           /\ closed[x].cites = rows[x].cites /\ closed[x].severity = rows[x].severity
           /\ closed[x].type = rows[x].type /\ closed[x].at = rows[x].at
           /\ closed[x].ref = rows[x].ref /\ (closed[x].open => rows[x].open)
  BY ClosedRows
<1> HIDE DEF closed
<1>1. ASSUME NEW c PROVE Citing(closed, c) = Citing(rows, c)
  BY <1>0 DEF Citing
<1>2. ASSUME NEW c
      PROVE  Evidence(closed, c) = Evidence(rows, c) /\ Open(closed, c) \subseteq Open(rows, c)
  <2>1. Citing(closed, c) = Citing(rows, c) /\ Citing(rows, c) \subseteq DOMAIN rows
    BY <1>1 DEF Citing
  <2> QED  BY <1>0, <2>1 DEF Evidence, Open
<1>3. Cited(closed) = Cited(rows)
  BY <1>0 DEF Cited
<1>4. ASSUME NEW now PROVE StaleControls(closed, now) = StaleControls(rows, now)
  <2>1. ASSUME NEW x \in DOMAIN rows PROVE Stale(closed[x], now) <=> Stale(rows[x], now)
    <3>1. FreshnessOf(closed[x], now) = FreshnessOf(rows[x], now)
      BY <1>0 DEF FreshnessOf
    <3> QED  BY <3>1 DEF Stale
  <2> QED  BY <1>0, <2>1 DEF StaleControls
<1>5. Violations(closed) \subseteq Violations(rows)
  BY <1>0 DEF Violations
<1> QED  BY <1>1, <1>2, <1>3, <1>4, <1>5 DEF closed

\* What fails a control with the finding closed fails it with the finding open.
LEMMA ClosedFails ==
  ASSUME NEW rows, Typed(rows), NEW e \in DOMAIN rows, NEW n, NEW c, NEW now,
         FailsControl(n, Closed(rows, e), c, now)
  PROVE  FailsControl(n, rows, c, now)
<1>1. /\ Evidence(Closed(rows, e), c) = Evidence(rows, c)
      /\ Open(Closed(rows, e), c) \subseteq Open(rows, c)
      /\ StaleControls(Closed(rows, e), now) = StaleControls(rows, now)
  BY ClosedFacts
<1>2. \A x \in Open(rows, c) : Closed(rows, e)[x].severity = rows[x].severity
  BY ClosedRows DEF Open, Citing
<1> QED  BY <1>1, <1>2 DEF FailsControl

LEMMA ClosedScore ==
  ASSUME NEW rows, Typed(rows), NEW e \in DOMAIN rows, NEW now,
         NEW held, DOMAIN held \in SUBSET Controls, NEW better, DOMAIN better = DOMAIN held
  PROVE  BuildCurrentPosture(rows, held, now).score
           <= BuildCurrentPosture(Closed(rows, e), better, now).score
<1> DEFINE closed == Closed(rows, e)
           g == FrameworkScores(closed, better, now)
           h == FrameworkScores(rows, held, now)
           S == FrameworksOf(held)
<1>0. Typed(closed)
  BY ClosedRows
<1>1. /\ StaleControls(closed, now) = StaleControls(rows, now)
      /\ Violations(closed) \subseteq Violations(rows)
  BY ClosedFacts
<1>2. \A v \in Violations(closed) : closed[v[1]].severity = rows[v[1]].severity
  <2>1. \A v \in Violations(closed) : v[1] \in DOMAIN rows
    BY <1>1, ViolationFacts
  <2> QED  BY <2>1, ClosedRows
<1>3. FrameworksOf(better) = S
  BY DEF FrameworksOf
<1> HIDE DEF closed
<1>4. ASSUME NEW f \in S
      PROVE  h[f].score <= g[f].score /\ h[f].controls = g[f].controls
  <2> DEFINE mine == Mine(held, f)
             total == Cardinality(mine)
             stale == Cardinality(StaleOf(rows, held, f, now))
             p == Penalty(closed, ViolationsIn(closed, better, f))
             q == Penalty(rows, ViolationsIn(rows, held, f))
  <2>1. /\ Mine(better, f) = mine
        /\ StaleOf(closed, better, f, now) = StaleOf(rows, held, f, now)
        /\ ViolationsIn(closed, better, f) \subseteq ViolationsIn(rows, held, f)
        /\ ViolationsIn(closed, better, f) \subseteq Violations(closed)
        /\ ViolationsIn(rows, held, f) \in SUBSET Violations(rows)
    BY <1>1 DEF Mine, StaleOf, ViolationsIn
  <2>2. /\ Reports(FrameworkRow(rows, held, f, now), rows, held, f, now)
        /\ q \in Nat /\ total \in Nat \ {0} /\ stale \in Nat
    BY FrameworkFacts
  <2>3. Reports(FrameworkRow(closed, better, f, now), closed, better, f, now) /\ p \in Nat
    BY <1>0, <1>3, FrameworkFacts
  <2>4. p = Penalty(rows, ViolationsIn(closed, better, f))
    <3> DEFINE V == ViolationsIn(closed, better, f)
    <3>1. [v \in V |-> SEVERITY_SCORE[closed[v[1]].severity]]
            = [v \in V |-> SEVERITY_SCORE[rows[v[1]].severity]]
      BY <1>2, <2>1
    <3> HIDE DEF V
    <3> QED  BY <3>1 DEF Penalty, V
  <2>5. p <= q
    BY <2>1, <2>4, PenaltyLess
  <2>6. h[f] = FrameworkRow(rows, held, f, now)
    BY FrameworksWeighed
  <2>7. g[f] = FrameworkRow(closed, better, f, now)
    BY <1>0, <1>3, FrameworksWeighed
  <2>8. /\ h[f].score = FrameworkScore(q, total, stale) /\ h[f].controls = total
    BY <2>2, <2>6 DEF Reports
  <2>9. /\ g[f].score = FrameworkScore(p, total, stale) /\ g[f].controls = total
    BY <2>1, <2>3, <2>7 DEF Reports
  <2> HIDE DEF mine, total, stale, p, q, g, h
  <2>10. stale <= stale
    BY <2>2
  <2>11. FrameworkScore(q, total, stale) <= FrameworkScore(p, total, stale)
    BY <2>2, <2>3, <2>5, <2>10, ScoreFalls
  <2> QED  BY <2>8, <2>9, <2>11
<1>5. Weighed(h, S)
  BY FrameworksWeighed
<1>6. Weighed(g, S)
  BY <1>0, <1>3, FrameworksWeighed
<1>7. WeightedPostureScore(h) <= WeightedPostureScore(g)
  <2> HIDE DEF g, h, S
  <2> QED  BY <1>4, <1>5, <1>6, AverageFalls
<1>8. BuildCurrentPosture(rows, held, now).score = WeightedPostureScore(h)
  BY PostureFacts
<1>9. BuildCurrentPosture(closed, better, now).score = WeightedPostureScore(g)
  BY <1>0, PostureFacts
<1> QED  BY <1>7, <1>8, <1>9 DEF closed

-----------------------------------------------------------------------------
(* The inductive invariant.  What is on disk was computed, at some time    *)
(* until now, from the events that are there.                              *)

At(t, rows) == controls = ControlRows(rows, t) /\ ~Raises(rows, t)
TestsAt(t) == tests = [c \in DOMAIN controls |-> TestResult(silver, controls[c], c, t)]
PostureAt(t) == posture = BuildCurrentPosture(silver, controls, t)

IInv ==
    /\ rules \in RuleChoices /\ clock \in 0..MaxClock
    /\ phase \in {"idle", "tests", "posture"} /\ raised \in BOOLEAN
    /\ Typed(silver)
    /\ \E t \in 0..clock : At(t, silver)
    /\ IF phase = "tests" THEN tests = NoEvents ELSE \E t \in 0..clock : TestsAt(t)
    /\ IF phase = "idle" THEN \E t \in 0..clock : PostureAt(t) ELSE posture = NoPosture

LEMMA NoEventsFacts ==
  /\ Typed(NoEvents) /\ DOMAIN NoEvents = {} /\ Cited(NoEvents) = {}
  /\ IsPosture(NoPosture)
<1>1. DOMAIN NoEvents = {}
  BY DEF NoEvents
<1>2. Typed(NoEvents) /\ Cited(NoEvents) = {}
  BY <1>1 DEF Typed, Cited
<1>3. DOMAIN NoEvents \in SUBSET Controls
  BY <1>1
<1>4. IsPosture(NoPosture)
  BY <1>2, <1>3, PostureFacts DEF NoPosture
<1> QED  BY <1>1, <1>2, <1>4

\* Whatever a raw file may hold is typed.
LEMMA RevisionsTyped ==
  ASSUME Typed(silver), NEW rows \in Revisions
  PROVE  Typed(rows)
<1>1. CASE rows = silver
  BY <1>1
<1>2. CASE rows \in {[e \in DOMAIN silver \ {x} |-> silver[e]] : x \in DOMAIN silver}
  BY <1>2 DEF Typed
<1>3. CASE rows \in {With(entry[1], entry[2]) : entry \in Events \X {row \in Row : row.at = clock}}
  <2>1. PICK x \in Events, row \in Row : rows = With(x, row)
    BY <1>3
  <2> QED  BY <2>1 DEF With, Typed
<1>4. CASE rows \in {[silver EXCEPT ![x].open = ~@] : x \in DOMAIN silver}
  <2>1. PICK x \in DOMAIN silver : rows = [silver EXCEPT ![x].open = ~@]
    BY <1>4
  <2>2. silver[x] \in Row /\ silver[x].open \in BOOLEAN
    BY RowFacts
  <2>3. [silver[x] EXCEPT !.open = ~@] \in Row
    BY <2>2 DEF Row
  <2>4. DOMAIN rows = DOMAIN silver /\ rows[x] = [silver[x] EXCEPT !.open = ~@]
        /\ \A e \in DOMAIN silver : e # x => rows[e] = silver[e]
    BY <2>1
  <2>5. ASSUME NEW e \in DOMAIN rows PROVE rows[e] \in Row
    <3>1. CASE e = x
      BY <2>3, <2>4, <3>1
    <3>2. CASE e # x
      BY <2>4, <3>2, RowFacts
    <3> QED  BY <3>1, <3>2
  <2> QED  BY <2>4, <2>5 DEF Typed
<1> QED  BY <1>1, <1>2, <1>3, <1>4 DEF Revisions

LEMMA IInvInit == Init => IInv
<1> SUFFICES ASSUME Init PROVE IInv
  OBVIOUS
<1>1. /\ rules \in RuleChoices /\ clock = 0 /\ clock \in 0..MaxClock /\ phase = "idle"
      /\ raised = FALSE /\ silver = NoEvents /\ controls = NoEvents /\ tests = NoEvents
      /\ posture = NoPosture
  BY EvaluationAssumption DEF Init
<1>2. At(0, silver)
  <2>1. ControlRows(NoEvents, 0) = NoEvents
    BY NoEventsFacts DEF ControlRows, NoEvents
  <2>2. ~Raises(NoEvents, 0)
    BY NoEventsFacts DEF Raises
  <2> QED  BY <1>1, <2>1, <2>2 DEF At
<1>3. TestsAt(0)
  <2>1. [c \in DOMAIN NoEvents |-> TestResult(silver, controls[c], c, 0)] = NoEvents
    BY NoEventsFacts DEF NoEvents
  <2> QED  BY <1>1, <2>1 DEF TestsAt
<1>4. PostureAt(0)
  BY <1>1 DEF PostureAt, NoPosture
<1>5. 0 \in 0..clock
  BY <1>1
<1> QED  BY <1>1, <1>2, <1>3, <1>4, <1>5, NoEventsFacts DEF IInv

\* Without new events, what was computed stays what it was.
LEMMA Kept ==
  ASSUME UNCHANGED <<rules, silver, controls>>, NEW t
  PROVE  At(t, silver) => At(t, silver)'
BY DEF At, ControlRows, Raises, Status

LEMMA IInvStep == IInv /\ [Next]_vars => IInv'
<1> SUFFICES ASSUME IInv, [Next]_vars PROVE IInv'
  OBVIOUS
<1>0. /\ rules \in RuleChoices /\ clock \in 0..MaxClock /\ clock \in Nat
      /\ phase \in {"idle", "tests", "posture"} /\ raised \in BOOLEAN /\ Typed(silver)
      /\ clock \in 0..clock /\ 0..clock \subseteq 0..(clock + 1)
  BY EvaluationAssumption DEF IInv
<1>1. ASSUME Tick PROVE IInv'
  <2>1. /\ clock' \in 0..MaxClock /\ 0..clock \subseteq 0..clock'
        /\ UNCHANGED <<rules, silver, phase, controls, tests, posture, raised>>
    BY <1>0, <1>1, EvaluationAssumption DEF Tick
  <2>2. Typed(silver)' /\ \E t \in 0..clock' : At(t, silver)'
    BY <1>0, <2>1, Kept DEF IInv, Typed
  <2>3. (IF phase = "tests" THEN tests = NoEvents ELSE \E t \in 0..clock : TestsAt(t))'
    BY <2>1 DEF IInv, TestsAt
  <2>4. (IF phase = "idle" THEN \E t \in 0..clock : PostureAt(t) ELSE posture = NoPosture)'
    BY <2>1 DEF IInv, PostureAt
  <2> QED  BY <1>0, <2>1, <2>2, <2>3, <2>4 DEF IInv
<1>2. ASSUME NEW rows \in Revisions, BuildControlRows(rows) PROVE IInv'
  <2>1. /\ silver' = rows /\ controls' = ControlRows(rows, clock) /\ ~Raises(rows, clock)
        /\ phase' = "tests" /\ raised' = FALSE /\ tests' = NoEvents /\ posture' = NoPosture
        /\ UNCHANGED <<rules, clock>>
    BY <1>2 DEF BuildControlRows
  <2>2. Typed(rows)
    BY <1>0, RevisionsTyped
  <2>3. At(clock, silver)'
    BY <2>1 DEF At, ControlRows, Raises, Status
  <2>4. Typed(silver)'
    BY <2>1, <2>2 DEF Typed
  <2> QED  BY <1>0, <2>1, <2>3, <2>4 DEF IInv
<1>3. ASSUME NEW rows \in Revisions, RunRaises(rows) PROVE IInv'
  <2>1. raised' = TRUE /\ UNCHANGED <<rules, clock, silver, phase, controls, tests, posture>>
    BY <1>3 DEF RunRaises
  <2>2. Typed(silver)' /\ \E t \in 0..clock' : At(t, silver)'
    BY <1>0, <2>1, Kept DEF IInv, Typed
  <2> QED  BY <1>0, <2>1, <2>2 DEF IInv, TestsAt, PostureAt
<1>4. ASSUME BuildControlTests PROVE IInv'
  <2>1. /\ phase = "tests" /\ phase' = "posture"
        /\ tests' = [c \in DOMAIN controls |-> TestResult(silver, controls[c], c, clock)]
        /\ UNCHANGED <<rules, clock, silver, controls, posture, raised>>
    BY <1>4 DEF BuildControlTests
  <2>2. Typed(silver)' /\ \E t \in 0..clock' : At(t, silver)'
    BY <1>0, <2>1, Kept DEF IInv, Typed
  <2>3. TestsAt(clock)'
    BY <2>1 DEF TestsAt
  <2> QED  BY <1>0, <2>1, <2>2, <2>3 DEF IInv
<1>5. ASSUME WriteCurrentPosture PROVE IInv'
  <2>1. /\ phase = "posture" /\ phase' = "idle"
        /\ posture' = BuildCurrentPosture(silver, controls, clock)
        /\ UNCHANGED <<rules, clock, silver, controls, tests, raised>>
    BY <1>5 DEF WriteCurrentPosture
  <2>2. Typed(silver)' /\ \E t \in 0..clock' : At(t, silver)'
    BY <1>0, <2>1, Kept DEF IInv, Typed
  <2>3. PostureAt(clock)'
    BY <2>1 DEF PostureAt
  <2>4. \E t \in 0..clock' : TestsAt(t)'
    BY <2>1 DEF IInv, TestsAt
  <2> QED  BY <1>0, <2>1, <2>2, <2>3, <2>4 DEF IInv
<1>6. ASSUME Review PROVE IInv'
  <2>1. /\ phase = "idle" /\ posture' = BuildCurrentPosture(silver, controls, clock)
        /\ UNCHANGED <<rules, clock, silver, phase, controls, tests, raised>>
    BY <1>6 DEF Review
  <2>2. Typed(silver)' /\ \E t \in 0..clock' : At(t, silver)'
    BY <1>0, <2>1, Kept DEF IInv, Typed
  <2>3. PostureAt(clock)'
    BY <2>1 DEF PostureAt
  <2>4. \E t \in 0..clock' : TestsAt(t)'
    BY <2>1 DEF IInv, TestsAt
  <2> QED  BY <1>0, <2>1, <2>2, <2>3, <2>4 DEF IInv
<1>7. ASSUME UNCHANGED vars PROVE IInv'
  <2>1. UNCHANGED <<rules, clock, silver, phase, controls, tests, posture, raised>>
    BY <1>7 DEF vars
  <2>2. Typed(silver)' /\ \E t \in 0..clock' : At(t, silver)'
    BY <1>0, <2>1, Kept DEF IInv, Typed
  <2> QED  BY <1>0, <2>1, <2>2 DEF IInv, TestsAt, PostureAt
<1> QED  BY <1>1, <1>2, <1>3, <1>4, <1>5, <1>6, <1>7 DEF Next

\* At any time, the control rows, the tests and the posture on disk are what the
\* code computes from the events of the last run, each at some time until now.
THEOREM EvaluationInvariant == Spec => []IInv
BY IInvInit, IInvStep, PTL DEF Spec

-----------------------------------------------------------------------------
(* The properties.                                                         *)

\* What the invariant says of the control rows and of the tests.
LEMMA ControlsKnown ==
  ASSUME IInv
  PROVE  /\ DOMAIN controls = Cited(silver) /\ DOMAIN controls \in SUBSET Controls
         /\ \E t \in 0..clock :
              \A c \in DOMAIN controls :
                 /\ controls[c] \in [status: {"pass", "fail"}, open: 0..Cardinality(Events),
                                     evidence: 0..Cardinality(Events)]
                 /\ controls[c].status = Status(silver, c, t)
                 /\ controls[c].open = Cardinality(Open(silver, c))
                 /\ controls[c].evidence = Cardinality(Evidence(silver, c))
<1>1. rules \in RuleChoices /\ Typed(silver)
  BY DEF IInv
<1>2. PICK t \in 0..clock : controls = ControlRows(silver, t) /\ ~Raises(silver, t)
  BY DEF IInv, At
<1>3. Cited(silver) \in SUBSET Controls
  BY <1>1, CitedControls
<1> QED  BY <1>1, <1>2, <1>3, ControlRowFacts

LEMMA TestFacts ==
  ASSUME NEW rows, NEW control, NEW c, NEW now
  PROVE  /\ TestResult(rows, control, c, now) \in {"pass", "fail", "needs_evidence"}
         /\ TestResult(rows, control, c, now) = "pass" =>
              /\ control.evidence # 0 /\ Open(rows, c) = {} /\ control.status # "fail"
              /\ ControlFreshness(rows, c, now) \notin STALE_STATUSES
BY DEF TestResult

\* Control rows, tests and postures keep their types, and every score is between
\* 0 and 100 points, for any number of violations and of stale controls
\* (_framework_scores, _weighted_posture_score).
THEOREM EvaluationTypes == Spec => []TypeOK
<1>1. ASSUME IInv PROVE TypeOK
  <2>0. Typed(silver) /\ DOMAIN controls \in SUBSET Controls
    BY <1>1, ControlsKnown DEF IInv
  <2>1. \A c \in DOMAIN controls :
          controls[c] \in [status: {"pass", "fail"}, open: 0..Cardinality(Events),
                           evidence: 0..Cardinality(Events)]
    BY <1>1, ControlsKnown
  <2>2. DOMAIN tests \subseteq Controls
        /\ \A c \in DOMAIN tests : tests[c] \in {"pass", "fail", "needs_evidence"}
    <3>1. CASE phase = "tests"
      BY <1>1, <3>1, NoEventsFacts DEF IInv
    <3>2. CASE phase # "tests"
      <4>1. PICK t \in 0..clock :
              tests = [c \in DOMAIN controls |-> TestResult(silver, controls[c], c, t)]
        BY <1>1, <3>2 DEF IInv, TestsAt
      <4> QED  BY <2>0, <4>1, TestFacts
    <3> QED  BY <3>1, <3>2
  <2>3. IsPosture(posture)
    <3>1. CASE phase = "idle"
      <4>1. PICK t \in 0..clock : posture = BuildCurrentPosture(silver, controls, t)
        BY <1>1, <3>1 DEF IInv, PostureAt
      <4> QED  BY <2>0, <4>1, PostureFacts
    <3>2. CASE phase # "idle"
      BY <1>1, <3>2, NoEventsFacts DEF IInv
    <3> QED  BY <3>1, <3>2
  <2> QED  BY <1>1, <2>0, <2>1, <2>2, <2>3 DEF IInv, TypeOK, IsPosture, Typed
<1> QED  BY <1>1, EvaluationInvariant, PTL

LEMMA CriticalThere ==
  ASSUME NEW rows, Typed(rows)
  PROVE  Critical(rows) # {}
           <=> \E e \in DOMAIN rows :
                  rows[e].open /\ rows[e].severity = "critical" /\ rows[e].cites # {}
<1>1. ASSUME NEW v \in Critical(rows)
      PROVE  /\ v[1] \in DOMAIN rows /\ rows[v[1]].open /\ rows[v[1]].severity = "critical"
             /\ rows[v[1]].cites # {}
  BY DEF Critical, OfSeverity, Violations
<1>2. ASSUME NEW e \in DOMAIN rows, rows[e].open, rows[e].severity = "critical",
             NEW c \in rows[e].cites
      PROVE  Critical(rows) # {}
  <2>1. c \in Controls
    BY RowFacts
  <2>2. <<e, c>> \in Critical(rows)
    BY <1>2, <2>1 DEF Critical, OfSeverity, Violations
  <2> QED  BY <2>2
<1> QED  BY <1>1, <1>2

\* What is critical shows in the posture, the frameworks, the control rows and the
\* tests.
LEMMA CriticalSeen == IInv => CriticalIsSeen
<1> SUFFICES ASSUME IInv, phase = "idle" PROVE CriticalIsSeen
  BY DEF CriticalIsSeen
<1>0. Typed(silver) /\ DOMAIN controls = Cited(silver) /\ DOMAIN controls \in SUBSET Controls
  BY ControlsKnown DEF IInv
<1>1. PICK t \in 0..clock : posture = BuildCurrentPosture(silver, controls, t)
  BY DEF IInv, PostureAt
<1>2. /\ posture.state = PostureState(posture.score, Critical(silver), StaleControls(silver, t))
      /\ DOMAIN posture.frameworks = FrameworksOf(controls)
      /\ \A f \in FrameworksOf(controls) :
           posture.frameworks[f] = FrameworkRow(silver, controls, f, t)
  BY <1>0, <1>1, PostureFacts
<1>3. posture.state = "critical" <=> Critical(silver) # {}
  BY <1>2 DEF PostureState
<1>4. ASSUME NEW e \in DOMAIN silver, silver[e].open, silver[e].severity = "critical",
             NEW c \in silver[e].cites, IsNamed(rules[c])
      PROVE  /\ controls[c].status = "fail" /\ tests[c] # "pass"
             /\ posture.frameworks[Framework[c]].state = "attention_required"
  <2>1. c \in DOMAIN controls
    BY <1>0 DEF Cited
  <2>2. PICK n \in RuleNames : StatusFollows(rules[c], n)
    BY <1>4, NamedControl
  <2>3. \A now : FailsControl(n, silver, c, now)
    BY <1>4, CriticalFails
  <2>4. controls[c].status = "fail"
    <3>1. PICK s \in 0..clock : controls[c].status = Status(silver, c, s)
      BY <2>1, ControlsKnown
    <3> QED  BY <1>0, <2>2, <2>3, <3>1 DEF StatusFollows, Status
  <2>5. tests[c] # "pass"
    <3>1. PICK s \in 0..clock :
            tests = [k \in DOMAIN controls |-> TestResult(silver, controls[k], k, s)]
      BY DEF IInv, TestsAt
    <3>2. tests[c] = TestResult(silver, controls[c], c, s)
      BY <2>1, <3>1
    <3> QED  BY <2>4, <3>2, TestFacts
  <2> DEFINE f == Framework[c]
  <2>6. f \in FrameworksOf(controls) /\ c \in Mine(controls, f)
    BY <2>1 DEF FrameworksOf, Mine
  <2>7. Reports(FrameworkRow(silver, controls, f, t), silver, controls, f, t)
    BY <1>0, <2>6, FrameworkFacts
  <2>8. posture.frameworks[f].state = "attention_required"
    <3> HIDE DEF f
    <3>1. posture.frameworks[f] = FrameworkRow(silver, controls, f, t)
      BY <1>2, <2>6
    <3> QED  BY <2>4, <2>6, <2>7, <3>1 DEF Reports
  <2> QED  BY <2>4, <2>5, <2>8
<1> QED  BY <1>0, <1>3, <1>4, CriticalThere DEF CriticalIsSeen

LEMMA CountsMatch == IInv => CountsAgree
<1> SUFFICES ASSUME IInv, phase = "idle" PROVE CountsAgree
  BY DEF CountsAgree
<1>0. Typed(silver) /\ DOMAIN controls = Cited(silver) /\ DOMAIN controls \in SUBSET Controls
  BY ControlsKnown DEF IInv
<1>1. PICK t \in 0..clock : posture = BuildCurrentPosture(silver, controls, t)
  BY DEF IInv, PostureAt
<1>2. /\ posture.open = Cardinality(Violations(silver))
      /\ DOMAIN posture.frameworks = FrameworksOf(controls)
      /\ \A f \in FrameworksOf(controls) :
           posture.frameworks[f] = FrameworkRow(silver, controls, f, t)
  BY <1>0, <1>1, PostureFacts
<1>3. \A c \in DOMAIN controls : controls[c].open = Cardinality(Open(silver, c))
  BY ControlsKnown
<1>4. posture.open = Total([c \in DOMAIN controls |-> controls[c].open])
  <2>1. Cardinality(Violations(silver)) =
          Total([c \in Cited(silver) |-> Cardinality(Open(silver, c))])
    <3>1. {v \in Violations(silver) : v[2] \in Cited(silver)} = Violations(silver)
      BY <1>0, ViolationFacts
    <3>2. Cardinality({v \in Violations(silver) : v[2] \in Cited(silver)}) =
            Total([c \in Cited(silver) |-> Cardinality(Open(silver, c))])
      BY <1>0, ViolationsOf
    <3> QED  BY <3>1, <3>2
  <2>2. [c \in Cited(silver) |-> Cardinality(Open(silver, c))]
          = [c \in DOMAIN controls |-> controls[c].open]
    BY <1>0, <1>3
  <2> QED  BY <1>2, <2>1, <2>2
<1>5. ASSUME NEW f \in DOMAIN posture.frameworks
      PROVE  posture.frameworks[f].violations =
                Total([c \in {x \in DOMAIN controls : Framework[x] = f} |-> controls[c].open])
  <2>1. Reports(FrameworkRow(silver, controls, f, t), silver, controls, f, t)
    BY <1>0, <1>2, FrameworkFacts
  <2>2. posture.frameworks[f].violations =
          Total([c \in Mine(controls, f) |-> Cardinality(Open(silver, c))])
    BY <1>2, <2>1 DEF Reports
  <2>3. [c \in Mine(controls, f) |-> Cardinality(Open(silver, c))]
          = [c \in Mine(controls, f) |-> controls[c].open]
    BY <1>3 DEF Mine
  <2> QED  BY <2>2, <2>3 DEF Mine
<1> QED  BY <1>4, <1>5 DEF CountsAgree

\* Once a run has finished, critical findings show in all of its results, and the
\* posture counts the violations that the control rows count
\* (build_current_posture, _control_rows).
THEOREM ReportsDoAgree == Spec => []ReportsAgree
<1>1. IInv => ReportsAgree
  BY CriticalSeen, CountsMatch DEF ReportsAgree
<1> QED  BY <1>1, EvaluationInvariant, PTL

\* Closing a finding lowers no score and fails no control that passes
\* (_framework_scores, evaluate_control).
THEOREM ClosingDoesHelp == Spec => []ClosingHelps
<1>1. ASSUME IInv, NEW e \in DOMAIN silver
      PROVE  LET closed == [silver EXCEPT ![e].open = FALSE]
                 better == ControlRows(closed, clock)
             IN  /\ BuildCurrentPosture(closed, better, clock).score
                       >= BuildCurrentPosture(silver, ControlRows(silver, clock), clock).score
                 /\ \A c \in DOMAIN better :
                       IsNamed(rules[c]) /\ Status(silver, c, clock) = "pass" =>
                          better[c].status = "pass"
  <2> DEFINE closed == Closed(silver, e)
             better == ControlRows(closed, clock)
             held == ControlRows(silver, clock)
  <2>0. Typed(silver) /\ Typed(closed) /\ clock \in 0..MaxClock
    BY <1>1, ClosedRows DEF IInv
  <2>1. DOMAIN better = Cited(silver) /\ DOMAIN held = Cited(silver)
    BY <2>0, ClosedFacts DEF ControlRows
  <2>2. Cited(silver) \in SUBSET Controls
    BY <2>0, CitedControls
  <2> DEFINE p == BuildCurrentPosture(silver, held, clock).score
             q == BuildCurrentPosture(closed, better, clock).score
  <2>3. p <= q
    <3> HIDE DEF better, held
    <3> QED  BY <2>0, <2>1, <2>2, ClosedScore
  <2>4. p \in Nat /\ q \in Nat
    <3> HIDE DEF better, held, closed
    <3> QED  BY <2>0, <2>1, <2>2, PostureFacts, PointsAre DEF IsPosture
  <2>5. ASSUME NEW c \in DOMAIN better, IsNamed(rules[c]), Status(silver, c, clock) = "pass"
        PROVE  better[c].status = "pass"
    <3>1. PICK n \in RuleNames : StatusFollows(rules[c], n)
      BY <2>5, NamedControl
    <3>2. ~FailsControl(n, silver, c, clock)
      BY <2>0, <2>5, <3>1 DEF StatusFollows, Status
    <3>3. ~FailsControl(n, closed, c, clock)
      BY <2>0, <3>2, ClosedFails
    <3>4. Status(closed, c, clock) = "pass"
      BY <2>0, <3>1, <3>3 DEF StatusFollows, Status
    <3>5. better[c].status = Status(closed, c, clock)
      BY DEF ControlRows
    <3> QED  BY <3>4, <3>5
  <2> HIDE DEF p, q, better
  <2>6. q >= p
    BY <2>3, <2>4
  <2> QED  BY <2>5, <2>6 DEF Closed, p, q, better
<1>2. IInv => ClosingHelps
  BY <1>1 DEF ClosingHelps
<1> QED  BY <1>2, EvaluationInvariant, PTL

\* A test that passes has earned it (_test_result, summarize_control_freshness): no
\* open event, and for every required type evidence with a reference, the newest of
\* it within its SLO when the test was made.  That all of it has a reference follows
\* from the status, which was computed earlier.
THEOREM PassesAreEarned == Spec => PassIsEarned
<1>1. ASSUME IInv, [Next]_vars, phase = "tests", phase' = "posture",
             NEW c \in DOMAIN tests', tests'[c] = "pass", StaleSensitive(rules[c])
      PROVE  /\ Open(silver, c) = {}
             /\ \A ty \in Required[c] :
                  LET mine == {e \in Citing(silver, c) : silver[e].type = ty} IN
                  /\ mine # {}
                  /\ \A e \in mine : silver[e].ref
                  /\ \E e \in mine : clock <= silver[e].at + Slo[ty]
  <2>0. /\ Typed(silver) /\ clock \in Nat /\ rules \in RuleChoices
        /\ DOMAIN controls = Cited(silver) /\ DOMAIN controls \in SUBSET Controls
    BY <1>1, ControlsKnown, EvaluationAssumption DEF IInv
  <2>1. tests' = [k \in DOMAIN controls |-> TestResult(silver, controls[k], k, clock)]
    BY <1>1 DEF Next, Tick, BuildControlRows, RunRaises, BuildControlTests, WriteCurrentPosture,
                Review, vars
  <2>2. c \in DOMAIN controls /\ c \in Controls /\ TestResult(silver, controls[c], c, clock) = "pass"
    BY <1>1, <2>0, <2>1
  <2>3. /\ Open(silver, c) = {} /\ controls[c].status # "fail"
        /\ ControlFreshness(silver, c, clock) \notin STALE_STATUSES
    BY <2>2, TestFacts
  <2>4. PICK t \in 0..clock : controls[c].status = Status(silver, c, t)
    BY <1>1, <2>2, ControlsKnown
  <2>5. c \notin StaleControls(silver, t)
    <3>1. PICK n \in {"fail_when_stale_evidence", "fail_when_open_violation_or_stale_evidence"} :
            StatusFollows(rules[c], n)
      BY <1>1, StaleSensitiveIsNamed, NamedControl
    <3>2. ~FailsControl(n, silver, c, t)
      BY <2>0, <2>3, <2>4, <3>1 DEF StatusFollows, Status
    <3> QED  BY <3>1, <3>2 DEF FailsControl
  <2>6. \A e \in Citing(silver, c) : silver[e].ref
    <3> SUFFICES ASSUME NEW e \in Citing(silver, c), ~silver[e].ref PROVE FALSE
      OBVIOUS
    <3>1. e \in DOMAIN silver /\ c \in silver[e].cites
      BY DEF Citing
    <3>2. t \in Nat
      BY <2>0
    <3>3. FreshnessOf(silver[e], t) = "missing"
      BY <2>0, <3>1, <3>2, FreshnessType
    <3>4. Stale(silver[e], t)
      BY <3>3 DEF Stale, STALE_STATUSES
    <3> QED  BY <2>5, <3>1, <3>4 DEF StaleControls
  <2>7. ASSUME NEW ty \in Required[c]
        PROVE  \E e \in {x \in Citing(silver, c) : silver[x].type = ty} :
                  clock <= silver[e].at + Slo[ty]
    BY <2>0, <2>2, <2>3, <2>6, FreshControl
  <2>8. \A ty \in Required[c] : {x \in Citing(silver, c) : silver[x].type = ty} # {}
    BY <2>7
  <2> QED  BY <2>3, <2>6, <2>7, <2>8
<1>2. IInv /\ [Next]_vars =>
        (phase = "tests" /\ phase' = "posture" =>
         \A c \in DOMAIN tests' : tests'[c] = "pass" /\ StaleSensitive(rules[c]) =>
            /\ Open(silver, c) = {}
            /\ \A ty \in Required[c] :
                  LET mine == {e \in Citing(silver, c) : silver[e].type = ty} IN
                  /\ mine # {}
                  /\ \A e \in mine : silver[e].ref
                  /\ \E e \in mine : clock <= silver[e].at + Slo[ty])
  BY <1>1
<1>3. Spec => [][Next]_vars
  BY DEF Spec
<1> QED  BY <1>2, <1>3, EvaluationInvariant, PTL DEF PassIsEarned

\* Time heals nothing (build_current_posture, _control_rows): from the same events no
\* later posture has a better score or state, and under a named rule a control that
\* failed fails in the next run.
THEOREM AgingDoesNotHeal == Spec => AgingNeverHeals
<1>1. ASSUME IInv, [Next]_vars, phase = "idle", silver' = silver
      PROVE  /\ phase' = "idle" =>
                  /\ posture'.score <= posture.score
                  /\ Severeness[posture'.state] >= Severeness[posture.state]
             /\ \A c \in DOMAIN controls : IsNamed(rules[c]) /\ controls[c].status = "fail" =>
                  controls'[c].status = "fail"
  <2>0. /\ Typed(silver) /\ clock \in Nat /\ rules \in RuleChoices
        /\ DOMAIN controls = Cited(silver) /\ DOMAIN controls \in SUBSET Controls
    BY <1>1, ControlsKnown, EvaluationAssumption DEF IInv
  <2>1. PICK t \in 0..clock : posture = BuildCurrentPosture(silver, controls, t)
    BY <1>1 DEF IInv, PostureAt
  <2>2. t \in Nat /\ t <= clock
    BY <2>0, <2>1
  <2>3. posture.score \in Nat /\ Severeness[posture.state] \in Nat
    <3>1. IsPosture(posture)
      BY <2>0, <2>1, PostureFacts
    <3> QED  BY <3>1, PointsAre DEF IsPosture, Severeness
  <2>4. CASE posture' = posture /\ controls' = controls
    BY <2>3, <2>4
  <2>5. CASE Review
    <3>1. posture' = BuildCurrentPosture(silver, controls, clock) /\ controls' = controls
      BY <2>5 DEF Review
    <3> QED  BY <2>0, <2>1, <2>2, <3>1, PostureAges
  <2>6. ASSUME NEW rows \in Revisions, BuildControlRows(rows)
        PROVE  /\ phase' # "idle"
               /\ \A c \in DOMAIN controls : IsNamed(rules[c]) /\ controls[c].status = "fail" =>
                    controls'[c].status = "fail"
    <3>1. phase' = "tests" /\ controls' = ControlRows(silver, clock)
      BY <1>1, <2>6 DEF BuildControlRows
    <3>2. ASSUME NEW c \in DOMAIN controls, IsNamed(rules[c]), controls[c].status = "fail"
          PROVE  controls'[c].status = "fail"
      <4>1. PICK s \in 0..clock : controls[c].status = Status(silver, c, s)
        BY <1>1, ControlsKnown
      <4>2. PICK n \in RuleNames : StatusFollows(rules[c], n)
        BY <3>2, NamedControl
      <4>3. FailsControl(n, silver, c, s)
        BY <2>0, <3>2, <4>1, <4>2 DEF StatusFollows, Status
      <4>4. s \in Nat /\ s <= clock
        BY <2>0
      <4>5. FailsControl(n, silver, c, clock)
        BY <2>0, <4>3, <4>4, FailsLater
      <4>6. controls'[c].status = Status(silver, c, clock)
        BY <2>0, <3>1 DEF ControlRows
      <4> QED  BY <2>0, <4>2, <4>5, <4>6 DEF StatusFollows, Status
    <3> QED  BY <3>1, <3>2
  <2>7. CASE BuildControlTests \/ WriteCurrentPosture
    BY <1>1, <2>7 DEF BuildControlTests, WriteCurrentPosture
  <2>8. CASE Tick \/ (\E rows \in Revisions : RunRaises(rows)) \/ UNCHANGED vars
    <3>1. posture' = posture /\ controls' = controls
      BY <2>8 DEF Tick, RunRaises, vars
    <3> QED  BY <2>4, <3>1
  <2> QED  BY <1>1, <2>5, <2>6, <2>7, <2>8 DEF Next
<1>2. IInv /\ [Next]_vars =>
        (phase = "idle" /\ silver' = silver =>
         /\ phase' = "idle" =>
               /\ posture'.score <= posture.score
               /\ Severeness[posture'.state] >= Severeness[posture.state]
         /\ \A c \in DOMAIN controls : IsNamed(rules[c]) /\ controls[c].status = "fail" =>
               controls'[c].status = "fail")
  BY <1>1
<1>3. Spec => [][Next]_vars
  BY DEF Spec
<1> QED  BY <1>2, <1>3, EvaluationInvariant, PTL DEF AgingNeverHeals
=============================================================================
