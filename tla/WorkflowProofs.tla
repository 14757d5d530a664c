---------------------------- MODULE WorkflowProofs ----------------------------
(***************************************************************************)
(* Theorems about Workflow, for any nodes, any graphs over them, savers    *)
(* and numbers of saves.                                                   *)
(***************************************************************************)
EXTENDS Workflow, FiniteSetTheorems, WellFoundedInduction, TLAPS

-----------------------------------------------------------------------------
(* Facts about numbers and sequences.                                      *)

\* Of a set of natural numbers that is not empty one is the least: of the
\* intervals up to its elements, all finite, one has no smaller.
LEMMA LeastNumber ==
  ASSUME NEW T \in SUBSET Nat, T # {}
  PROVE  \E m \in T : \A k \in T : m <= k
<1> DEFINE C == {0..k : k \in T}
<1>1. C \subseteq FiniteSubsetsOf(Nat) /\ C # {}
  <2> SUFFICES ASSUME NEW k \in T PROVE 0..k \in FiniteSubsetsOf(Nat)
    OBVIOUS
  <2>1. IsFiniteSet(0..k)
    BY FS_Interval
  <2> QED  BY <2>1 DEF FiniteSubsetsOf
<1>2. PICK I \in C : \A J \in C : <<J, I>> \notin StrictSubsetOrdering(Nat)
  BY <1>1, FS_StrictSubsetOrderingWellFounded, WFMin
<1>3. PICK m \in T : I = 0..m
  OBVIOUS
<1>4. ASSUME NEW k \in T, k < m PROVE FALSE
  <2>1. 0..k \in C /\ 0..k \subseteq 0..m /\ 0..k # 0..m
    BY <1>4
  <2>2. <<0..k, I>> \in StrictSubsetOrdering(Nat)
    BY <2>1, <1>3 DEF StrictSubsetOrdering
  <2> QED  BY <2>1, <2>2, <1>2
<1> QED  BY <1>4

\* The first of the greatest numbers of a sequence that is not empty.
LEMMA FirstMaximum ==
  ASSUME NEW n \in Nat \ {0}, NEW m \in Nat, NEW f \in [1..n -> 0..m]
  PROVE  \E i \in 1..n : (\A j \in 1..n : f[j] <= f[i]) /\ \A j \in 1..(i - 1) : f[j] < f[i]
<1> DEFINE Gaps == {m - f[j] : j \in 1..n}
<1>1. Gaps \in SUBSET Nat /\ Gaps # {}
  <2>1. 1 \in 1..n
    OBVIOUS
  <2>2. \A j \in 1..n : f[j] \in 0..m /\ m - f[j] \in Nat
    OBVIOUS
  <2> QED  BY <2>1, <2>2
<1>2. PICK gap \in Gaps : \A k \in Gaps : gap <= k
  BY <1>1, LeastNumber
<1>3. PICK greatest \in 1..n : gap = m - f[greatest]
  OBVIOUS
<1>4. \A j \in 1..n : f[j] <= f[greatest]
  <2> SUFFICES ASSUME NEW j \in 1..n PROVE f[j] <= f[greatest]
    OBVIOUS
  <2>1. m - f[greatest] <= m - f[j] /\ f[j] \in 0..m /\ f[greatest] \in 0..m
    BY <1>2, <1>3
  <2> QED  BY <2>1
<1> DEFINE Best == {j \in 1..n : f[j] = f[greatest]}
<1>5. Best \in SUBSET Nat /\ Best # {}
  OBVIOUS
<1>6. PICK i \in Best : \A j \in Best : i <= j
  BY <1>5, LeastNumber
<1>7. i \in 1..n /\ f[i] = f[greatest]
  OBVIOUS
<1>8. ASSUME NEW j \in 1..(i - 1) PROVE f[j] < f[i]
  <2>1. j \in 1..n /\ j < i
    BY <1>7
  <2>2. f[j] # f[greatest]
    BY <1>6, <1>7, <2>1
  <2>3. f[j] \in 0..m /\ f[i] \in 0..m
    BY <1>7, <2>1
  <2> QED  BY <1>4, <1>7, <2>1, <2>2, <2>3
<1> QED  BY <1>4, <1>7, <1>8

LEMMA SequenceFacts ==
  ASSUME NEW S, NEW s \in Seq(S)
  PROVE  /\ Len(s) \in Nat /\ DOMAIN s = 1..Len(s) /\ ToSet(s) \subseteq S
         /\ \A i \in DOMAIN s : s[i] \in S /\ s[i] \in ToSet(s)
         /\ \A x \in ToSet(s) : \E i \in DOMAIN s : s[i] = x
  BY DEF ToSet

LEMMA AppendFacts ==
  ASSUME NEW S, NEW s \in Seq(S), NEW x \in S
  PROVE  /\ Append(s, x) \in Seq(S) /\ ToSet(Append(s, x)) = ToSet(s) \cup {x}
         /\ Len(Append(s, x)) = Len(s) + 1 /\ Append(s, x)[Len(s) + 1] = x
         /\ \A i \in 1..Len(s) : Append(s, x)[i] = s[i]
         /\ IsInjective(s) /\ x \notin ToSet(s) => IsInjective(Append(s, x))
<1>1. /\ Append(s, x) \in Seq(S) /\ Len(Append(s, x)) = Len(s) + 1 /\ Append(s, x)[Len(s) + 1] = x
      /\ \A i \in 1..Len(s) : Append(s, x)[i] = s[i]
      /\ DOMAIN Append(s, x) = 1..(Len(s) + 1) /\ DOMAIN s = 1..Len(s) /\ Len(s) \in Nat
  OBVIOUS
<1>2. ToSet(Append(s, x)) = ToSet(s) \cup {x}
  <2>1. \A i \in 1..(Len(s) + 1) : i \in 1..Len(s) \/ i = Len(s) + 1
    BY <1>1
  <2>2. \A i \in 1..Len(s) : i \in 1..(Len(s) + 1)
    BY <1>1
  <2>3. Len(s) + 1 \in 1..(Len(s) + 1)
    BY <1>1
  <2> QED  BY <1>1, <2>1, <2>2, <2>3 DEF ToSet
<1>3. ASSUME IsInjective(s), x \notin ToSet(s) PROVE IsInjective(Append(s, x))
  <2> SUFFICES ASSUME NEW a \in 1..(Len(s) + 1), NEW b \in 1..(Len(s) + 1),
                      Append(s, x)[a] = Append(s, x)[b]
               PROVE  a = b
    BY <1>1 DEF IsInjective
  <2>1. \A i \in 1..Len(s) : s[i] # x
    BY <1>1, <1>3 DEF ToSet
  <2>2. a \in 1..Len(s) \/ a = Len(s) + 1
    BY <1>1
  <2>3. b \in 1..Len(s) \/ b = Len(s) + 1
    BY <1>1
  <2> QED  BY <1>1, <1>3, <2>1, <2>2, <2>3 DEF IsInjective
<1> QED  BY <1>1, <1>2, <1>3

LEMMA TailFacts ==
  ASSUME NEW S, NEW s \in Seq(S), s # << >>, IsInjective(s)
  PROVE  /\ Head(s) \in S /\ Head(s) \in ToSet(s)
         /\ Tail(s) \in Seq(S) /\ IsInjective(Tail(s))
         /\ ToSet(Tail(s)) = ToSet(s) \ {Head(s)}
<1>1. /\ Len(s) \in Nat \ {0} /\ DOMAIN s = 1..Len(s) /\ Head(s) = s[1]
      /\ Tail(s) \in Seq(S) /\ DOMAIN Tail(s) = 1..(Len(s) - 1)
      /\ \A i \in 1..(Len(s) - 1) : Tail(s)[i] = s[i + 1]
  OBVIOUS
<1>2. \A i \in 1..(Len(s) - 1) : i + 1 \in 1..Len(s) /\ i + 1 # 1
  BY <1>1
<1>3. \A i \in 1..Len(s) : i # 1 => i - 1 \in 1..(Len(s) - 1) /\ (i - 1) + 1 = i
  BY <1>1
<1>4. 1 \in 1..Len(s)
  BY <1>1
<1>5. IsInjective(Tail(s))
  <2> SUFFICES ASSUME NEW a \in 1..(Len(s) - 1), NEW b \in 1..(Len(s) - 1), Tail(s)[a] = Tail(s)[b]
               PROVE  a = b
    BY <1>1 DEF IsInjective
  <2>1. a + 1 = b + 1
    BY <1>1, <1>2 DEF IsInjective
  <2> QED  BY <2>1
<1>6. ASSUME NEW x PROVE x \in ToSet(Tail(s)) <=> x \in ToSet(s) /\ x # Head(s)
  <2>1. ASSUME x \in ToSet(Tail(s)) PROVE x \in ToSet(s) /\ x # Head(s)
    <3>1. PICK i \in 1..(Len(s) - 1) : x = s[i + 1]
      BY <1>1, <2>1 DEF ToSet
    <3> QED  BY <1>1, <1>2, <1>4, <3>1 DEF ToSet, IsInjective
  <2>2. ASSUME x \in ToSet(s), x # Head(s) PROVE x \in ToSet(Tail(s))
    <3>1. PICK i \in 1..Len(s) : x = s[i]
      BY <1>1, <2>2 DEF ToSet
    <3>2. i - 1 \in 1..(Len(s) - 1) /\ Tail(s)[i - 1] = x
      BY <1>1, <1>3, <2>2, <3>1
    <3> QED  BY <1>1, <3>2 DEF ToSet
  <2> QED  BY <2>1, <2>2
<1> QED  BY <1>1, <1>4, <1>5, <1>6 DEF ToSet

LEMMA ConcatFacts ==
  ASSUME NEW S, NEW s \in Seq(S), NEW t \in Seq(S)
  PROVE  /\ s \o t \in Seq(S) /\ ToSet(s \o t) = ToSet(s) \cup ToSet(t)
         /\ \A i \in DOMAIN s : i \in DOMAIN (s \o t) /\ (s \o t)[i] = s[i]
         /\ IsInjective(s) /\ IsInjective(t) /\ ToSet(s) \cap ToSet(t) = {} => IsInjective(s \o t)
<1>1. /\ s \o t \in Seq(S) /\ Len(s) \in Nat /\ Len(t) \in Nat
      /\ DOMAIN s = 1..Len(s) /\ DOMAIN t = 1..Len(t) /\ DOMAIN (s \o t) = 1..(Len(s) + Len(t))
      /\ \A i \in 1..(Len(s) + Len(t)) :
           (s \o t)[i] = IF i <= Len(s) THEN s[i] ELSE t[i - Len(s)]
  OBVIOUS
<1>2. \A i \in 1..Len(s) : i \in 1..(Len(s) + Len(t)) /\ i <= Len(s)
  BY <1>1
<1>3. \A i \in 1..Len(t) : /\ Len(s) + i \in 1..(Len(s) + Len(t)) /\ ~(Len(s) + i <= Len(s))
                           /\ (Len(s) + i) - Len(s) = i
  BY <1>1
<1>4. \A i \in 1..(Len(s) + Len(t)) : /\ i <= Len(s) => i \in 1..Len(s)
                                      /\ ~(i <= Len(s)) => i - Len(s) \in 1..Len(t)
  BY <1>1
<1>5. ASSUME NEW x PROVE x \in ToSet(s \o t) <=> x \in ToSet(s) \/ x \in ToSet(t)
  <2>1. ASSUME x \in ToSet(s \o t) PROVE x \in ToSet(s) \/ x \in ToSet(t)
    <3>1. PICK i \in 1..(Len(s) + Len(t)) : x = (s \o t)[i]
      BY <1>1, <2>1 DEF ToSet
    <3> QED  BY <1>1, <1>4, <3>1 DEF ToSet
  <2>2. ASSUME x \in ToSet(s) PROVE x \in ToSet(s \o t)
    <3>1. PICK i \in 1..Len(s) : x = s[i]
      BY <1>1, <2>2 DEF ToSet
    <3> QED  BY <1>1, <1>2, <3>1 DEF ToSet
  <2>3. ASSUME x \in ToSet(t) PROVE x \in ToSet(s \o t)
    <3>1. PICK i \in 1..Len(t) : x = t[i]
      BY <1>1, <2>3 DEF ToSet
    <3>2. (s \o t)[Len(s) + i] = x
      BY <1>1, <1>3, <3>1
    <3> QED  BY <1>1, <1>3, <3>1, <3>2 DEF ToSet
  <2> QED  BY <2>1, <2>2, <2>3
<1>6. ASSUME IsInjective(s), IsInjective(t), ToSet(s) \cap ToSet(t) = {} PROVE IsInjective(s \o t)
  <2> SUFFICES ASSUME NEW a \in 1..(Len(s) + Len(t)), NEW b \in 1..(Len(s) + Len(t)),
                      (s \o t)[a] = (s \o t)[b]
               PROVE  a = b
    BY <1>1 DEF IsInjective
  <2>1. \A i \in 1..Len(s) : \A j \in 1..Len(t) : s[i] # t[j]
    BY <1>1, <1>6 DEF ToSet
  <2>2. CASE a <= Len(s)
    BY <1>1, <1>4, <1>6, <2>1, <2>2 DEF IsInjective
  <2>3. CASE ~(a <= Len(s))
    <3>1. ~(b <= Len(s))
      BY <1>1, <1>4, <2>1, <2>3
    <3>2. a - Len(s) = b - Len(s)
      BY <1>1, <1>4, <1>6, <2>3, <3>1 DEF IsInjective
    <3> QED  BY <1>1, <3>2
  <2> QED  BY <2>2, <2>3
<1> QED  BY <1>1, <1>2, <1>5, <1>6

-----------------------------------------------------------------------------
(* Insertion order and edges.                                              *)

LEMMA InsertedFacts ==
  /\ IsFiniteSet(Nodes)
  /\ \A n \in Nodes : Inserted(n) \in DOMAIN NodeSeq /\ Inserted(n) \in Nat
  /\ \A m, n \in Nodes : Inserted(m) = Inserted(n) => m = n
<1>1. NodeSeq \in Seq(Nodes)
  BY WorkflowAssumption
<1>2. /\ Len(NodeSeq) \in Nat /\ DOMAIN NodeSeq = 1..Len(NodeSeq)
      /\ \A n \in Nodes : \E i \in DOMAIN NodeSeq : NodeSeq[i] = n
  BY <1>1, SequenceFacts DEF Nodes
<1>3. \A n \in Nodes : Inserted(n) \in 1..Len(NodeSeq) /\ NodeSeq[Inserted(n)] = n
  BY <1>2 DEF Inserted
<1>4. \A m, n \in Nodes : Inserted(m) = Inserted(n) => m = n
  BY <1>3
<1>5. IsFiniteSet(Nodes)
  <2> DEFINE f == [n \in Nodes |-> Inserted(n)]
  <2>1. f \in Injection(Nodes, 1..Len(NodeSeq))
    BY <1>3, <1>4 DEF Injection, IsInjective
  <2>2. IsFiniteSet(1..Len(NodeSeq))
    BY <1>2, FS_Interval
  <2> QED  BY <2>1, <2>2, FS_Injection
<1> QED  BY <1>2, <1>3, <1>4, <1>5

\* The nodes of a set, each once.
LEMMA InOrderFacts ==
  ASSUME NEW S \in SUBSET Nodes
  PROVE  InOrder(S) \in Seq(Nodes) /\ IsInjective(InOrder(S)) /\ ToSet(InOrder(S)) = S
<1> DEFINE Till(n) == {m \in S : Inserted(m) <= Inserted(n)}
           k == Cardinality(S)
           r == [n \in S |-> Rank(n, S)]
<1>1. /\ IsFiniteSet(S) /\ k \in Nat
      /\ \A n \in S : IsFiniteSet(Till(n)) /\ Cardinality(Till(n)) \in Nat /\ Cardinality(Till(n)) <= k
  <2>1. IsFiniteSet(S)
    BY InsertedFacts, FS_Subset
  <2>2. ASSUME NEW n \in S
        PROVE IsFiniteSet(Till(n)) /\ Cardinality(Till(n)) \in Nat /\ Cardinality(Till(n)) <= k
    <3>1. Till(n) \in SUBSET S
      OBVIOUS
    <3>2. PICK T \in SUBSET S : T = Till(n)
      BY <3>1
    <3> QED  BY <2>1, <3>2, FS_Subset, FS_CardinalityType
  <2> QED  BY <2>1, <2>2, FS_CardinalityType
<1>2. \A n \in S : Rank(n, S) = Cardinality(Till(n))
  BY DEF Rank
<1> HIDE DEF k
<1>3. ASSUME NEW n \in S PROVE Rank(n, S) \in 1..k
  <2>1. n \in Till(n)
    BY InsertedFacts
  <2>2. Cardinality(Till(n)) # 0
    BY <1>1, <2>1, FS_EmptySet
  <2>3. PICK c \in Nat : c = Cardinality(Till(n))
    BY <1>1
  <2>4. c <= k /\ c # 0
    BY <1>1, <2>2, <2>3
  <2> QED  BY <1>1, <1>2, <2>3, <2>4
<1>4. ASSUME NEW m \in S, NEW n \in S, Inserted(m) < Inserted(n) PROVE Rank(m, S) # Rank(n, S)
  <2>1. /\ \A x \in Till(m) : x \in Till(n)
        /\ n \in Till(n) /\ n \notin Till(m)
    BY <1>4, InsertedFacts
  <2>2. PICK T \in SUBSET S : T = Till(n)
    OBVIOUS
  <2>3. PICK U \in SUBSET T : U = Till(m)
    BY <2>1, <2>2
  <2>4. Cardinality(T) # Cardinality(U)
    BY <1>1, <2>1, <2>2, <2>3, FS_Subset
  <2> QED  BY <1>2, <2>2, <2>3, <2>4
<1>5. \A m, n \in S : Rank(m, S) = Rank(n, S) => m = n
  BY <1>4, InsertedFacts
<1>6. \A i \in 1..k : \E n \in S : Rank(n, S) = i
  <2>1. r \in Injection(S, 1..k)
    BY <1>3, <1>5 DEF Injection, IsInjective
  <2>2. IsFiniteSet(1..k) /\ Cardinality(1..k) = k
    BY <1>1, FS_Interval
  <2>3. r \in Surjection(S, 1..k)
    BY <2>1, <2>2, FS_Injection DEF k
  <2> QED  BY <2>3 DEF Surjection
<1>7. InOrder(S) = [i \in 1..k |-> CHOOSE n \in S : Rank(n, S) = i]
  BY DEF InOrder, k
<1>8. DOMAIN InOrder(S) = 1..k /\ \A i \in 1..k : InOrder(S)[i] \in S /\ Rank(InOrder(S)[i], S) = i
  BY <1>6, <1>7
<1>9. InOrder(S) \in Seq(Nodes)
  <2>1. InOrder(S) \in [1..k -> Nodes]
    BY <1>7, <1>8
  <2> QED  BY <1>1, <2>1
<1>10. ASSUME NEW n \in S PROVE n \in ToSet(InOrder(S))
  <2>1. Rank(n, S) \in 1..k /\ InOrder(S)[Rank(n, S)] = n
    BY <1>3, <1>5, <1>8
  <2> QED  BY <1>8, <2>1 DEF ToSet
<1>11. \A n \in ToSet(InOrder(S)) : n \in S
  BY <1>8 DEF ToSet
<1>12. IsInjective(InOrder(S))
  BY <1>8 DEF IsInjective
<1> QED  BY <1>9, <1>10, <1>11, <1>12

\* The edges into a node are as many as the version has, at most.
LEMMA EdgeFacts ==
  ASSUME NEW edges \in Graphs, NEW n
  PROVE  /\ \E k \in 0..MaxEdges : edges \in [1..k -> Edges] /\ DOMAIN edges = 1..k
         /\ \A i \in DOMAIN edges : edges[i].source \in Nodes \cup {Ghost} /\ edges[i].target \in Nodes
         /\ IsFiniteSet(Into(edges, n)) /\ Cardinality(Into(edges, n)) \in 0..MaxEdges
         /\ \A S \in SUBSET Into(edges, n) : IsFiniteSet(S) /\ Cardinality(S) \in 0..MaxEdges
<1>1. PICK k \in 0..MaxEdges : edges \in [1..k -> Edges]
  BY DEF Graphs
<1>2. \A i \in 1..k : edges[i] \in Edges
  BY <1>1
<1>3. \A i \in DOMAIN edges : edges[i].source \in Nodes \cup {Ghost} /\ edges[i].target \in Nodes
  BY <1>1, <1>2 DEF Edges
<1>4. MaxEdges \in Nat /\ k \in Nat /\ k <= MaxEdges
  BY WorkflowAssumption
<1>5. IsFiniteSet(1..k) /\ Cardinality(1..k) = k
  BY <1>4, FS_Interval
<1>6. ASSUME NEW S \in SUBSET (1..k) PROVE IsFiniteSet(S) /\ Cardinality(S) \in 0..MaxEdges
  <2>1. IsFiniteSet(S) /\ Cardinality(S) <= k /\ Cardinality(S) \in Nat
    BY <1>5, FS_Subset, FS_CardinalityType
  <2> QED  BY <1>4, <2>1
<1>7. Into(edges, n) \in SUBSET (1..k)
  BY <1>1 DEF Into
<1> QED  BY <1>1, <1>3, <1>6, <1>7

-----------------------------------------------------------------------------
(* The invariant.                                                          *)

\* No number is greater than the number of saves.
VersionsInv ==
    /\ \A i \in DOMAIN log : log[i].version <= saves
    /\ \A s \in Savers : draft[s] = NoDraft \/ draft[s].version \in 1..saves

\* The edges into n from nodes that have no place yet.
OpenEdges(n) == {i \in Into(graph, n) : graph[i].source \notin ToSet(order)}

\* While the nodes are sorted, nothing has run; a node counts the edges that are
\* open, and has a place or is ready when there is none; what has a place comes
\* after its parents.
SortInv ==
    phase = "sort" =>
        /\ ~failed /\ touched = {} /\ \A n \in Nodes : results[n] = "none"
        /\ IsInjective(order) /\ IsInjective(ready) /\ ToSet(order) \cap ToSet(ready) = {}
        /\ \A n \in Nodes : /\ indeg[n] = Cardinality(OpenEdges(n))
                            /\ indeg[n] = 0 <=> n \in ToSet(order) \cup ToSet(ready)
        /\ \A i \in DOMAIN order : \A m \in Parents(order[i]) : \E j \in 1..(i - 1) : order[j] = m

\* Then the order is complete, and what ran is a beginning of it that an error
\* ends; no edge declines what was executed, and what changed the lake was.
RunInv ==
    Sorted =>
        /\ IsInjective(order) /\ ToSet(order) = Nodes
        /\ \A n \in Nodes : Sound(n) => \A m \in Parents(n) : Position(m) < Position(n)
        /\ \A i, j \in DOMAIN order :
             i < j => /\ results[order[i]] = "none" => results[order[j]] = "none"
                      /\ results[order[i]] = "error" => results[order[j]] = "none"
        /\ \A n \in Nodes : /\ results[n] = "error" => failed
                            /\ n \in touched => results[n] \in {"ok", "error"}
                            /\ results[n] \notin {"none", "skipped"} => ~Declined(n)

WorkflowInv == TypeOK /\ VersionsInv /\ SortInv /\ RunInv

\* The version a run takes, and the next one is numbered after, is in the log.
LEMMA LatestFacts ==
  ASSUME TypeOK, VersionsInv, log # << >>
  PROVE  /\ log[LatestIndex] \in [version : 1..MaxSaves, edges : Graphs]
         /\ log[LatestIndex].version \in 1..saves
<1> DEFINE Version == [version : 1..MaxSaves, edges : Graphs]
<1>0. log \in Seq(Version)
  BY DEF TypeOK
<1> HIDE DEF Version
<1>1. PICK n \in Nat \ {0} : n = Len(log)
  BY <1>0
<1>2. /\ DOMAIN log = 1..n
      /\ \A i \in 1..n : log[i] \in [version : 1..MaxSaves, edges : Graphs]
      /\ \A i \in 1..n : log[i].version \in Nat /\ log[i].version \in 1..MaxSaves /\ log[i].version <= saves
      /\ saves \in 0..MaxSaves /\ saves \in Nat
  <2>1. DOMAIN log = 1..n /\ \A i \in 1..n : log[i] \in Version
    BY <1>0, <1>1
  <2>2. saves \in 0..MaxSaves /\ MaxSaves \in Nat
    BY WorkflowAssumption DEF TypeOK
  <2> QED  BY <2>1, <2>2 DEF VersionsInv, Version
<1> DEFINE f == [i \in 1..n |-> log[i].version]
<1>3. f \in [1..n -> 0..saves]
  BY <1>2
<1>4. \E i \in 1..n : (\A j \in 1..n : f[j] <= f[i]) /\ \A j \in 1..(i - 1) : f[j] < f[i]
  BY <1>2, <1>3, FirstMaximum
<1>5. PICK i \in 1..n : (\A j \in 1..n : f[j] <= f[i]) /\ \A j \in 1..(i - 1) : f[j] < f[i]
  BY <1>4
<1>6. \A j \in 1..(i - 1) : j \in 1..n
  OBVIOUS
<1>7. /\ \A j \in DOMAIN log : log[j].version <= log[i].version
      /\ \A j \in 1..(i - 1) : log[j].version < log[i].version
  BY <1>2, <1>5, <1>6
<1>8. LatestIndex \in DOMAIN log
  BY <1>2, <1>7 DEF LatestIndex
<1> QED  BY <1>2, <1>8

LEMMA LatestVersionType ==
  ASSUME TypeOK, VersionsInv
  PROVE  LatestVersion \in 0..saves
<1>1. saves \in Nat
  BY DEF TypeOK
<1> QED  BY <1>1, LatestFacts DEF LatestVersion

-----------------------------------------------------------------------------
(* The steps.                                                              *)

\* What does not touch a run keeps what is known of it.
LEMMA RunUntouched ==
  ASSUME SortInv, RunInv, UNCHANGED running
  PROVE  SortInv' /\ RunInv'
<1>1. UNCHANGED <<phase, graph, indeg, ready, order, results, failed, touched>>
  BY DEF running, sorting
<1>2. SortInv'
  BY <1>1 DEF SortInv, OpenEdges, Parents, Into
<1>3. \A n : /\ Sound(n)' <=> Sound(n)
             /\ Parents(n)' = Parents(n) /\ Position(n)' = Position(n)
             /\ Declined(n)' <=> Declined(n)
  BY <1>1 DEF Sound, Parents, Position, Declined, Into, Allows, OutcomeOf
<1>4. RunInv'
  BY <1>1, <1>3 DEF RunInv, Sorted
<1> QED  BY <1>2, <1>4

LEMMA NoDraftType == NoDraft \in [version : 0..MaxSaves, edges : Graphs] /\ NoDraft.version = 0
<1>1. << >> \in [1..0 -> Edges] /\ 0 \in 0..MaxEdges /\ 0 \in 0..MaxSaves
  BY WorkflowAssumption
<1>2. << >> \in Graphs
  BY <1>1 DEF Graphs
<1> QED  BY <1>1, <1>2 DEF NoDraft

LEMMA NumberStep ==
  ASSUME WorkflowInv, NEW s \in Savers, NumberVersion(s)
  PROVE  WorkflowInv'
<1>1. PICK edges \in Graphs :
        draft' = [draft EXCEPT ![s] = [version |-> LatestVersion + 1, edges |-> edges]]
  BY DEF NumberVersion
<1>2. saves < MaxSaves /\ saves' = saves + 1 /\ log' = log /\ UNCHANGED running
  BY DEF NumberVersion
<1>3. TypeOK /\ VersionsInv /\ saves \in Nat /\ saves \in 0..MaxSaves /\ MaxSaves \in Nat
  BY WorkflowAssumption DEF WorkflowInv, TypeOK
<1>4. PICK v \in 1..MaxSaves : v = LatestVersion + 1 /\ v \in 1..saves'
  BY <1>2, <1>3, LatestVersionType
<1>5. PICK new \in [version : 0..MaxSaves, edges : Graphs] :
        new.version = v /\ draft' = [draft EXCEPT ![s] = new]
  <2>1. [version |-> v, edges |-> edges] \in [version : 0..MaxSaves, edges : Graphs]
    OBVIOUS
  <2> QED  BY <1>1, <1>4, <2>1
<1>6. TypeOK'
  <2>1. UNCHANGED <<phase, graph, indeg, ready, order, results, failed, touched>>
    BY <1>2 DEF running, sorting
  <2>2. draft' \in [Savers -> [version : 0..MaxSaves, edges : Graphs]]
    BY <1>3, <1>5 DEF TypeOK
  <2>3. saves' \in 0..MaxSaves
    BY <1>2, <1>3
  <2> QED  BY <1>2, <1>3, <2>1, <2>2, <2>3 DEF TypeOK
<1>7. VersionsInv'
  <2>1. ASSUME NEW i \in DOMAIN log PROVE log[i].version <= saves'
    <3>1. PICK V : V = [version : 1..MaxSaves, edges : Graphs] /\ log \in Seq(V)
      BY <1>3 DEF TypeOK
    <3>2. log[i] \in V /\ log[i].version \in 1..MaxSaves
      <4>1. log[i] \in V
        BY <3>1, SequenceFacts
      <4> QED  BY <3>1, <4>1
    <3>3. log[i].version <= saves
      BY <1>3 DEF VersionsInv
    <3> QED  BY <1>2, <1>3, <3>2, <3>3
  <2>2. ASSUME NEW u \in Savers PROVE draft'[u] = NoDraft \/ draft'[u].version \in 1..saves'
    <3>1. CASE u = s
      BY <1>3, <1>4, <1>5, <3>1 DEF TypeOK
    <3>2. CASE u # s
      <4>1. draft'[u] = draft[u] /\ (draft[u] = NoDraft \/ draft[u].version \in 1..saves)
        BY <1>3, <1>5, <3>2 DEF TypeOK, VersionsInv
      <4> QED  BY <1>2, <1>3, <4>1
    <3> QED  BY <3>1, <3>2
  <2> QED  BY <1>2, <2>1, <2>2 DEF VersionsInv
<1> QED  BY <1>2, <1>6, <1>7, RunUntouched DEF WorkflowInv

LEMMA AppendStep ==
  ASSUME WorkflowInv, NEW s \in Savers, AppendVersion(s)
  PROVE  WorkflowInv'
<1>1. /\ draft[s] # NoDraft /\ log' = Append(log, draft[s])
      /\ draft' = [draft EXCEPT ![s] = NoDraft] /\ saves' = saves /\ UNCHANGED running
  BY DEF AppendVersion
<1>2. TypeOK /\ VersionsInv /\ saves \in Nat /\ saves \in 0..MaxSaves /\ MaxSaves \in Nat
  BY WorkflowAssumption DEF WorkflowInv, TypeOK
<1>3. PICK new \in [version : 1..MaxSaves, edges : Graphs] : new = draft[s] /\ new.version <= saves
  <2>1. draft[s] \in [version : 0..MaxSaves, edges : Graphs] /\ draft[s].version \in 1..saves
    BY <1>1, <1>2 DEF TypeOK, VersionsInv
  <2>2. draft[s].version \in 1..MaxSaves /\ draft[s].version <= saves
    BY <1>2, <2>1
  <2> QED  BY <2>1, <2>2
<1>4. log \in Seq([version : 1..MaxSaves, edges : Graphs])
  BY <1>2 DEF TypeOK
<1>5. /\ log' \in Seq([version : 1..MaxSaves, edges : Graphs])
      /\ DOMAIN log' = 1..(Len(log) + 1) /\ DOMAIN log = 1..Len(log) /\ Len(log) \in Nat
      /\ \A i \in 1..Len(log) : log'[i] = log[i]
      /\ log'[Len(log) + 1] = new
  BY <1>1, <1>3, <1>4
<1>6. TypeOK'
  <2>1. UNCHANGED <<phase, graph, indeg, ready, order, results, failed, touched>>
    BY <1>1 DEF running, sorting
  <2>2. draft' \in [Savers -> [version : 0..MaxSaves, edges : Graphs]]
    BY <1>1, <1>2, NoDraftType DEF TypeOK
  <2> QED  BY <1>1, <1>2, <1>5, <2>1, <2>2 DEF TypeOK
<1>7. VersionsInv'
  <2>1. ASSUME NEW i \in DOMAIN log' PROVE log'[i].version <= saves
    <3>1. i \in 1..Len(log) \/ i = Len(log) + 1
      BY <1>5
    <3> QED  BY <1>2, <1>3, <1>5, <3>1 DEF VersionsInv
  <2>2. \A u \in Savers : draft'[u] = NoDraft \/ draft'[u] = draft[u]
    BY <1>1, <1>2 DEF TypeOK
  <2> QED  BY <1>1, <1>2, <2>1, <2>2 DEF VersionsInv
<1> QED  BY <1>1, <1>6, <1>7, RunUntouched DEF WorkflowInv

\* A run begins with the nodes no edge goes into.
LEMMA StartStep ==
  ASSUME WorkflowInv, Start
  PROVE  WorkflowInv'
<1>1. /\ graph' = log[LatestIndex].edges /\ log # << >>
      /\ indeg' = [n \in Nodes |-> Cardinality(Into(graph', n))]
      /\ ready' = InOrder({n \in Nodes : indeg'[n] = 0})
      /\ order' = << >> /\ results' = [n \in Nodes |-> "none"]
      /\ failed' = FALSE /\ touched' = {} /\ phase' = "sort"
      /\ UNCHANGED <<log, draft, saves>>
  BY DEF Start, store
<1>2. TypeOK /\ VersionsInv
  BY DEF WorkflowInv
<1>3. graph' \in Graphs
  BY <1>1, <1>2, LatestFacts
<1>4. \A n \in Nodes : indeg'[n] = Cardinality(Into(graph', n)) /\ indeg'[n] \in 0..MaxEdges
  BY <1>1, <1>3, EdgeFacts
<1>5. PICK Free \in SUBSET Nodes : Free = {n \in Nodes : indeg'[n] = 0}
  OBVIOUS
<1>6. ready' \in Seq(Nodes) /\ IsInjective(ready') /\ ToSet(ready') = Free
  BY <1>1, <1>5, InOrderFacts
<1>7. order' \in Seq(Nodes) /\ ToSet(order') = {} /\ IsInjective(order') /\ DOMAIN order' = {}
  BY <1>1 DEF ToSet, IsInjective
<1>8. TypeOK'
  <2>1. /\ log' \in Seq([version : 1..MaxSaves, edges : Graphs])
        /\ draft' \in [Savers -> [version : 0..MaxSaves, edges : Graphs]]
        /\ saves' \in 0..MaxSaves
    BY <1>1, <1>2 DEF TypeOK
  <2>2. indeg' \in [Nodes -> 0..MaxEdges]
    BY <1>1, <1>4
  <2>3. results' \in [Nodes -> Results] /\ touched' \subseteq Nodes /\ failed' \in BOOLEAN
        /\ phase' \in {"idle", "sort", "execute", "ended"}
    BY <1>1 DEF Results
  <2> QED  BY <1>3, <1>6, <1>7, <2>1, <2>2, <2>3 DEF TypeOK
<1>9. VersionsInv'
  BY <1>1, <1>2 DEF VersionsInv
<1>10. SortInv'
  <2>1. \A n \in Nodes : OpenEdges(n)' = Into(graph', n)
    BY <1>7 DEF OpenEdges, Into
  <2>2. ASSUME NEW n \in Nodes
        PROVE  /\ indeg'[n] = Cardinality(OpenEdges(n)')
               /\ indeg'[n] = 0 <=> n \in ToSet(order') \cup ToSet(ready')
    BY <1>4, <1>5, <1>6, <1>7, <2>1
  <2> QED  BY <1>1, <1>6, <1>7, <2>2 DEF SortInv
<1>11. RunInv'
  BY <1>1 DEF RunInv, Sorted
<1> QED  BY <1>8, <1>9, <1>10, <1>11 DEF WorkflowInv

\* The next ready node closes the edges that leave it.
LEMMA PlaceStep ==
  ASSUME WorkflowInv, Place
  PROVE  WorkflowInv'
<1>1. /\ phase = "sort" /\ ready # << >> /\ order' = Append(order, Head(ready))
      /\ indeg' = [n \in Nodes |-> indeg[n] - Cardinality(Between(graph, Head(ready), n))]
      /\ ready' = Tail(ready) \o InOrder({n \in Nodes : indeg[n] # 0 /\ indeg'[n] = 0})
      /\ UNCHANGED <<log, draft, saves, phase, graph, results, failed, touched>>
  BY DEF Place, store
<1>2. TypeOK /\ SortInv /\ graph \in Graphs /\ order \in Seq(Nodes) /\ ready \in Seq(Nodes)
  BY DEF WorkflowInv, TypeOK
<1>3. /\ IsInjective(order) /\ IsInjective(ready) /\ ToSet(order) \cap ToSet(ready) = {}
      /\ \A n \in Nodes : /\ indeg[n] = Cardinality(OpenEdges(n))
                          /\ indeg[n] = 0 <=> n \in ToSet(order) \cup ToSet(ready)
      /\ \A i \in DOMAIN order : \A m \in Parents(order[i]) : \E j \in 1..(i - 1) : order[j] = m
      /\ ~failed /\ touched = {} /\ \A n \in Nodes : results[n] = "none"
  BY <1>1, <1>2 DEF SortInv
<1>4. PICK h \in Nodes : h = Head(ready)
  BY <1>1, <1>2, <1>3, TailFacts
<1>5. /\ Tail(ready) \in Seq(Nodes) /\ IsInjective(Tail(ready))
      /\ ToSet(Tail(ready)) = ToSet(ready) \ {h} /\ h \in ToSet(ready) /\ h \notin ToSet(order)
  BY <1>1, <1>2, <1>3, <1>4, TailFacts
<1>6. /\ order' \in Seq(Nodes) /\ ToSet(order') = ToSet(order) \cup {h} /\ IsInjective(order')
      /\ Len(order') = Len(order) + 1 /\ order'[Len(order) + 1] = h /\ Len(order) \in Nat
      /\ \A i \in 1..Len(order) : order'[i] = order[i]
      /\ DOMAIN order = 1..Len(order) /\ DOMAIN order' = 1..(Len(order) + 1)
  BY <1>1, <1>2, <1>3, <1>4, <1>5, AppendFacts
<1>7. ASSUME NEW n \in Nodes
      PROVE  indeg'[n] = Cardinality(OpenEdges(n)') /\ indeg'[n] \in 0..MaxEdges /\ indeg'[n] <= indeg[n]
  <2>1. /\ OpenEdges(n) \in SUBSET Into(graph, n)
        /\ Between(graph, h, n) \in SUBSET OpenEdges(n)
        /\ OpenEdges(n)' = OpenEdges(n) \ Between(graph, h, n)
    BY <1>1, <1>5, <1>6 DEF OpenEdges, Between, Into
  <2>2. PICK S \in SUBSET Into(graph, n) : S = OpenEdges(n)
    BY <2>1
  <2>3. PICK T \in SUBSET S : T = Between(graph, h, n)
    BY <2>1, <2>2
  <2>4. IsFiniteSet(S) /\ IsFiniteSet(T) /\ Cardinality(S) \in 0..MaxEdges /\ Cardinality(T) \in 0..MaxEdges
    BY <1>2, <2>2, <2>3, EdgeFacts
  <2>5. S \cap T = T
    OBVIOUS
  <2>6. Cardinality(S \ T) = Cardinality(S) - Cardinality(T) /\ Cardinality(S \ T) \in 0..MaxEdges
    <3>1. S \ T \in SUBSET Into(graph, n)
      OBVIOUS
    <3> QED  BY <1>2, <2>4, <2>5, <3>1, FS_Difference, EdgeFacts
  <2>7. indeg'[n] = Cardinality(S) - Cardinality(T) /\ indeg[n] = Cardinality(S)
    BY <1>1, <1>3, <1>4, <2>2, <2>3
  <2> QED  BY <2>1, <2>2, <2>3, <2>4, <2>6, <2>7
<1>8. PICK Free \in SUBSET Nodes : Free = {n \in Nodes : indeg[n] # 0 /\ indeg'[n] = 0}
  OBVIOUS
<1>9. InOrder(Free) \in Seq(Nodes) /\ IsInjective(InOrder(Free)) /\ ToSet(InOrder(Free)) = Free
  BY InOrderFacts
<1>10. ToSet(Tail(ready)) \cap Free = {} /\ Free \cap ToSet(order') = {}
  BY <1>3, <1>5, <1>6, <1>8
<1>11. /\ ready' \in Seq(Nodes) /\ IsInjective(ready')
       /\ ToSet(ready') = (ToSet(ready) \ {h}) \cup Free
  <2>1. PICK s \in Seq(Nodes) : s = Tail(ready)
    BY <1>5
  <2>2. PICK t \in Seq(Nodes) : t = InOrder(Free)
    BY <1>9
  <2>3. ready' = s \o t
    BY <1>1, <1>8, <2>1, <2>2
  <2>4. /\ IsInjective(s) /\ IsInjective(t) /\ ToSet(s) \cap ToSet(t) = {}
        /\ ToSet(s) \cup ToSet(t) = (ToSet(ready) \ {h}) \cup Free
    BY <1>5, <1>9, <1>10, <2>1, <2>2
  <2>5. s \o t \in Seq(Nodes) /\ ToSet(s \o t) = ToSet(s) \cup ToSet(t) /\ IsInjective(s \o t)
    BY <2>4, ConcatFacts
  <2> QED  BY <2>3, <2>4, <2>5
<1>12. ASSUME NEW n \in Nodes PROVE indeg'[n] = 0 <=> n \in ToSet(order') \cup ToSet(ready')
  <2>1. indeg[n] \in 0..MaxEdges /\ indeg'[n] \in 0..MaxEdges /\ indeg'[n] <= indeg[n]
    BY <1>2, <1>7 DEF TypeOK
  <2>2. indeg[n] = 0 => indeg'[n] = 0
    BY <2>1
  <2> QED  BY <1>3, <1>5, <1>6, <1>8, <1>11, <2>2
<1>13. ASSUME NEW i \in DOMAIN order', NEW e \in Into(graph, order'[i]), NEW m, m = graph[e].source
       PROVE  \E j \in 1..(i - 1) : order'[j] = m
  <2>1. CASE i \in 1..Len(order)
    <3>1. PICK j \in 1..(i - 1) : order[j] = m
      <4>1. e \in Into(graph, order[i])
        BY <1>6, <2>1
      <4>2. m \in Parents(order[i])
        BY <1>13, <4>1 DEF Parents
      <4> QED  BY <1>3, <1>6, <2>1, <4>2
    <3>2. j \in 1..Len(order)
      BY <1>6, <2>1
    <3> QED  BY <1>6, <3>1, <3>2
  <2>2. CASE i = Len(order) + 1
    <3>1. e \in Into(graph, h) /\ graph[e].source = m
      BY <1>6, <1>13, <2>2
    <3>2. OpenEdges(h) = {}
      <4>1. PICK S \in SUBSET Into(graph, h) : S = OpenEdges(h)
        BY DEF OpenEdges
      <4>2. IsFiniteSet(S) /\ Cardinality(S) = 0
        BY <1>2, <1>3, <1>5, <4>1, EdgeFacts
      <4> QED  BY <4>1, <4>2, FS_EmptySet
    <3>3. m \in ToSet(order)
      BY <3>1, <3>2 DEF OpenEdges
    <3>4. PICK j \in 1..Len(order) : order[j] = m
      BY <1>6, <3>3 DEF ToSet
    <3>5. j \in 1..(i - 1)
      BY <1>6, <2>2
    <3> QED  BY <1>6, <3>4, <3>5
  <2>3. i \in 1..Len(order) \/ i = Len(order) + 1
    BY <1>6
  <2> QED  BY <2>1, <2>2, <2>3
<1>14. SortInv'
  <2>1. ToSet(order') \cap ToSet(ready') = {}
    BY <1>3, <1>6, <1>10, <1>11
  <2>2. ~failed' /\ touched' = {} /\ \A n \in Nodes : results'[n] = "none"
    BY <1>1, <1>3
  <2>3. \A i \in DOMAIN order' : \A m \in {graph'[e].source : e \in Into(graph', order'[i])} :
          \E j \in 1..(i - 1) : order'[j] = m
    <3> SUFFICES ASSUME NEW i \in DOMAIN order', NEW e \in Into(graph', order'[i])
                 PROVE  \E j \in 1..(i - 1) : order'[j] = graph'[e].source
      OBVIOUS
    <3>1. graph' = graph /\ e \in Into(graph, order'[i])
      BY <1>1
    <3>2. \E j \in 1..(i - 1) : order'[j] = graph[e].source
      BY <1>13, <3>1
    <3> QED  BY <3>1, <3>2
  <2>4. \A n \in Nodes : indeg'[n] = Cardinality(OpenEdges(n)')
    BY <1>7
  <2> QED  BY <1>6, <1>11, <1>12, <2>1, <2>2, <2>3, <2>4 DEF SortInv, Parents
<1>15. TypeOK'
  <2>1. /\ log' \in Seq([version : 1..MaxSaves, edges : Graphs])
        /\ draft' \in [Savers -> [version : 0..MaxSaves, edges : Graphs]]
        /\ saves' \in 0..MaxSaves
    BY <1>1, <1>2 DEF TypeOK
  <2>2. indeg' \in [Nodes -> 0..MaxEdges]
    BY <1>1, <1>7
  <2>3. /\ results' \in [Nodes -> Results] /\ touched' \subseteq Nodes /\ failed' \in BOOLEAN
        /\ phase' \in {"idle", "sort", "execute", "ended"} /\ graph' \in Graphs
    BY <1>1, <1>2 DEF TypeOK
  <2> QED  BY <1>6, <1>11, <2>1, <2>2, <2>3 DEF TypeOK
<1>16. VersionsInv'
  BY <1>1 DEF VersionsInv, WorkflowInv
<1>17. RunInv'
  BY <1>1 DEF RunInv, Sorted
<1> QED  BY <1>14, <1>15, <1>16, <1>17 DEF WorkflowInv

LEMMA PositionFacts ==
  ASSUME NEW s \in Seq(Nodes), IsInjective(s), NEW i \in DOMAIN s
  PROVE  (CHOOSE k \in DOMAIN s : s[k] = s[i]) = i
  BY DEF IsInjective

\* What is left is appended; what depends on no cycle and no unknown node is not.
LEMMA RestStep ==
  ASSUME WorkflowInv, PlaceRest
  PROVE  WorkflowInv'
<1>1. /\ phase = "sort" /\ ready = << >> /\ phase' = "execute"
      /\ order' = order \o InOrder(Nodes \ ToSet(order))
      /\ UNCHANGED <<log, draft, saves, graph, indeg, ready, results, failed, touched>>
  BY DEF PlaceRest, store
<1>2. TypeOK /\ SortInv /\ order \in Seq(Nodes) /\ graph \in Graphs
  BY DEF WorkflowInv, TypeOK
<1>3. /\ IsInjective(order)
      /\ \A n \in Nodes : /\ indeg[n] = Cardinality(OpenEdges(n))
                          /\ indeg[n] = 0 <=> n \in ToSet(order) \cup ToSet(ready)
      /\ \A i \in DOMAIN order : \A m \in Parents(order[i]) : \E j \in 1..(i - 1) : order[j] = m
      /\ ~failed /\ touched = {} /\ \A n \in Nodes : results[n] = "none"
  BY <1>1, <1>2 DEF SortInv
<1>4. ToSet(ready) = {}
  BY <1>1 DEF ToSet
<1>5. PICK Rest \in SUBSET Nodes : Rest = Nodes \ ToSet(order)
  OBVIOUS
<1>6. PICK t \in Seq(Nodes) : t = InOrder(Rest) /\ IsInjective(t) /\ ToSet(t) = Rest
  BY InOrderFacts
<1>7. order' = order \o t /\ ToSet(order) \cap ToSet(t) = {} /\ ToSet(order) \subseteq Nodes
  BY <1>1, <1>2, <1>5, <1>6, SequenceFacts
<1>8. /\ order' \in Seq(Nodes) /\ ToSet(order') = ToSet(order) \cup ToSet(t) /\ IsInjective(order')
      /\ \A i \in DOMAIN order : i \in DOMAIN order' /\ order'[i] = order[i]
  BY <1>2, <1>3, <1>6, <1>7, ConcatFacts
<1>9. ToSet(order') = Nodes
  BY <1>5, <1>6, <1>7, <1>8
<1>10. ASSUME NEW n \in Nodes, Sound(n) PROVE n \in ToSet(order)
  <2>1. PICK S \in SUBSET Nodes :
          /\ n \in S /\ \A m \in S : Parents(m) \subseteq S
          /\ \A T \in (SUBSET S) \ {{}} : \E m \in T : Parents(m) \cap T = {}
    BY <1>10 DEF Sound
  <2>2. SUFFICES ASSUME n \notin ToSet(order) PROVE FALSE
    OBVIOUS
  <2>3. PICK T \in SUBSET S : T = S \ ToSet(order)
    OBVIOUS
  <2>4. PICK m \in T : Parents(m) \cap T = {}
    BY <2>1, <2>2, <2>3
  <2>5. Parents(m) \subseteq ToSet(order) /\ m \in Nodes /\ m \notin ToSet(order)
    BY <2>1, <2>3, <2>4
  <2>6. OpenEdges(m) = {}
    BY <2>5 DEF OpenEdges, Parents
  <2>7. indeg[m] = 0
    BY <1>3, <2>5, <2>6, FS_EmptySet
  <2> QED  BY <1>3, <1>4, <2>5, <2>7
<1>11. ASSUME NEW n \in Nodes, Sound(n), NEW m \in Parents(n) PROVE Position(m)' < Position(n)'
  <2>1. PICK i \in DOMAIN order : order[i] = n
    BY <1>2, <1>10, <1>11, SequenceFacts
  <2>2. PICK j \in 1..(i - 1) : order[j] = m
    BY <1>3, <1>11, <2>1
  <2>3. DOMAIN order = 1..Len(order) /\ Len(order) \in Nat
    BY <1>2, SequenceFacts
  <2>4. j \in DOMAIN order /\ j < i
    BY <2>1, <2>2, <2>3
  <2>5. i \in DOMAIN order' /\ order'[i] = n /\ j \in DOMAIN order' /\ order'[j] = m
    BY <1>8, <2>1, <2>2, <2>4
  <2>6. Position(n)' = i /\ Position(m)' = j
    BY <1>8, <2>5, PositionFacts DEF Position
  <2> QED  BY <2>4, <2>6
<1>12. RunInv'
  <2>1. \A n : (Sound(n)' <=> Sound(n)) /\ Parents(n)' = Parents(n)
    BY <1>1 DEF Sound, Parents, Into
  <2>2. \A n \in Nodes : Sound(n)' => \A m \in Parents(n)' : Position(m)' < Position(n)'
    BY <1>11, <2>1
  <2>3. /\ \A i \in DOMAIN order' : order'[i] \in Nodes
        /\ \A n \in Nodes : results'[n] = "none" /\ n \notin touched'
    BY <1>1, <1>3, <1>8, SequenceFacts
  <2> QED  BY <1>8, <1>9, <2>2, <2>3 DEF RunInv
<1>13. TypeOK'
  <2>1. /\ log' \in Seq([version : 1..MaxSaves, edges : Graphs])
        /\ draft' \in [Savers -> [version : 0..MaxSaves, edges : Graphs]]
        /\ saves' \in 0..MaxSaves
    BY <1>1, <1>2 DEF TypeOK
  <2>2. /\ results' \in [Nodes -> Results] /\ touched' \subseteq Nodes /\ failed' \in BOOLEAN
        /\ phase' \in {"idle", "sort", "execute", "ended"} /\ graph' \in Graphs
        /\ indeg' \in [Nodes -> 0..MaxEdges] /\ ready' \in Seq(Nodes)
    BY <1>1, <1>2 DEF TypeOK
  <2> QED  BY <1>8, <2>1, <2>2 DEF TypeOK
<1>14. VersionsInv'
  BY <1>1 DEF VersionsInv, WorkflowInv
<1>15. SortInv'
  BY <1>1 DEF SortInv
<1> QED  BY <1>12, <1>13, <1>14, <1>15 DEF WorkflowInv

\* The node whose turn it is is the first that has no result.
LEMMA TurnFacts ==
  ASSUME WorkflowInv, Sorted, Pending # {}
  PROVE  /\ Turn \in Nodes /\ results[Turn] = "none"
         /\ \E p \in DOMAIN order : /\ order[p] = Turn
                                    /\ \A j \in DOMAIN order : j < p => results[order[j]] # "none"
<1>1. order \in Seq(Nodes) /\ DOMAIN order = 1..Len(order) /\ Len(order) \in Nat
  BY SequenceFacts DEF WorkflowInv, TypeOK
<1>2. Pending \in SUBSET Nat
  BY <1>1 DEF Pending
<1>3. \E p \in Pending : \A j \in Pending : p <= j
  BY <1>2, LeastNumber
<1>4. PICK p \in Pending : p = CHOOSE i \in Pending : \A j \in Pending : i <= j
  BY <1>3
<1>5. \A j \in Pending : p <= j
  BY <1>3, <1>4
<1>6. Turn = order[p] /\ p \in DOMAIN order /\ results[order[p]] = "none"
  BY <1>4 DEF Turn, Pending
<1>7. ASSUME NEW j \in DOMAIN order, j < p PROVE results[order[j]] # "none"
  <2>1. j \notin Pending
    <3>1. p \in Nat /\ j \in Nat /\ ~(p <= j)
      BY <1>1, <1>6, <1>7
    <3> QED  BY <1>5, <3>1
  <2> QED  BY <2>1 DEF Pending
<1>8. Turn \in Nodes
  BY <1>1, <1>6, SequenceFacts
<1> QED  BY <1>6, <1>7, <1>8

\* The node whose turn it is gets its result.
LEMMA ResultStep ==
  ASSUME WorkflowInv, phase = "execute", ~failed, Pending # {},
         NEW outcome \in Results, outcome # "none",
         outcome # "skipped" => ~Declined(Turn),
         results' = [results EXCEPT ![Turn] = outcome],
         failed' = (outcome = "error"),
         \/ touched' = touched
         \/ touched' = touched \cup {Turn} /\ outcome \in {"ok", "error"},
         UNCHANGED <<log, draft, saves, phase, graph, indeg, ready, order>>
  PROVE  WorkflowInv'
<1>1. Sorted /\ Sorted' /\ TypeOK /\ RunInv
  BY DEF WorkflowInv, Sorted
<1>2. PICK h \in Nodes : h = Turn
  BY <1>1, TurnFacts
<1>3. PICK p \in DOMAIN order : /\ order[p] = h
                                /\ \A j \in DOMAIN order : j < p => results[order[j]] # "none"
  BY <1>1, <1>2, TurnFacts
<1>4. results[h] = "none" /\ h \notin touched
  <2>1. results[h] = "none"
    BY <1>1, <1>2, TurnFacts
  <2> QED  BY <1>1, <2>1 DEF RunInv
<1>5. \A n \in Nodes : results'[n] = IF n = h THEN outcome ELSE results[n]
  BY <1>1, <1>2 DEF TypeOK
<1>6. /\ IsInjective(order) /\ ToSet(order) = Nodes
      /\ \A n \in Nodes : Sound(n) => \A m \in Parents(n) : Position(m) < Position(n)
      /\ \A i, j \in DOMAIN order :
           i < j /\ results[order[i]] = "none" => results[order[j]] = "none"
      /\ \A n \in Nodes : /\ results[n] # "error"
                          /\ n \in touched => results[n] \in {"ok", "error"}
                          /\ results[n] \notin {"none", "skipped"} => ~Declined(n)
  BY <1>1 DEF RunInv
<1>7. /\ DOMAIN order = 1..Len(order) /\ Len(order) \in Nat
      /\ \A i \in DOMAIN order : order[i] \in Nodes
  <2>1. order \in Seq(Nodes)
    BY <1>1 DEF TypeOK
  <2> QED  BY <2>1, SequenceFacts
<1>8. ASSUME NEW i \in DOMAIN order, NEW j \in DOMAIN order, i < j
      PROVE  /\ results'[order[i]] = "none" => results'[order[j]] = "none"
             /\ results'[order[i]] = "error" => results'[order[j]] = "none"
  <2>1. order[i] \in Nodes /\ order[j] \in Nodes
    BY <1>7
  <2>2. order[i] = h => i = p
    BY <1>3, <1>6 DEF IsInjective
  <2>3. order[j] = h => j = p
    BY <1>3, <1>6 DEF IsInjective
  <2>4. results'[order[i]] = "none" => results'[order[j]] = "none"
    <3> SUFFICES ASSUME results'[order[i]] = "none", results'[order[j]] # "none" PROVE FALSE
      OBVIOUS
    <3>1. order[i] # h /\ results[order[i]] = "none"
      BY <1>5, <2>1
    <3>2. results[order[j]] = "none"
      BY <1>6, <1>8, <3>1
    <3>3. order[j] = h
      BY <1>5, <2>1, <3>2
    <3> QED  BY <1>3, <1>8, <2>3, <3>1, <3>3
  <2>5. results'[order[i]] = "error" => results'[order[j]] = "none"
    <3> SUFFICES ASSUME results'[order[i]] = "error" PROVE results'[order[j]] = "none"
      OBVIOUS
    <3>1. order[i] = h /\ i = p
      BY <1>5, <1>6, <2>1, <2>2
    <3>2. j # p
      BY <1>7, <1>8, <3>1
    <3>3. results[order[j]] = "none" /\ order[j] # h
      BY <1>4, <1>6, <1>8, <2>3, <3>1, <3>2
    <3> QED  BY <1>5, <2>1, <3>3
  <2> QED  BY <2>4, <2>5
<1>9. ASSUME NEW n \in Nodes, results'[n] \notin {"none", "skipped"}
      PROVE  \A e \in Into(graph, n) : Allows(graph[e], OutcomeOf(graph[e].source)')
  <2> SUFFICES ASSUME NEW e \in Into(graph, n)
               PROVE  Allows(graph[e], OutcomeOf(graph[e].source)')
    OBVIOUS
  <2>1. ~Declined(n)
    <3>1. CASE n = h
      BY <1>2, <1>5, <1>9, <3>1
    <3>2. CASE n # h
      BY <1>5, <1>6, <1>9, <3>2
    <3> QED  BY <3>1, <3>2
  <2>2. Allows(graph[e], OutcomeOf(graph[e].source))
    BY <2>1 DEF Declined
  <2>3. OutcomeOf(graph[e].source) # "none" => OutcomeOf(graph[e].source)' = OutcomeOf(graph[e].source)
    <3>1. CASE graph[e].source \in Nodes
      BY <1>4, <1>5, <3>1 DEF OutcomeOf
    <3>2. CASE graph[e].source \notin Nodes
      BY <3>2 DEF OutcomeOf
    <3> QED  BY <3>1, <3>2
  <2> QED  BY <2>2, <2>3 DEF Allows
<1>10. ASSUME NEW n \in Nodes
       PROVE  /\ results'[n] = "error" => failed'
              /\ n \in touched' => results'[n] \in {"ok", "error"}
              /\ results'[n] \notin {"none", "skipped"} => ~Declined(n)'
  <2>1. results'[n] = "error" => failed'
    BY <1>5, <1>6
  <2>2. n \in touched' => results'[n] \in {"ok", "error"}
    <3>1. CASE n = h
      BY <1>2, <1>4, <1>5, <3>1
    <3>2. CASE n # h
      BY <1>2, <1>5, <1>6, <3>2
    <3> QED  BY <3>1, <3>2
  <2>3. results'[n] \notin {"none", "skipped"} => ~Declined(n)'
    <3>1. graph' = graph
      OBVIOUS
    <3> QED  BY <1>9, <3>1 DEF Declined, Into, Allows, OutcomeOf
  <2> QED  BY <2>1, <2>2, <2>3
<1>11. RunInv'
  <2>1. \A n : (Sound(n)' <=> Sound(n)) /\ Parents(n)' = Parents(n) /\ Position(n)' = Position(n)
    BY DEF Sound, Parents, Into, Position
  <2>2. \A n \in Nodes : Sound(n)' => \A m \in Parents(n)' : Position(m)' < Position(n)'
    BY <1>6, <2>1
  <2>3. order' = order
    OBVIOUS
  <2> QED  BY <1>6, <1>8, <1>10, <2>2, <2>3 DEF RunInv
<1>12. TypeOK'
  <2>1. results' \in [Nodes -> Results]
    BY <1>1, <1>2 DEF TypeOK
  <2>2. touched' \subseteq Nodes /\ failed' \in BOOLEAN
    BY <1>1, <1>2 DEF TypeOK
  <2> QED  BY <1>1, <2>1, <2>2 DEF TypeOK
<1>13. SortInv' /\ VersionsInv'
  BY DEF SortInv, VersionsInv, WorkflowInv
<1> QED  BY <1>11, <1>12, <1>13 DEF WorkflowInv

LEMMA SkipStep ==
  ASSUME WorkflowInv, Skip
  PROVE  WorkflowInv'
<1>1. /\ phase = "execute" /\ ~failed /\ Pending # {}
      /\ results' = [results EXCEPT ![Turn] = "skipped"]
      /\ UNCHANGED <<log, draft, saves, phase, graph, indeg, ready, order, failed, touched>>
  BY DEF Skip, store, sorting
<1>2. failed' = FALSE /\ failed \in BOOLEAN
  BY <1>1 DEF WorkflowInv, TypeOK
<1>3. PICK outcome \in Results : outcome = "skipped"
  BY DEF Results
<1>4. outcome # "none" /\ outcome # "error" /\ failed' = (outcome = "error")
  BY <1>2, <1>3
<1> QED  BY <1>1, <1>3, <1>4, ResultStep

LEMMA OutcomeFacts ==
  ASSUME NEW kind \in DOMAIN Outcomes, NEW outcome \in Outcomes[kind]
  PROVE  /\ outcome \in Results \ {"none", "skipped"}
         /\ kind = "action" => outcome \in {"ok", "error"}
<1>1. DOMAIN Outcomes = {"trigger", "check", "action", "unknown"}
  BY DEF Outcomes
<1>2. /\ Outcomes["trigger"] = {"ok"} /\ Outcomes["check"] = {"ok passed", "ok", "error"}
      /\ Outcomes["action"] = {"ok", "error"} /\ Outcomes["unknown"] = {"error"}
  BY DEF Outcomes
<1> QED  BY <1>1, <1>2 DEF Results

LEMMA ExecuteStep ==
  ASSUME WorkflowInv, Execute
  PROVE  WorkflowInv'
<1>1. /\ phase = "execute" /\ ~failed /\ Pending # {} /\ ~Declined(Turn)
      /\ UNCHANGED <<log, draft, saves, phase, graph, indeg, ready, order>>
  BY DEF Execute, store, sorting
<1>2. PICK outcome \in Results : Perform(Turn, outcome) /\ failed' = (outcome = "error")
  BY DEF Execute
<1>3. PICK kind \in DOMAIN Outcomes :
        /\ outcome \in Outcomes[kind]
        /\ results' = [results EXCEPT ![Turn] = outcome]
        /\ \/ kind # "action" /\ UNCHANGED touched
           \/ kind = "action" /\ touched' = touched \cup {Turn}
           \/ kind = "action" /\ outcome = "error" /\ UNCHANGED touched
  BY <1>2 DEF Perform
<1>4. outcome # "none" /\ (kind = "action" => outcome \in {"ok", "error"})
  BY <1>3, OutcomeFacts
<1> QED  BY <1>1, <1>2, <1>3, <1>4, ResultStep

LEMMA EndStep ==
  ASSUME WorkflowInv, End
  PROVE  WorkflowInv'
<1>1. /\ phase = "execute" /\ phase' = "ended"
      /\ UNCHANGED <<log, draft, saves, graph, indeg, ready, order, results, failed, touched>>
  BY DEF End, store, sorting
<1>2. TypeOK'
  BY <1>1 DEF WorkflowInv, TypeOK
<1>3. VersionsInv' /\ SortInv'
  BY <1>1 DEF WorkflowInv, VersionsInv, SortInv
<1>4. \A n : /\ Sound(n)' <=> Sound(n)
             /\ Parents(n)' = Parents(n) /\ Position(n)' = Position(n)
             /\ Declined(n)' <=> Declined(n)
  BY <1>1 DEF Sound, Parents, Position, Declined, Into, Allows, OutcomeOf
<1>5. Sorted /\ RunInv
  BY <1>1 DEF WorkflowInv, Sorted
<1>6. RunInv'
  BY <1>1, <1>4, <1>5 DEF RunInv
<1> QED  BY <1>2, <1>3, <1>6 DEF WorkflowInv

LEMMA EmptyRunType ==
  /\ << >> \in Graphs /\ << >> \in Seq(Nodes)
  /\ [n \in Nodes |-> 0] \in [Nodes -> 0..MaxEdges]
  /\ [n \in Nodes |-> "none"] \in [Nodes -> Results]
<1>1. 0 \in 0..MaxEdges
  BY WorkflowAssumption
<1>2. << >> \in [1..0 -> Edges]
  OBVIOUS
<1> QED  BY <1>1, <1>2 DEF Graphs, Results

LEMMA DieStep ==
  ASSUME WorkflowInv, Die
  PROVE  WorkflowInv'
<1>1. /\ phase' = "idle" /\ graph' = << >> /\ indeg' = [n \in Nodes |-> 0]
      /\ ready' = << >> /\ order' = << >> /\ results' = [n \in Nodes |-> "none"]
      /\ failed' = FALSE /\ draft' = [s \in Savers |-> NoDraft]
      /\ UNCHANGED <<log, saves, touched>>
  BY DEF Die
<1>2. TypeOK'
  <2>1. draft' \in [Savers -> [version : 0..MaxSaves, edges : Graphs]]
    BY <1>1, NoDraftType
  <2> QED  BY <1>1, <2>1, EmptyRunType DEF WorkflowInv, TypeOK
<1>3. VersionsInv'
  BY <1>1 DEF WorkflowInv, VersionsInv
<1>4. SortInv' /\ RunInv'
  BY <1>1 DEF SortInv, RunInv, Sorted
<1> QED  BY <1>2, <1>3, <1>4 DEF WorkflowInv

LEMMA WorkflowStep == WorkflowInv /\ [Next]_vars => WorkflowInv'
<1> SUFFICES ASSUME WorkflowInv, [Next]_vars PROVE WorkflowInv'
  OBVIOUS
<1>1. CASE Run
  BY <1>1, StartStep, PlaceStep, RestStep, SkipStep, ExecuteStep, EndStep, DieStep DEF Run
<1>2. CASE \E s \in Savers : NumberVersion(s) \/ AppendVersion(s)
  BY <1>2, NumberStep, AppendStep
<1>3. CASE UNCHANGED vars
  <2>1. UNCHANGED running /\ UNCHANGED <<log, draft, saves>>
    BY <1>3 DEF vars, store
  <2>2. UNCHANGED <<phase, graph, indeg, ready, order, results, failed, touched>>
    BY <2>1 DEF running, sorting
  <2>3. TypeOK' /\ VersionsInv'
    BY <2>1, <2>2 DEF WorkflowInv, TypeOK, VersionsInv
  <2> QED  BY <2>1, <2>3, RunUntouched DEF WorkflowInv
<1> QED  BY <1>1, <1>2, <1>3 DEF Next

LEMMA WorkflowInit == Init => WorkflowInv
<1> SUFFICES ASSUME Init PROVE WorkflowInv
  OBVIOUS
<1>1. TypeOK
  <2>1. draft \in [Savers -> [version : 0..MaxSaves, edges : Graphs]]
    BY NoDraftType DEF Init
  <2>2. saves \in 0..MaxSaves
    BY WorkflowAssumption DEF Init
  <2>3. /\ graph \in Graphs /\ ready \in Seq(Nodes) /\ order \in Seq(Nodes)
        /\ indeg \in [Nodes -> 0..MaxEdges] /\ results \in [Nodes -> Results]
    BY EmptyRunType DEF Init
  <2>4. log \in Seq([version : 1..MaxSaves, edges : Graphs])
    BY DEF Init
  <2>5. touched \subseteq Nodes /\ failed \in BOOLEAN /\ phase \in {"idle", "sort", "execute", "ended"}
    BY DEF Init
  <2> QED  BY <2>1, <2>2, <2>3, <2>4, <2>5 DEF TypeOK
<1>2. VersionsInv /\ SortInv /\ RunInv
  BY DEF Init, VersionsInv, SortInv, RunInv, Sorted
<1> QED  BY <1>1, <1>2 DEF WorkflowInv

-----------------------------------------------------------------------------
(* Theorems.                                                               *)

\* The invariant of versions and runs holds.
THEOREM WorkflowInvariant == Spec => []WorkflowInv
BY WorkflowInit, WorkflowStep, PTL DEF Spec

\* Versions, graphs and runs keep their types: saves are numbered from one, and
\* no count of parents drops below zero (_topo_sort clamps it and need not).
THEOREM TypeCorrect == Spec => []TypeOK
<1>1. WorkflowInv => TypeOK
  BY DEF WorkflowInv
<1> QED  BY <1>1, WorkflowInvariant, PTL

\* For any graph, cycles, unknown sources and parallel edges included, the order of
\* a run (_topo_sort) holds every node exactly once.
THEOREM OrderIsComplete == Spec => []OrderComplete
<1>1. WorkflowInv => OrderComplete
  BY DEF WorkflowInv, RunInv, OrderComplete
<1> QED  BY <1>1, WorkflowInvariant, PTL

\* A node that depends on no cycle and no unknown node comes after all of its
\* parents, whatever the rest of the graph is (_topo_sort).
THEOREM ParentsComeFirst == Spec => []ParentsFirst
<1>1. WorkflowInv => ParentsFirst
  BY DEF WorkflowInv, RunInv, ParentsFirst
<1> QED  BY <1>1, WorkflowInvariant, PTL

\* When a run is over no node was executed against the condition of an edge
\* (run_workflow, _edge_allows), wherever its parents stand in the order.
THEOREM DeclinedNeverRun == Spec => []NoneRunsDeclined
<1>1. WorkflowInv => NoneRunsDeclined
  BY DEF WorkflowInv, RunInv, NoneRunsDeclined, Sorted
<1> QED  BY <1>1, WorkflowInvariant, PTL

\* A recorded run tells every change it made, and none comes after an error
\* (run_workflow).
THEOREM EffectsTold == Spec => []EffectsAreTold
<1>1. ASSUME WorkflowInv PROVE EffectsAreTold
  <2> SUFFICES ASSUME phase = "ended"
               PROVE  /\ \A n \in touched : results[n] \in {"ok", "error"}
                      /\ \A n, m \in Nodes :
                           results[m] = "error" /\ Position(n) > Position(m) =>
                               results[n] = "none" /\ n \notin touched
    BY DEF EffectsAreTold
  <2>1. /\ ToSet(order) = Nodes /\ IsInjective(order) /\ touched \subseteq Nodes
        /\ \A n \in Nodes : n \in touched => results[n] \in {"ok", "error"}
        /\ \A i, j \in DOMAIN order :
             i < j => (results[order[i]] = "error" => results[order[j]] = "none")
    BY <1>1 DEF WorkflowInv, TypeOK, RunInv, Sorted
  <2>2. order \in Seq(Nodes)
    BY <1>1 DEF WorkflowInv, TypeOK
  <2>3. \A n \in Nodes : Position(n) \in DOMAIN order /\ order[Position(n)] = n
    BY <2>1, <2>2, SequenceFacts DEF Position
  <2>4. ASSUME NEW n \in Nodes, NEW m \in Nodes, results[m] = "error", Position(n) > Position(m)
        PROVE  results[n] = "none" /\ n \notin touched
    <3>1. Position(m) < Position(n)
      BY <2>2, <2>3, <2>4, SequenceFacts
    <3>2. results[n] = "none"
      BY <2>1, <2>3, <2>4, <3>1
    <3> QED  BY <2>1, <3>2
  <2> QED  BY <2>1, <2>4
<1> QED  BY <1>1, WorkflowInvariant, PTL

=============================================================================
