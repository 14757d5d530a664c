------------------------- MODULE LakePipelineProofs -------------------------
(***************************************************************************)
(* Theorems about LakePipeline, for any runners, reviewers and bounds.     *)
(*                                                                         *)
(* QuietRunHeals speaks of the moment a run ends; the invariant follows    *)
(* the run from its start: as long as no other run has overlapped it, the  *)
(* artifacts before its step hold its generation, the one it has open is   *)
(* empty, and the parts it has read back are its own.  Runs that take      *)
(* turns are always alone, so that the same facts show that the lake keeps *)
(* what PostureFeed promises.                                              *)
(***************************************************************************)
EXTENDS LakePipeline, FiniteSets, SequenceTheorems, TLAPS

\* What a run that no other run has overlapped has made of the lake.
Undisturbed(p) ==
    /\ \A q \in Runners \ {p} : at[q] = 0
    /\ \A j \in 1..(at[p] - 1) : Steps[j] \in Files => file[Steps[j]] = gen[p]
    /\ open[p] /\ Step(p) \in Files =>
         file[Step(p)] = IF Step(p) \in Marts THEN Missing ELSE Torn
    /\ open[p] /\ Step(p) = "current_posture" => posture = <<>>
    /\ \A i \in DOMAIN seen[p] : seen[p][i] = gen[p]

RunInv(p) ==
    /\ at[p] = 0 => ~open[p] /\ seen[p] = <<>>
    /\ at[p] # 0 =>
         /\ Step(p) \notin Omitted
         /\ gen[p] \in 1..raw
         /\ Step(p) # "current_posture" => seen[p] = <<>>
         /\ open[p] /\ Step(p) = "current_posture" => Len(seen[p]) = Len(Parts)
         /\ alone[p] => Undisturbed(p)
         /\ Serial => alone[p] /\ \A i \in DOMAIN latest : latest[i] <= gen[p]

Healed ==
    \E g \in 1..MaxRaw :
        /\ \A f \in Files : file[f] = g
        /\ posture = <<g, g, g>>

SettledInv == settled => Healed /\ \A p \in Runners : at[p] = 0

\* A calm review has read one generation so far, the one the lake holds.
CalmInv(r) ==
    calm[r] => settled /\ \A i \in DOMAIN seen[r] : seen[r][i] = file["silver"]

IInv ==
    /\ TypeOK
    /\ \A p \in Runners : RunInv(p)
    /\ SettledInv
    /\ \A r \in Reviewers : CalmInv(r)
    /\ issued.calm => OneGeneration(issued.parts)
    /\ Serial => \A i \in DOMAIN latest : latest[i] \in 1..raw

-----------------------------------------------------------------------------
(* The order of the steps, and the parts a posture is computed from.       *)

LEMMA StepsFacts ==
    /\ DOMAIN Steps = 1..12 /\ Len(Steps) = 12 /\ Steps[12] = "current_posture"
    /\ \A j \in 1..11 : Steps[j] # "current_posture"
    /\ \A i, j \in 1..12 : Steps[i] = Steps[j] => i = j
  BY DEF Steps

LEMMA FilesFacts ==
    /\ {"silver", "control_posture", "asset_risk"} \subseteq Files
    /\ "current_posture" \notin Files
    /\ "current_posture" \notin Omitted
    /\ \A j \in 1..11 : Steps[j] \in Omitted \/ Steps[j] \in Files
    /\ \A f \in Files : f \notin Omitted /\ \E j \in 1..11 : Steps[j] = f
    /\ Marts \subseteq {"duckdb", "sqlite"}
<1> USE LakeAssumption
<1>1. /\ {"silver", "control_posture", "asset_risk"} \subseteq Files
      /\ "current_posture" \notin Files /\ "current_posture" \notin Omitted
  BY DEF Files, Optional
<1>2. \A j \in 1..11 : Steps[j] \in Omitted \/ Steps[j] \in Files
  BY DEF Steps, Files, Optional
<1>3. /\ Steps[1] = "bronze" /\ Steps[2] = "silver" /\ Steps[3] = "control_posture"
      /\ Steps[4] = "control_tests" /\ Steps[5] = "evidence_freshness"
      /\ Steps[6] = "asset_risk" /\ Steps[7] = "metrics" /\ Steps[8] = "dashboard_data"
      /\ Steps[9] = "duckdb" /\ Steps[10] = "manifest" /\ Steps[11] = "sqlite"
  BY DEF Steps
<1>4. \A f \in Files : f \notin Omitted /\ \E j \in 1..11 : Steps[j] = f
  BY <1>3 DEF Files, Optional
<1>5. QED
  BY <1>1, <1>2, <1>4 DEF Marts

\* A set of step numbers that is not empty has a least one.
LEMMA LeastStep ==
  ASSUME NEW S \in SUBSET (1..12), S # {}
  PROVE  Min(S) \in S /\ \A j \in S : Min(S) <= j
<1>1. \E i \in S : \A j \in S : i <= j
  <2> SUFFICES ASSUME \A i \in S : \E j \in S : j < i PROVE FALSE
    OBVIOUS
  <2>1. 1 \notin S /\ 2 \notin S /\ 3 \notin S
    OBVIOUS
  <2>2. 4 \notin S /\ 5 \notin S /\ 6 \notin S
    BY <2>1
  <2>3. 7 \notin S /\ 8 \notin S /\ 9 \notin S
    BY <2>1, <2>2
  <2>4. 10 \notin S /\ 11 \notin S /\ 12 \notin S
    BY <2>1, <2>2, <2>3
  <2>5. PICK i \in S : i \in 1..12
    OBVIOUS
  <2>6. QED
    BY <2>1, <2>2, <2>3, <2>4, <2>5
<1>2. QED
  BY <1>1 DEF Min

\* The run goes on to the next artifact that is not left out; the posture is last.
LEMMA NextStepFacts ==
  ASSUME NEW i \in 0..12
  PROVE  /\ NextStep(i) \in 0..12
         /\ i = 12 => NextStep(i) = 0
         /\ i < 12 => /\ NextStep(i) > i
                      /\ Steps[NextStep(i)] \notin Omitted
                      /\ \A j \in 1..12 : i < j /\ j < NextStep(i) => Steps[j] \in Omitted
<1> DEFINE later == {j \in DOMAIN Steps : j > i /\ Steps[j] \notin Omitted}
<1>1. NextStep(i) = IF later = {} THEN 0 ELSE Min(later)
  BY DEF NextStep
<1>2. \A j : j \in later <=> j \in 1..12 /\ j > i /\ Steps[j] \notin Omitted
  BY StepsFacts
<1> HIDE DEF later
<1>3. later \in SUBSET (1..12)
  BY <1>2
<1>4. CASE i = 12
  <2>1. later = {}
    BY <1>2, <1>4
  <2>2. QED
    BY <1>1, <1>4, <2>1
<1>5. CASE i < 12
  <2>1. 12 \in later
    BY <1>2, <1>5, StepsFacts, FilesFacts
  <2>2. Min(later) \in later /\ \A j \in later : Min(later) <= j
    BY <1>3, <2>1, LeastStep
  <2>3. NextStep(i) = Min(later)
    BY <1>1, <2>1
  <2>4. QED
    BY <1>2, <1>5, <2>2, <2>3
<1>6. QED
  BY <1>4, <1>5

LEMMA FunctionIsSeq ==
  ASSUME NEW T, NEW n \in Nat, NEW s \in [1..n -> T]
  PROVE  s \in Seq(T) /\ Len(s) = n
  OBVIOUS

LEMMA SeenFacts == \A s : s \in Seen <=> s \in Seq(Missing..MaxRaw) /\ Len(s) <= 3
<1>1. Len(Parts) = 3
  BY DEF Parts
<1>2. Seen = UNION {[1..n -> Missing..MaxRaw] : n \in 0..3}
  BY <1>1 DEF Seen
<1>3. ASSUME NEW s \in Seen PROVE s \in Seq(Missing..MaxRaw) /\ Len(s) <= 3
  <2>1. PICK n \in 0..3 : s \in [1..n -> Missing..MaxRaw]
    BY <1>2
  <2>2. n \in Nat /\ n <= 3
    OBVIOUS
  <2>3. s \in Seq(Missing..MaxRaw) /\ Len(s) = n
    BY <2>1, <2>2, FunctionIsSeq, Zenon
  <2>4. QED
    BY <2>2, <2>3
<1>4. ASSUME NEW s \in Seq(Missing..MaxRaw), Len(s) <= 3 PROVE s \in Seen
  <2>1. s \in [1..Len(s) -> Missing..MaxRaw] /\ Len(s) \in Nat
    BY LenProperties, Zenon
  <2>2. Len(s) \in 0..3
    BY <1>4, <2>1
  <2>3. QED
    BY <1>2, <2>1, <2>2
<1>5. QED
  BY <1>3, <1>4

LEMMA SeenElements ==
  ASSUME NEW s \in Seen
  PROVE  /\ Len(s) \in 0..3 /\ DOMAIN s = 1..Len(s)
         /\ \A i \in DOMAIN s : s[i] \in Missing..MaxRaw
         /\ Len(s) = 0 <=> s = <<>>
<1>1. s \in Seq(Missing..MaxRaw) /\ Len(s) <= 3
  BY SeenFacts
<1>2. Len(s) \in Nat /\ DOMAIN s = 1..Len(s) /\ \A i \in 1..Len(s) : s[i] \in Missing..MaxRaw
  BY <1>1, LenProperties, ElementOfSeq
<1>3. Len(s) = 0 <=> s = <<>>
  BY <1>1, EmptySeq
<1>4. QED
  BY <1>1, <1>2, <1>3

LEMMA SeenEmpty == <<>> \in Seen /\ DOMAIN (<<>>) = {} /\ Len(<<>>) = 0
<1>1. <<>> \in Seq(Missing..MaxRaw) /\ Len(<<>>) <= 3 /\ Len(<<>>) = 0 /\ DOMAIN (<<>>) = {}
  OBVIOUS
<1>2. QED
  BY <1>1, SeenFacts

\* One part more.
LEMMA SeenAppend ==
  ASSUME NEW s \in Seen, Len(s) \in 0..2, NEW c \in Missing..MaxRaw
  PROVE  /\ Append(s, c) \in Seen
         /\ Len(Append(s, c)) = Len(s) + 1
         /\ \A i \in DOMAIN Append(s, c) : i \in DOMAIN s \/ i = Len(s) + 1
         /\ \A i \in DOMAIN Append(s, c) : Append(s, c)[i] = IF i \in DOMAIN s THEN s[i] ELSE c
<1>1. s \in Seq(Missing..MaxRaw) /\ Len(s) \in Nat /\ DOMAIN s = 1..Len(s)
  BY SeenFacts, SeenElements
<1>2. /\ Append(s, c) \in Seq(Missing..MaxRaw)
      /\ Len(Append(s, c)) = Len(s) + 1
      /\ \A i \in 1..Len(s) : Append(s, c)[i] = s[i]
      /\ Append(s, c)[Len(s) + 1] = c
  BY <1>1, AppendProperties
<1>3. DOMAIN Append(s, c) = 1..(Len(s) + 1)
  BY <1>1
<1>4. Len(Append(s, c)) <= 3
  BY <1>1, <1>2
<1>5. Append(s, c) \in Seen
  BY <1>2, <1>4, SeenFacts, Zenon
<1>6. QED
  BY <1>1, <1>2, <1>3, <1>5

\* Three equal parts.
LEMMA SeenTriple ==
  ASSUME NEW s \in Seen, Len(s) = 3, NEW g \in Missing..MaxRaw, \A i \in DOMAIN s : s[i] = g
  PROVE  s = <<g, g, g>> /\ s # <<>>
<1>1. s \in Seq(Missing..MaxRaw) /\ DOMAIN s = 1..3
  BY SeenFacts, SeenElements
<1>2. <<g, g, g>> \in Seq(Missing..MaxRaw) /\ Len(<<g, g, g>>) = 3
  OBVIOUS
<1>3. \A i \in 1..3 : s[i] = <<g, g, g>>[i]
  BY <1>1
<1>4. s = <<g, g, g>>
  BY <1>1, <1>2, <1>3, SeqEqual
<1>5. QED
  BY <1>4

-----------------------------------------------------------------------------
(* Type correctness.                                                       *)

LEMMA WorkersFacts ==
    /\ Runners \subseteq Workers /\ Reviewers \subseteq Workers
    /\ \A p \in Runners : p \notin Reviewers
  BY LakeAssumption DEF Workers

\* The step a run is at.
LEMMA StepFacts ==
  ASSUME TypeOK, NEW p \in Runners, at[p] # 0
  PROVE  /\ at[p] \in 1..12 /\ Step(p) = Steps[at[p]]
         /\ Step(p) = "current_posture" <=> at[p] = 12
         /\ Step(p) \in Files => at[p] \in 1..11
         /\ NextStep(at[p]) \in 0..12
<1>1. at[p] \in 1..12
  BY StepsFacts DEF TypeOK
<1>2. Step(p) = "current_posture" <=> at[p] = 12
  BY <1>1, StepsFacts DEF Step
<1>3. QED
  BY <1>1, <1>2, FilesFacts, NextStepFacts DEF Step

\* What a worker reads next.
LEMMA NextPartFacts ==
  ASSUME TypeOK, NEW w \in Workers, ReadsOn(w)
  PROVE  /\ NextPart(w) \in Files
         /\ NextPart(w) \in {"silver", "control_posture", "asset_risk", "bronze"}
         /\ Len(seen[w]) \in 0..2
         /\ Rows(NextPart(w)) \in Missing..MaxRaw
<1>1. seen[w] \in Seen
  BY DEF TypeOK
<1>2. PartsOf(w) \in {<<"silver", "bronze">>, Parts}
  BY DEF PartsOf
<1> DEFINE n == Len(seen[w])
<1>3. n \in Nat /\ n < Len(PartsOf(w)) /\ NextPart(w) = PartsOf(w)[n + 1]
  BY <1>1, SeenElements DEF ReadsOn, NextPart
<1> HIDE DEF n
<1>4. ASSUME PartsOf(w) = <<"silver", "bronze">>
      PROVE  NextPart(w) \in {"silver", "bronze"} /\ n \in 0..2
  <2>1. /\ Len(PartsOf(w)) = 2
        /\ PartsOf(w)[1] = "silver" /\ PartsOf(w)[2] = "bronze"
    BY <1>4
  <2>2. n = 0 \/ n = 1
    BY <1>3, <2>1
  <2>3. QED
    BY <1>3, <2>1, <2>2
<1>5. ASSUME PartsOf(w) = Parts
      PROVE  NextPart(w) \in {"silver", "control_posture", "asset_risk"} /\ n \in 0..2
  <2>1. /\ Len(PartsOf(w)) = 3
        /\ PartsOf(w)[1] = "silver" /\ PartsOf(w)[2] = "control_posture"
        /\ PartsOf(w)[3] = "asset_risk"
    BY <1>5 DEF Parts
  <2>2. n = 0 \/ n = 1 \/ n = 2
    BY <1>3, <2>1
  <2>3. QED
    BY <1>3, <2>1, <2>2
<1>6. /\ NextPart(w) \in {"silver", "control_posture", "asset_risk", "bronze"}
      /\ n \in 0..2
  BY <1>2, <1>4, <1>5
<1>7. "bronze" \in Files
  BY LakeAssumption DEF Files, Optional
<1>8. NextPart(w) \in Files
  BY <1>6, <1>7, FilesFacts
<1>9. Rows(NextPart(w)) \in Missing..MaxRaw
  BY <1>8, LakeAssumption DEF TypeOK, Rows, Contents, Missing, Torn
<1>10. QED
  BY <1>6, <1>8, <1>9 DEF n

\* The worker has read one part more, the others what they had read.
LEMMA ReadPartFacts ==
  ASSUME TypeOK, NEW w \in Workers, ReadPart(w)
  PROVE  /\ seen' \in [Workers -> Seen]
         /\ \A v \in Workers \ {w} : seen'[v] = seen[v]
         /\ Len(seen'[w]) = Len(seen[w]) + 1 /\ seen'[w] # <<>>
         /\ \A i \in DOMAIN seen'[w] :
              \/ i \in DOMAIN seen[w] /\ seen'[w][i] = seen[w][i]
              \/ i \notin DOMAIN seen[w] /\ seen'[w][i] = Rows(NextPart(w))
<1> DEFINE c == Rows(NextPart(w))
<1>1. ReadsOn(w) /\ seen' = [seen EXCEPT ![w] = Append(seen[w], c)]
  BY DEF ReadPart
<1>2. seen[w] \in Seen /\ Len(seen[w]) \in 0..2 /\ c \in Missing..MaxRaw
  BY <1>1, NextPartFacts DEF TypeOK
<1> HIDE DEF c
<1>3. /\ Append(seen[w], c) \in Seen
      /\ Len(Append(seen[w], c)) = Len(seen[w]) + 1
      /\ \A i \in DOMAIN Append(seen[w], c) :
           Append(seen[w], c)[i] = IF i \in DOMAIN seen[w] THEN seen[w][i] ELSE c
  BY <1>2, SeenAppend
<1>4. /\ seen' \in [Workers -> Seen] /\ seen'[w] = Append(seen[w], c)
      /\ \A v \in Workers \ {w} : seen'[v] = seen[v]
  BY <1>1, <1>3 DEF TypeOK
<1>5. Len(seen[w]) + 1 # 0
  BY <1>2
<1>6. seen'[w] # <<>>
  BY <1>3, <1>4, <1>5, SeenEmpty
<1>7. QED
  BY <1>3, <1>4, <1>6 DEF c

LEMMA AdvanceTyped ==
  ASSUME TypeOK, NEW p \in Runners, at[p] # 0, Advance(p)
  PROVE  /\ at' \in [Runners -> 0..Len(Steps)] /\ open' \in [Runners -> BOOLEAN]
  BY StepFacts, StepsFacts DEF TypeOK, Advance

LEMMA StopTyped ==
  ASSUME TypeOK, NEW p \in Runners, Stop(p), crashes' \in 0..MaxCrashes
  PROVE  TypeOK'
  BY WorkersFacts, SeenEmpty, StepsFacts DEF TypeOK, Stop

LEMMA InitTypeOK == Init => TypeOK
<1> SUFFICES ASSUME Init PROVE TypeOK
  OBVIOUS
<1> USE LakeAssumption
<1>1. PICK g \in {Missing, 1} :
        /\ file = [f \in Files |-> g]
        /\ posture = IF g = Missing THEN <<>> ELSE <<g, g, g>>
        /\ settled = (g # Missing)
  BY DEF Init
<1>2. file \in [Files -> Contents] /\ settled \in BOOLEAN
  BY <1>1 DEF Contents, Missing
<1>3. <<1, 1, 1>> \in Seq(Missing..MaxRaw) /\ Len(<<1, 1, 1>>) <= 3
  BY DEF Missing
<1>4. <<1, 1, 1>> \in Seen
  BY <1>3, SeenFacts
<1>5. posture \in Seen /\ latest \in Seen
  BY <1>1, <1>4, SeenEmpty DEF Init, Missing
<1>6. issued \in [parts : Seen, calm : BOOLEAN]
  BY SeenEmpty DEF Init
<1>7. seen \in [Workers -> Seen]
  BY SeenEmpty DEF Init
<1>8. at \in [Runners -> 0..Len(Steps)]
  BY StepsFacts DEF Init
<1>9. QED
  BY <1>2, <1>5, <1>6, <1>7, <1>8 DEF Init, TypeOK

LEMMA NextTypeOK == TypeOK /\ [Next]_vars => TypeOK'
<1> SUFFICES ASSUME TypeOK, [Next]_vars PROVE TypeOK'
  OBVIOUS
<1> USE DEF running, bounds
<1>1. CASE Ingest
  BY <1>1, LakeAssumption DEF TypeOK, Ingest
<1>2. ASSUME NEW p \in Runners, Start(p) PROVE TypeOK'
  <2>1. at' \in [Runners -> 0..Len(Steps)]
    BY <1>2, NextStepFacts, StepsFacts DEF TypeOK, Start
  <2>2. runs' \in 0..MaxRuns
    BY <1>2, LakeAssumption DEF TypeOK, Start
  <2>3. gen' \in [Runners -> 0..MaxRaw]
    BY <1>2 DEF TypeOK, Start
  <2>4. QED
    BY <1>2, <2>1, <2>2, <2>3 DEF TypeOK, Start
<1>3. ASSUME NEW p \in Runners, Empty(p) PROVE TypeOK'
  <2>1. file' \in [Files -> Contents]
    BY <1>3, LakeAssumption DEF TypeOK, Empty, Contents, Missing, Torn
  <2>2. QED
    BY <1>3, <2>1 DEF TypeOK, Empty
<1>4. ASSUME NEW p \in Runners, Write(p) PROVE TypeOK'
  <2>1. file' \in [Files -> Contents]
    <3>1. PICK c \in {gen[p]} \cup {Torn} : file' = [file EXCEPT ![Step(p)] = c]
      BY <1>4 DEF Write
    <3>2. c \in Contents
      BY <3>1 DEF TypeOK, Contents, Missing
    <3>3. QED
      BY <3>1, <3>2 DEF TypeOK
  <2>2. QED
    BY <1>4, <2>1, AdvanceTyped DEF TypeOK, Write
<1>5. ASSUME NEW p \in Runners, FillMart(p) PROVE TypeOK'
  <2>1. file' \in [Files -> Contents]
    BY <1>5 DEF TypeOK, FillMart, Contents, Missing
  <2>2. QED
    BY <1>5, <2>1, AdvanceTyped DEF TypeOK, FillMart
<1>6. ASSUME NEW p \in Runners, ReadBack(p) PROVE TypeOK'
  <2>1. seen' \in [Workers -> Seen]
    BY <1>6, ReadPartFacts, WorkersFacts DEF ReadBack
  <2>2. QED
    BY <1>6, <2>1 DEF TypeOK, ReadBack
<1>7. ASSUME NEW p \in Runners, EmptyPosture(p) PROVE TypeOK'
  BY <1>7, SeenEmpty DEF TypeOK, EmptyPosture
<1>8. ASSUME NEW p \in Runners, WritePosture(p) PROVE TypeOK'
  <2>1. seen[p] \in Seen
    BY WorkersFacts DEF TypeOK
  <2>2. posture' \in Seen /\ latest' \in Seen /\ seen' \in [Workers -> Seen]
    BY <1>8, <2>1, SeenEmpty DEF TypeOK, WritePosture
  <2>3. at' \in [Runners -> 0..Len(Steps)] /\ open' \in [Runners -> BOOLEAN]
    BY <1>8, StepFacts, StepsFacts DEF TypeOK, WritePosture
  <2>4. QED
    BY <1>8, <2>2, <2>3 DEF TypeOK, WritePosture
<1>9. ASSUME NEW p \in Runners, Raise(p) \/ Crash(p) PROVE TypeOK'
  BY <1>9, StopTyped, LakeAssumption DEF TypeOK, Raise, Crash
<1>10. ASSUME NEW r \in Reviewers, BeginVerify(r) PROVE TypeOK'
  BY <1>10 DEF TypeOK, BeginVerify
<1>11. ASSUME NEW r \in Reviewers, ReviewPart(r) PROVE TypeOK'
  <2>1. seen' \in [Workers -> Seen]
    BY <1>11, ReadPartFacts, WorkersFacts DEF ReviewPart
  <2>2. QED
    BY <1>11, <2>1 DEF TypeOK, ReviewPart
<1>12. ASSUME NEW r \in Reviewers, Review(r) PROVE TypeOK'
  <2>1. seen[r] \in Seen
    BY WorkersFacts DEF TypeOK
  <2>2. issued' \in [parts : Seen, calm : BOOLEAN]
    BY <1>12, <2>1 DEF TypeOK, Review
  <2>3. seen' \in [Workers -> Seen] /\ calm' \in [Reviewers -> BOOLEAN]
    BY <1>12, SeenEmpty DEF TypeOK, Review
  <2>4. QED
    BY <1>12, <2>2, <2>3 DEF TypeOK, Review
<1>13. ASSUME NEW r \in Reviewers, ReviewFails(r) PROVE TypeOK'
  BY <1>13, SeenEmpty DEF TypeOK, ReviewFails
<1>14. ASSUME NEW p \in Runners, StartRaises(p) PROVE TypeOK'
  <2>1. runs' \in 0..MaxRuns
    BY <1>14, LakeAssumption DEF TypeOK, StartRaises
  <2>2. QED
    BY <1>14, <2>1 DEF TypeOK, StartRaises
<1>15. CASE UNCHANGED vars
  BY <1>15 DEF TypeOK, vars
<1>16. QED
  BY <1>1, <1>2, <1>3, <1>4, <1>5, <1>6, <1>7, <1>8, <1>9, <1>10, <1>11, <1>12,
     <1>13, <1>14, <1>15 DEF Next, RunStep

\* Whatever runs and reviews overlap, break or fail, every variable keeps its
\* type; so no reader ever takes a broken file for a generation.
THEOREM TypeCorrect == Spec => []TypeOK
  BY InitTypeOK, NextTypeOK, PTL DEF Spec

-----------------------------------------------------------------------------
(* The invariant.                                                          *)

LEMMA InitIInv == Init => IInv
<1> SUFFICES ASSUME Init PROVE IInv
  OBVIOUS
<1>1. PICK g \in {Missing, 1} :
        /\ file = [f \in Files |-> g]
        /\ posture = IF g = Missing THEN <<>> ELSE <<g, g, g>>
        /\ settled = (g # Missing)
  BY DEF Init
<1>2. \A p \in Runners : at[p] = 0 /\ RunInv(p)
  BY WorkersFacts DEF Init, RunInv
<1>3. SettledInv
  <2> SUFFICES ASSUME settled PROVE Healed
    BY <1>2 DEF SettledInv
  <2>1. g # Missing
    BY <1>1, Zenon
  <2>2. g \in 1..MaxRaw
    BY <2>1, LakeAssumption DEF Missing
  <2>3. posture = <<g, g, g>> /\ \A f \in Files : file[f] = g
    BY <1>1, <2>1
  <2>4. QED
    BY <2>2, <2>3 DEF Healed
<1>4. \A i \in DOMAIN latest : latest[i] \in 1..raw
  BY <1>1, SeenEmpty DEF Init, Missing
<1>5. \A r \in Reviewers : CalmInv(r)
  BY DEF Init, CalmInv
<1>6. ~issued.calm
  BY DEF Init
<1>7. QED
  BY <1>2, <1>3, <1>4, <1>5, <1>6, InitTypeOK DEF IInv

\* While a run is under way the lake is not settled, no review is calm, and any
\* other run under way has been overlapped.
LEMMA Crowded ==
  ASSUME IInv, NEW p \in Runners, at[p] # 0
  PROVE  /\ ~settled
         /\ \A r \in Reviewers : ~calm[r]
         /\ \A q \in Runners \ {p} : at[q] # 0 => ~alone[q] /\ ~Serial
  BY DEF IInv, SettledInv, CalmInv, RunInv, Undisturbed

\* So a step of a run is sound when the run is sound after it.
LEMMA RunnerKeeps ==
  ASSUME IInv, TypeOK', NEW p \in Runners, at[p] # 0,
         \A q \in Runners \ {p} : at'[q] = at[q] /\ open'[q] = open[q] /\ seen'[q] = seen[q],
         UNCHANGED <<raw, gen, alone, calm, issued>>,
         RunInv(p)',
         SettledInv',
         Serial => \A i \in DOMAIN latest' : latest'[i] \in 1..raw
  PROVE  IInv'
<1>1. ASSUME NEW q \in Runners \ {p} PROVE RunInv(q)'
  <2>1. RunInv(q) /\ (at[q] # 0 => ~alone[q] /\ ~Serial)
    BY Crowded DEF IInv
  <2>2. QED
    BY <2>1 DEF RunInv, Step
<1>2. \A r \in Reviewers : CalmInv(r)'
  BY Crowded DEF CalmInv
<1>3. QED
  BY <1>1, <1>2 DEF IInv, OneGeneration

\* The step is about the files, and the run has not read anything back yet.
LEMMA AtFile ==
  ASSUME IInv, NEW p \in Runners, at[p] # 0, Step(p) \in Files
  PROVE  /\ TypeOK /\ RunInv(p) /\ seen[p] = <<>> /\ at[p] \in 1..11
         /\ DOMAIN seen[p] = {}
  BY StepFacts, FilesFacts, SeenEmpty DEF IInv, RunInv

LEMMA EmptyKeeps ==
  ASSUME IInv, TypeOK', NEW p \in Runners, Empty(p)
  PROVE  IInv'
<1>1. /\ TypeOK /\ RunInv(p) /\ seen[p] = <<>> /\ at[p] \in 1..11 /\ Step(p) = Steps[at[p]]
      /\ DOMAIN seen[p] = {} /\ Step(p) # "current_posture"
  BY AtFile, StepFacts, FilesFacts DEF Empty, IInv
<1>2. /\ UNCHANGED <<raw, posture, at, gen, alone, seen, issued, latest, settled, calm>>
      /\ open'[p] /\ \A q \in Runners \ {p} : open'[q] = open[q]
      /\ file' = [file EXCEPT ![Step(p)] = IF Step(p) \in Marts THEN Missing ELSE Torn]
      /\ Step(p)' = Step(p) /\ Step(p) \in Files /\ at[p] # 0
  BY <1>1 DEF Empty, Step, TypeOK
<1>3. ASSUME alone[p] PROVE Undisturbed(p)'
  <2>1. Undisturbed(p)
    BY <1>1, <1>2, <1>3 DEF RunInv
  <2>2. \A j \in 1..(at[p] - 1) : Steps[j] # Step(p)
    BY <1>1, StepsFacts
  <2>3. \A j \in 1..(at[p] - 1) : Steps[j] \in Files => file'[Steps[j]] = gen[p]
    BY <1>1, <1>2, <2>1, <2>2 DEF Undisturbed, TypeOK
  <2>4. file'[Step(p)] = IF Step(p) \in Marts THEN Missing ELSE Torn
    BY <1>1, <1>2 DEF TypeOK
  <2>5. QED
    BY <1>1, <1>2, <2>1, <2>3, <2>4 DEF Undisturbed
<1>4. RunInv(p)'
  BY <1>1, <1>2, <1>3 DEF RunInv
<1>5. SettledInv'
  BY <1>2, Crowded DEF SettledInv
<1>6. QED
  BY <1>2, <1>4, <1>5, RunnerKeeps DEF IInv

\* An artifact is published; alone, the run publishes its own generation.
LEMMA PublishKeeps ==
  ASSUME IInv, TypeOK', NEW p \in Runners, at[p] # 0, open[p], Step(p) \in Files, Advance(p),
         NEW c, file' = [file EXCEPT ![Step(p)] = c], alone[p] => c = gen[p],
         UNCHANGED <<raw, posture, gen, alone, seen, issued, latest, settled, calm>>
  PROVE  IInv'
<1> DEFINE n == NextStep(at[p])
<1>1. /\ TypeOK /\ RunInv(p) /\ seen[p] = <<>> /\ at[p] \in 1..11 /\ Step(p) = Steps[at[p]]
      /\ DOMAIN seen[p] = {}
  BY AtFile, StepFacts, FilesFacts DEF IInv
<1>2. /\ at'[p] = n /\ ~open'[p]
      /\ \A q \in Runners \ {p} : at'[q] = at[q] /\ open'[q] = open[q]
      /\ Step(p)' = Steps[n]
  BY <1>1 DEF Advance, Step, TypeOK
<1>3. /\ n \in 1..12 /\ n > at[p] /\ Steps[n] \notin Omitted
      /\ \A j \in 1..12 : at[p] < j /\ j < n => Steps[j] \in Omitted
  BY <1>1, NextStepFacts
<1> HIDE DEF n
<1>4. ASSUME alone[p] PROVE Undisturbed(p)'
  <2>1. Undisturbed(p)
    BY <1>1, <1>4 DEF RunInv
  <2>2. ASSUME NEW j \in 1..(n - 1), Steps[j] \in Files PROVE file'[Steps[j]] = gen[p]
    <3>1. CASE j < at[p]
      <4>1. j \in 1..(at[p] - 1) /\ j \in 1..12 /\ at[p] \in 1..12
        BY <1>1, <1>3, <2>2, <3>1
      <4>2. Steps[j] # Step(p)
        BY <1>1, <3>1, <4>1, StepsFacts
      <4>3. QED
        BY <1>1, <2>1, <2>2, <4>1, <4>2 DEF Undisturbed, TypeOK
    <3>2. CASE j = at[p]
      BY <1>1, <1>4, <3>2 DEF TypeOK
    <3>3. CASE j > at[p]
      <4>1. j \in 1..12 /\ j < n
        BY <1>3, <2>2
      <4>2. Steps[j] \in Omitted
        BY <1>3, <3>3, <4>1
      <4>3. QED
        BY <2>2, <4>2, FilesFacts
    <3>4. QED
      BY <1>1, <1>3, <2>2, <3>1, <3>2, <3>3
  <2>3. QED
    BY <1>1, <1>2, <2>1, <2>2 DEF Undisturbed
<1>5. RunInv(p)'
  BY <1>1, <1>2, <1>3, <1>4 DEF RunInv
<1>6. SettledInv'
  BY Crowded DEF SettledInv
<1>7. QED
  BY <1>2, <1>5, <1>6, RunnerKeeps DEF IInv

LEMMA WriteKeeps ==
  ASSUME IInv, TypeOK', NEW p \in Runners, Write(p) \/ FillMart(p)
  PROVE  IInv'
<1>1. TypeOK /\ RunInv(p) /\ at[p] # 0 /\ open[p] /\ Step(p) \notin Omitted
  BY DEF IInv, RunInv, Write, FillMart
<1>2. Step(p) \in Files
  <2>1. Step(p) \in Files \/ Step(p) \in Marts
    BY DEF Write, FillMart
  <2>2. Step(p) \in Marts => Step(p) # "current_posture"
    BY FilesFacts
  <2>3. QED
    BY <1>1, <2>1, <2>2, StepFacts, FilesFacts
<1>3. alone[p] => file[Step(p)] = IF Step(p) \in Marts THEN Missing ELSE Torn
  BY <1>1, <1>2 DEF RunInv, Undisturbed
<1>4. CASE Write(p)
  <2>1. PICK c \in {gen[p]} \cup (IF file[Step(p)] = Torn THEN {} ELSE {Torn}) :
          file' = [file EXCEPT ![Step(p)] = c]
    BY <1>4 DEF Write
  <2>2. alone[p] => c = gen[p]
    BY <1>3, <1>4, <2>1 DEF Write
  <2>3. QED
    BY <1>1, <1>2, <1>4, <2>1, <2>2, PublishKeeps DEF Write
<1>5. CASE FillMart(p)
  BY <1>1, <1>2, <1>5, PublishKeeps DEF FillMart
<1>6. QED
  BY <1>4, <1>5

\* Alone, the run reads back what it has published.
LEMMA ReadBackKeeps ==
  ASSUME IInv, TypeOK', NEW p \in Runners, ReadBack(p)
  PROVE  IInv'
<1>1. /\ TypeOK /\ RunInv(p) /\ at[p] # 0 /\ Step(p) = "current_posture" /\ at[p] = 12
      /\ p \in Workers /\ ReadPart(p) /\ ReadsOn(p)
  BY StepFacts, WorkersFacts DEF IInv, ReadBack, ReadPart
<1>2. UNCHANGED <<raw, file, posture, at, open, gen, alone, issued, latest, settled, calm>>
  BY DEF ReadBack, running
<1>3. NextPart(p) \in Files /\ Len(seen[p]) \in 0..2
  BY <1>1, NextPartFacts
<1>4. ~open[p]
  <2>1. Len(Parts) = 3
    BY DEF Parts
  <2>2. QED
    BY <1>1, <1>3, <2>1 DEF RunInv
<1>5. ASSUME alone[p] PROVE Undisturbed(p)'
  <2>1. Undisturbed(p)
    BY <1>1, <1>5 DEF RunInv
  <2>2. PICK j \in 1..11 : Steps[j] = NextPart(p)
    BY <1>3, FilesFacts
  <2>3. j \in 1..(at[p] - 1) /\ gen[p] # Torn
    BY <1>1, <2>2 DEF RunInv, TypeOK, Torn
  <2>4. file[NextPart(p)] = gen[p]
    BY <1>3, <2>1, <2>2, <2>3 DEF Undisturbed
  <2>5. \A i \in DOMAIN seen'[p] : seen'[p][i] = gen[p]
    BY <1>1, <2>1, <2>3, <2>4, ReadPartFacts DEF Rows, Undisturbed
  <2>6. QED
    BY <1>2, <1>4, <2>1, <2>5 DEF Undisturbed
<1>6. RunInv(p)'
  BY <1>1, <1>2, <1>4, <1>5 DEF RunInv, Step
<1>7. SettledInv'
  BY <1>1, <1>2, Crowded DEF SettledInv
<1>8. \A q \in Runners \ {p} : seen'[q] = seen[q]
  BY <1>1, ReadPartFacts, WorkersFacts
<1>9. QED
  BY <1>1, <1>2, <1>6, <1>7, <1>8, RunnerKeeps DEF IInv

LEMMA EmptyPostureKeeps ==
  ASSUME IInv, TypeOK', NEW p \in Runners, EmptyPosture(p)
  PROVE  IInv'
<1>1. /\ TypeOK /\ RunInv(p) /\ at[p] # 0 /\ Step(p) = "current_posture"
      /\ Step(p) \notin Files /\ Len(seen[p]) = Len(Parts)
  BY FilesFacts DEF IInv, EmptyPosture
<1>2. /\ UNCHANGED <<raw, file, at, gen, alone, seen, issued, latest, settled, calm>>
      /\ posture' = <<>> /\ open'[p]
      /\ \A q \in Runners \ {p} : open'[q] = open[q]
      /\ Step(p)' = Step(p)
  BY <1>1 DEF EmptyPosture, Step, TypeOK
<1>3. RunInv(p)'
  BY <1>1, <1>2 DEF RunInv, Undisturbed
<1>4. SettledInv'
  BY <1>1, <1>2, Crowded DEF SettledInv
<1>5. QED
  BY <1>1, <1>2, <1>3, <1>4, RunnerKeeps DEF IInv

\* What a run writes as the posture when no other run has overlapped it.
LEMMA AlonePosture ==
  ASSUME IInv, NEW p \in Runners, WritePosture(p), alone[p]
  PROVE  /\ gen[p] \in 1..raw /\ gen[p] \in 1..MaxRaw
         /\ seen[p] = <<gen[p], gen[p], gen[p]>>
         /\ posture = <<>>
         /\ posture' = seen[p]
         /\ \A f \in Files : file[f] = gen[p]
         /\ \A q \in Runners \ {p} : at[q] = 0
<1>1. /\ TypeOK /\ RunInv(p) /\ at[p] # 0 /\ open[p] /\ Step(p) = "current_posture"
      /\ at[p] = 12 /\ Undisturbed(p)
  BY StepFacts DEF IInv, WritePosture, RunInv
<1>2. gen[p] \in 1..raw /\ raw \in 1..MaxRaw /\ MaxRaw \in Nat /\ Len(seen[p]) = Len(Parts)
  BY <1>1, LakeAssumption DEF RunInv, TypeOK
<1>3. gen[p] \in 1..MaxRaw /\ gen[p] \in Missing..MaxRaw /\ Len(seen[p]) = 3
  BY <1>2 DEF Missing, Parts
<1>4. seen[p] \in Seen /\ \A i \in DOMAIN seen[p] : seen[p][i] = gen[p]
  BY <1>1, WorkersFacts DEF TypeOK, Undisturbed
<1>5. seen[p] = <<gen[p], gen[p], gen[p]>>
  BY <1>3, <1>4, SeenTriple
<1>6. posture = <<>>
  BY <1>1 DEF Undisturbed
<1>7. posture' = seen[p]
  BY <1>6 DEF WritePosture
<1>8. \A f \in Files : file[f] = gen[p]
  <2> SUFFICES ASSUME NEW f \in Files PROVE file[f] = gen[p]
    OBVIOUS
  <2>1. PICK j \in 1..11 : Steps[j] = f
    BY FilesFacts
  <2>2. j \in 1..(at[p] - 1)
    BY <1>1
  <2>3. QED
    BY <1>1, <2>1, <2>2 DEF Undisturbed
<1>9. QED
  BY <1>1, <1>2, <1>3, <1>5, <1>6, <1>7, <1>8 DEF Undisturbed

LEMMA WritePostureKeeps ==
  ASSUME IInv, TypeOK', NEW p \in Runners, WritePosture(p)
  PROVE  IInv'
<1>1. TypeOK /\ RunInv(p) /\ at[p] = 12 /\ NextStep(12) = 0 /\ p \in Workers
  BY StepFacts, NextStepFacts, WorkersFacts DEF IInv, WritePosture
<1>2. /\ at'[p] = 0 /\ ~open'[p] /\ seen'[p] = <<>> /\ at[p] # 0
      /\ \A q \in Runners \ {p} : at'[q] = at[q] /\ open'[q] = open[q] /\ seen'[q] = seen[q]
      /\ UNCHANGED <<raw, file, gen, alone, issued, calm>>
      /\ latest' = seen[p] /\ settled' = alone[p]
  BY <1>1, WorkersFacts DEF WritePosture, TypeOK
<1>3. RunInv(p)'
  BY <1>2 DEF RunInv
<1>4. SettledInv'
  <2> SUFFICES ASSUME alone[p] PROVE Healed' /\ \A q \in Runners : at'[q] = 0
    BY <1>2 DEF SettledInv
  <2>1. QED
    BY <1>2, AlonePosture DEF Healed
<1>5. ASSUME Serial PROVE \A i \in DOMAIN latest' : latest'[i] \in 1..raw
  <2>1. alone[p]
    BY <1>1, <1>2, <1>5 DEF RunInv
  <2>2. gen[p] \in 1..raw /\ \A i \in DOMAIN seen[p] : seen[p][i] = gen[p]
    BY <1>1, <1>2, <2>1 DEF RunInv, Undisturbed
  <2>3. QED
    BY <1>2, <2>2
<1>6. QED
  BY <1>2, <1>3, <1>4, <1>5, RunnerKeeps

LEMMA StopKeeps ==
  ASSUME IInv, TypeOK', NEW p \in Runners, at[p] # 0, Stop(p)
  PROVE  IInv'
<1>1. /\ at'[p] = 0 /\ ~open'[p] /\ seen'[p] = <<>>
      /\ \A q \in Runners \ {p} : at'[q] = at[q] /\ open'[q] = open[q] /\ seen'[q] = seen[q]
  BY WorkersFacts DEF IInv, TypeOK, Stop
<1>2. UNCHANGED <<raw, gen, alone, calm, issued, latest, settled>>
  BY DEF Stop
<1>3. RunInv(p)' /\ SettledInv'
  BY <1>1, <1>2, Crowded DEF RunInv, SettledInv
<1>4. QED
  BY <1>1, <1>2, <1>3, RunnerKeeps DEF IInv

\* A run that starts takes the others' solitude, and the calm of reviews.
LEMMA StartKeeps ==
  ASSUME IInv, TypeOK', NEW p \in Runners, Start(p)
  PROVE  IInv'
<1> DEFINE n == NextStep(0)
<1>1. /\ TypeOK /\ RunInv(p) /\ at[p] = 0 /\ ~open[p] /\ seen[p] = <<>> /\ DOMAIN seen[p] = {}
      /\ raw \in 1..raw
  BY SeenEmpty DEF IInv, Start, RunInv, TypeOK
<1>2. /\ at'[p] = n /\ gen'[p] = raw
      /\ \A q \in Runners \ {p} : at'[q] = at[q] /\ gen'[q] = gen[q]
      /\ UNCHANGED <<raw, file, posture, open, seen, issued, latest>>
      /\ Step(p)' = Steps[n]
  BY <1>1 DEF Start, Step, TypeOK
<1>3. /\ n \in 1..12 /\ Steps[n] \notin Omitted
      /\ \A j \in 1..12 : j < n => Steps[j] \in Omitted
  BY NextStepFacts
<1> HIDE DEF n
<1>4. /\ \A q \in Runners : alone'[q] <=> (q = p /\ \A o \in Runners : at[o] = 0)
      /\ Serial => \A q \in Runners : at[q] = 0
      /\ ~settled' /\ \A r \in Reviewers : ~calm'[r]
  BY DEF Start, MayStart
<1>5. ASSUME \A q \in Runners : at[q] = 0 PROVE Undisturbed(p)'
  <2>1. \A j \in 1..(n - 1) : Steps[j] \notin Files
    BY <1>3, FilesFacts
  <2>2. QED
    BY <1>1, <1>2, <1>5, <2>1 DEF Undisturbed
<1>6. RunInv(p)'
  <2>1. Serial => \A i \in DOMAIN latest : latest[i] <= raw
    BY DEF IInv
  <2>2. QED
    BY <1>1, <1>2, <1>3, <1>4, <1>5, <2>1 DEF RunInv
<1>7. ASSUME NEW q \in Runners \ {p} PROVE RunInv(q)'
  <2>1. RunInv(q) /\ ~alone'[q] /\ Step(q)' = Step(q)
    BY <1>2, <1>4 DEF IInv, Step
  <2>2. QED
    BY <1>2, <1>4, <2>1 DEF RunInv
<1>8. QED
  BY <1>2, <1>4, <1>6, <1>7 DEF IInv, SettledInv, CalmInv, OneGeneration

LEMMA IngestKeeps ==
  ASSUME IInv, TypeOK', Ingest
  PROVE  IInv'
<1>1. /\ UNCHANGED <<file, posture, at, open, gen, alone, seen, issued, latest, settled, calm>>
      /\ raw' = raw + 1 /\ raw \in Nat
  BY DEF Ingest, running, IInv, TypeOK
<1>2. \A p \in Runners : RunInv(p)'
  <2> SUFFICES ASSUME NEW p \in Runners PROVE RunInv(p)'
    OBVIOUS
  <2>1. RunInv(p) /\ (Undisturbed(p)' <=> Undisturbed(p)) /\ Step(p)' = Step(p)
    BY <1>1 DEF IInv, Undisturbed, Step
  <2>2. QED
    BY <1>1, <2>1 DEF RunInv
<1>3. QED
  BY <1>1, <1>2 DEF IInv, SettledInv, Healed, CalmInv, OneGeneration

\* A reviewer changes nothing that the runs rely on.
LEMMA ReviewerKeeps ==
  ASSUME IInv, TypeOK',
         UNCHANGED <<raw, file, posture, running, latest, settled>>,
         \A p \in Runners : seen'[p] = seen[p],
         \A r \in Reviewers : CalmInv(r)',
         issued'.calm => OneGeneration(issued'.parts)
  PROVE  IInv'
<1>1. UNCHANGED <<at, open, gen, alone>>
  BY DEF running
<1>2. \A p \in Runners : RunInv(p)'
  <2> SUFFICES ASSUME NEW p \in Runners PROVE RunInv(p)'
    OBVIOUS
  <2>1. RunInv(p) /\ (Undisturbed(p)' <=> Undisturbed(p)) /\ Step(p)' = Step(p)
    BY <1>1 DEF IInv, Undisturbed, Step
  <2>2. QED
    BY <1>1, <2>1 DEF RunInv
<1>3. SettledInv'
  BY <1>1 DEF IInv, SettledInv, Healed
<1>4. QED
  BY <1>2, <1>3 DEF IInv, OneGeneration

\* A part read from a settled lake is of the generation the lake holds.
LEMMA SettledPart ==
  ASSUME IInv, settled, NEW w \in Workers, ReadsOn(w)
  PROVE  Rows(NextPart(w)) = file["silver"]
<1>1. PICK g \in 1..MaxRaw : \A f \in Files : file[f] = g
  BY DEF IInv, SettledInv, Healed
<1>2. NextPart(w) \in Files /\ "silver" \in Files
  BY NextPartFacts, FilesFacts DEF IInv
<1>3. QED
  BY <1>1, <1>2, LakeAssumption DEF Rows, Torn

LEMMA ReviewPartKeeps ==
  ASSUME IInv, TypeOK', NEW r \in Reviewers, ReviewPart(r)
  PROVE  IInv'
<1>1. /\ TypeOK /\ r \in Workers /\ ReadPart(r) /\ ReadsOn(r) /\ seen[r] \in Seen
      /\ UNCHANGED <<raw, file, posture, running, issued, latest, settled>>
      /\ \A q \in Reviewers \ {r} : calm'[q] = calm[q]
      /\ calm'[r] => settled /\ (seen[r] = <<>> \/ calm[r])
  BY WorkersFacts DEF IInv, TypeOK, ReviewPart, ReadPart
<1>2. /\ \A v \in Workers \ {r} : seen'[v] = seen[v]
      /\ \A i \in DOMAIN seen'[r] :
           \/ i \in DOMAIN seen[r] /\ seen'[r][i] = seen[r][i]
           \/ i \notin DOMAIN seen[r] /\ seen'[r][i] = Rows(NextPart(r))
  BY <1>1, ReadPartFacts
<1>3. CalmInv(r)'
  <2> SUFFICES ASSUME calm'[r], NEW i \in DOMAIN seen'[r]
               PROVE  settled' /\ seen'[r][i] = file'["silver"]
    BY <1>1 DEF CalmInv
  <2>1. CASE i \in DOMAIN seen[r]
    <3>1. seen[r] # <<>>
      BY <2>1, SeenEmpty
    <3>2. calm[r] /\ seen'[r][i] = seen[r][i]
      BY <1>1, <1>2, <2>1, <3>1
    <3>3. QED
      BY <1>1, <2>1, <3>2 DEF IInv, CalmInv
  <2>2. CASE i \notin DOMAIN seen[r]
    BY <1>1, <1>2, <2>2, SettledPart
  <2>3. QED
    BY <2>1, <2>2
<1>4. ASSUME NEW q \in Reviewers \ {r} PROVE CalmInv(q)'
  <2>1. CalmInv(q) /\ seen'[q] = seen[q] /\ calm'[q] = calm[q]
    BY <1>1, <1>2, WorkersFacts DEF IInv
  <2>2. QED
    BY <1>1, <2>1 DEF CalmInv
<1>5. \A p \in Runners : seen'[p] = seen[p]
  BY <1>2, WorkersFacts
<1>6. QED
  BY <1>1, <1>3, <1>4, <1>5, ReviewerKeeps DEF IInv

\* A review that ends, with an answer or without.
LEMMA ReviewEndsKeeps ==
  ASSUME IInv, TypeOK', NEW r \in Reviewers, Review(r) \/ ReviewFails(r)
  PROVE  IInv'
<1>1. /\ UNCHANGED <<raw, file, posture, running, latest, settled>>
      /\ ~calm'[r] /\ \A q \in Reviewers \ {r} : calm'[q] = calm[q]
      /\ \A v \in Workers \ {r} : seen'[v] = seen[v]
  BY DEF IInv, TypeOK, Review, ReviewFails
<1>2. ASSUME NEW q \in Reviewers PROVE CalmInv(q)'
  <2>1. CASE q = r
    BY <1>1, <2>1 DEF CalmInv
  <2>2. CASE q # r
    <3>1. CalmInv(q) /\ seen'[q] = seen[q] /\ calm'[q] = calm[q]
      BY <1>1, <2>2, WorkersFacts DEF IInv
    <3>2. QED
      BY <1>1, <3>1 DEF CalmInv
  <2>3. QED
    BY <2>1, <2>2
<1>3. issued'.calm => OneGeneration(issued'.parts)
  <2>1. CASE Review(r)
    <3>1. issued'.calm = calm[r] /\ issued'.parts = seen[r]
      BY <2>1 DEF Review
    <3>2. CalmInv(r)
      BY DEF IInv
    <3>3. QED
      BY <3>1, <3>2 DEF CalmInv, OneGeneration
  <2>2. CASE ReviewFails(r)
    BY <2>2 DEF ReviewFails, IInv
  <2>3. QED
    BY <2>1, <2>2
<1>4. \A p \in Runners : seen'[p] = seen[p]
  BY <1>1, WorkersFacts
<1>5. QED
  BY <1>1, <1>2, <1>3, <1>4, ReviewerKeeps

LEMMA NextIInv == IInv /\ [Next]_vars => IInv'
<1> SUFFICES ASSUME IInv, [Next]_vars PROVE IInv'
  OBVIOUS
<1>1. TypeOK'
  BY NextTypeOK DEF IInv
<1>2. CASE Ingest
  BY <1>1, <1>2, IngestKeeps
<1>3. ASSUME NEW p \in Runners, Start(p) PROVE IInv'
  BY <1>1, <1>3, StartKeeps
<1>4. ASSUME NEW p \in Runners, RunStep(p) \/ Crash(p) PROVE IInv'
  BY <1>1, <1>4, EmptyKeeps, WriteKeeps, ReadBackKeeps, EmptyPostureKeeps,
     WritePostureKeeps, StopKeeps DEF RunStep, Raise, Crash
<1>5. ASSUME NEW r \in Reviewers, BeginVerify(r) PROVE IInv'
  <2>1. UNCHANGED <<raw, file, posture, running, seen, issued, latest, settled, calm>>
    BY <1>5 DEF BeginVerify
  <2>2. \A q \in Reviewers : CalmInv(q)'
    BY <2>1 DEF IInv, CalmInv
  <2>3. QED
    BY <1>1, <2>1, <2>2, ReviewerKeeps DEF IInv
<1>6. ASSUME NEW r \in Reviewers, ReviewPart(r) PROVE IInv'
  BY <1>1, <1>6, ReviewPartKeeps
<1>7. ASSUME NEW r \in Reviewers, Review(r) \/ ReviewFails(r) PROVE IInv'
  BY <1>1, <1>7, ReviewEndsKeeps
<1>8. CASE UNCHANGED vars
  <2>1. /\ UNCHANGED <<raw, file, posture, running, seen, issued, latest, settled, calm>>
    BY <1>8 DEF vars
  <2>2. \A q \in Reviewers : CalmInv(q)'
    BY <2>1 DEF IInv, CalmInv
  <2>3. QED
    BY <1>1, <2>1, <2>2, ReviewerKeeps DEF IInv
<1>9. ASSUME NEW p \in Runners, StartRaises(p) PROVE IInv'
  <2>1. UNCHANGED <<raw, file, posture, running, seen, issued, latest, settled, calm>>
    BY <1>9 DEF StartRaises
  <2>2. \A q \in Reviewers : CalmInv(q)'
    BY <2>1 DEF IInv, CalmInv
  <2>3. QED
    BY <1>1, <2>1, <2>2, ReviewerKeeps DEF IInv
<1>10. QED
  BY <1>2, <1>3, <1>4, <1>5, <1>6, <1>7, <1>8, <1>9 DEF Next

THEOREM LakeInvariant == Spec => []IInv
  BY InitIInv, NextIInv, PTL DEF Spec

\* A run that no other run overlaps leaves every artifact and the posture at
\* its own generation, whatever crashes and overlapping runs had left behind.
THEOREM QuietHeals == Spec => []QuietRunHeals
<1>1. IInv => QuietRunHeals
  BY DEF IInv, SettledInv, Healed, QuietRunHeals
<1>2. QED
  BY LakeInvariant, <1>1, PTL

\* A review of a settled lake never mixes generations, although it reads
\* several files and runs may start at any time.
THEOREM CalmCoherent == Spec => []CalmReviewCoherent
<1>1. IInv => CalmReviewCoherent
  BY DEF IInv, CalmReviewCoherent
<1>2. QED
  BY LakeInvariant, <1>1, PTL

-----------------------------------------------------------------------------
(* The promise to the readers of the posture.                              *)

LEMMA FeedInit == Init => Feed!Init
<1> SUFFICES ASSUME Init PROVE Feed!Init
  OBVIOUS
<1>1. raw = 1 /\ latest = posture /\ (posture = <<>> \/ posture = <<1, 1, 1>>)
  BY DEF Init, Missing
<1>2. ToSet(<<>>) = {} /\ ToSet(<<1, 1, 1>>) = {1} /\ <<1, 1, 1>> # <<>>
  BY DEF ToSet
<1>3. QED
  BY <1>1, <1>2 DEF Feed!Init

LEMMA FeedNext ==
  ASSUME Serial, IInv, [Next]_vars
  PROVE  [Feed!Next]_(Feed!vars)
<1> USE DEF Feed!vars, Feed!Next
<1>1. CASE Ingest
  BY <1>1 DEF Ingest, Feed!Ingest
<1>2. ASSUME NEW p \in Runners, WritePosture(p) PROVE Feed!Publish
  <2>1. alone[p] /\ \A i \in DOMAIN latest : latest[i] <= gen[p]
    BY <1>2 DEF IInv, RunInv, WritePosture
  <2>2. /\ gen[p] \in 1..raw
        /\ seen[p] = <<gen[p], gen[p], gen[p]>> /\ posture' = seen[p] /\ latest' = seen[p]
        /\ raw' = raw
    BY <1>2, <2>1, AlonePosture DEF WritePosture
  <2>3. ToSet(latest') = {gen[p]} /\ posture' # <<>>
    BY <2>2 DEF ToSet
  <2>4. \A h \in ToSet(latest) : h <= gen[p]
    BY <2>1 DEF ToSet
  <2>5. QED
    BY <2>2, <2>3, <2>4 DEF Feed!Publish
<1>3. ASSUME NEW p \in Runners, EmptyPosture(p) PROVE Feed!Break
  BY <1>3 DEF EmptyPosture, Feed!Break
<1>4. ASSUME NEW p \in Runners,
             \/ Start(p) \/ StartRaises(p) \/ Empty(p) \/ Write(p) \/ FillMart(p) \/ ReadBack(p)
             \/ Raise(p) \/ Crash(p)
      PROVE  UNCHANGED <<raw, latest, posture>>
  BY <1>4 DEF Start, StartRaises, Empty, Write, FillMart, ReadBack, Raise, Crash, Stop
<1>5. ASSUME NEW r \in Reviewers,
             BeginVerify(r) \/ ReviewPart(r) \/ Review(r) \/ ReviewFails(r)
      PROVE  UNCHANGED <<raw, latest, posture>>
  BY <1>5 DEF BeginVerify, ReviewPart, Review, ReviewFails
<1>6. CASE UNCHANGED vars
  BY <1>6 DEF vars
<1>7. QED
  BY <1>1, <1>2, <1>3, <1>4, <1>5, <1>6 DEF Next, RunStep

\* While runs take turns, readers of the current posture get what PostureFeed
\* promises: answers from one generation, never an older one than before.
THEOREM FeedKept == ASSUME Serial PROVE Spec => FeedSpec
<1>1. IInv /\ [Next]_vars => [Feed!Next]_(Feed!vars)
  BY FeedNext
<1>2. QED
  BY LakeInvariant, FeedInit, <1>1, PTL DEF Spec, FeedSpec, Feed!Spec
=============================================================================
