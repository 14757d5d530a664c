---------------------------- MODULE ServerProofs ----------------------------
(***************************************************************************)
(* Theorems about the append-only logs, the framework registry, the schema *)
(* of the database and their composition with the other parts of Server,   *)
(* for any logs' subjects, writers, frameworks and upgraders.              *)
(***************************************************************************)
EXTENDS Server, RecordProofs, AccessProofs, FiniteSetTheorems

-----------------------------------------------------------------------------
(* Least and greatest elements.                                            *)

\* Every set of natural numbers that is not empty has a least element: the
\* intervals up to its elements are finite sets, of which one has no smaller.
LEMMA LeastElement ==
  ASSUME NEW T \in SUBSET Nat, T # {}
  PROVE  \E m \in T : \A k \in T : m <= k
<1> DEFINE C == {0..k : k \in T}
<1>1. C \subseteq FiniteSubsetsOf(Nat)
  <2> SUFFICES ASSUME NEW k \in T PROVE 0..k \in FiniteSubsetsOf(Nat)
    OBVIOUS
  <2>1. IsFiniteSet(0..k)
    BY FS_Interval
  <2> QED  BY <2>1 DEF FiniteSubsetsOf
<1>2. C # {}
  OBVIOUS
<1>3. PICK I \in C : \A J \in C : <<J, I>> \notin StrictSubsetOrdering(Nat)
  BY <1>1, <1>2, FS_StrictSubsetOrderingWellFounded, WFMin
<1>4. PICK m \in T : I = 0..m
  OBVIOUS
<1>5. ASSUME NEW k \in T, k < m PROVE FALSE
  <2>1. 0..k \in C /\ 0..k \subseteq 0..m /\ 0..k # 0..m
    BY <1>5
  <2>2. <<0..k, I>> \in StrictSubsetOrdering(Nat)
    BY <2>1, <1>4 DEF StrictSubsetOrdering
  <2> QED  BY <2>1, <2>2, <1>3
<1> QED  BY <1>5

LEMMA GreatestElement ==
  ASSUME NEW n \in Nat, NEW T \in SUBSET (0..n), T # {}
  PROVE  \E m \in T : \A k \in T : k <= m
<1> DEFINE U == {u \in 0..n : n - u \in T}
<1>1. \A k \in T : n - k \in U
  <2> SUFFICES ASSUME NEW k \in T PROVE n - k \in U
    OBVIOUS
  <2>1. k \in 0..n
    OBVIOUS
  <2>2. n - k \in 0..n /\ n - (n - k) = k
    BY <2>1
  <2> QED  BY <2>2
<1>2. U \in SUBSET Nat /\ U # {}
  <2>1. U \subseteq Nat
    OBVIOUS
  <2>2. PICK k \in T : TRUE
    OBVIOUS
  <2>3. n - k \in U
    BY <1>1
  <2> QED  BY <2>1, <2>3
<1>3. PICK u \in U : \A v \in U : u <= v
  BY <1>2, LeastElement
<1>4. u \in 0..n /\ n - u \in T
  OBVIOUS
<1>5. ASSUME NEW k \in T PROVE k <= n - u
  <2>1. k \in 0..n /\ u <= n - k
    BY <1>1, <1>3
  <2> QED  BY <1>4, <2>1
<1> QED  BY <1>4, <1>5

-----------------------------------------------------------------------------
(* EventLog.  A line that parses is a record some request made; a write    *)
(* that stops leaves at most one line without its end, the last one; the   *)
(* lines of one share carry one created_at, so that the last one counts.   *)

\* What a request may append to a log.
RecordOf(f) ==
    CASE f = "violation_tracking" ->
           [subject : Violations, value : States, at : 0..MaxNow, when : 0..MaxNow]
      [] f = "connector_config" ->
           [subject : Connectors, value : {"enabled", "disabled"}, at : 0..MaxNow, when : 0..MaxNow]
      [] f = "connector_runs" ->
           [subject : Connectors, value : {"ok", "skipped", "error"}, at : 0..MaxNow, when : 0..MaxNow]
      [] f = "trust_shares" ->
           [subject : Shares, value : {"created", "revoked"}, at : 0..MaxNow, when : 0..MaxNow]

WriterInv(w) ==
    /\ writer[w].step = "idle" => writer[w].record = NoRecord
    /\ writer[w].step = "probed" => writer[w].file = "connector_runs"
    /\ writer[w].step # "idle" => writer[w].record \in RecordOf(writer[w].file)

EndsHalf(f) == lines[f] # << >> /\ lines[f][Len(lines[f])] = Half

\* Only the last line can lack its end, and only after a write that stopped.
LinesInv(f) ==
    \A i \in DOMAIN lines[f] :
        /\ lines[f][i] = Half => i = Len(lines[f])
        /\ lines[f][i] \in {Half, Garbled} => torn[f] > 0
        /\ lines[f][i] \in RecordOf(f) \cup {Half, Garbled}

\* A record that was answered and is not there was lost with a torn line; the
\* one that is torn last has not cost any yet.
CountInv(f) ==
    /\ IsFiniteSet(Entries(f))
    /\ acks[f] <= Cardinality(Entries(f)) + torn[f]
    /\ EndsHalf(f) => acks[f] < Cardinality(Entries(f)) + torn[f]

Holds(f, r) == \E i \in Readable(f) : lines[f][i] = r
Missing(f) == {r \in answered[f] : ~Holds(f, r)}

\* The same of the records themselves: as many as writes that stopped are missing.
MissingInv(f) ==
    /\ IsFiniteSet(Missing(f))
    /\ Cardinality(Missing(f)) <= torn[f]
    /\ EndsHalf(f) => Cardinality(Missing(f)) < torn[f]

Pending(w, s, value) ==
    /\ writer[w].step = "append"
    /\ writer[w].record.subject = s /\ writer[w].record.value = value

Mine(s) == About("trust_shares", s)
ShareLine(i) == lines["trust_shares"][i]

\* While no write to the log stopped: a share is created once, by its first line,
\* and its other lines revoke it under the same created_at.
ShareInv(s) ==
    torn["trust_shares"] = 0 =>
        /\ \A i, j \in Mine(s) : ShareLine(i).at = ShareLine(j).at
        /\ \A i, j \in Mine(s) : i < j => ShareLine(j).value = "revoked"
        /\ \A w \in Writers : Pending(w, s, "created") =>
             /\ Mine(s) = {}
             /\ \A u \in Writers \ {w} : ~Pending(u, s, "created")
        /\ \A w \in Writers : Pending(w, s, "revoked") =>
             /\ Mine(s) # {}
             /\ \A i \in Mine(s) : ShareLine(i).at = writer[w].record.at
        /\ s \in ended => \E i \in Mine(s) : ShareLine(i).value = "revoked"

LogInv ==
    /\ EventLogTypeOK
    /\ \A w \in Writers : WriterInv(w)
    /\ \A f \in Files : LinesInv(f) /\ CountInv(f) /\ MissingInv(f)
    /\ \A s \in Shares : ShareInv(s)

LEMMA RecordFacts ==
  ASSUME NEW f \in Files, NEW r \in RecordOf(f)
  PROVE  /\ r \in LineType /\ Parses(r) /\ r # NoRecord
         /\ r.value = "revoked" => f = "trust_shares"
         /\ r.value = "created" => f = "trust_shares"
         /\ f = "trust_shares" => r.subject \in Shares /\ r.value \in {"created", "revoked"}
<1>1. f \in {"violation_tracking", "connector_config", "connector_runs", "trust_shares"}
  BY DEF Files
<1>2. CASE f = "violation_tracking"
  BY <1>2, EventLogAssumption
  DEF RecordOf, LineType, Parses, Half, Garbled, NoRecord, Record, AllowedStates
<1>3. CASE f = "connector_config"
  BY <1>3 DEF RecordOf, LineType, Parses, Half, Garbled, NoRecord, Record
<1>4. CASE f = "connector_runs"
  BY <1>4 DEF RecordOf, LineType, Parses, Half, Garbled, NoRecord, Record
<1>5. CASE f = "trust_shares"
  BY <1>5 DEF RecordOf, LineType, Parses, Half, Garbled, NoRecord, Record
<1> QED  BY <1>1, <1>2, <1>3, <1>4, <1>5

LEMMA TornLines ==
  /\ Half \in LineType /\ Garbled \in LineType /\ NoRecord \in LineType
  /\ ~Parses(Half) /\ ~Parses(Garbled) /\ Half # Garbled
  BY EventLogAssumption DEF Half, Garbled, NoRecord, Record, LineType, Parses

\* The order of the stamps is the order of these numbers.
Key(t) == IF HasFraction(t) THEN t - 1 ELSE t + 1

LEMMA KeyFacts ==
  ASSUME NEW n \in Nat, NEW s \in 0..n, NEW t \in 0..n
  PROVE  /\ Key(t) \in 0..(n + 1)
         /\ SortsBefore(s, t) <=> Key(s) < Key(t)
         /\ Key(s) = Key(t) => s = t
         /\ Key(s) <= Key(t) => Second(s) <= Second(t)
<1>1. PICK a \in Nat : a = s \div 2
  OBVIOUS
<1>2. PICK b \in Nat : b = t \div 2
  OBVIOUS
<1>3. s \in Nat /\ t \in Nat
  OBVIOUS
<1>4. s = 2 * a + (s % 2) /\ s % 2 \in {0, 1}
  BY <1>1, <1>3
<1>5. t = 2 * b + (t % 2) /\ t % 2 \in {0, 1}
  BY <1>2, <1>3
<1> QED  BY <1>1, <1>2, <1>3, <1>4, <1>5 DEF Key, SortsBefore, Second, HasFraction

\* k numbers the indexes A of a log; of those with the greatest number there is a
\* first one and a last one.
Numbering(k, A, n, m) ==
    A \subseteq 1..n /\ A # {} /\ k \in [A -> 0..m] /\ n \in Nat /\ m \in Nat
IsFirst(k, A, i) == i \in A /\ \A j \in A : k[j] <= k[i] /\ (k[j] = k[i] => i <= j)
IsLast(k, A, i) == i \in A /\ \A j \in A : k[j] <= k[i] /\ (k[j] = k[i] => j <= i)

LEMMA Greatest ==
  ASSUME NEW k, NEW A, NEW n, NEW m, Numbering(k, A, n, m)
  PROVE  \E g \in 0..m : (\E i \in A : k[i] = g) /\ \A i \in A : k[i] <= g
<1> USE DEF Numbering
<1> DEFINE K == {g \in 0..m : \E i \in A : k[i] = g}
<1>1. K \in SUBSET (0..m) /\ K # {}
  OBVIOUS
<1>2. PICK g \in K : \A h \in K : h <= g
  BY <1>1, GreatestElement
<1>3. \A i \in A : k[i] \in K
  OBVIOUS
<1> QED  BY <1>2, <1>3

LEMMA FirstGreatest ==
  ASSUME NEW k, NEW A, NEW n, NEW m, Numbering(k, A, n, m)
  PROVE  \E i : IsFirst(k, A, i)
<1> USE DEF Numbering
<1>1. PICK g \in 0..m : (\E i \in A : k[i] = g) /\ \A i \in A : k[i] <= g
  BY Greatest
<1> DEFINE B == {i \in A : k[i] = g}
<1>2. B \subseteq Nat
  <2>1. 1..n \subseteq Nat
    OBVIOUS
  <2> QED  BY <2>1
<1>3. B # {}
  BY <1>1
<1>4. PICK i \in B : \A j \in B : i <= j
  <2> HIDE DEF B
  <2> QED  BY <1>2, <1>3, LeastElement
<1> QED  BY <1>1, <1>4 DEF IsFirst

LEMMA LastGreatest ==
  ASSUME NEW k, NEW A, NEW n, NEW m, Numbering(k, A, n, m)
  PROVE  \E i : IsLast(k, A, i)
<1> USE DEF Numbering
<1>1. PICK g \in 0..m : (\E i \in A : k[i] = g) /\ \A i \in A : k[i] <= g
  BY Greatest
<1> DEFINE B == {i \in A : k[i] = g}
<1>2. B \subseteq 0..n
  <2>1. 1..n \subseteq 0..n
    OBVIOUS
  <2> QED  BY <2>1
<1>3. B # {}
  BY <1>1
<1>4. PICK i \in B : \A j \in B : j <= i
  <2> HIDE DEF B
  <2> QED  BY <1>2, <1>3, GreatestElement
<1> QED  BY <1>1, <1>4 DEF IsLast

LEMMA AboutFacts ==
  ASSUME EventLogTypeOK, NEW f \in Files, NEW x
  PROVE  /\ Len(lines[f]) \in Nat /\ MaxNow \in Nat
         /\ About(f, x) \subseteq 1..Len(lines[f])
         /\ \A i \in About(f, x) : lines[f][i] \in LineType /\ lines[f][i].at \in 0..MaxNow
<1>1. lines[f] \in Seq(LineType) /\ MaxNow \in Nat
  BY EventLogAssumption DEF EventLogTypeOK
<1>2. DOMAIN lines[f] = 1..Len(lines[f]) /\ Len(lines[f]) \in Nat
  BY <1>1
<1>3. About(f, x) \subseteq DOMAIN lines[f]
  BY DEF About, Readable
<1>4. \A i \in DOMAIN lines[f] : lines[f][i] \in LineType
  BY <1>1, <1>2
<1>5. \A r \in LineType : r.at \in 0..MaxNow
  BY DEF LineType
<1> QED  BY <1>1, <1>2, <1>3, <1>4, <1>5

\* What a reader takes for current is a line about the subject, and none about it
\* is later (latest_state, latest_config, latest_run).
LEMMA LatestFacts ==
  ASSUME EventLogTypeOK, NEW f \in Files, NEW x, About(f, x) # {}
  PROVE  /\ \E i \in About(f, x) : Latest(f, x) = lines[f][i]
         /\ \A j \in About(f, x) : Second(lines[f][j].at) <= Second(Latest(f, x).at)
<1> DEFINE A == About(f, x)
           at(i) == lines[f][i].at
           best(i) == \A j \in A : \/ SortsBefore(at(j), at(i))
                                   \/ at(j) = at(i) /\ i <= j
<1>1. PICK n \in Nat : n = Len(lines[f])
  BY AboutFacts
<1>2. PICK m \in Nat : m = MaxNow
  BY EventLogAssumption
<1>3. A \subseteq 1..n /\ A # {} /\ \A i \in A : at(i) \in 0..m
  BY <1>1, <1>2, AboutFacts
<1>4. Latest(f, x) = lines[f][CHOOSE i \in A : best(i)]
  BY DEF Latest
<1> HIDE DEF A, at
<1> DEFINE k == [i \in A |-> Key(at(i))]
<1> PICK p \in Nat : p = m + 1
  OBVIOUS
<1>5. k \in [A -> 0..p]
  BY <1>3, KeyFacts
<1>6. PICK i \in A : \A j \in A : k[j] <= k[i] /\ (k[j] = k[i] => i <= j)
  <2>1. Numbering(k, A, n, p)
    BY <1>1, <1>3, <1>5 DEF Numbering
  <2>2. \E i : IsFirst(k, A, i)
    <3> HIDE DEF k, best
    <3> QED  BY <2>1, FirstGreatest
  <2> QED  BY <2>2 DEF IsFirst
<1>7. ASSUME NEW j \in A
      PROVE  SortsBefore(at(j), at(i)) \/ (at(j) = at(i) /\ i <= j)
  <2>1. /\ at(i) \in 0..m /\ at(j) \in 0..m
        /\ Key(at(i)) \in Nat /\ Key(at(j)) \in Nat
        /\ Key(at(j)) <= Key(at(i)) /\ (Key(at(j)) = Key(at(i)) => i <= j)
    BY <1>3, <1>5, <1>6
  <2>2. Key(at(j)) = Key(at(i)) => at(j) = at(i)
    BY <2>1, KeyFacts
  <2>3. Key(at(j)) < Key(at(i)) => SortsBefore(at(j), at(i))
    BY <2>1, KeyFacts
  <2> QED  BY <2>1, <2>2, <2>3
<1>8. best(i)
  BY <1>7
<1>9. PICK c \in A : best(c) /\ Latest(f, x) = lines[f][c]
  <2> HIDE DEF best
  <2> QED  BY <1>4, <1>8
<1>10. ASSUME NEW j \in A PROVE Second(at(j)) <= Second(at(c))
  <2>1. at(c) \in 0..m /\ at(j) \in 0..m
    BY <1>3
  <2>2. SortsBefore(at(j), at(c)) \/ at(j) = at(c)
    BY <1>9
  <2>3. Key(at(c)) \in Nat /\ Key(at(j)) \in Nat
    BY <2>1, KeyFacts
  <2>4. SortsBefore(at(j), at(c)) => Key(at(j)) < Key(at(c))
    BY <2>1, KeyFacts
  <2>5. at(j) = at(c) => Key(at(j)) = Key(at(c))
    OBVIOUS
  <2>6. Key(at(j)) <= Key(at(c))
    BY <2>2, <2>3, <2>4, <2>5
  <2> QED  BY <2>1, <2>6, KeyFacts
<1> QED  BY <1>9, <1>10 DEF A, at

\* list_shares returns a line of the share, after which none replaces it.
LEMMA CurrentShareFacts ==
  ASSUME EventLogTypeOK, NEW s, Mine(s) # {}
  PROVE  \E i \in Mine(s) :
           /\ CurrentShare(s) = ShareLine(i)
           /\ \A j \in Mine(s) : i < j => SortsBefore(ShareLine(j).at, ShareLine(i).at)
<1> DEFINE A == Mine(s)
           at(i) == ShareLine(i).at
           best(i) == \A j \in A : /\ j < i => Replaces(ShareLine(i), ShareLine(j))
                                   /\ i < j => ~Replaces(ShareLine(j), ShareLine(i))
<1>0. "trust_shares" \in Files
  BY DEF Files
<1>1. PICK n \in Nat : n = Len(lines["trust_shares"])
  BY <1>0, AboutFacts
<1>2. PICK m \in Nat : m = MaxNow
  BY EventLogAssumption
<1>3. A \subseteq 1..n /\ A # {} /\ \A i \in A : at(i) \in 0..m
  BY <1>0, <1>1, <1>2, AboutFacts DEF Mine, ShareLine
<1>4. CurrentShare(s) = ShareLine(CHOOSE i \in A : best(i))
  BY DEF CurrentShare, Mine, ShareLine
<1>5. \A i, j : Replaces(ShareLine(i), ShareLine(j)) <=> ~SortsBefore(at(i), at(j))
  BY DEF Replaces
<1> HIDE DEF A, at
<1> DEFINE k == [i \in A |-> Key(at(i))]
<1> PICK p \in Nat : p = m + 1
  OBVIOUS
<1>6. k \in [A -> 0..p]
  BY <1>3, KeyFacts
<1>7. PICK i \in A : \A j \in A : k[j] <= k[i] /\ (k[j] = k[i] => j <= i)
  <2>1. Numbering(k, A, n, p)
    BY <1>1, <1>3, <1>6 DEF Numbering
  <2>2. \E i : IsLast(k, A, i)
    <3> HIDE DEF k, best
    <3> QED  BY <2>1, LastGreatest
  <2> QED  BY <2>2 DEF IsLast
<1>8. ASSUME NEW j \in A
      PROVE  /\ j < i => ~SortsBefore(at(i), at(j))
             /\ i < j => SortsBefore(at(j), at(i))
  <2>1. /\ at(i) \in 0..m /\ at(j) \in 0..m /\ i \in Nat /\ j \in Nat
        /\ Key(at(i)) \in Nat /\ Key(at(j)) \in Nat
        /\ Key(at(j)) <= Key(at(i)) /\ (Key(at(j)) = Key(at(i)) => j <= i)
    BY <1>3, <1>6, <1>7
  <2>2. /\ SortsBefore(at(i), at(j)) <=> Key(at(i)) < Key(at(j))
        /\ SortsBefore(at(j), at(i)) <=> Key(at(j)) < Key(at(i))
    BY <2>1, KeyFacts
  <2> QED  BY <2>1, <2>2
<1>9. best(i)
  BY <1>5, <1>8
<1>10. PICK c \in A : best(c) /\ CurrentShare(s) = ShareLine(c)
  <2> HIDE DEF best
  <2> QED  BY <1>4, <1>9
<1> QED  BY <1>5, <1>10 DEF A, at

LEMMA CurrentShareType ==
  ASSUME EventLogTypeOK, NEW s
  PROVE  CurrentShare(s).at \in 0..MaxNow
<1>1. CASE Mine(s) = {}
  BY <1>1, EventLogAssumption DEF CurrentShare, Mine, NoRecord, Record
<1>2. CASE Mine(s) # {}
  <2>1. PICK i \in Mine(s) : CurrentShare(s) = ShareLine(i)
    BY <1>2, CurrentShareFacts
  <2>2. lines["trust_shares"] \in Seq(LineType) /\ i \in DOMAIN lines["trust_shares"]
    BY DEF EventLogTypeOK, Mine, About, Readable, Files
  <2>3. ShareLine(i) \in LineType
    BY <2>2 DEF ShareLine
  <2> QED  BY <2>1, <2>3 DEF LineType
<1> QED  BY <1>1, <1>2

-----------------------------------------------------------------------------
(* The steps of the logs.                                                  *)

\* What a request may be about to append; a share is created where there is none,
\* and revoked as it stands.
Fits(f, r) ==
    /\ r \in RecordOf(f)
    /\ f = "trust_shares" /\ r.value = "created" =>
         /\ Mine(r.subject) = {}
         /\ \A u \in Writers : writer[u].record.subject # r.subject
    /\ f = "trust_shares" /\ r.value = "revoked" =>
         /\ CurrentShare(r.subject).value = "created"
         /\ r.at = CurrentShare(r.subject).at

Takes(w) == \E f \in Files : \E r : Fits(f, r) /\ Prepare(w, f, r)

LEMMA TakesCases ==
  ASSUME LogInv, NEW w \in Writers,
         \/ \E v \in Violations : Triage(w, v)
         \/ \E x \in Connectors : Configure(w, x)
         \/ \E s \in Shares : CreateShare(w, s) \/ RevokeShare(w, s)
         \/ RecordProbe(w)
  PROVE  Takes(w)
<1>1. now \in 0..MaxNow /\ EventLogTypeOK
  BY DEF LogInv, EventLogTypeOK
<1>2. ASSUME NEW v \in Violations, Triage(w, v) PROVE Takes(w)
  <2>1. PICK state \in States : Prepare(w, "violation_tracking", Record(v, state, now, now))
    BY <1>2 DEF Triage
  <2>2. Fits("violation_tracking", Record(v, state, now, now))
    BY <1>1 DEF Fits, RecordOf, Record
  <2> QED  BY <2>1, <2>2 DEF Takes, Files
<1>3. ASSUME NEW x \in Connectors, Configure(w, x) PROVE Takes(w)
  <2>1. PICK state \in {"enabled", "disabled"} :
          Prepare(w, "connector_config", Record(x, state, now, now))
    BY <1>3 DEF Configure
  <2>2. Fits("connector_config", Record(x, state, now, now))
    BY <1>1 DEF Fits, RecordOf, Record
  <2> QED  BY <2>1, <2>2 DEF Takes, Files
<1>4. ASSUME NEW s \in Shares, CreateShare(w, s) PROVE Takes(w)
  <2>1. Prepare(w, "trust_shares", Record(s, "created", now, now))
    BY <1>4 DEF CreateShare
  <2>2. Mine(s) = {}
    BY <1>4 DEF CreateShare, Mine, About
  <2>3. \A u \in Writers : writer[u].record.subject # s
    BY <1>4 DEF CreateShare
  <2>4. Fits("trust_shares", Record(s, "created", now, now))
    BY <1>1, <2>2, <2>3 DEF Fits, RecordOf, Record
  <2> QED  BY <2>1, <2>4 DEF Takes, Files
<1>5. ASSUME NEW s \in Shares, RevokeShare(w, s) PROVE Takes(w)
  <2>1. PICK at : at = CurrentShare(s).at
    OBVIOUS
  <2>2. Prepare(w, "trust_shares", Record(s, "revoked", at, now)) /\ CurrentShare(s).value = "created"
    BY <1>5, <2>1 DEF RevokeShare
  <2>3. at \in 0..MaxNow
    BY <1>1, <2>1, CurrentShareType
  <2>4. Fits("trust_shares", Record(s, "revoked", at, now))
    BY <1>1, <2>1, <2>2, <2>3 DEF Fits, RecordOf, Record
  <2> QED  BY <2>2, <2>4 DEF Takes, Files
<1>6. ASSUME RecordProbe(w) PROVE Takes(w)
  <2>1. PICK r : r = writer[w].record
    OBVIOUS
  <2>2. r \in RecordOf("connector_runs")
    BY <1>6, <2>1 DEF RecordProbe, LogInv, WriterInv
  <2>3. Prepare(w, "connector_runs", Record(r.subject, r.value, now, now))
    BY <1>6, <2>1 DEF RecordProbe
  <2>4. Fits("connector_runs", Record(r.subject, r.value, now, now))
    BY <1>1, <2>2 DEF Fits, RecordOf, Record
  <2> QED  BY <2>3, <2>4 DEF Takes, Files
<1> QED  BY <1>2, <1>3, <1>4, <1>5, <1>6

\* A line more, or the end of one without an end.
Grows(f, r) ==
    /\ lines' = [lines EXCEPT ![f] = Append(lines[f], r)]
    /\ ~EndsHalf(f)
Garbles(f) ==
    /\ lines' = [lines EXCEPT ![f] = [lines[f] EXCEPT ![Len(lines[f])] = Garbled]]
    /\ EndsHalf(f)

LEMMA GrowsFacts ==
  ASSUME EventLogTypeOK, NEW f \in Files, NEW r \in LineType, Grows(f, r)
  PROVE  /\ lines' \in [Files -> Seq(LineType)]
         /\ \A g \in Files \ {f} : lines'[g] = lines[g]
         /\ Len(lines[f]) \in Nat
         /\ DOMAIN lines[f] = 1..Len(lines[f])
         /\ Len(lines'[f]) = Len(lines[f]) + 1
         /\ DOMAIN lines'[f] = 1..(Len(lines[f]) + 1)
         /\ \A i \in DOMAIN lines[f] : lines'[f][i] = lines[f][i]
         /\ lines'[f][Len(lines[f]) + 1] = r
<1>1. lines \in [Files -> Seq(LineType)] /\ lines' = [lines EXCEPT ![f] = Append(lines[f], r)]
  BY DEF EventLogTypeOK, Grows
<1>2. PICK s \in Seq(LineType) : s = lines[f]
  BY <1>1
<1>3. Append(s, r) \in Seq(LineType) /\ lines'[f] = Append(s, r)
  BY <1>1, <1>2
<1>4. lines' \in [Files -> Seq(LineType)] /\ \A g \in Files \ {f} : lines'[g] = lines[g]
  BY <1>1, <1>2, <1>3
<1> QED  BY <1>2, <1>3, <1>4

LEMMA GarblesFacts ==
  ASSUME EventLogTypeOK, NEW f \in Files, Garbles(f)
  PROVE  /\ lines' \in [Files -> Seq(LineType)]
         /\ \A g \in Files \ {f} : lines'[g] = lines[g]
         /\ Len(lines[f]) \in Nat
         /\ DOMAIN lines[f] = 1..Len(lines[f])
         /\ Len(lines'[f]) = Len(lines[f])
         /\ DOMAIN lines'[f] = DOMAIN lines[f]
         /\ Len(lines[f]) \in DOMAIN lines[f]
         /\ lines[f][Len(lines[f])] = Half
         /\ \A i \in DOMAIN lines[f] :
              lines'[f][i] = IF i = Len(lines[f]) THEN Garbled ELSE lines[f][i]
<1>1. /\ lines \in [Files -> Seq(LineType)]
      /\ lines' = [lines EXCEPT ![f] = [lines[f] EXCEPT ![Len(lines[f])] = Garbled]]
      /\ lines[f] # << >> /\ lines[f][Len(lines[f])] = Half
  BY DEF EventLogTypeOK, Garbles, EndsHalf
<1>2. PICK s \in Seq(LineType) : s = lines[f]
  BY <1>1
<1>3. PICK n \in Nat : n = Len(s) /\ n > 0 /\ n \in DOMAIN s /\ DOMAIN s = 1..n
  BY <1>1, <1>2
<1>4. [s EXCEPT ![n] = Garbled] \in Seq(LineType) /\ lines'[f] = [s EXCEPT ![n] = Garbled]
  BY <1>1, <1>2, <1>3, TornLines
<1>5. lines' \in [Files -> Seq(LineType)] /\ \A g \in Files \ {f} : lines'[g] = lines[g]
  BY <1>1, <1>2, <1>3, <1>4
<1>6. PICK t \in Seq(LineType) : t = lines'[f] /\ t = [s EXCEPT ![n] = Garbled]
  BY <1>4
<1>7. Len(t) = n /\ DOMAIN t = 1..n
  BY <1>3, <1>6
<1>8. \A i \in 1..n : t[i] = IF i = n THEN Garbled ELSE s[i]
  BY <1>3, <1>6
<1> QED  BY <1>1, <1>2, <1>3, <1>5, <1>6, <1>7, <1>8

LEMMA AppendCases ==
  ASSUME LogInv, NEW w \in Writers, AppendLine(w)
  PROVE  \E f \in Files : \E r \in RecordOf(f) :
           /\ writer[w] = [step |-> "append", file |-> f, record |-> r]
           /\ Grows(f, r) \/ Garbles(f)
           /\ acks' = [acks EXCEPT ![f] = @ + 1]
           /\ answered' = [answered EXCEPT ![f] = @ \cup {r}]
           /\ ended' = IF r.value = "revoked" THEN ended \cup {r.subject} ELSE ended
           /\ writer' = [writer EXCEPT ![w] = NotWriting]
           /\ torn' = torn /\ now' = now
<1>1. /\ writer[w] \in [step : {"idle", "probed", "append"}, file : Files, record : LineType]
      /\ writer[w].step = "append"
      /\ writer[w].record \in RecordOf(writer[w].file)
  BY DEF AppendLine, LogInv, WriterInv, EventLogTypeOK
<1>2. PICK f \in Files : f = writer[w].file
  BY <1>1
<1>3. PICK r \in RecordOf(f) : r = writer[w].record
  BY <1>1, <1>2
<1>4. writer[w] = [step |-> "append", file |-> f, record |-> r]
  BY <1>1, <1>2, <1>3
<1>5. Grows(f, r) \/ Garbles(f)
  BY <1>2, <1>3 DEF AppendLine, Grows, Garbles, EndsHalf
<1> QED  BY <1>2, <1>3, <1>4, <1>5 DEF AppendLine

LEMMA TearCases ==
  ASSUME LogInv, NEW w \in Writers, Tear(w)
  PROVE  \E f \in Files :
           /\ \/ Grows(f, Half)
              \/ lines' = lines /\ EndsHalf(f)
           /\ torn' = [torn EXCEPT ![f] = @ + 1]
           /\ writer' = [writer EXCEPT ![w] = NotWriting]
           /\ acks' = acks /\ answered' = answered /\ ended' = ended /\ now' = now
<1>1. PICK f \in Files : f = writer[w].file
  BY DEF LogInv, EventLogTypeOK
<1>2. lines \in [Files -> Seq(LineType)]
  BY DEF LogInv, EventLogTypeOK
<1>3. Grows(f, Half) \/ (lines' = lines /\ EndsHalf(f))
  BY <1>1, <1>2 DEF Tear, Grows, EndsHalf
<1> QED  BY <1>1, <1>3 DEF Tear

LEMMA LogNextCases ==
  ASSUME LogInv, [EventLogNext]_logVars
  PROVE  \/ now' \in 0..MaxNow /\ UNCHANGED <<lines, writer, acks, answered, torn, ended>>
         \/ \E w \in Writers :
              \/ Takes(w) \/ AppendLine(w) \/ Tear(w) \/ Forget(w)
              \/ \E x \in Connectors : Probe(w, x)
<1>1. now \in 0..MaxNow /\ MaxNow \in Nat
  BY EventLogAssumption DEF LogInv, EventLogTypeOK
<1>2. CASE UNCHANGED logVars
  BY <1>1, <1>2 DEF logVars
<1>3. CASE LogTick
  BY <1>1, <1>3 DEF LogTick
<1>4. CASE \E w \in Writers :
             \/ \E v \in Violations : Triage(w, v)
             \/ \E x \in Connectors : Configure(w, x)
             \/ \E s \in Shares : CreateShare(w, s) \/ RevokeShare(w, s)
             \/ RecordProbe(w)
  BY <1>4, TakesCases
<1> QED  BY <1>2, <1>3, <1>4 DEF EventLogNext

LEMMA LogTypeStep ==
  ASSUME LogInv, [EventLogNext]_logVars
  PROVE  EventLogTypeOK'
<1>0. EventLogTypeOK
  BY DEF LogInv
<1>1. CASE now' \in 0..MaxNow /\ UNCHANGED <<lines, writer, acks, answered, torn, ended>>
  BY <1>0, <1>1 DEF EventLogTypeOK
<1>2. ASSUME NEW w \in Writers, Takes(w) PROVE EventLogTypeOK'
  <2> PICK f \in Files : \E r : Fits(f, r) /\ Prepare(w, f, r)
    BY <1>2 DEF Takes
  <2>1. PICK r : Fits(f, r) /\ Prepare(w, f, r)
    OBVIOUS
  <2>2. r \in LineType
    BY <2>1, RecordFacts DEF Fits
  <2> QED  BY <1>0, <2>1, <2>2 DEF Prepare, EventLogTypeOK
<1>3. ASSUME NEW w \in Writers, NEW x \in Connectors, Probe(w, x) PROVE EventLogTypeOK'
  <2>1. PICK v \in {"ok", "skipped", "error"} :
          /\ writer' = [writer EXCEPT ![w] =
                [step |-> "probed", file |-> "connector_runs", record |-> Record(x, v, 0, 0)]]
          /\ UNCHANGED <<lines, acks, answered, torn, ended, now>>
    BY <1>3 DEF Probe
  <2>2. Record(x, v, 0, 0) \in LineType
    BY <2>1, EventLogAssumption DEF Record, LineType
  <2> QED  BY <1>0, <2>1, <2>2 DEF Files, EventLogTypeOK
<1>4. ASSUME NEW w \in Writers, writer' = [writer EXCEPT ![w] = NotWriting]
      PROVE  writer' \in [Writers -> [step : {"idle", "probed", "append"}, file : Files,
                                      record : LineType]]
  <2>1. NotWriting \in [step : {"idle", "probed", "append"}, file : Files, record : LineType]
    BY TornLines DEF NotWriting, Files
  <2> QED  BY <1>0, <1>4, <2>1 DEF EventLogTypeOK
<1>5. ASSUME NEW w \in Writers, AppendLine(w) PROVE EventLogTypeOK'
  <2> PICK f \in Files : \E r \in RecordOf(f) :
           /\ Grows(f, r) \/ Garbles(f)
           /\ acks' = [acks EXCEPT ![f] = @ + 1]
           /\ answered' = [answered EXCEPT ![f] = @ \cup {r}]
           /\ ended' = IF r.value = "revoked" THEN ended \cup {r.subject} ELSE ended
           /\ writer' = [writer EXCEPT ![w] = NotWriting]
           /\ torn' = torn /\ now' = now
    BY <1>5, AppendCases
  <2>1. PICK r \in RecordOf(f) :
           /\ Grows(f, r) \/ Garbles(f)
           /\ acks' = [acks EXCEPT ![f] = @ + 1]
           /\ answered' = [answered EXCEPT ![f] = @ \cup {r}]
           /\ ended' = IF r.value = "revoked" THEN ended \cup {r.subject} ELSE ended
           /\ writer' = [writer EXCEPT ![w] = NotWriting]
           /\ torn' = torn /\ now' = now
    OBVIOUS
  <2>2. r \in LineType /\ (r.value = "revoked" => r.subject \in Shares)
    BY RecordFacts
  <2>3. lines' \in [Files -> Seq(LineType)]
    BY <1>0, <2>1, <2>2, GrowsFacts, GarblesFacts
  <2>4. acks' \in [Files -> Nat] /\ torn' \in [Files -> Nat] /\ now' \in 0..MaxNow
    BY <1>0, <2>1 DEF EventLogTypeOK
  <2>5. ended' \subseteq Shares
    BY <1>0, <2>1, <2>2 DEF EventLogTypeOK
  <2>6. answered' \in [Files -> SUBSET LineType]
    BY <1>0, <2>1, <2>2 DEF EventLogTypeOK
  <2> QED  BY <1>4, <2>1, <2>3, <2>4, <2>5, <2>6 DEF EventLogTypeOK
<1>6. ASSUME NEW w \in Writers, Tear(w) PROVE EventLogTypeOK'
  <2>1. PICK f \in Files :
           /\ \/ Grows(f, Half)
              \/ lines' = lines /\ EndsHalf(f)
           /\ torn' = [torn EXCEPT ![f] = @ + 1]
           /\ writer' = [writer EXCEPT ![w] = NotWriting]
           /\ acks' = acks /\ answered' = answered /\ ended' = ended /\ now' = now
    BY <1>6, TearCases
  <2>2. lines' \in [Files -> Seq(LineType)]
    BY <1>0, <2>1, TornLines, GrowsFacts DEF EventLogTypeOK
  <2>3. acks' \in [Files -> Nat] /\ torn' \in [Files -> Nat] /\ now' \in 0..MaxNow
    BY <1>0, <2>1 DEF EventLogTypeOK
  <2>4. ended' \subseteq Shares /\ answered' \in [Files -> SUBSET LineType]
    BY <1>0, <2>1 DEF EventLogTypeOK, LineType
  <2> QED  BY <1>4, <2>1, <2>2, <2>3, <2>4 DEF EventLogTypeOK
<1>7. ASSUME NEW w \in Writers, Forget(w) PROVE EventLogTypeOK'
  BY <1>0, <1>4, <1>7 DEF Forget, EventLogTypeOK
<1> QED  BY <1>1, <1>2, <1>3, <1>5, <1>6, <1>7, LogNextCases

LEMMA WriterStep ==
  ASSUME LogInv, [EventLogNext]_logVars, NEW u \in Writers
  PROVE  WriterInv(u)'
<1> USE DEF LogInv, EventLogTypeOK, WriterInv
<1>1. CASE writer' = writer
  BY <1>1
<1>2. ASSUME NEW w \in Writers, Takes(w) PROVE WriterInv(u)'
  <2> PICK f \in Files : \E r : Fits(f, r) /\ Prepare(w, f, r)
    BY <1>2 DEF Takes
  <2>1. PICK r : Fits(f, r) /\ Prepare(w, f, r)
    OBVIOUS
  <2>2. writer'[u] = IF u = w THEN [step |-> "append", file |-> f, record |-> r] ELSE writer[u]
    BY <2>1 DEF Prepare
  <2>3. CASE u = w
    BY <2>1, <2>2, <2>3 DEF Fits
  <2>4. CASE u # w
    BY <2>2, <2>4
  <2> QED  BY <2>3, <2>4
<1>3. ASSUME NEW w \in Writers, NEW x \in Connectors, Probe(w, x) PROVE WriterInv(u)'
  <2>1. PICK v \in {"ok", "skipped", "error"} :
          writer' = [writer EXCEPT ![w] =
                [step |-> "probed", file |-> "connector_runs", record |-> Record(x, v, 0, 0)]]
    BY <1>3 DEF Probe
  <2>2. Record(x, v, 0, 0) \in RecordOf("connector_runs")
    BY EventLogAssumption DEF Record, RecordOf
  <2>3. writer'[u] = IF u = w THEN [step |-> "probed", file |-> "connector_runs",
                                    record |-> Record(x, v, 0, 0)] ELSE writer[u]
    BY <2>1
  <2>4. CASE u = w
    BY <2>2, <2>3, <2>4
  <2>5. CASE u # w
    BY <2>3, <2>5
  <2> QED  BY <2>4, <2>5
<1>4. ASSUME NEW w \in Writers, writer' = [writer EXCEPT ![w] = NotWriting] PROVE WriterInv(u)'
  <2>1. writer'[u] = IF u = w THEN NotWriting ELSE writer[u]
    BY <1>4
  <2> QED  BY <2>1 DEF NotWriting
<1> QED
  BY <1>1, <1>2, <1>3, <1>4, LogNextCases DEF AppendLine, Tear, Forget

LEMMA LinesStep ==
  ASSUME LogInv, [EventLogNext]_logVars, NEW g \in Files
  PROVE  LinesInv(g)'
<1>1. EventLogTypeOK /\ LinesInv(g) /\ torn[g] \in Nat
  BY DEF LogInv, EventLogTypeOK
<1>2. ASSUME lines'[g] = lines[g], torn'[g] >= torn[g], torn'[g] \in Nat PROVE LinesInv(g)'
  BY <1>1, <1>2 DEF LinesInv
<1>3. ASSUME NEW w \in Writers, AppendLine(w) PROVE LinesInv(g)'
  <2> PICK f \in Files : \E r \in RecordOf(f) :
          (Grows(f, r) \/ Garbles(f)) /\ torn' = torn
    BY <1>3, AppendCases
  <2>1. PICK r \in RecordOf(f) : (Grows(f, r) \/ Garbles(f)) /\ torn' = torn
    OBVIOUS
  <2>2. r \in LineType /\ r \notin {Half, Garbled}
    BY RecordFacts DEF Parses
  <2>3. CASE g # f
    <3>1. lines'[g] = lines[g]
      BY <2>1, <2>2, <2>3, <1>1, GrowsFacts, GarblesFacts
    <3> QED  BY <3>1, <2>1, <1>1, <1>2
  <2>4. CASE g = f /\ Grows(f, r)
    <3>1. /\ DOMAIN lines'[g] = DOMAIN lines[g] \cup {Len(lines[g]) + 1}
          /\ \A i \in DOMAIN lines[g] : lines'[g][i] = lines[g][i]
          /\ lines'[g][Len(lines[g]) + 1] = r
      <4>1. /\ Len(lines[f]) \in Nat
            /\ DOMAIN lines[f] = 1..Len(lines[f])
            /\ DOMAIN lines'[f] = 1..(Len(lines[f]) + 1)
        BY <2>2, <2>4, <1>1, GrowsFacts
      <4> QED  BY <2>2, <2>4, <1>1, <4>1, GrowsFacts
    <3>2. \A i \in DOMAIN lines[g] : lines[g][i] # Half
      <4>1. ~EndsHalf(g) /\ Len(lines[g]) \in Nat /\ DOMAIN lines[g] = 1..Len(lines[g])
        BY <2>2, <2>4, <1>1, GrowsFacts DEF Grows
      <4> QED  BY <4>1, <1>1 DEF EndsHalf, LinesInv
    <3> QED  BY <1>1, <2>1, <2>2, <2>4, <3>1, <3>2 DEF LinesInv
  <2>5. CASE g = f /\ Garbles(f)
    BY <1>1, <2>1, <2>5, GarblesFacts, TornLines DEF LinesInv
  <2> QED  BY <2>1, <2>3, <2>4, <2>5
<1>4. ASSUME NEW w \in Writers, Tear(w) PROVE LinesInv(g)'
  <2>1. PICK f \in Files :
          /\ \/ Grows(f, Half)
             \/ lines' = lines
          /\ torn' = [torn EXCEPT ![f] = @ + 1]
    BY <1>4, TearCases
  <2>2. /\ torn'[g] \in Nat /\ torn'[g] >= torn[g]
        /\ g = f => torn'[g] > 0
    BY <2>1, <1>1 DEF EventLogTypeOK
  <2>3. CASE g # f \/ lines' = lines
    <3>1. lines'[g] = lines[g]
      BY <2>1, <2>3, <1>1, TornLines, GrowsFacts
    <3> QED  BY <3>1, <2>2, <1>2
  <2>4. CASE g = f /\ Grows(f, Half)
    <3>1. /\ Len(lines[g]) \in Nat
          /\ DOMAIN lines[g] = 1..Len(lines[g])
          /\ DOMAIN lines'[g] = 1..(Len(lines[g]) + 1)
          /\ Len(lines'[g]) = Len(lines[g]) + 1
          /\ \A i \in DOMAIN lines[g] : lines'[g][i] = lines[g][i]
          /\ lines'[g][Len(lines[g]) + 1] = Half
          /\ ~EndsHalf(g)
      BY <2>4, <1>1, TornLines, GrowsFacts DEF Grows
    <3>2. \A i \in DOMAIN lines[g] : lines[g][i] # Half
      BY <3>1, <1>1 DEF EndsHalf, LinesInv
    <3> QED  BY <1>1, <2>2, <2>4, <3>1, <3>2 DEF LinesInv
  <2> QED  BY <2>1, <2>3, <2>4
<1>5. CASE UNCHANGED <<lines, torn>>
  BY <1>1, <1>2, <1>5
<1> QED  BY <1>3, <1>4, <1>5, LogNextCases DEF Takes, Prepare, Probe, Forget

\* What the readers see of a line more: its record, if it is whole.
LEMMA ReadableGrows ==
  ASSUME EventLogTypeOK, NEW f \in Files, NEW r \in LineType, Grows(f, r)
  PROVE  /\ Readable(f)' = IF Parses(r) THEN Readable(f) \cup {Len(lines[f]) + 1} ELSE Readable(f)
         /\ Len(lines[f]) + 1 \notin Readable(f)
         /\ Entries(f)' = IF Parses(r) THEN Entries(f) \cup {<<f, Len(lines[f]) + 1>>}
                          ELSE Entries(f)
         /\ <<f, Len(lines[f]) + 1>> \notin Entries(f)
<1>1. PICK n \in Nat : n = Len(lines[f])
  BY GrowsFacts
<1>2. /\ DOMAIN lines[f] = 1..n /\ DOMAIN lines'[f] = 1..(n + 1)
      /\ \A i \in 1..n : lines'[f][i] = lines[f][i]
      /\ lines'[f][n + 1] = r
  BY <1>1, GrowsFacts
<1>3. n + 1 \notin Readable(f)
  BY <1>2 DEF Readable
<1>4. Readable(f)' = IF Parses(r) THEN Readable(f) \cup {n + 1} ELSE Readable(f)
  <2>1. ASSUME NEW i \in 1..(n + 1)
        PROVE  i \in Readable(f)' <=> (i \in Readable(f) \/ (i = n + 1 /\ Parses(r)))
    <3>1. CASE i = n + 1
      BY <1>2, <1>3, <3>1 DEF Readable
    <3>2. CASE i \in 1..n
      BY <1>2, <3>2 DEF Readable
    <3> QED  BY <3>1, <3>2
  <2>2. Readable(f)' \subseteq 1..(n + 1) /\ Readable(f) \subseteq 1..n
    BY <1>2 DEF Readable
  <2> QED  BY <2>1, <2>2
<1>5. <<f, n + 1>> \notin Entries(f)
  BY <1>3 DEF Entries
<1>6. Entries(f)' = IF Parses(r) THEN Entries(f) \cup {<<f, n + 1>>} ELSE Entries(f)
  BY <1>4 DEF Entries
<1> QED  BY <1>1, <1>3, <1>4, <1>5, <1>6

LEMMA ReadableGarbles ==
  ASSUME EventLogTypeOK, NEW f \in Files, Garbles(f)
  PROVE  Readable(f)' = Readable(f) /\ Entries(f)' = Entries(f) /\ ~EndsHalf(f)'
<1>1. Readable(f)' = Readable(f)
  BY GarblesFacts, TornLines DEF Readable
<1>2. ~EndsHalf(f)'
  <2>1. lines'[f][Len(lines'[f])] = Garbled
    BY GarblesFacts
  <2> QED  BY <2>1, TornLines DEF EndsHalf
<1> QED  BY <1>1, <1>2 DEF Entries

LEMMA CountStep ==
  ASSUME LogInv, [EventLogNext]_logVars, NEW g \in Files
  PROVE  CountInv(g)'
<1>1. /\ EventLogTypeOK /\ IsFiniteSet(Entries(g)) /\ Cardinality(Entries(g)) \in Nat
      /\ acks[g] \in Nat /\ torn[g] \in Nat
      /\ acks[g] <= Cardinality(Entries(g)) + torn[g]
      /\ EndsHalf(g) => acks[g] < Cardinality(Entries(g)) + torn[g]
      /\ acks \in [Files -> Nat] /\ torn \in [Files -> Nat]
  BY FS_CardinalityType DEF LogInv, EventLogTypeOK, CountInv
<1>2. ASSUME lines'[g] = lines[g], acks'[g] = acks[g],
             torn'[g] \in Nat, torn'[g] >= torn[g]
      PROVE  CountInv(g)'
  <2>1. Entries(g)' = Entries(g)
    BY <1>2 DEF Entries, Readable
  <2>2. EndsHalf(g)' <=> EndsHalf(g)
    BY <1>2 DEF EndsHalf
  <2>3. acks'[g] <= Cardinality(Entries(g)) + torn'[g]
    BY <1>1, <1>2
  <2>4. EndsHalf(g) => acks'[g] < Cardinality(Entries(g)) + torn'[g]
    BY <1>1, <1>2
  <2> QED  BY <1>1, <2>1, <2>2, <2>3, <2>4 DEF CountInv
<1>3. ASSUME NEW w \in Writers, AppendLine(w) PROVE CountInv(g)'
  <2> PICK f \in Files : \E r \in RecordOf(f) :
          (Grows(f, r) \/ Garbles(f)) /\ acks' = [acks EXCEPT ![f] = @ + 1] /\ torn' = torn
    BY <1>3, AppendCases
  <2>1. PICK r \in RecordOf(f) :
          (Grows(f, r) \/ Garbles(f)) /\ acks' = [acks EXCEPT ![f] = @ + 1] /\ torn' = torn
    OBVIOUS
  <2>2. r \in LineType /\ Parses(r) /\ r # Half
    BY RecordFacts, TornLines
  <2>3. CASE g # f
    <3>1. lines'[g] = lines[g]
      BY <2>1, <2>2, <2>3, <1>1, GrowsFacts, GarblesFacts
    <3>2. acks'[g] = acks[g] /\ torn'[g] = torn[g]
      BY <2>1, <2>3, <1>1
    <3> QED  BY <3>1, <3>2, <1>1, <1>2
  <2>4. CASE g = f /\ Grows(f, r)
    <3>1. PICK e : /\ Entries(g)' = Entries(g) \cup {e} /\ e \notin Entries(g)
      BY <2>2, <2>4, <1>1, ReadableGrows
    <3>2. IsFiniteSet(Entries(g)') /\ Cardinality(Entries(g)') = Cardinality(Entries(g)) + 1
      BY <3>1, <1>1, FS_AddElement
    <3>3. ~EndsHalf(g)'
      <4>1. lines'[g][Len(lines'[g])] = r
        BY <2>2, <2>4, <1>1, GrowsFacts
      <4> QED  BY <4>1, <2>2 DEF EndsHalf
    <3>4. acks'[g] = acks[g] + 1 /\ torn'[g] = torn[g]
      BY <2>1, <2>4, <1>1
    <3>5. acks'[g] <= Cardinality(Entries(g)') + torn'[g]
      BY <3>2, <3>4, <1>1
    <3> QED  BY <3>2, <3>3, <3>5 DEF CountInv
  <2>5. CASE g = f /\ Garbles(f)
    <3>1. Entries(g)' = Entries(g) /\ ~EndsHalf(g)' /\ EndsHalf(g)
      BY <2>5, <1>1, ReadableGarbles DEF Garbles
    <3>2. acks'[g] = acks[g] + 1 /\ torn'[g] = torn[g]
      BY <2>1, <2>5, <1>1
    <3>3. acks'[g] <= Cardinality(Entries(g)) + torn'[g]
      BY <3>1, <3>2, <1>1
    <3> QED  BY <3>1, <3>3, <1>1 DEF CountInv
  <2> QED  BY <2>1, <2>3, <2>4, <2>5
<1>4. ASSUME NEW w \in Writers, Tear(w) PROVE CountInv(g)'
  <2>1. PICK f \in Files :
          /\ \/ Grows(f, Half)
             \/ lines' = lines
          /\ torn' = [torn EXCEPT ![f] = @ + 1]
          /\ acks' = acks
    BY <1>4, TearCases
  <2>2. /\ torn'[g] \in Nat /\ torn'[g] >= torn[g] /\ acks'[g] = acks[g]
        /\ g = f => torn'[g] = torn[g] + 1
    BY <2>1, <1>1
  <2>3. CASE g # f \/ lines' = lines
    <3>1. lines'[g] = lines[g]
      BY <2>1, <2>3, <1>1, TornLines, GrowsFacts
    <3> QED  BY <3>1, <2>2, <1>2
  <2>4. CASE g = f /\ Grows(f, Half)
    <3>1. Entries(g)' = Entries(g)
      BY <2>4, <1>1, TornLines, ReadableGrows
    <3>2. acks'[g] < Cardinality(Entries(g)) + torn'[g]
      BY <2>2, <2>4, <1>1
    <3>3. acks'[g] <= Cardinality(Entries(g)) + torn'[g]
      BY <2>2, <2>4, <1>1
    <3> QED  BY <3>1, <3>2, <3>3, <1>1 DEF CountInv
  <2> QED  BY <2>1, <2>3, <2>4
<1>5. CASE UNCHANGED <<lines, acks, torn>>
  BY <1>1, <1>2, <1>5
<1> QED  BY <1>3, <1>4, <1>5, LogNextCases DEF Takes, Prepare, Probe, Forget

\* An append loses no record but its own, and that one with a half line.
LEMMA HoldsAppended ==
  ASSUME EventLogTypeOK, NEW f \in Files, NEW r \in LineType, Parses(r),
         answered' = [answered EXCEPT ![f] = @ \cup {r}]
  PROVE  /\ Grows(f, r) => Missing(f)' \subseteq Missing(f)
         /\ Garbles(f) => Missing(f)' \subseteq Missing(f) \cup {r}
<1>1. answered'[f] = answered[f] \cup {r}
  BY DEF EventLogTypeOK
<1>2. ASSUME Grows(f, r) PROVE Missing(f)' \subseteq Missing(f)
  <2>1. PICK n : n = Len(lines[f]) + 1
    OBVIOUS
  <2>2. Readable(f)' = Readable(f) \cup {n} /\ lines'[f][n] = r
    BY <1>2, <2>1, ReadableGrows, GrowsFacts
  <2>3. \A i \in Readable(f) : lines'[f][i] = lines[f][i]
    BY <1>2, GrowsFacts DEF Readable
  <2>4. Holds(f, r)'
    BY <2>2 DEF Holds
  <2>5. \A q : Holds(f, q) => Holds(f, q)'
    BY <2>2, <2>3 DEF Holds
  <2> QED  BY <1>1, <2>4, <2>5 DEF Missing
<1>3. ASSUME Garbles(f) PROVE Missing(f)' \subseteq Missing(f) \cup {r}
  <2>1. Readable(f)' = Readable(f)
    BY <1>3, ReadableGarbles
  <2>2. \A i \in Readable(f) : lines'[f][i] = lines[f][i]
    BY <1>3, GarblesFacts, TornLines DEF Readable
  <2>3. \A q : Holds(f, q) => Holds(f, q)'
    BY <2>1, <2>2 DEF Holds
  <2> QED  BY <1>1, <2>3 DEF Missing
<1> QED  BY <1>2, <1>3

LEMMA MissingStep ==
  ASSUME LogInv, [EventLogNext]_logVars, NEW g \in Files
  PROVE  MissingInv(g)'
<1>1. /\ EventLogTypeOK /\ IsFiniteSet(Missing(g)) /\ Cardinality(Missing(g)) \in Nat
      /\ torn[g] \in Nat
      /\ Cardinality(Missing(g)) <= torn[g]
      /\ EndsHalf(g) => Cardinality(Missing(g)) < torn[g]
      /\ torn \in [Files -> Nat]
  BY FS_CardinalityType DEF LogInv, EventLogTypeOK, MissingInv
<1>2. ASSUME lines'[g] = lines[g], answered'[g] = answered[g],
             torn'[g] \in Nat, torn'[g] >= torn[g]
      PROVE  MissingInv(g)'
  <2>1. Missing(g)' = Missing(g)
    BY <1>2 DEF Missing, Holds, Readable
  <2>2. EndsHalf(g)' <=> EndsHalf(g)
    BY <1>2 DEF EndsHalf
  <2>3. Cardinality(Missing(g)) <= torn'[g]
    BY <1>1, <1>2
  <2>4. EndsHalf(g) => Cardinality(Missing(g)) < torn'[g]
    BY <1>1, <1>2
  <2> QED  BY <1>1, <2>1, <2>2, <2>3, <2>4 DEF MissingInv
<1>3. ASSUME NEW w \in Writers, AppendLine(w) PROVE MissingInv(g)'
  <2> PICK f \in Files : \E r \in RecordOf(f) :
          /\ Grows(f, r) \/ Garbles(f)
          /\ answered' = [answered EXCEPT ![f] = @ \cup {r}] /\ torn' = torn
    BY <1>3, AppendCases
  <2>1. PICK r \in RecordOf(f) :
          /\ Grows(f, r) \/ Garbles(f)
          /\ answered' = [answered EXCEPT ![f] = @ \cup {r}] /\ torn' = torn
    OBVIOUS
  <2>2. r \in LineType /\ Parses(r) /\ r # Half
    BY RecordFacts, TornLines
  <2>3. CASE g # f
    <3>1. lines'[g] = lines[g]
      BY <2>1, <2>2, <2>3, <1>1, GrowsFacts, GarblesFacts
    <3>2. answered'[g] = answered[g] /\ torn'[g] = torn[g]
      BY <2>1, <2>3, <1>1 DEF EventLogTypeOK
    <3> QED  BY <3>1, <3>2, <1>1, <1>2
  <2>4. CASE g = f /\ Grows(f, r)
    <3>1. Missing(g)' \subseteq Missing(g)
      BY <2>1, <2>2, <2>4, <1>1, HoldsAppended
    <3>2. IsFiniteSet(Missing(g)') /\ Cardinality(Missing(g)') <= Cardinality(Missing(g))
      BY <3>1, <1>1, FS_Subset
    <3>3. ~EndsHalf(g)'
      <4>1. lines'[g][Len(lines'[g])] = r
        BY <2>2, <2>4, <1>1, GrowsFacts
      <4> QED  BY <4>1, <2>2 DEF EndsHalf
    <3>4. Cardinality(Missing(g)') \in Nat
      BY <3>2, FS_CardinalityType
    <3>5. Cardinality(Missing(g)') <= torn'[g]
      BY <3>2, <3>4, <2>1, <1>1
    <3> QED  BY <3>2, <3>3, <3>5 DEF MissingInv
  <2>5. CASE g = f /\ Garbles(f)
    <3>1. Missing(g)' \subseteq Missing(g) \cup {r}
      BY <2>1, <2>2, <2>5, <1>1, HoldsAppended
    <3>2. /\ IsFiniteSet(Missing(g) \cup {r})
          /\ Cardinality(Missing(g) \cup {r}) \in Nat
          /\ Cardinality(Missing(g) \cup {r}) <= Cardinality(Missing(g)) + 1
      <4> PICK M : M = Missing(g)
        OBVIOUS
      <4>1. /\ IsFiniteSet(M \cup {r})
            /\ r \in M => M \cup {r} = M
            /\ r \notin M => Cardinality(M \cup {r}) = Cardinality(M) + 1
        BY <1>1, FS_AddElement
      <4>2. Cardinality(M) \in Nat /\ Cardinality(M \cup {r}) \in Nat
        BY <1>1, <4>1, FS_CardinalityType
      <4> QED  BY <4>1, <4>2
    <3>3. /\ IsFiniteSet(Missing(g)')
          /\ Cardinality(Missing(g)') <= Cardinality(Missing(g) \cup {r})
      BY <3>1, <3>2, FS_Subset
    <3>4. Cardinality(Missing(g)') \in Nat
      BY <3>3, FS_CardinalityType
    <3>5. EndsHalf(g) /\ ~EndsHalf(g)'
      BY <2>5, <1>1, ReadableGarbles DEF Garbles
    <3>6. Cardinality(Missing(g)') <= torn'[g]
      BY <3>2, <3>3, <3>4, <3>5, <2>1, <1>1
    <3> QED  BY <3>3, <3>5, <3>6 DEF MissingInv
  <2> QED  BY <2>1, <2>3, <2>4, <2>5
<1>4. ASSUME NEW w \in Writers, Tear(w) PROVE MissingInv(g)'
  <2>1. PICK f \in Files :
          /\ \/ Grows(f, Half)
             \/ lines' = lines
          /\ torn' = [torn EXCEPT ![f] = @ + 1]
          /\ answered' = answered
    BY <1>4, TearCases
  <2>2. /\ torn'[g] \in Nat /\ torn'[g] >= torn[g]
        /\ g = f => torn'[g] = torn[g] + 1
    BY <2>1, <1>1
  <2>3. CASE g # f \/ lines' = lines
    <3>1. lines'[g] = lines[g]
      BY <2>1, <2>3, <1>1, TornLines, GrowsFacts
    <3> QED  BY <3>1, <2>1, <2>2, <1>2
  <2>4. CASE g = f /\ Grows(f, Half)
    <3>1. Missing(g)' = Missing(g)
      <4>1. Readable(g)' = Readable(g)
        BY <2>4, <1>1, TornLines, ReadableGrows
      <4>2. \A i \in Readable(g) : lines'[g][i] = lines[g][i]
        BY <2>4, <1>1, TornLines, GrowsFacts DEF Readable
      <4> QED  BY <4>1, <4>2, <2>1 DEF Missing, Holds
    <3>2. Cardinality(Missing(g)) < torn'[g] /\ Cardinality(Missing(g)) <= torn'[g]
      BY <2>2, <2>4, <1>1
    <3> QED  BY <3>1, <3>2, <1>1 DEF MissingInv
  <2> QED  BY <2>1, <2>3, <2>4
<1>5. CASE UNCHANGED <<lines, answered, torn>>
  BY <1>1, <1>2, <1>5
<1> QED  BY <1>3, <1>4, <1>5, LogNextCases DEF Takes, Prepare, Probe, Forget

\* A step that leaves the lines of shares alone and starts nothing about a share.
LEMMA ShareKept ==
  ASSUME NEW s \in Shares, ShareInv(s),
         lines'["trust_shares"] = lines["trust_shares"],
         torn'["trust_shares"] = 0 => torn["trust_shares"] = 0,
         s \in ended' => s \in ended,
         \A u \in Writers : writer'[u] = writer[u] \/ writer'[u].step # "append"
  PROVE  ShareInv(s)'
<1>1. Mine(s)' = Mine(s)
  BY DEF Mine, About, Readable
<1>2. ShareLine(1)' = ShareLine(1) /\ \A i : lines'["trust_shares"][i] = lines["trust_shares"][i]
  BY DEF ShareLine
<1>3. \A u \in Writers :
        /\ Pending(u, s, "created")' => Pending(u, s, "created")
        /\ Pending(u, s, "revoked")' => Pending(u, s, "revoked") /\ writer'[u] = writer[u]
  BY DEF Pending
<1> QED  BY <1>1, <1>2, <1>3 DEF ShareInv, ShareLine

LEMMA ShareTakes ==
  ASSUME LogInv, NEW w \in Writers, Takes(w), NEW s \in Shares
  PROVE  ShareInv(s)'
<1>1. EventLogTypeOK /\ ShareInv(s)
  BY DEF LogInv
<1> PICK f \in Files : \E r : Fits(f, r) /\ Prepare(w, f, r)
  BY DEF Takes
<1>2. PICK r : Fits(f, r) /\ Prepare(w, f, r)
  OBVIOUS
<1>3. /\ lines' = lines /\ torn' = torn /\ ended' = ended
      /\ \A u \in Writers : writer'[u] =
            IF u = w THEN [step |-> "append", file |-> f, record |-> r] ELSE writer[u]
  BY <1>1, <1>2 DEF Prepare, EventLogTypeOK
<1>4. Mine(s)' = Mine(s) /\ \A i : lines'["trust_shares"][i] = lines["trust_shares"][i]
  BY <1>3 DEF Mine, About, Readable
<1>5. \A v : Pending(w, s, v)' <=> (r.subject = s /\ r.value = v)
  BY <1>3 DEF Pending
<1>6. \A u \in Writers \ {w} : \A v : Pending(u, s, v)' <=> Pending(u, s, v)
  BY <1>3 DEF Pending
<1>7. r.value \in {"created", "revoked"} => f = "trust_shares"
  BY <1>2, RecordFacts DEF Fits
<1>8. Pending(w, s, "created")' =>
        Mine(s) = {} /\ \A u \in Writers, v \in {"created", "revoked"} : ~Pending(u, s, v)
  BY <1>2, <1>5, <1>7 DEF Fits, Pending
<1>9. Pending(w, s, "revoked")' /\ torn["trust_shares"] = 0 =>
        /\ Mine(s) # {}
        /\ \A i \in Mine(s) : ShareLine(i).at = r.at
  <2> SUFFICES ASSUME Pending(w, s, "revoked")', torn["trust_shares"] = 0
               PROVE  Mine(s) # {} /\ \A i \in Mine(s) : ShareLine(i).at = r.at
    OBVIOUS
  <2>1. r.subject = s /\ CurrentShare(s).value = "created" /\ r.at = CurrentShare(s).at
    BY <1>2, <1>5, <1>7 DEF Fits
  <2>2. Mine(s) # {}
    BY <2>1 DEF CurrentShare, Mine, NoRecord, Record
  <2>3. PICK i \in Mine(s) : CurrentShare(s) = ShareLine(i)
    BY <2>2, <1>1, CurrentShareFacts
  <2> QED  BY <2>1, <2>2, <2>3, <1>1 DEF ShareInv
<1>10. CASE torn["trust_shares"] # 0
  BY <1>3, <1>10 DEF ShareInv
<1>11. CASE torn["trust_shares"] = 0
  <2>1. /\ \A i, j \in Mine(s) : ShareLine(i).at = ShareLine(j).at
        /\ \A i, j \in Mine(s) : i < j => ShareLine(j).value = "revoked"
        /\ s \in ended => \E i \in Mine(s) : ShareLine(i).value = "revoked"
        /\ \A u \in Writers : Pending(u, s, "created") => Mine(s) = {}
    BY <1>1, <1>11 DEF ShareInv
  <2>2. ASSUME NEW u \in Writers, Pending(u, s, "created")'
        PROVE  Mine(s) = {} /\ \A x \in Writers \ {u} : ~Pending(x, s, "created")'
    <3>1. CASE u = w
      BY <1>6, <1>8, <2>2, <3>1
    <3>2. CASE u # w
      <4>1. Pending(u, s, "created")
        BY <1>6, <2>2, <3>2
      <4>2. Mine(s) = {} /\ \A x \in Writers \ {u} : ~Pending(x, s, "created")
        BY <1>1, <1>11, <4>1 DEF ShareInv
      <4>3. ~Pending(w, s, "created")'
        BY <1>8, <4>1
      <4> QED  BY <1>6, <4>2, <4>3
    <3> QED  BY <3>1, <3>2
  <2>3. ASSUME NEW u \in Writers, Pending(u, s, "revoked")'
        PROVE  Mine(s) # {} /\ \A i \in Mine(s) : ShareLine(i).at = writer'[u].record.at
    <3>1. CASE u = w
      BY <1>3, <1>9, <1>11, <2>3, <3>1
    <3>2. CASE u # w
      BY <1>1, <1>3, <1>6, <1>11, <2>3, <3>2 DEF ShareInv
    <3> QED  BY <3>1, <3>2
  <2> QED  BY <1>3, <1>4, <2>1, <2>2, <2>3 DEF ShareInv, ShareLine
<1> QED  BY <1>10, <1>11

LEMMA ShareAppends ==
  ASSUME LogInv, NEW w \in Writers, AppendLine(w), NEW s \in Shares
  PROVE  ShareInv(s)'
<1>1. EventLogTypeOK /\ ShareInv(s)
  BY DEF LogInv
<1> PICK f \in Files : \E r \in RecordOf(f) :
           /\ writer[w] = [step |-> "append", file |-> f, record |-> r]
           /\ Grows(f, r) \/ Garbles(f)
           /\ acks' = [acks EXCEPT ![f] = @ + 1]
           /\ answered' = [answered EXCEPT ![f] = @ \cup {r}]
           /\ ended' = IF r.value = "revoked" THEN ended \cup {r.subject} ELSE ended
           /\ writer' = [writer EXCEPT ![w] = NotWriting]
           /\ torn' = torn /\ now' = now
  BY AppendCases
<1>2. PICK r \in RecordOf(f) :
           /\ writer[w] = [step |-> "append", file |-> f, record |-> r]
           /\ Grows(f, r) \/ Garbles(f)
           /\ ended' = IF r.value = "revoked" THEN ended \cup {r.subject} ELSE ended
           /\ writer' = [writer EXCEPT ![w] = NotWriting]
           /\ torn' = torn
  OBVIOUS
<1>3. /\ r \in LineType /\ Parses(r) /\ (r.value = "revoked" => f = "trust_shares")
      /\ f = "trust_shares" => r.value \in {"created", "revoked"}
  BY RecordFacts
<1>4. \A u \in Writers : writer'[u] = IF u = w THEN NotWriting ELSE writer[u]
  BY <1>1, <1>2 DEF EventLogTypeOK
<1>5. CASE torn["trust_shares"] # 0
  BY <1>2, <1>5 DEF ShareInv
<1>6. CASE f # "trust_shares"
  <2>1. lines'["trust_shares"] = lines["trust_shares"]
    BY <1>1, <1>2, <1>3, <1>6, GrowsFacts, GarblesFacts DEF Files
  <2>2. ended' = ended /\ torn' = torn
    BY <1>2, <1>3, <1>6
  <2> QED  BY <1>1, <1>4, <2>1, <2>2, ShareKept DEF NotWriting
<1>7. CASE f = "trust_shares" /\ torn["trust_shares"] = 0
  <2>1. Grows("trust_shares", r) /\ "trust_shares" \in Files
    <3>1. "trust_shares" \in Files /\ LinesInv("trust_shares")
      BY DEF Files, LogInv
    <3>2. ~Garbles("trust_shares")
      BY <1>1, <1>7, <3>1, GarblesFacts DEF LinesInv
    <3> QED  BY <1>2, <1>7, <3>1, <3>2
  <2>2. PICK n \in Nat : n = Len(lines["trust_shares"]) /\ DOMAIN lines["trust_shares"] = 1..n
    BY <1>1, <1>3, <2>1, GrowsFacts
  <2>3. /\ Readable("trust_shares")' = Readable("trust_shares") \cup {n + 1}
        /\ Readable("trust_shares") \subseteq 1..n
    BY <1>1, <1>3, <2>1, <2>2, ReadableGrows DEF Readable
  <2>4. /\ \A i \in 1..n : lines'["trust_shares"][i] = lines["trust_shares"][i]
        /\ lines'["trust_shares"][n + 1] = r
    BY <1>1, <1>3, <2>1, <2>2, GrowsFacts
  <2>5. /\ Mine(s)' = IF r.subject = s THEN Mine(s) \cup {n + 1} ELSE Mine(s)
        /\ Mine(s) \subseteq 1..n
    BY <2>3, <2>4 DEF Mine, About
  <2>6. \A u \in Writers, v \in {"created", "revoked"} :
          Pending(u, s, v)' => u # w /\ Pending(u, s, v) /\ writer'[u] = writer[u]
    BY <1>4 DEF Pending, NotWriting
  <2>7. /\ \A i, j \in Mine(s) : ShareLine(i).at = ShareLine(j).at
        /\ \A i, j \in Mine(s) : i < j => ShareLine(j).value = "revoked"
        /\ s \in ended => \E i \in Mine(s) : ShareLine(i).value = "revoked"
        /\ \A u \in Writers : Pending(u, s, "created") =>
             Mine(s) = {} /\ \A x \in Writers \ {u} : ~Pending(x, s, "created")
        /\ \A u \in Writers : Pending(u, s, "revoked") =>
             Mine(s) # {} /\ \A i \in Mine(s) : ShareLine(i).at = writer[u].record.at
    BY <1>1, <1>7 DEF ShareInv
  <2>8. \A i \in Mine(s) : lines'["trust_shares"][i] = ShareLine(i)
    BY <2>4, <2>5 DEF ShareLine
  <2>9. CASE r.subject # s
    <3>1. Mine(s)' = Mine(s) /\ (s \in ended' => s \in ended)
      BY <1>2, <2>5, <2>9
    <3> QED  BY <2>6, <2>7, <2>8, <3>1 DEF ShareInv, ShareLine
  <2>10. CASE r.subject = s /\ r.value = "created"
    <3>1. Pending(w, s, "created")
      BY <1>2, <2>10 DEF Pending
    <3>2. Mine(s) = {} /\ Mine(s)' = {n + 1}
      BY <2>5, <2>7, <2>10, <3>1
    <3>3. \A u \in Writers : ~Pending(u, s, "created")' /\ ~Pending(u, s, "revoked")'
      BY <2>6, <2>7, <3>1, <3>2
    <3>4. s \notin ended'
      BY <1>2, <2>7, <2>10, <3>2
    <3> QED  BY <3>2, <3>3, <3>4 DEF ShareInv
  <2>11. CASE r.subject = s /\ r.value = "revoked"
    <3>1. Pending(w, s, "revoked") /\ writer[w].record = r
      BY <1>2, <2>11 DEF Pending
    <3>2. Mine(s) # {} /\ \A i \in Mine(s) : ShareLine(i).at = r.at
      BY <2>7, <3>1
    <3>3. Mine(s)' = Mine(s) \cup {n + 1} /\ \A i \in Mine(s) : i < n + 1
      BY <2>5, <2>11
    <3>4. \A i \in Mine(s)' : lines'["trust_shares"][i].at = r.at
      BY <2>4, <2>8, <3>2, <3>3
    <3>5. \A i, j \in Mine(s)' : i < j => lines'["trust_shares"][j].value = "revoked"
      BY <2>4, <2>5, <2>7, <2>8, <2>11, <3>3
    <3>6. \A u \in Writers : ~Pending(u, s, "created")'
      BY <2>6, <2>7, <3>2
    <3>7. \A u \in Writers : Pending(u, s, "revoked")' => writer'[u].record.at = r.at
      BY <2>6, <2>7, <3>2
    <3>8. \E i \in Mine(s)' : lines'["trust_shares"][i].value = "revoked"
      BY <2>4, <2>11, <3>3
    <3> QED  BY <3>2, <3>3, <3>4, <3>5, <3>6, <3>7, <3>8 DEF ShareInv, ShareLine
  <2> QED  BY <1>3, <1>7, <2>9, <2>10, <2>11
<1> QED  BY <1>5, <1>6, <1>7

LEMMA ShareStep ==
  ASSUME LogInv, [EventLogNext]_logVars, NEW s \in Shares
  PROVE  ShareInv(s)'
<1>1. EventLogTypeOK /\ ShareInv(s) /\ "trust_shares" \in Files
  BY DEF LogInv, Files
<1>2. CASE now' \in 0..MaxNow /\ UNCHANGED <<lines, writer, acks, answered, torn, ended>>
  BY <1>1, <1>2, ShareKept
<1>3. ASSUME NEW w \in Writers, NEW x \in Connectors, Probe(w, x) PROVE ShareInv(s)'
  <2>1. \A u \in Writers : writer'[u] = writer[u] \/ writer'[u].step # "append"
    BY <1>1, <1>3 DEF Probe, EventLogTypeOK
  <2>2. lines' = lines /\ torn' = torn /\ ended' = ended
    BY <1>3 DEF Probe
  <2> QED  BY <1>1, <2>1, <2>2, ShareKept
<1>4. ASSUME NEW w \in Writers, writer' = [writer EXCEPT ![w] = NotWriting]
      PROVE  \A u \in Writers : writer'[u] = writer[u] \/ writer'[u].step # "append"
  BY <1>1, <1>4 DEF NotWriting, EventLogTypeOK
<1>5. ASSUME NEW w \in Writers, Forget(w) PROVE ShareInv(s)'
  <2>1. lines' = lines /\ torn' = torn /\ ended' = ended /\ writer' = [writer EXCEPT ![w] = NotWriting]
    BY <1>5 DEF Forget
  <2> QED  BY <1>1, <1>4, <2>1, ShareKept
<1>6. ASSUME NEW w \in Writers, Tear(w) PROVE ShareInv(s)'
  <2>1. PICK f \in Files :
           /\ \/ Grows(f, Half)
              \/ lines' = lines
           /\ torn' = [torn EXCEPT ![f] = @ + 1]
           /\ writer' = [writer EXCEPT ![w] = NotWriting]
           /\ ended' = ended
    BY <1>6, TearCases
  <2>2. CASE f = "trust_shares"
    <3>1. torn'["trust_shares"] # 0
      BY <1>1, <2>1, <2>2 DEF EventLogTypeOK
    <3> QED  BY <3>1 DEF ShareInv
  <2>3. CASE f # "trust_shares"
    <3>1. lines'["trust_shares"] = lines["trust_shares"]
      BY <1>1, <2>1, <2>3, TornLines, GrowsFacts
    <3>2. torn'["trust_shares"] = torn["trust_shares"]
      BY <1>1, <2>1, <2>3 DEF EventLogTypeOK
    <3> QED  BY <1>1, <1>4, <2>1, <3>1, <3>2, ShareKept
  <2> QED  BY <2>2, <2>3
<1> QED  BY <1>2, <1>3, <1>5, <1>6, ShareTakes, ShareAppends, LogNextCases

LEMMA LogInitInv == EventLogInit => LogInv
<1> SUFFICES ASSUME EventLogInit PROVE LogInv
  OBVIOUS
<1>1. EventLogTypeOK
  BY TornLines, EventLogAssumption DEF EventLogInit, EventLogTypeOK, NotWriting, Files
<1>2. \A f \in Files : lines[f] = << >> /\ acks[f] = 0 /\ answered[f] = {} /\ torn[f] = 0
  BY DEF EventLogInit
<1>3. \A f \in Files : Readable(f) = {} /\ Entries(f) = {} /\ ~EndsHalf(f)
  BY <1>2 DEF Readable, Entries, EndsHalf
<1>4. \A f \in Files : LinesInv(f)
  <2>1. \A f \in Files : DOMAIN lines[f] = {}
    BY <1>2
  <2> QED  BY <2>1 DEF LinesInv
<1>5. \A f \in Files : CountInv(f)
  <2> SUFFICES ASSUME NEW f \in Files PROVE CountInv(f)
    OBVIOUS
  <2>1. IsFiniteSet(Entries(f)) /\ Cardinality(Entries(f)) = 0
    BY <1>3, FS_EmptySet
  <2> QED  BY <1>2, <1>3, <2>1 DEF CountInv
<1>6. \A w \in Writers : WriterInv(w)
  BY DEF EventLogInit, WriterInv, NotWriting
<1>7. \A f \in Files : MissingInv(f)
  <2> SUFFICES ASSUME NEW f \in Files PROVE MissingInv(f)
    OBVIOUS
  <2>1. Missing(f) = {}
    BY <1>2 DEF Missing
  <2> QED  BY <1>2, <1>3, <2>1, FS_EmptySet DEF MissingInv
<1>8. \A s \in Shares : ShareInv(s)
  BY <1>3 DEF EventLogInit, ShareInv, Mine, About, Pending, NotWriting, Files
<1> QED  BY <1>1, <1>4, <1>5, <1>6, <1>7, <1>8 DEF LogInv

\* The invariant of the logs.
THEOREM LogInvariant == EventLogSpec => []LogInv
<1>1. LogInv /\ [EventLogNext]_logVars => LogInv'
  BY LogTypeStep, WriterStep, LinesStep, CountStep, MissingStep,
     ShareStep DEF LogInv
<1> QED  BY LogInitInv, <1>1, PTL DEF EventLogSpec

\* Logs, requests and clock keep their types: EventLogTypeOK.
THEOREM LogsType == EventLogSpec => []EventLogTypeOK
<1>1. LogInv => EventLogTypeOK
  BY DEF LogInv
<1> QED  BY LogInvariant, <1>1, PTL

\* append_event, append_run_event, revoke_share and build_audit_log: of what was
\* answered the audit log misses at most as many records as writes stopped in the
\* middle, also when several lines were torn one after the other.
THEOREM AnsweredIsLogged == EventLogSpec => []AckedIsLogged
<1>1. LogInv => AckedIsLogged
  <2> SUFFICES ASSUME LogInv, NEW f \in Files
               PROVE  acks[f] - Cardinality({e \in AuditLog : e[1] = f}) <= torn[f]
    BY DEF AckedIsLogged
  <2>1. {e \in AuditLog : e[1] = f} = Entries(f)
    BY DEF AuditLog, Entries
  <2>2. acks[f] <= Cardinality(Entries(f)) + torn[f] /\ Cardinality(Entries(f)) \in Nat
    BY FS_CardinalityType DEF LogInv, CountInv
  <2>3. acks[f] \in Nat /\ torn[f] \in Nat
    BY DEF LogInv, EventLogTypeOK
  <2>4. acks[f] - Cardinality(Entries(f)) <= torn[f]
    BY <2>2, <2>3
  <2> QED  BY <2>1, <2>4
<1> QED  BY LogInvariant, <1>1, PTL

\* revoke_share and list_shares: a share whose revocation was answered is never
\* current as anything but revoked, unless a write to the log stopped.
THEOREM RevokedStays == EventLogSpec => []ShareStaysRevoked
<1>1. LogInv => ShareStaysRevoked
  <2> SUFFICES ASSUME LogInv, torn["trust_shares"] = 0, NEW s \in ended
               PROVE  CurrentShare(s).value = "revoked"
    BY DEF ShareStaysRevoked
  <2>1. s \in Shares /\ EventLogTypeOK
    BY DEF LogInv, EventLogTypeOK
  <2>2. /\ \A i, j \in Mine(s) : ShareLine(i).at = ShareLine(j).at
        /\ \A i, j \in Mine(s) : i < j => ShareLine(j).value = "revoked"
        /\ \E i \in Mine(s) : ShareLine(i).value = "revoked"
    BY <2>1 DEF LogInv, ShareInv
  <2>3. PICK i \in Mine(s) :
          /\ CurrentShare(s) = ShareLine(i)
          /\ \A j \in Mine(s) : i < j => SortsBefore(ShareLine(j).at, ShareLine(i).at)
    BY <2>1, <2>2, CurrentShareFacts
  <2>4. PICK j \in Mine(s) : ShareLine(j).value = "revoked"
    BY <2>2
  <2>5. i \in Nat /\ j \in Nat /\ ShareLine(i).at \in 0..MaxNow /\ MaxNow \in Nat
    BY <2>1, AboutFacts DEF Mine, ShareLine, Files
  <2>6. ~SortsBefore(ShareLine(j).at, ShareLine(i).at)
    <3>1. PICK t \in 0..MaxNow : t = ShareLine(i).at /\ t = ShareLine(j).at
      BY <2>2, <2>5
    <3>2. PICK a \in Nat : a = Second(t)
      BY <2>5 DEF Second
    <3>3. ~SortsBefore(t, t)
      BY <3>2 DEF SortsBefore
    <3> QED  BY <3>1, <3>3
  <2>7. ~(i < j)
    BY <2>3, <2>6
  <2>8. CASE i = j
    BY <2>3, <2>4, <2>8
  <2>9. CASE j < i
    BY <2>2, <2>3, <2>9
  <2> QED  BY <2>5, <2>7, <2>8, <2>9
<1> QED  BY LogInvariant, <1>1, PTL

\* latest_state, latest_config and latest_run after append_event, append_config_event
\* and append_run_event: of the answered changes at most as many as writes that
\* stopped are by a second or more newer than what is current.
THEOREM AnsweredCurrent == EventLogSpec => []AnsweredStaysCurrent
<1>1. ASSUME LogInv, NEW f \in Files
      PROVE  Cardinality({r \in answered[f] :
                 Second(Latest(f, r.subject).at) < Second(r.at)}) <= torn[f]
  <2> DEFINE Late == {r \in answered[f] : Second(Latest(f, r.subject).at) < Second(r.at)}
  <2>1. EventLogTypeOK /\ answered[f] \subseteq LineType /\ torn[f] \in Nat
    BY <1>1 DEF LogInv, EventLogTypeOK
  <2>2. ASSUME NEW r \in Late PROVE r \in Missing(f)
    <3> SUFFICES ASSUME NEW i \in Readable(f), lines[f][i] = r PROVE FALSE
      BY DEF Missing, Holds
    <3>1. i \in About(f, r.subject)
      BY DEF About
    <3>2. Second(r.at) <= Second(Latest(f, r.subject).at)
      BY <3>1, <2>1, LatestFacts
    <3>3. PICK k \in About(f, r.subject) : Latest(f, r.subject) = lines[f][k]
      BY <3>1, <2>1, LatestFacts
    <3>4. r.at \in Nat /\ Latest(f, r.subject).at \in Nat
      BY <3>1, <3>3, <2>1, AboutFacts
    <3>5. Second(r.at) \in Nat /\ Second(Latest(f, r.subject).at) \in Nat
      BY <3>4 DEF Second
    <3> QED  BY <3>2, <3>5
  <2>3. Late \subseteq Missing(f)
    BY <2>2
  <2>4. IsFiniteSet(Missing(f)) /\ Cardinality(Missing(f)) <= torn[f]
    BY <1>1 DEF LogInv, MissingInv
  <2>5. IsFiniteSet(Late) /\ Cardinality(Late) <= Cardinality(Missing(f))
    <3> HIDE DEF Late
    <3> QED  BY <2>3, <2>4, FS_Subset
  <2>6. Cardinality(Late) \in Nat /\ Cardinality(Missing(f)) \in Nat
    <3> HIDE DEF Late
    <3> QED  BY <2>4, <2>5, FS_CardinalityType
  <2> QED  BY <2>1, <2>4, <2>5, <2>6
<1>2. LogInv => AnsweredStaysCurrent
  BY <1>1 DEF AnsweredStaysCurrent
<1> QED  BY LogInvariant, <1>2, PTL

-----------------------------------------------------------------------------
(* FrameworkSync.  While a sync pulls, the registry stays as it read it, and *)
(* the entries it holds differ from it only for the sources it reached; and  *)
(* no report stands while the registry is being written.                     *)

Pulling ==
    [step : {"pull", "write"}, online : BOOLEAN, entries : [Frameworks -> Entry],
     results : UNION {[D -> States3] : D \in SUBSET Frameworks}]

\* The sync has moved the entry of f.
Reached(f) == f \in DOMAIN pull.results /\ pull.results[f] \in {"updated", "unchanged"}

PullInv ==
    /\ source \in [Frameworks -> 0..MaxBody] /\ registry \in [Frameworks -> Entry]
    /\ whole \in BOOLEAN /\ day \in 0..MaxDay
    /\ pull = NoPull \/ pull \in Pulling
    /\ told = NoReport \/ registry = told
    /\ ~whole => told = NoReport
    /\ pull.step = "write" => ~whole
    /\ pull.step = "pull" =>
         /\ whole
         /\ \A f \in Frameworks : ~Reached(f) => pull.entries[f] = registry[f]

LEMMA PullShape ==
  /\ NoPull.step = "idle" /\ DOMAIN NoPull.results = {} /\ NoPull.online \in BOOLEAN
  /\ \A p \in Pulling :
       /\ p.step \in {"pull", "write"} /\ p.online \in BOOLEAN
       /\ p.entries \in [Frameworks -> Entry]
       /\ DOMAIN p.results \subseteq Frameworks
       /\ \A f \in DOMAIN p.results : p.results[f] \in States3
<1>1. NoPull.step = "idle" /\ DOMAIN NoPull.results = {} /\ NoPull.online \in BOOLEAN
  BY DEF NoPull
<1>2. ASSUME NEW p \in Pulling
      PROVE  /\ p.step \in {"pull", "write"} /\ p.online \in BOOLEAN
             /\ p.entries \in [Frameworks -> Entry]
             /\ DOMAIN p.results \subseteq Frameworks
             /\ \A f \in DOMAIN p.results : p.results[f] \in States3
  <2>1. PICK D \in SUBSET Frameworks : p.results \in [D -> States3]
    BY DEF Pulling
  <2> QED  BY <2>1 DEF Pulling
<1> QED  BY <1>1, <1>2

\* A result more, and the entry of the source that was reached.
LEMMA ResultStep ==
  ASSUME PullInv, NEW f \in Frameworks, Awaits(f), NEW state \in States3, NEW entry \in Entry,
         state \notin {"updated", "unchanged"} => entry = pull.entries[f],
         pull'.step = pull.step, pull'.online = pull.online,
         pull'.entries = [pull.entries EXCEPT ![f] = entry],
         pull'.results = Result(f, state),
         DOMAIN pull' = DOMAIN pull,
         pull' = [step |-> pull'.step, online |-> pull'.online, entries |-> pull'.entries,
                  results |-> pull'.results],
         UNCHANGED <<registry, whole, told, day, source>>
  PROVE  PullInv'
<1>1. /\ pull \in Pulling /\ pull.step = "pull" /\ pull.online \in BOOLEAN
      /\ pull.entries \in [Frameworks -> Entry]
      /\ DOMAIN pull.results \subseteq Frameworks
      /\ \A g \in DOMAIN pull.results : pull.results[g] \in States3
      /\ f \notin DOMAIN pull.results
  BY PullShape DEF PullInv, Awaits
<1>2. /\ DOMAIN pull'.results = DOMAIN pull.results \cup {f}
      /\ pull'.results[f] = state
      /\ \A g \in DOMAIN pull.results : pull'.results[g] = pull.results[g]
      /\ pull'.results \in [DOMAIN pull.results \cup {f} -> States3]
  BY <1>1 DEF Result
<1>3. /\ pull'.entries \in [Frameworks -> Entry] /\ pull'.entries[f] = entry
      /\ \A g \in Frameworks \ {f} : pull'.entries[g] = pull.entries[g]
  BY <1>1
<1>4. pull'.results \in UNION {[D -> States3] : D \in SUBSET Frameworks}
  <2>1. PICK D \in SUBSET Frameworks : D = DOMAIN pull.results \cup {f}
    BY <1>1
  <2>2. pull'.results \in [D -> States3]
    BY <1>2, <2>1
  <2> QED  BY <2>2
<1>5. pull' \in Pulling
  BY <1>1, <1>3, <1>4 DEF Pulling
<1>6. ASSUME NEW g \in Frameworks, ~Reached(g)' PROVE pull'.entries[g] = registry[g]
  <2>1. CASE g = f
    <3>1. entry = pull.entries[f] /\ ~Reached(f)
      BY <1>1, <1>2, <1>6, <2>1 DEF Reached
    <3> QED  BY <1>1, <1>3, <2>1, <3>1 DEF PullInv
  <2>2. CASE g # f
    <3>1. ~Reached(g)
      BY <1>2, <1>6, <2>2 DEF Reached
    <3> QED  BY <1>1, <1>3, <2>2, <3>1 DEF PullInv
  <2> QED  BY <2>1, <2>2
<1> QED  BY <1>1, <1>5, <1>6 DEF PullInv

LEMMA PullStep ==
  ASSUME PullInv, [PullNext]_pullVars
  PROVE  PullInv'
<1>0. /\ source \in [Frameworks -> 0..MaxBody] /\ registry \in [Frameworks -> Entry]
      /\ whole \in BOOLEAN /\ day \in 0..MaxDay /\ MaxBody \in Nat /\ MaxDay \in Nat
      /\ pull = NoPull \/ pull \in Pulling
  BY FrameworkSyncAssumption DEF PullInv
<1>1. ASSUME UNCHANGED <<registry, whole, pull, told>>,
             source' \in [Frameworks -> 0..MaxBody], day' \in 0..MaxDay
      PROVE  PullInv'
  BY <1>1 DEF PullInv, Reached
<1>2. ASSUME NEW f \in Frameworks, Publish(f) PROVE PullInv'
  <2>1. source' \in [Frameworks -> 0..MaxBody]
    BY <1>0, <1>2 DEF Publish
  <2> QED  BY <1>0, <1>1, <1>2, <2>1 DEF Publish
<1>3. CASE NextDay
  BY <1>0, <1>1, <1>3 DEF NextDay
<1>4. CASE UNCHANGED pullVars
  BY <1>0, <1>1, <1>4 DEF pullVars
<1>5. CASE ReadRegistry
  <2>1. PICK online \in BOOLEAN :
          pull' = [step |-> "pull", online |-> online, entries |-> registry,
                   results |-> [f \in {} |-> "none"]]
    BY <1>5 DEF ReadRegistry
  <2>2. pull'.results \in [{} -> States3]
    BY <2>1
  <2>3. pull'.results \in UNION {[D -> States3] : D \in SUBSET Frameworks}
    BY <2>2
  <2>4. pull' \in Pulling
    BY <1>0, <2>1, <2>3 DEF Pulling
  <2> QED  BY <1>5, <2>1, <2>4 DEF ReadRegistry, PullInv
<1>6. ASSUME NEW f \in Frameworks, Pass(f) PROVE PullInv'
  <2>1. PICK state \in {"error", "skipped"} : pull' = [pull EXCEPT !.results = Result(f, state)]
    BY <1>6 DEF Pass
  <2>2. Awaits(f) /\ pull \in Pulling /\ UNCHANGED <<registry, whole, told, day, source>>
    BY <1>0, <1>6, PullShape DEF Pass, Awaits
  <2>3. PICK e \in Entry : e = pull.entries[f]
    BY <2>2, PullShape
  <2>4. /\ pull'.step = pull.step /\ pull'.online = pull.online
        /\ pull'.results = Result(f, state) /\ pull'.entries = pull.entries
        /\ DOMAIN pull' = DOMAIN pull
        /\ pull' = [step |-> pull'.step, online |-> pull'.online, entries |-> pull'.entries,
                    results |-> pull'.results]
    BY <2>1, <2>2 DEF Pulling
  <2>5. pull.entries = [pull.entries EXCEPT ![f] = e]
    BY <2>2, <2>3, PullShape
  <2>6. state \in States3 /\ state \notin {"updated", "unchanged"}
    BY DEF States3
  <2> QED  BY <2>2, <2>3, <2>4, <2>5, <2>6, ResultStep
<1>7. ASSUME NEW f \in Frameworks, Fetch(f) PROVE PullInv'
  <2>1. PICK state \in {"updated", "unchanged"} :
          pull' = [pull EXCEPT !.entries[f] = Pulled(f), !.results = Result(f, state)]
    BY <1>7 DEF Fetch
  <2>2. Awaits(f) /\ pull \in Pulling /\ UNCHANGED <<registry, whole, told, day, source>>
    BY <1>0, <1>7, PullShape DEF Fetch, Awaits
  <2>3. PICK e \in Entry : e = Pulled(f)
    BY <1>0 DEF Pulled, Entry
  <2>4. /\ pull'.step = pull.step /\ pull'.online = pull.online
        /\ pull'.results = Result(f, state)
        /\ pull'.entries = [pull.entries EXCEPT ![f] = e]
        /\ DOMAIN pull' = DOMAIN pull
        /\ pull' = [step |-> pull'.step, online |-> pull'.online, entries |-> pull'.entries,
                    results |-> pull'.results]
    BY <2>1, <2>2, <2>3 DEF Pulling
  <2>5. state \in States3
    BY DEF States3
  <2> QED  BY <2>1, <2>2, <2>4, <2>5, ResultStep
<1>8. CASE EmptyRegistry
  <2>1. pull \in Pulling /\ pull' = [pull EXCEPT !.step = "write"]
    BY <1>0, <1>8, PullShape DEF EmptyRegistry
  <2>2. pull' \in Pulling /\ pull'.step = "write"
    BY <2>1 DEF Pulling
  <2> QED  BY <1>0, <1>8, <2>2 DEF EmptyRegistry, PullInv
<1>9. CASE FillRegistry
  <2>1. pull.entries \in [Frameworks -> Entry]
    BY <1>0, <1>9, PullShape DEF FillRegistry
  <2> QED  BY <1>0, <1>9, <2>1, PullShape DEF FillRegistry, PullInv
<1>10. CASE ReturnUnwritten
  <2>1. /\ pull.step = "pull" /\ DOMAIN pull.results = Frameworks
        /\ pull.entries \in [Frameworks -> Entry] /\ whole
    BY <1>0, <1>10, PullShape DEF ReturnUnwritten, Finished, PullInv
  <2>2. whole' = TRUE /\ registry' = registry /\ told' = pull.entries /\ pull' = NoPull
    BY <1>10, <2>1 DEF ReturnUnwritten
  <2>3. \A f \in Frameworks : ~Reached(f)
    BY <1>10 DEF ReturnUnwritten, WritesBack, Reached
  <2>4. pull.entries = registry
    BY <1>0, <2>1, <2>3 DEF PullInv
  <2> QED  BY <1>0, <1>10, <2>1, <2>2, <2>4, PullShape DEF ReturnUnwritten, PullInv
<1>11. CASE PullDies
  BY <1>0, <1>11, PullShape DEF PullDies, PullInv
<1>12. CASE Restore
  BY <1>0, <1>12 DEF Restore, PullInv
<1> QED
  BY <1>2, <1>3, <1>4, <1>5, <1>6, <1>7, <1>8, <1>9, <1>10, <1>11, <1>12 DEF PullNext

LEMMA PullInitInv == PullInit => PullInv
<1> SUFFICES ASSUME PullInit PROVE PullInv
  OBVIOUS
<1>1. MaxBody \in Nat /\ MaxDay \in Nat
  BY FrameworkSyncAssumption
<1>2. [sha |-> 0, pulled |-> 0] \in Entry
  BY <1>1 DEF Entry
<1> QED  BY <1>1, <1>2, PullShape DEF PullInit, PullInv

\* The invariant of the framework sync.
THEOREM PullInvariant == PullSpec => []PullInv
<1> QED  BY PullInitInv, PullStep, PTL DEF PullSpec

\* The registry, the sources and the sync keep their types: PullTypeOK.
THEOREM PullType == PullSpec => []PullTypeOK
<1>1. PullInv => PullTypeOK
  BY PullShape DEF PullInv, PullTypeOK
<1> QED  BY PullInvariant, <1>1, PTL

\* sync_frameworks: the registry says of every framework what the latest report
\* that stands says, also of the ones whose source was not reached.
THEOREM SyncRecords == PullSpec => []SyncRecordsWhatItPulled
<1>1. PullInv => SyncRecordsWhatItPulled
  BY DEF PullInv, SyncRecordsWhatItPulled
<1> QED  BY PullInvariant, <1>1, PTL

-----------------------------------------------------------------------------
(* Migrations.  Whoever creates the first table of a revision is alone with *)
(* it: everyone else finds that table and raises.  So one upgrade at most   *)
(* has created tables that no stamp stands for yet, those of the revision   *)
(* after the stamp; and a stamp that was asked for never goes back.         *)

Running(u) == upgrade[u].made > 0

UpgradeInv(u) ==
    /\ \/ upgrade[u] = NotUpgrading
       \/ /\ upgrade[u].at \in 1..HeadRevision
          /\ upgrade[u].made \in 0..Len(Revisions[upgrade[u].at])
          /\ upgrade[u].target \in upgrade[u].at..HeadRevision
    /\ upgrade[u].at <= stamp + 1
    /\ Running(u) =>
         /\ ~atOnce
         /\ upgrade[u].at = stamp + 1
         /\ \A i \in 1..upgrade[u].made : Revisions[upgrade[u].at][i] \in tables
         /\ \A v \in Upgraders \ {u} : ~Running(v)
    /\ granted[u] <= stamp

\* Unless an upgrade was cut off, a table no stamp stands for is being made by one
\* that runs.
Accounted ==
    ~cut => \A t \in tables \ TablesUpTo(stamp) :
              \E u \in Upgraders : \E i \in 1..upgrade[u].made : t = Revisions[stamp + 1][i]

SchemaInv ==
    /\ SchemaTypeOK
    /\ \A u \in Upgraders : UpgradeInv(u)
    /\ TablesUpTo(stamp) \subseteq tables
    /\ Accounted

LEMMA RevisionValues ==
  /\ HeadRevision = 6
  /\ Len(Revisions[1]) = 2 /\ Len(Revisions[2]) = 2 /\ Len(Revisions[3]) = 1
  /\ Len(Revisions[4]) = 3 /\ Len(Revisions[5]) = 3 /\ Len(Revisions[6]) = 1
  /\ \A r \in 1..6 : DOMAIN Revisions[r] = 1..Len(Revisions[r])
  /\ Revisions[1][1] = "tenants" /\ Revisions[1][2] = "users"
  /\ Revisions[2][1] = "api_keys" /\ Revisions[2][2] = Scratch
  /\ Revisions[3][1] = "user_sessions"
  /\ Revisions[4][1] = "remediation_tasks" /\ Revisions[4][2] = "evidence_requests"
  /\ Revisions[4][3] = "control_exceptions"
  /\ Revisions[5][1] = "tags" /\ Revisions[5][2] = "entity_tags" /\ Revisions[5][3] = "saved_views"
  /\ Revisions[6][1] = "posture_metric_points"
<1>1. /\ Revisions[1] = Baseline /\ Revisions[2] = ApiKeys /\ Revisions[3] = UserSessions
      /\ Revisions[4] = RemediationTables /\ Revisions[5] = TagTables /\ Revisions[6] = MetricTables
      /\ HeadRevision = 6
  BY DEF Revisions, HeadRevision
<1>2. /\ Len(Baseline) = 2 /\ DOMAIN Baseline = 1..2
      /\ Len(ApiKeys) = 2 /\ DOMAIN ApiKeys = 1..2
      /\ Len(UserSessions) = 1 /\ DOMAIN UserSessions = 1..1
      /\ Len(RemediationTables) = 3 /\ DOMAIN RemediationTables = 1..3
      /\ Len(TagTables) = 3 /\ DOMAIN TagTables = 1..3
      /\ Len(MetricTables) = 1 /\ DOMAIN MetricTables = 1..1
  BY DEF Baseline, ApiKeys, UserSessions, RemediationTables, TagTables, MetricTables
<1>3. \A r \in 1..6 : DOMAIN Revisions[r] = 1..Len(Revisions[r])
  <2>1. \A r \in 1..6 : r = 1 \/ r = 2 \/ r = 3 \/ r = 4 \/ r = 5 \/ r = 6
    OBVIOUS
  <2> QED  BY <1>1, <1>2, <2>1
<1> QED
  BY <1>1, <1>2, <1>3
  DEF Baseline, ApiKeys, UserSessions, RemediationTables, TagTables, MetricTables

\* Where a table is made.
Place(t) ==
    CASE t = "tenants" -> <<1, 1>> [] t = "users" -> <<1, 2>>
      [] t = "api_keys" -> <<2, 1>> [] t = Scratch -> <<2, 2>>
      [] t = "user_sessions" -> <<3, 1>>
      [] t = "remediation_tasks" -> <<4, 1>> [] t = "evidence_requests" -> <<4, 2>>
      [] t = "control_exceptions" -> <<4, 3>>
      [] t = "tags" -> <<5, 1>> [] t = "entity_tags" -> <<5, 2>> [] t = "saved_views" -> <<5, 3>>
      [] t = "posture_metric_points" -> <<6, 1>>

\* Every table is made once, by one revision.
LEMMA RevisionFacts ==
  /\ HeadRevision = 6
  /\ \A r \in 1..HeadRevision : Len(Revisions[r]) \in 1..3 /\ Revisions[r][1] # Scratch
  /\ \A r, s \in 1..HeadRevision : \A i \in 1..Len(Revisions[r]), j \in 1..Len(Revisions[s]) :
       Revisions[r][i] = Revisions[s][j] => r = s /\ i = j
<1>1. \A r \in 1..6 : r = 1 \/ r = 2 \/ r = 3 \/ r = 4 \/ r = 5 \/ r = 6
  OBVIOUS
<1>2. \A r \in 1..6 : Len(Revisions[r]) \in 1..3 /\ Revisions[r][1] # Scratch
  BY <1>1, RevisionValues DEF Scratch
<1>3. ASSUME NEW r \in 1..6, NEW i \in 1..Len(Revisions[r])
      PROVE  Place(Revisions[r][i]) = <<r, i>>
  <2>1. i = 1 \/ i = 2 \/ i = 3
    <3>1. PICK k \in 1..3 : k = Len(Revisions[r])
      BY <1>2
    <3>2. i \in 1..k
      BY <3>1
    <3> QED  BY <3>2
  <2>2. /\ Place("tenants") = <<1, 1>> /\ Place("users") = <<1, 2>>
        /\ Place("api_keys") = <<2, 1>> /\ Place(Scratch) = <<2, 2>>
        /\ Place("user_sessions") = <<3, 1>>
        /\ Place("remediation_tasks") = <<4, 1>> /\ Place("evidence_requests") = <<4, 2>>
        /\ Place("control_exceptions") = <<4, 3>>
        /\ Place("tags") = <<5, 1>> /\ Place("entity_tags") = <<5, 2>>
        /\ Place("saved_views") = <<5, 3>> /\ Place("posture_metric_points") = <<6, 1>>
    BY DEF Place, Scratch
  <2>3. i \in 1..Len(Revisions[r])
    OBVIOUS
  <2>4. CASE r \in {1, 2}
    <3>1. CASE r = 1
      BY <2>1, <2>2, <2>3, <3>1, RevisionValues
    <3>2. CASE r = 2
      BY <2>1, <2>2, <2>3, <3>2, RevisionValues
    <3> QED  BY <2>4, <3>1, <3>2
  <2>5. CASE r \in {3, 6}
    BY <2>1, <2>2, <2>3, <2>5, RevisionValues
  <2>6. CASE r \in {4, 5}
    BY <2>1, <2>2, <2>3, <2>6, RevisionValues
  <2> QED  BY <1>1, <2>4, <2>5, <2>6
<1>4. ASSUME NEW r \in 1..6, NEW s \in 1..6,
             NEW i \in 1..Len(Revisions[r]), NEW j \in 1..Len(Revisions[s]),
             Revisions[r][i] = Revisions[s][j]
      PROVE  r = s /\ i = j
  <2>1. <<r, i>> = <<s, j>>
    BY <1>3, <1>4
  <2> QED  BY <2>1
<1> QED  BY <1>2, <1>4, RevisionValues

LEMMA TablesUpToFacts ==
  /\ \A n \in 0..HeadRevision : \A t :
       t \in TablesUpTo(n) <=>
         t # Scratch /\ \E r \in 1..n : \E i \in 1..Len(Revisions[r]) : t = Revisions[r][i]
  /\ \A n, m \in 0..HeadRevision : n <= m => TablesUpTo(n) \subseteq TablesUpTo(m)
  /\ TablesUpTo(0) = {}
<1>1. ASSUME NEW n \in 0..HeadRevision, NEW t
      PROVE  t \in TablesUpTo(n) <=>
               t # Scratch /\ \E r \in 1..n : \E i \in 1..Len(Revisions[r]) : t = Revisions[r][i]
  <2>1. n \in 0..6 /\ \A r \in 1..n : r \in 1..6
    BY RevisionValues
  <2>2. \A r \in 1..n : t \in ToSet(Revisions[r]) <=>
          \E i \in 1..Len(Revisions[r]) : t = Revisions[r][i]
    BY <2>1, RevisionValues DEF ToSet
  <2>3. t \in UNION {ToSet(Revisions[r]) : r \in 1..n} <=>
          \E r \in 1..n : t \in ToSet(Revisions[r])
    OBVIOUS
  <2>4. t \in TablesUpTo(n) <=>
          t # Scratch /\ t \in UNION {ToSet(Revisions[r]) : r \in 1..n}
    BY DEF TablesUpTo
  <2> QED  BY <2>2, <2>3, <2>4
<1>2. ASSUME NEW n \in 0..HeadRevision, NEW m \in 0..HeadRevision, n <= m
      PROVE  TablesUpTo(n) \subseteq TablesUpTo(m)
  <2>1. 1..n \subseteq 1..m
    BY <1>2, RevisionValues
  <2> QED  BY <1>1, <2>1
<1>3. TablesUpTo(0) = {}
  BY DEF TablesUpTo
<1> QED  BY <1>1, <1>2, <1>3

-----------------------------------------------------------------------------
(* The steps of an upgrade.                                                *)

LEMMA UpgradeType ==
  ASSUME SchemaInv, NEW u \in Upgraders
  PROVE  /\ upgrade[u] \in [at : 0..HeadRevision, made : 0..3, target : 0..HeadRevision]
         /\ upgrade[u].at \in Nat /\ upgrade[u].made \in Nat /\ upgrade[u].target \in Nat
         /\ stamp \in 0..HeadRevision /\ stamp \in Nat /\ HeadRevision = 6
         /\ granted[u] \in 0..HeadRevision /\ granted[u] \in Nat
         /\ ~Upgrading(u) => ~Running(u)
         /\ Upgrading(u) =>
              /\ upgrade[u].at \in 1..HeadRevision
              /\ upgrade[u].made \in 0..Len(Revisions[upgrade[u].at])
              /\ Len(Revisions[upgrade[u].at]) \in 1..3
              /\ upgrade[u].target \in upgrade[u].at..HeadRevision
<1>1. upgrade[u] \in [at : 0..HeadRevision, made : 0..3, target : 0..HeadRevision]
  BY DEF SchemaInv, SchemaTypeOK
<1>2. UpgradeInv(u) /\ HeadRevision = 6 /\ stamp \in 0..HeadRevision /\ granted[u] \in 0..HeadRevision
  BY RevisionFacts DEF SchemaInv, SchemaTypeOK
<1>3. upgrade[u].at \in Nat /\ upgrade[u].made \in Nat /\ upgrade[u].target \in Nat
  BY <1>1, <1>2
<1>4. ~Upgrading(u) => ~Running(u)
  BY DEF Upgrading, Running, NotUpgrading
<1>5. Upgrading(u) =>
              /\ upgrade[u].at \in 1..HeadRevision
              /\ upgrade[u].made \in 0..Len(Revisions[upgrade[u].at])
              /\ upgrade[u].target \in upgrade[u].at..HeadRevision
  BY <1>2 DEF Upgrading, UpgradeInv
<1>6. Upgrading(u) => Len(Revisions[upgrade[u].at]) \in 1..3
  BY <1>5, RevisionFacts
<1> QED  BY <1>1, <1>2, <1>3, <1>4, <1>5, <1>6

\* An upgrade whose next table is not there is at the revision after the stamp,
\* and the only one that has made a table.
LEMMA FirstComer ==
  ASSUME SchemaInv, NEW u \in Upgraders, Upgrading(u), ~AllMade(u), NextTable(u) \notin tables
  PROVE  /\ upgrade[u].at = stamp + 1
         /\ \A v \in Upgraders \ {u} : ~Running(v)
<1>1. PICK r \in 1..HeadRevision : r = upgrade[u].at
  BY UpgradeType
<1>2. PICK m \in Nat : m = upgrade[u].made
  BY UpgradeType
<1>3. UpgradeInv(u) /\ stamp \in 0..HeadRevision /\ HeadRevision = 6
  BY UpgradeType DEF SchemaInv
<1>4. Revisions[r][m + 1] \notin tables
  BY <1>1, <1>2 DEF NextTable
<1>5. ASSUME r <= stamp PROVE FALSE
  <2>1. m = 0
    BY <1>1, <1>2, <1>3, <1>5 DEF UpgradeInv, Running
  <2>2. Revisions[r][1] # Scratch /\ 1 \in 1..Len(Revisions[r]) /\ r \in 1..stamp
    BY <1>3, <1>5, RevisionFacts
  <2>3. Revisions[r][1] \in TablesUpTo(stamp)
    BY <1>3, <2>2, TablesUpToFacts
  <2> QED  BY <1>4, <2>1, <2>3 DEF SchemaInv
<1>6. r = stamp + 1
  <2>1. r <= stamp + 1
    BY <1>1, <1>3 DEF UpgradeInv
  <2> QED  BY <1>3, <1>5, <2>1
<1>7. ASSUME NEW v \in Upgraders \ {u}, Running(v) PROVE FALSE
  <2>1. UpgradeInv(v) /\ upgrade[v].made \in Nat
    BY UpgradeType DEF SchemaInv
  <2>2. ~Running(u)
    BY <1>7, <2>1 DEF UpgradeInv
  <2>3. m = 0
    BY <1>2, <2>2 DEF Running
  <2>4. upgrade[v].at = r /\ 1 \in 1..upgrade[v].made
    BY <1>6, <1>7, <2>1 DEF UpgradeInv, Running
  <2>5. Revisions[r][1] \in tables
    BY <1>7, <2>1, <2>4 DEF UpgradeInv
  <2> QED  BY <1>4, <2>3, <2>5
<1> QED  BY <1>1, <1>6, <1>7

LEMMA NotUpgradingFacts ==
  /\ NotUpgrading \in [at : 0..HeadRevision, made : 0..3, target : 0..HeadRevision]
  /\ NotUpgrading.at = 0 /\ NotUpgrading.made = 0
  BY RevisionFacts DEF NotUpgrading

\* One that made no table begins, asks, or leaves.
LEMMA IdleStep ==
  ASSUME SchemaInv, NEW u \in Upgraders, NEW new, NEW g \in 0..HeadRevision,
         new \in [at : 0..HeadRevision, made : 0..3, target : 0..HeadRevision],
         \/ new = NotUpgrading
         \/ new.at = stamp + 1 /\ new.at \in 1..HeadRevision /\ new.target \in new.at..HeadRevision,
         new.made = 0, ~Running(u) \/ cut',
         upgrade' = [upgrade EXCEPT ![u] = new],
         granted' = [granted EXCEPT ![u] = g], g <= stamp,
         cut' \in BOOLEAN, cut => cut',
         UNCHANGED <<atOnce, tables, stamp>>
  PROVE  SchemaInv'
<1>1. SchemaTypeOK'
  BY DEF SchemaInv, SchemaTypeOK
<1>2. \A v \in Upgraders : upgrade'[v] = IF v = u THEN new ELSE upgrade[v]
  BY DEF SchemaInv, SchemaTypeOK
<1>3. \A v \in Upgraders : granted'[v] = IF v = u THEN g ELSE granted[v]
  BY DEF SchemaInv, SchemaTypeOK
<1>4. \A v \in Upgraders : Running(v)' => v # u /\ Running(v)
  BY <1>2 DEF Running
<1>5. stamp \in Nat /\ HeadRevision = 6
  BY UpgradeType
<1>6. ASSUME NEW v \in Upgraders PROVE UpgradeInv(v)'
  <2>1. CASE v = u
    <3>1. new.made \in 0..Len(Revisions[new.at]) \/ new = NotUpgrading
      BY RevisionFacts
    <3>2. new.at <= stamp + 1
      BY <1>5, NotUpgradingFacts
    <3>3. upgrade'[v] = new /\ granted'[v] = g /\ ~Running(v)' /\ stamp' = stamp
      BY <1>2, <1>3, <1>4, <2>1
    <3> QED  BY <3>1, <3>2, <3>3 DEF UpgradeInv
  <2>2. CASE v # u
    <3>1. UpgradeInv(v) /\ upgrade'[v] = upgrade[v] /\ granted'[v] = granted[v]
      BY <1>2, <1>3, <2>2 DEF SchemaInv
    <3>2. Running(v)' <=> Running(v)
      BY <3>1 DEF Running
    <3> QED  BY <1>4, <3>1, <3>2 DEF UpgradeInv
  <2> QED  BY <2>1, <2>2
<1>7. Accounted'
  <2> SUFFICES ASSUME ~cut', NEW t \in tables \ TablesUpTo(stamp)
               PROVE  \E v \in Upgraders : \E i \in 1..upgrade'[v].made : t = Revisions[stamp + 1][i]
    BY DEF Accounted
  <2>1. PICK v \in Upgraders : \E i \in 1..upgrade[v].made : t = Revisions[stamp + 1][i]
    BY DEF SchemaInv, Accounted
  <2>2. Running(v)
    BY <2>1, UpgradeType DEF Running
  <2>3. upgrade'[v] = upgrade[v]
    BY <1>2, <2>2
  <2> QED  BY <2>1, <2>3
<1>8. (TablesUpTo(stamp) \subseteq tables)'
  BY DEF SchemaInv
<1> QED  BY <1>1, <1>6, <1>7, <1>8 DEF SchemaInv

LEMMA BeginStep ==
  ASSUME SchemaInv, NEW u \in Upgraders, BeginUpgrade(u)
  PROVE  SchemaInv'
<1>1. PICK target \in 1..HeadRevision :
         IF target <= stamp
         THEN /\ granted' = [granted EXCEPT ![u] = target]
              /\ UNCHANGED upgrade
         ELSE /\ upgrade' = [upgrade EXCEPT ![u] =
                               [at |-> stamp + 1, made |-> 0, target |-> target]]
              /\ granted' = [granted EXCEPT ![u] = 0]
  BY DEF BeginUpgrade
<1>2. /\ UNCHANGED <<atOnce, tables, stamp, cut>> /\ ~Upgrading(u) /\ ~Running(u)
      /\ stamp \in Nat /\ HeadRevision = 6 /\ cut \in BOOLEAN
      /\ upgrade[u] = NotUpgrading
  BY UpgradeType DEF BeginUpgrade, SchemaInv, SchemaTypeOK, Upgrading
<1>3. CASE target <= stamp
  <2>1. granted' = [granted EXCEPT ![u] = target] /\ upgrade' = upgrade
    BY <1>1, <1>3
  <2>2. upgrade' = [upgrade EXCEPT ![u] = NotUpgrading]
    BY <1>2, <2>1 DEF SchemaInv, SchemaTypeOK
  <2>3. PICK new : new = NotUpgrading
    OBVIOUS
  <2>4. /\ new \in [at : 0..HeadRevision, made : 0..3, target : 0..HeadRevision]
        /\ new.made = 0
    BY <2>3, NotUpgradingFacts
  <2>5. target \in 0..HeadRevision /\ target <= stamp
    BY <1>2, <1>3
  <2>6. cut' \in BOOLEAN /\ (cut => cut') /\ UNCHANGED <<atOnce, tables, stamp>>
    BY <1>2
  <2> QED  BY <1>2, <2>1, <2>2, <2>3, <2>4, <2>5, <2>6, IdleStep
<1>4. CASE ~(target <= stamp)
  <2>1. PICK new : new = [at |-> stamp + 1, made |-> 0, target |-> target]
    OBVIOUS
  <2>2. /\ new.at = stamp + 1 /\ new.at \in 1..HeadRevision /\ new.made = 0
        /\ new.target \in new.at..HeadRevision
        /\ new \in [at : 0..HeadRevision, made : 0..3, target : 0..HeadRevision]
    BY <1>2, <1>4, <2>1
  <2>3. 0 \in 0..HeadRevision /\ 0 <= stamp
    BY <1>2
  <2>4. upgrade' = [upgrade EXCEPT ![u] = new] /\ granted' = [granted EXCEPT ![u] = 0]
    BY <1>1, <1>4, <2>1
  <2> QED  BY <1>2, <2>2, <2>3, <2>4, IdleStep
<1> QED  BY <1>3, <1>4

LEMMA LeaveStep ==
  ASSUME SchemaInv, NEW u \in Upgraders, UpgradeRaises(u) \/ UpgradeDies(u)
  PROVE  SchemaInv'
<1>1. /\ upgrade' = [upgrade EXCEPT ![u] = NotUpgrading] /\ Upgrading(u)
      /\ UNCHANGED <<atOnce, tables, stamp, granted>>
  BY DEF UpgradeRaises, UpgradeDies
<1>2. /\ UpgradeInv(u) /\ upgrade[u].at \in 1..HeadRevision
      /\ upgrade[u].made \in 0..Len(Revisions[upgrade[u].at])
      /\ Len(Revisions[upgrade[u].at]) \in 1..3
      /\ stamp \in 0..HeadRevision /\ HeadRevision = 6 /\ cut \in BOOLEAN
      /\ granted[u] \in 0..HeadRevision /\ granted[u] <= stamp
  BY <1>1, UpgradeType DEF SchemaInv, SchemaTypeOK, UpgradeInv
<1>3. PICK g \in 0..HeadRevision : g = granted[u]
  BY <1>2
<1>4. granted' = [granted EXCEPT ![u] = g] /\ g <= stamp
  BY <1>1, <1>2, <1>3 DEF SchemaInv, SchemaTypeOK
<1>5. ASSUME UpgradeRaises(u), Running(u), ~cut PROVE FALSE
  <2>1. PICK m \in 1..3 : m = upgrade[u].made /\ m + 1 \in 1..Len(Revisions[stamp + 1])
                          /\ stamp + 1 \in 1..HeadRevision /\ upgrade[u].at = stamp + 1
    BY <1>2, <1>5 DEF UpgradeRaises, AllMade, Running, UpgradeInv
  <2>2. Revisions[stamp + 1][m + 1] \in tables
    BY <1>5, <2>1 DEF UpgradeRaises, NextTable
  <2>3. Revisions[stamp + 1][m + 1] \notin TablesUpTo(stamp)
    <3> SUFFICES ASSUME Revisions[stamp + 1][m + 1] \in TablesUpTo(stamp) PROVE FALSE
      OBVIOUS
    <3>1. stamp \in 0..HeadRevision
      BY <1>2
    <3>2. PICK r \in 1..stamp : \E i \in 1..Len(Revisions[r]) :
                                   Revisions[stamp + 1][m + 1] = Revisions[r][i]
      BY <3>1, TablesUpToFacts
    <3>3. PICK i \in 1..Len(Revisions[r]) : Revisions[stamp + 1][m + 1] = Revisions[r][i]
      BY <3>2
    <3>4. r \in 1..HeadRevision /\ r # stamp + 1
      BY <1>2
    <3> QED  BY <2>1, <3>3, <3>4, RevisionFacts
  <2>4. PICK v \in Upgraders : \E i \in 1..upgrade[v].made :
                                 Revisions[stamp + 1][m + 1] = Revisions[stamp + 1][i]
    BY <1>5, <2>2, <2>3 DEF SchemaInv, Accounted
  <2>5. Running(v)
    BY <2>4, UpgradeType DEF Running
  <2>6. v = u
    BY <1>2, <1>5, <2>5 DEF UpgradeInv
  <2>7. PICK i \in 1..m : Revisions[stamp + 1][m + 1] = Revisions[stamp + 1][i]
    BY <2>1, <2>4, <2>6
  <2>8. i \in 1..Len(Revisions[stamp + 1])
    BY <1>2, <2>1
  <2>9. i = m + 1
    BY <2>1, <2>7, <2>8, RevisionFacts
  <2> QED  BY <2>9
<1>6. cut' \in BOOLEAN /\ (cut => cut') /\ (~Running(u) \/ cut')
  BY <1>2, <1>5 DEF UpgradeRaises, UpgradeDies, Running
<1> QED  BY <1>1, <1>4, <1>6, NotUpgradingFacts, IdleStep

LEMMA CreateStep ==
  ASSUME SchemaInv, NEW u \in Upgraders, CreateTable(u)
  PROVE  SchemaInv'
<1>1. /\ ~atOnce /\ Upgrading(u) /\ ~AllMade(u) /\ NextTable(u) \notin tables
      /\ tables' = tables \cup {NextTable(u)}
      /\ upgrade' = [upgrade EXCEPT ![u].made = @ + 1]
      /\ UNCHANGED <<atOnce, stamp, granted, cut>>
  BY DEF CreateTable
<1>2. upgrade[u].at = stamp + 1 /\ \A v \in Upgraders \ {u} : ~Running(v)
  BY <1>1, FirstComer
<1>3. PICK m \in Nat : m = upgrade[u].made
  BY UpgradeType
<1>4. /\ m + 1 \in 1..Len(Revisions[stamp + 1]) /\ Len(Revisions[stamp + 1]) \in 1..3
      /\ stamp + 1 \in 1..HeadRevision /\ HeadRevision = 6 /\ stamp \in Nat
      /\ NextTable(u) = Revisions[stamp + 1][m + 1]
      /\ upgrade[u].target \in upgrade[u].at..HeadRevision
  BY <1>1, <1>2, <1>3, UpgradeType DEF AllMade, NextTable
<1>5. PICK t : t = Revisions[stamp + 1][m + 1] /\ tables' = tables \cup {t}
  BY <1>1, <1>4
<1>6. \A v \in Upgraders \ {u} : upgrade'[v] = upgrade[v]
  BY <1>1 DEF SchemaInv, SchemaTypeOK
<1>7. /\ upgrade'[u].at = stamp + 1 /\ upgrade'[u].made = m + 1
      /\ upgrade'[u].target = upgrade[u].target
      /\ upgrade' \in [Upgraders -> [at : 0..HeadRevision, made : 0..3, target : 0..HeadRevision]]
  <2>1. m + 1 \in 0..3
    BY <1>4
  <2> QED  BY <1>1, <1>2, <1>3, <2>1 DEF SchemaInv, SchemaTypeOK
<1>8. t \in TablesUpTo(HeadRevision) \cup {Scratch}
  BY <1>4, <1>5, TablesUpToFacts
<1>9. SchemaTypeOK'
  BY <1>1, <1>5, <1>7, <1>8 DEF SchemaInv, SchemaTypeOK
<1>10. ASSUME NEW v \in Upgraders PROVE UpgradeInv(v)'
  <2>1. CASE v = u
    <3>1. \A i \in 1..(m + 1) : Revisions[stamp + 1][i] \in tables'
      <4> SUFFICES ASSUME NEW i \in 1..(m + 1) PROVE Revisions[stamp + 1][i] \in tables'
        OBVIOUS
      <4>1. CASE i = m + 1
        BY <1>5, <4>1
      <4>2. CASE i # m + 1
        BY <1>2, <1>3, <1>5, <4>2 DEF SchemaInv, UpgradeInv, Running
      <4> QED  BY <4>1, <4>2
    <3>2. \A x \in Upgraders \ {u} : ~Running(x)'
      BY <1>2, <1>6 DEF Running
    <3>3. granted'[u] <= stamp
      BY <1>1 DEF SchemaInv, UpgradeInv
    <3>4. m + 1 \in 0..Len(Revisions[stamp + 1])
      BY <1>4
    <3> QED  BY <1>1, <1>2, <1>4, <1>7, <2>1, <3>1, <3>2, <3>3, <3>4 DEF UpgradeInv
  <2>2. CASE v # u
    <3>1. upgrade'[v] = upgrade[v] /\ ~Running(v)' /\ UpgradeInv(v)
      BY <1>2, <1>6, <2>2 DEF Running, SchemaInv
    <3> QED  BY <1>1, <3>1 DEF UpgradeInv
  <2> QED  BY <2>1, <2>2
<1>11. Accounted'
  <2> SUFFICES ASSUME ~cut, NEW x \in tables' \ TablesUpTo(stamp)
               PROVE  \E v \in Upgraders : \E i \in 1..upgrade'[v].made : x = Revisions[stamp + 1][i]
    BY <1>1 DEF Accounted
  <2>1. CASE x = t
    <3>1. m + 1 \in 1..upgrade'[u].made
      BY <1>7
    <3> QED  BY <1>5, <2>1, <3>1
  <2>2. CASE x # t
    <3>1. PICK v \in Upgraders : \E i \in 1..upgrade[v].made : x = Revisions[stamp + 1][i]
      BY <1>5, <2>2 DEF SchemaInv, Accounted
    <3>2. Running(v)
      BY <3>1, UpgradeType DEF Running
    <3>3. v = u
      BY <1>2, <3>2
    <3>4. PICK i \in 1..m : x = Revisions[stamp + 1][i]
      BY <1>3, <3>1, <3>3
    <3>5. i \in 1..upgrade'[u].made
      BY <1>7
    <3> QED  BY <3>4, <3>5
  <2> QED  BY <2>1, <2>2
<1>12. TablesUpTo(stamp') \subseteq tables'
  BY <1>1, <1>5 DEF SchemaInv
<1> QED  BY <1>9, <1>10, <1>11, <1>12 DEF SchemaInv

\* A stamp is written by the one upgrade that made tables, for the tables it made.
LEMMA StampStep ==
  ASSUME SchemaInv, NEW u \in Upgraders, StampRevision(u)
  PROVE  SchemaInv'
<1>1. PICK m \in 1..3 : m = upgrade[u].made
  BY UpgradeType DEF StampRevision, AllMade
<1>2. /\ ~atOnce /\ Upgrading(u) /\ Running(u) /\ UpgradeInv(u)
      /\ stamp \in 0..HeadRevision /\ HeadRevision = 6
      /\ upgrade[u].at = stamp + 1 /\ stamp + 1 \in 1..HeadRevision
      /\ m = Len(Revisions[stamp + 1])
      /\ upgrade[u].target \in (stamp + 1)..HeadRevision
      /\ tables' = tables \ {Scratch} /\ stamp' = stamp + 1
      /\ UNCHANGED <<atOnce, cut>>
  <2>1. /\ ~atOnce /\ Upgrading(u) /\ AllMade(u) /\ stamp = upgrade[u].at - 1
        /\ tables' = tables \ {Scratch} /\ stamp' = upgrade[u].at
        /\ UNCHANGED <<atOnce, cut>>
    BY DEF StampRevision
  <2>2. upgrade[u].at = stamp + 1
    BY <2>1, UpgradeType
  <2>3. Running(u)
    BY <1>1 DEF Running
  <2>4. UpgradeInv(u)
    BY DEF SchemaInv
  <2> QED  BY <1>1, <2>1, <2>2, <2>3, <2>4, UpgradeType DEF AllMade
<1>3. \A v \in Upgraders \ {u} : ~Running(v)
  BY <1>2 DEF UpgradeInv
<1>4. \A i \in 1..m : Revisions[stamp + 1][i] \in tables
  BY <1>1, <1>2 DEF UpgradeInv
<1>5. PICK new : new = IF upgrade[u].at = upgrade[u].target THEN NotUpgrading
                       ELSE [upgrade[u] EXCEPT !.at = @ + 1, !.made = 0]
  OBVIOUS
<1>6. PICK g \in 0..HeadRevision : g = IF upgrade[u].at = upgrade[u].target
                                       THEN upgrade[u].target ELSE granted[u]
  BY UpgradeType
<1>7. g <= stamp + 1
  BY <1>2, <1>6, UpgradeType DEF UpgradeInv
<1>8. /\ new \in [at : 0..HeadRevision, made : 0..3, target : 0..HeadRevision]
      /\ new.made = 0 /\ new.at <= stamp + 2
      /\ \/ new = NotUpgrading
         \/ new.at \in 1..HeadRevision /\ new.target \in new.at..HeadRevision
  <2>1. CASE upgrade[u].at = upgrade[u].target
    BY <1>2, <1>5, <2>1, NotUpgradingFacts
  <2>2. CASE upgrade[u].at # upgrade[u].target
    <3>1. PICK target \in (stamp + 1)..HeadRevision : target = upgrade[u].target
      BY <1>2
    <3>2. target # stamp + 1
      BY <1>2, <2>2, <3>1
    <3>3. stamp + 2 \in 1..HeadRevision /\ target \in (stamp + 2)..HeadRevision
      BY <1>2, <3>1, <3>2
    <3>4. new = [upgrade[u] EXCEPT !.at = @ + 1, !.made = 0]
      BY <1>5, <2>2
    <3>5. upgrade[u] \in [at : 0..HeadRevision, made : 0..3, target : 0..HeadRevision]
      BY UpgradeType
    <3>6. new.at = upgrade[u].at + 1 /\ new.made = 0 /\ new.target = target
      BY <3>1, <3>4, <3>5
    <3>7. new.at = stamp + 2
      BY <1>2, <3>6
    <3>8. upgrade[u].at + 1 \in 0..HeadRevision /\ 0 \in 0..3
      BY <1>2, <3>3
    <3>9. new \in [at : 0..HeadRevision, made : 0..3, target : 0..HeadRevision]
      BY <3>4, <3>5, <3>8
    <3> QED  BY <1>2, <3>3, <3>6, <3>7, <3>9
  <2> QED  BY <2>1, <2>2
<1>9. upgrade' = [upgrade EXCEPT ![u] = new]
  <2>1. CASE upgrade[u].at = upgrade[u].target
    BY <1>5, <2>1 DEF StampRevision
  <2>2. CASE upgrade[u].at # upgrade[u].target
    <3>1. upgrade' = [upgrade EXCEPT ![u].at = @ + 1, ![u].made = 0]
      BY <2>2 DEF StampRevision
    <3>2. new = [upgrade[u] EXCEPT !.at = @ + 1, !.made = 0]
      BY <1>5, <2>2
    <3>3. upgrade \in [Upgraders -> [at : 0..HeadRevision, made : 0..3, target : 0..HeadRevision]]
      BY DEF SchemaInv, SchemaTypeOK
    <3> QED  BY <3>1, <3>2, <3>3
  <2> QED  BY <2>1, <2>2
<1>10. granted' = [granted EXCEPT ![u] = g]
  BY <1>2, <1>6 DEF StampRevision, SchemaInv, SchemaTypeOK
<1>11. \A v \in Upgraders : /\ upgrade'[v] = IF v = u THEN new ELSE upgrade[v]
                            /\ granted'[v] = IF v = u THEN g ELSE granted[v]
  BY <1>9, <1>10 DEF SchemaInv, SchemaTypeOK
<1>12. \A v \in Upgraders : ~Running(v)'
  BY <1>3, <1>8, <1>11 DEF Running
<1>13. SchemaTypeOK'
  BY <1>2, <1>8, <1>9, <1>10 DEF SchemaInv, SchemaTypeOK
<1>14. ASSUME NEW v \in Upgraders PROVE UpgradeInv(v)'
  <2>1. CASE v = u
    <3>1. new.made \in 0..Len(Revisions[new.at]) \/ new = NotUpgrading
      BY <1>8, RevisionFacts
    <3>2. new.at <= stamp' + 1 /\ g <= stamp'
      BY <1>2, <1>7, <1>8
    <3> QED  BY <1>8, <1>11, <1>12, <2>1, <3>1, <3>2 DEF UpgradeInv
  <2>2. CASE v # u
    <3>1. UpgradeInv(v) /\ upgrade'[v] = upgrade[v] /\ granted'[v] = granted[v]
      BY <1>11, <2>2 DEF SchemaInv
    <3>2. upgrade[v].at <= stamp' + 1 /\ granted[v] <= stamp'
      BY <1>2, <3>1, UpgradeType DEF UpgradeInv
    <3> QED  BY <1>12, <3>1, <3>2 DEF UpgradeInv
  <2> QED  BY <2>1, <2>2
<1>15. stamp' \in 0..HeadRevision
  BY <1>2
<1>16. ASSUME NEW t, t \in TablesUpTo(stamp') PROVE t \in tables'
  <2>1. PICK r \in 1..stamp' : t # Scratch /\ \E i \in 1..Len(Revisions[r]) : t = Revisions[r][i]
    BY <1>15, <1>16, TablesUpToFacts
  <2>2. CASE r = stamp + 1
    BY <1>2, <1>4, <2>1, <2>2
  <2>3. CASE r # stamp + 1
    <3>1. r \in 1..stamp
      BY <1>2, <2>3
    <3>2. t \in TablesUpTo(stamp)
      BY <1>2, <2>1, <3>1, TablesUpToFacts
    <3> QED  BY <1>2, <2>1, <3>2 DEF SchemaInv
  <2> QED  BY <2>2, <2>3
<1>17. ASSUME ~cut, NEW t \in tables', t \notin TablesUpTo(stamp') PROVE FALSE
  <2>1. stamp <= stamp' /\ stamp \in 0..HeadRevision
    BY <1>2
  <2>2. t \in tables \ TablesUpTo(stamp) /\ t # Scratch
    BY <1>2, <1>15, <1>17, <2>1, TablesUpToFacts
  <2>3. PICK v \in Upgraders : \E i \in 1..upgrade[v].made : t = Revisions[stamp + 1][i]
    BY <1>17, <2>2 DEF SchemaInv, Accounted
  <2>4. v = u
    <3>1. Running(v)
      BY <2>3, UpgradeType DEF Running
    <3> QED  BY <1>3, <3>1
  <2>5. \E i \in 1..Len(Revisions[stamp + 1]) : t = Revisions[stamp + 1][i]
    BY <1>1, <1>2, <2>3, <2>4
  <2>6. stamp + 1 \in 1..stamp'
    BY <1>2
  <2>7. t \in TablesUpTo(stamp')
    BY <1>15, <2>2, <2>5, <2>6, TablesUpToFacts
  <2> QED  BY <1>17, <2>7
<1>18. Accounted'
  BY <1>2, <1>17 DEF Accounted
<1>19. TablesUpTo(stamp') \subseteq tables'
  BY <1>16
<1> QED  BY <1>13, <1>14, <1>18, <1>19 DEF SchemaInv

\* In one transaction the tables and the stamp arrive together, and only from the
\* stamp the upgrade read.
LEMMA CommitStep ==
  ASSUME SchemaInv, NEW u \in Upgraders, CommitUpgrade(u)
  PROVE  SchemaInv'
<1>1. /\ atOnce /\ Upgrading(u) /\ NextTable(u) \notin tables
      /\ upgrade' = [upgrade EXCEPT ![u] = NotUpgrading]
      /\ UNCHANGED <<atOnce, cut>>
  BY DEF CommitUpgrade
<1>2. \A v \in Upgraders : ~Running(v)
  BY <1>1 DEF SchemaInv, UpgradeInv
<1>3. ~AllMade(u)
  <2>1. upgrade[u].made = 0
    BY <1>2, UpgradeType DEF Running
  <2>2. PICK k \in 1..3 : k = Len(Revisions[upgrade[u].at])
    BY <1>1, UpgradeType
  <2>3. upgrade[u].made # k
    BY <2>1
  <2> QED  BY <2>2, <2>3 DEF AllMade
<1>4. upgrade[u].at = stamp + 1
  BY <1>1, <1>3, FirstComer
<1>5. PICK target \in 0..HeadRevision : target = upgrade[u].target
  BY UpgradeType
<1>6. /\ tables' = TablesUpTo(target) /\ stamp' = target
      /\ granted' = [granted EXCEPT ![u] = target]
  BY <1>5 DEF CommitUpgrade
<1>7. stamp <= target /\ stamp \in 0..HeadRevision /\ HeadRevision = 6
  BY <1>1, <1>4, <1>5, UpgradeType
<1>8. TablesUpTo(target) \subseteq TablesUpTo(HeadRevision)
  <2>1. HeadRevision \in 0..HeadRevision /\ target <= HeadRevision
    BY <1>7
  <2> QED  BY <2>1, TablesUpToFacts
<1>9. SchemaTypeOK'
  BY <1>1, <1>6, <1>8, NotUpgradingFacts DEF SchemaInv, SchemaTypeOK
<1>10. \A v \in Upgraders : /\ upgrade'[v] = IF v = u THEN NotUpgrading ELSE upgrade[v]
                            /\ granted'[v] = IF v = u THEN target ELSE granted[v]
  BY <1>1, <1>6 DEF SchemaInv, SchemaTypeOK
<1>11. \A v \in Upgraders : ~Running(v)'
  BY <1>2, <1>10, NotUpgradingFacts DEF Running
<1>12. ASSUME NEW v \in Upgraders PROVE UpgradeInv(v)'
  <2>1. CASE v = u
    <3>1. NotUpgrading.at <= stamp' + 1 /\ target <= stamp'
      BY <1>6, <1>7, NotUpgradingFacts
    <3> QED  BY <1>10, <1>11, <2>1, <3>1 DEF UpgradeInv
  <2>2. CASE v # u
    <3>1. UpgradeInv(v) /\ upgrade'[v] = upgrade[v] /\ granted'[v] = granted[v]
      BY <1>10, <2>2 DEF SchemaInv
    <3>2. upgrade[v].at <= stamp' + 1 /\ granted[v] <= stamp'
      BY <1>6, <1>7, <3>1, UpgradeType DEF UpgradeInv
    <3> QED  BY <1>11, <3>1, <3>2 DEF UpgradeInv
  <2> QED  BY <2>1, <2>2
<1>13. Accounted'
  BY <1>6 DEF Accounted
<1> QED  BY <1>6, <1>9, <1>12, <1>13 DEF SchemaInv

LEMMA SchemaStep == SchemaInv /\ [SchemaNext]_schemaVars => SchemaInv'
<1> SUFFICES ASSUME SchemaInv, [SchemaNext]_schemaVars PROVE SchemaInv'
  OBVIOUS
<1>1. CASE SchemaNext
  <2>1. PICK u \in Upgraders :
              \/ BeginUpgrade(u) \/ CreateTable(u) \/ StampRevision(u)
              \/ CommitUpgrade(u) \/ UpgradeRaises(u) \/ UpgradeDies(u)
    BY <1>1 DEF SchemaNext
  <2> QED  BY <2>1, BeginStep, CreateStep, StampStep, CommitStep, LeaveStep
<1>2. CASE UNCHANGED schemaVars
  <2>1. UNCHANGED <<atOnce, tables, stamp, upgrade, granted, cut>>
    BY <1>2 DEF schemaVars
  <2>2. SchemaTypeOK' /\ Accounted' /\ (TablesUpTo(stamp) \subseteq tables)'
    BY <2>1 DEF SchemaInv, SchemaTypeOK, Accounted
  <2>3. ASSUME NEW v \in Upgraders PROVE UpgradeInv(v)'
    BY <2>1 DEF SchemaInv, UpgradeInv, Running
  <2> QED  BY <2>2, <2>3 DEF SchemaInv
<1> QED  BY <1>1, <1>2

LEMMA SchemaInitInv == SchemaInit => SchemaInv
<1> SUFFICES ASSUME SchemaInit PROVE SchemaInv
  OBVIOUS
<1>1. SchemaTypeOK
  BY RevisionFacts, NotUpgradingFacts DEF SchemaInit, SchemaTypeOK
<1>2. ASSUME NEW u \in Upgraders PROVE UpgradeInv(u)
  <2>1. upgrade[u] = NotUpgrading /\ granted[u] = 0 /\ stamp = 0
    BY DEF SchemaInit
  <2> QED  BY <2>1, NotUpgradingFacts DEF UpgradeInv, Running
<1>3. tables = {} /\ TablesUpTo(stamp) = {}
  BY TablesUpToFacts DEF SchemaInit
<1> QED  BY <1>1, <1>2, <1>3 DEF SchemaInv, Accounted

\* The invariant of the upgrades holds.
THEOREM SchemaInvariant == SchemaSpec => []SchemaInv
BY SchemaInitInv, SchemaStep, PTL DEF SchemaSpec

\* The schema and its upgrades keep their types.
THEOREM SchemaType == SchemaSpec => []SchemaTypeOK
<1>1. SchemaInv => SchemaTypeOK
  BY DEF SchemaInv
<1> QED  BY <1>1, SchemaInvariant, PTL

\* Whoever returned from an upgrade (db/migrate.py, upgrade) works on a database with
\* every table of the revision asked for; and where none runs and none was cut off,
\* exactly the tables the stamp stands for are there: for any number of upgraders.
THEOREM UpgradedStands == SchemaSpec => []UpgradedIsThere
<1>1. ASSUME SchemaInv PROVE UpgradedIsThere
  <2>1. stamp \in 0..HeadRevision /\ TablesUpTo(stamp) \subseteq tables
    BY <1>1 DEF SchemaInv, SchemaTypeOK
  <2>2. ASSUME NEW u \in Upgraders PROVE TablesUpTo(granted[u]) \subseteq tables
    <3>1. granted[u] \in 0..HeadRevision /\ granted[u] <= stamp
      BY <1>1 DEF SchemaInv, SchemaTypeOK, UpgradeInv
    <3> QED  BY <2>1, <3>1, TablesUpToFacts
  <2>3. ASSUME ~cut, \A u \in Upgraders : ~Upgrading(u) PROVE tables = TablesUpTo(stamp)
    <3>1. \A u \in Upgraders : 1..upgrade[u].made = {}
      BY <2>3, NotUpgradingFacts DEF Upgrading
    <3> QED  BY <1>1, <2>1, <2>3, <3>1 DEF SchemaInv, Accounted
  <2> QED  BY <2>1, <2>2, <2>3 DEF UpgradedIsThere
<1> QED  BY <1>1, SchemaInvariant, PTL

-----------------------------------------------------------------------------
(* The parts together.                                                     *)

LEMMA PartSteps ==
  ASSUME [ServerNext]_serverVars
  PROVE  /\ [Next]_vars /\ [AccessNext]_accessVars /\ [TagsNext]_tagsVars
         /\ [EventLogNext]_logVars /\ [PullNext]_pullVars /\ [SchemaNext]_schemaVars
<1>1. CASE ServerNext
  BY <1>1 DEF ServerNext
<1>2. CASE UNCHANGED serverVars
  BY <1>2 DEF serverVars
<1> QED  BY <1>1, <1>2

\* What the parts do together is, of each part, what it does alone: no step of one
\* reaches into the state of another.
THEOREM PartsAlone ==
  ServerSpec => Spec /\ AccessSpec /\ TagsSpec /\ EventLogSpec /\ PullSpec /\ SchemaSpec
<1>1. ServerInit => Init /\ AccessInit /\ TagsInit /\ EventLogInit /\ PullInit /\ SchemaInit
  BY DEF ServerInit
<1>2. [ServerNext]_serverVars =>
        /\ [Next]_vars /\ [AccessNext]_accessVars /\ [TagsNext]_tagsVars
        /\ [EventLogNext]_logVars /\ [PullNext]_pullVars /\ [SchemaNext]_schemaVars
  BY PartSteps
<1> QED
  BY <1>1, <1>2, PTL
  DEF ServerSpec, Spec, AccessSpec, TagsSpec, EventLogSpec, PullSpec, SchemaSpec

\* Every part keeps its types (the tables and logs of the database and the lake).
THEOREM ServerType == ServerSpec => []ServerTypeOK
<1>1. ServerTypeOK <=> /\ TypeOK /\ AccessTypeOK /\ TagsTypeOK
                       /\ EventLogTypeOK /\ PullTypeOK /\ SchemaTypeOK
  BY DEF ServerTypeOK
<1> QED
  BY <1>1, PartsAlone, RemediationType, AccessTypes, TagsType, LogsType, PullType, SchemaType, PTL

\* What each part promises alone holds of the server.
THEOREM ServerSafe ==
  ServerSpec =>
    /\ []StampMatchesStatus /\ []AnswerHolds /\ EditKeepsStatus /\ ExceptionStaysOver
    /\ []StaleOpensNothing /\ []AuditTellsTheTruth /\ []LoginsNeverCollide
    /\ CredentialStaysDead /\ []AttachKeepsItsWord /\ LabelsKept
    /\ []AckedIsLogged /\ []ShareStaysRevoked /\ []AnsweredStaysCurrent
    /\ []SyncRecordsWhatItPulled /\ []UpgradedIsThere
BY PartsAlone, StampsMatch, AnswersHold, EditsKeepStatus, ExceptionsStayOver,
   StaleStaysOut, AuditIsTrue, LoginsKeepApart, DeadStaysDead, AttachesKept,
   ImplementsLabels, AnsweredIsLogged, RevokedStays, AnsweredCurrent, SyncRecords,
   UpgradedStands, PTL

=============================================================================
