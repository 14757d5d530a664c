------------------------ MODULE ConnectorSyncProofs ------------------------
(***************************************************************************)
(* Theorems about ConnectorSync, for any sets of syncers, repositories and *)
(* events and any number of faults.                                        *)
(*                                                                         *)
(* AckedEvidenceKept says nothing while the file is being rewritten, so it *)
(* is not inductive: what was acknowledged must be found again when the    *)
(* rewrite is over.  The invariant says where it is meanwhile (in the rows *)
(* the syncer read before it emptied the file), that a syncer past the     *)
(* collection holds the newest collection of all, and that what it is      *)
(* about to publish is what the file says.  AckedEvidencePublished says    *)
(* nothing once a publication was cut: that the next one brings everything *)
(* back rests on what the raw file kept.                                   *)
(***************************************************************************)
EXTENDS ConnectorSync, TLAPS

\* Syncs do not overlap.
Alone == \A s, t \in Syncers : pc[s] # "idle" /\ pc[t] # "idle" => s = t

\* No acknowledgement is ahead of the collections, and none of a publication
\* is ahead of the acknowledgement it came with.
Versions ==
    \A e \in Events : /\ acked[e] <= gen
                      /\ shown[e] <= acked[e]

\* What the syncer in the middle of a run knows of the file.
HoldsTheFile(s) ==
    /\ pc[s] \in Steps \ {"idle", "collect"} => mine[s] = gen
    /\ pc[s] \in {"truncate", "compute", "publish"} => base[s] = raw
    /\ pc[s] = "publish" => ~mixed
    /\ pc[s] \in {"truncate", "write"} => ~torn
    /\ pc[s] = "write" =>
         /\ raw = NoRows
         /\ ~wrecked => \A e \in Events : base[s][e] >= acked[e]
    /\ pc[s] \in {"pipeline", "compute", "publish", "record"} =>
         \A e \in Events : RepoOf[e] = repo[s] => raw[e] = mine[s]
    /\ pc[s] = "record" /\ materialize[s] => lake = raw

SerialInv ==
    /\ Alone
    /\ Versions
    /\ \A s \in Syncers : HoldsTheFile(s)
    /\ ~wrecked /\ ~Writing => ~torn /\ \A e \in Events : raw[e] >= acked[e]
    /\ ~wrecked /\ ~cut /\ Publishing = {} => \A e \in Events : lake[e] >= shown[e]

IInv == TypeOK /\ (Serial => SerialInv)

-----------------------------------------------------------------------------
(* Type correctness.                                                       *)

LEMMA NoRowsTyped == NoRows \in Rows /\ \A e \in Events : NoRows[e] = 0
  BY DEF NoRows, Rows

LEMMA MergedTyped ==
  ASSUME TypeOK, NEW s \in Syncers
  PROVE  /\ Merged(s) \in Rows
         /\ \A e \in Events : RepoOf[e] = repo[s] => Merged(s)[e] = mine[s]
         /\ \A e \in Events : RepoOf[e] # repo[s] => Merged(s)[e] = base[s][e]
  BY SyncAssumption DEF TypeOK, Rows, Merged

LEMMA InitTypeOK == Init => TypeOK
<1> SUFFICES ASSUME Init PROVE TypeOK
  OBVIOUS
<1>1. raw \in Rows /\ lake \in Rows /\ acked \in Rows /\ shown \in Rows
  BY NoRowsTyped DEF Init
<1>2. base \in [Syncers -> Rows] /\ mine \in [Syncers -> Nat] /\ pc \in [Syncers -> Steps]
  BY NoRowsTyped DEF Init, Steps
<1>3. QED
  BY <1>1, <1>2 DEF Init, TypeOK

\* A call that is over forgets its collection and its rows.
LEMMA LeaveTyped ==
  ASSUME TypeOK, NEW s \in Syncers, Leave(s)
  PROVE  /\ pc' \in [Syncers -> Steps] /\ mine' \in [Syncers -> Nat]
         /\ repo' \in [Syncers -> Repos] /\ base' \in [Syncers -> Rows]
         /\ materialize' \in [Syncers -> BOOLEAN]
  BY NoRowsTyped DEF TypeOK, Leave, Goto, Steps

LEMMA MixTyped ==
  ASSUME NEW r \in Rows, NEW o \in Rows
  PROVE  Mix(r, o) \subseteq Rows
  BY DEF Rows, Mix

LEMMA StopTyped ==
  ASSUME TypeOK, NEW s \in Syncers, StopsPublishing(s)
  PROVE  lake' \in Rows /\ cut' \in BOOLEAN
  BY MixTyped DEF TypeOK, StopsPublishing

LEMMA NextTypeOK == TypeOK /\ [Next]_vars => TypeOK'
<1> SUFFICES ASSUME TypeOK, [Next]_vars PROVE TypeOK'
  OBVIOUS
<1> USE DEF file, published, locals, history
<1>1. CASE Configure
  BY <1>1 DEF TypeOK, Configure
<1>2. ASSUME NEW s \in Syncers, NEW r \in Repos, NEW m \in BOOLEAN, Start(s, r, m)
      PROVE  TypeOK'
  BY <1>2 DEF TypeOK, Start, Goto, Steps
<1>3. ASSUME NEW s \in Syncers, StartRefused(s) PROVE TypeOK'
  BY <1>3, LeaveTyped DEF TypeOK, StartRefused, Fail
<1>4. ASSUME NEW s \in Syncers, Collect(s) PROVE TypeOK'
  BY <1>4 DEF TypeOK, Collect, Goto, Steps
<1>5. ASSUME NEW s \in Syncers, CollectFails(s) PROVE TypeOK'
  BY <1>5, LeaveTyped DEF TypeOK, CollectFails, Fail
<1>6. ASSUME NEW s \in Syncers, ReadRaw(s) PROVE TypeOK'
  <2>1. CASE torn
    BY <1>6, <2>1, LeaveTyped DEF TypeOK, ReadRaw, Fail
  <2>2. CASE ~torn
    BY <1>6, <2>2 DEF TypeOK, ReadRaw, Goto, Steps
  <2>3. QED
    BY <2>1, <2>2
<1>7. ASSUME NEW s \in Syncers, Truncate(s) PROVE TypeOK'
  BY <1>7, NoRowsTyped DEF TypeOK, Truncate, Goto, Steps
<1>8. ASSUME NEW s \in Syncers, WriteRows(s) PROVE TypeOK'
  <2>1. raw' \in Rows
    BY <1>8, MergedTyped DEF WriteRows
  <2>2. torn' \in BOOLEAN
    BY <1>8 DEF WriteRows, TypeOK
  <2>3. QED
    BY <1>8, <2>1, <2>2, NoRowsTyped DEF TypeOK, WriteRows, Goto, Steps
<1>9. ASSUME NEW s \in Syncers, ReadForPipeline(s) PROVE TypeOK'
  <2>1. CASE torn
    BY <1>9, <2>1, LeaveTyped DEF TypeOK, ReadForPipeline, Fail
  <2>2. CASE ~torn
    BY <1>9, <2>2 DEF TypeOK, ReadForPipeline, Goto, Steps
  <2>3. QED
    BY <2>1, <2>2
<1>10. ASSUME NEW s \in Syncers, ComputeRaises(s) \/ PublishStarts(s) \/ PublishEnds(s)
       PROVE  TypeOK'
  <2>1. CASE ComputeRaises(s)
    BY <2>1, LeaveTyped DEF TypeOK, ComputeRaises, Fail
  <2>2. CASE PublishStarts(s)
    <3>1. lake' \in Rows
      BY <2>2, MixTyped, NoRowsTyped DEF PublishStarts, TypeOK
    <3>2. mixed' \in BOOLEAN
      BY <2>2 DEF PublishStarts
    <3>3. QED
      BY <2>2, <3>1, <3>2 DEF TypeOK, PublishStarts, Goto, Steps
  <2>3. CASE PublishEnds(s)
    <3>1. lake' \in Rows /\ cut' \in BOOLEAN
      BY <2>3, MixTyped DEF PublishEnds, TypeOK
    <3>2. QED
      BY <2>3, <3>1, NoRowsTyped DEF TypeOK, PublishEnds, Goto, Steps
  <2>4. QED
    BY <1>10, <2>1, <2>2, <2>3
<1>11. ASSUME NEW s \in Syncers, PublishFails(s) PROVE TypeOK'
  BY <1>11, LeaveTyped, StopTyped DEF TypeOK, PublishFails, Fail, StopsPublishing
<1>12. ASSUME NEW s \in Syncers, RecordOk(s) PROVE TypeOK'
  <2>1. acked' \in Rows
    BY <1>12 DEF RecordOk, TypeOK, Rows
  <2>2. QED
    BY <1>12, <2>1, LeaveTyped DEF TypeOK, RecordOk
<1>13. ASSUME NEW s \in Syncers, Crash(s) PROVE TypeOK'
  <2>1. raw' \in Rows /\ torn' \in BOOLEAN /\ wrecked' \in BOOLEAN
    <3>1. CASE pc[s] = "write"
      <4>1. PICK D \in SUBSET Events :
              raw' = [e \in Events |-> IF e \in D THEN Merged(s)[e] ELSE 0]
        BY <1>13, <3>1 DEF Crash
      <4>2. raw' \in Rows
        BY <4>1, MergedTyped DEF Rows
      <4>3. QED
        BY <1>13, <3>1, <4>2 DEF Crash
    <3>2. CASE pc[s] # "write"
      BY <1>13, <3>2 DEF TypeOK, Crash
    <3>3. QED
      BY <3>1, <3>2
  <2>2. /\ lake' \in Rows /\ mixed' \in BOOLEAN /\ cut' \in BOOLEAN
        /\ acked' \in Rows /\ shown' \in Rows
    <3>1. CASE pc[s] = "publish"
      BY <1>13, <3>1, StopTyped DEF TypeOK, Crash, StopsPublishing
    <3>2. CASE pc[s] # "publish"
      BY <1>13, <3>2 DEF TypeOK, Crash
    <3>3. QED
      BY <3>1, <3>2
  <2>3. QED
    BY <1>13, <2>1, <2>2, LeaveTyped DEF TypeOK, Crash
<1>14. CASE UNCHANGED vars
  BY <1>14 DEF TypeOK, vars
<1>15. QED
  BY <1>1, <1>2, <1>3, <1>4, <1>5, <1>6, <1>7, <1>8, <1>9, <1>10, <1>11, <1>12,
     <1>13, <1>14 DEF Next, Step

\* Whatever syncs overlap, crash or fail, every variable keeps its type.
THEOREM TypeCorrect == Spec => []TypeOK
  BY InitTypeOK, NextTypeOK, PTL DEF Spec

-----------------------------------------------------------------------------
(* Syncs that do not overlap.                                              *)

\* While one syncer is under way the others wait, and nothing is asked of them.
LEMMA OthersWait ==
  ASSUME TypeOK, SerialInv, NEW s \in Syncers, NEW step \in Steps, pc[s] # "idle", Goto(s, step)
  PROVE  /\ Alone'
         /\ pc'[s] = step
         /\ Writing <=> pc[s] = "write"
         /\ Writing' <=> step = "write"
         /\ Publishing = {} <=> pc[s] # "publish"
         /\ Publishing' = {} <=> step # "publish"
         /\ \A t \in Syncers \ {s} : HoldsTheFile(t)'
<1>1. \A t \in Syncers \ {s} : pc[t] = "idle" /\ pc'[t] = "idle"
  BY DEF SerialInv, Alone, TypeOK, Goto
<1>2. pc'[s] = step
  BY DEF TypeOK, Goto
<1>3. \A t \in Syncers \ {s} : HoldsTheFile(t)'
  BY <1>1 DEF HoldsTheFile
<1>4. QED
  BY <1>1, <1>2, <1>3 DEF Alone, Writing, Publishing

\* So a step of a sync is sound when the file and the syncer are after it.
LEMMA StepKeeps ==
  ASSUME TypeOK, SerialInv, NEW s \in Syncers, NEW step \in Steps, pc[s] # "idle", Goto(s, step),
         Versions',
         HoldsTheFile(s)',
         ~wrecked' /\ step # "write" => ~torn' /\ \A e \in Events : raw'[e] >= acked'[e],
         ~wrecked' /\ ~cut' /\ step # "publish" => \A e \in Events : lake'[e] >= shown'[e]
  PROVE  SerialInv'
  BY OthersWait DEF SerialInv

\* A sync that ends early leaves everything but its own locals as it was.
LEMMA LeaveKeeps ==
  ASSUME TypeOK, SerialInv, NEW s \in Syncers, Leave(s), pc[s] \notin {"write", "publish"},
         UNCHANGED <<file, published, gen, history>>
  PROVE  SerialInv'
<1>1. CASE pc[s] = "idle"
  <2>1. pc' = pc
    BY <1>1 DEF Leave, Goto, TypeOK
  <2>2. \A t \in Syncers : HoldsTheFile(t)'
    <3> SUFFICES ASSUME NEW t \in Syncers PROVE HoldsTheFile(t)'
      OBVIOUS
    <3>1. CASE t = s
      BY <1>1, <2>1, <3>1 DEF HoldsTheFile
    <3>2. CASE t # s
      <4>1. HoldsTheFile(t) /\ mine'[t] = mine[t] /\ base'[t] = base[t]
        BY <3>2 DEF SerialInv, Leave, TypeOK
      <4>2. QED
        BY <2>1, <4>1 DEF HoldsTheFile, Leave, file, published, history
    <3>3. QED
      BY <3>1, <3>2
  <2>3. QED
    BY <2>1, <2>2 DEF SerialInv, Alone, Versions, Writing, Publishing, file, published, history
<1>2. CASE pc[s] # "idle"
  <2>1. Goto(s, "idle") /\ "idle" \in Steps
    BY DEF Leave, Steps
  <2>2. pc'[s] = "idle" /\ ~Writing /\ Publishing = {}
    BY <1>2, <2>1, OthersWait
  <2>3. HoldsTheFile(s)'
    BY <2>2 DEF HoldsTheFile
  <2>4. Versions' /\ UNCHANGED <<raw, torn, lake, acked, shown, wrecked, cut>>
    BY DEF SerialInv, Versions, file, published, history
  <2>5. QED
    BY <1>2, <2>1, <2>2, <2>3, <2>4, StepKeeps DEF SerialInv
<1>3. QED
  BY <1>1, <1>2

LEMMA StartKeeps ==
  ASSUME TypeOK, SerialInv, Serial, NEW s \in Syncers, NEW r \in Repos, NEW m \in BOOLEAN,
         Start(s, r, m)
  PROVE  SerialInv'
<1>1. /\ \A t \in Syncers : pc'[t] = IF t = s THEN "collect" ELSE "idle"
      /\ ~Writing /\ Publishing = {}
  BY DEF Start, Goto, TypeOK, Writing, Publishing
<1>2. \A t \in Syncers : HoldsTheFile(t)'
  BY <1>1 DEF HoldsTheFile
<1>3. QED
  BY <1>1, <1>2 DEF SerialInv, Alone, Versions, Writing, Publishing, Start, file, published, history

LEMMA CollectKeeps ==
  ASSUME TypeOK, SerialInv, NEW s \in Syncers, Collect(s)
  PROVE  SerialInv'
<1>1. Goto(s, "read") /\ "read" \in Steps /\ pc[s] = "collect"
  BY DEF Collect, Steps
<1>2. pc'[s] = "read" /\ ~Writing /\ Publishing = {} /\ mine'[s] = gen'
  BY <1>1, OthersWait DEF Collect, TypeOK
<1>3. Versions'
  BY DEF SerialInv, Versions, Collect, TypeOK, Rows, history
<1>4. HoldsTheFile(s)'
  BY <1>2 DEF HoldsTheFile
<1>5. QED
  BY <1>1, <1>2, <1>3, <1>4, StepKeeps DEF SerialInv, Collect, file, published, history

LEMMA ReadRawKeeps ==
  ASSUME TypeOK, SerialInv, NEW s \in Syncers, ReadRaw(s)
  PROVE  SerialInv'
<1>1. CASE torn
  BY <1>1, LeaveKeeps DEF ReadRaw, Fail
<1>2. CASE ~torn
  <2>1. Goto(s, "truncate") /\ "truncate" \in Steps /\ pc[s] = "read"
    BY <1>2 DEF ReadRaw, Steps
  <2>2. pc'[s] = "truncate" /\ ~Writing /\ Publishing = {}
    BY <2>1, OthersWait
  <2>3. Versions' /\ UNCHANGED <<raw, torn, lake, acked, shown, wrecked, cut>>
    BY DEF SerialInv, Versions, ReadRaw, file, published, history
  <2>4. mine'[s] = gen' /\ base'[s] = raw'
    BY <1>2, <2>1 DEF SerialInv, HoldsTheFile, ReadRaw, TypeOK, file, Steps
  <2>5. HoldsTheFile(s)'
    BY <1>2, <2>2, <2>3, <2>4 DEF HoldsTheFile
  <2>6. QED
    BY <2>1, <2>2, <2>3, <2>5, StepKeeps DEF SerialInv
<1>3. QED
  BY <1>1, <1>2

\* The rows the file loses are the rows the syncer has read.
LEMMA TruncateKeeps ==
  ASSUME TypeOK, SerialInv, NEW s \in Syncers, Truncate(s)
  PROVE  SerialInv'
<1>1. Goto(s, "write") /\ "write" \in Steps /\ pc[s] = "truncate"
  BY DEF Truncate, Steps
<1>2. pc'[s] = "write" /\ ~Writing /\ Publishing = {}
  BY <1>1, OthersWait
<1>3. Versions' /\ UNCHANGED <<lake, acked, shown, wrecked, cut, base>>
  BY DEF SerialInv, Versions, Truncate, published, history
<1>4. mine'[s] = gen' /\ base[s] = raw
  BY <1>1 DEF SerialInv, HoldsTheFile, Truncate, Steps
<1>5. ~wrecked => \A e \in Events : base[s][e] >= acked[e]
  BY <1>2, <1>4 DEF SerialInv
<1>6. raw' = NoRows /\ ~torn'
  BY DEF Truncate
<1>7. HoldsTheFile(s)'
  BY <1>2, <1>3, <1>4, <1>5, <1>6 DEF HoldsTheFile
<1>8. QED
  BY <1>1, <1>2, <1>3, <1>7, StepKeeps DEF SerialInv

\* They come back with the collected rows, which are the newest of all.
LEMMA WriteRowsKeeps ==
  ASSUME TypeOK, SerialInv, NEW s \in Syncers, WriteRows(s)
  PROVE  SerialInv' /\ ~torn' /\ ~torn
<1> DEFINE step == IF materialize[s] THEN "pipeline" ELSE "record"
<1>1. Goto(s, step) /\ step \in Steps /\ pc[s] = "write" /\ step \in {"pipeline", "record"}
  BY DEF WriteRows, Steps
<1>2. /\ HoldsTheFile(s) /\ mine[s] = gen /\ raw = NoRows /\ ~torn
      /\ ~wrecked => \A e \in Events : base[s][e] >= acked[e]
  BY <1>1 DEF SerialInv, HoldsTheFile, Steps
<1>3. raw' = Merged(s) /\ ~torn'
  BY <1>2 DEF WriteRows
<1>4. UNCHANGED <<lake, gen, mine, repo, materialize, acked, shown, wrecked, cut>> /\ Versions'
  BY DEF SerialInv, Versions, WriteRows, published, history
<1>5. \A e \in Events : RepoOf[e] = repo[s] => raw'[e] = gen
  BY <1>2, <1>3, MergedTyped
<1>6. ~wrecked => \A e \in Events : raw'[e] >= acked[e]
  <2> SUFFICES ASSUME ~wrecked, NEW e \in Events PROVE raw'[e] >= acked[e]
    OBVIOUS
  <2>1. acked[e] <= gen /\ acked[e] \in Nat /\ gen \in Nat
    BY DEF SerialInv, Versions, TypeOK, Rows
  <2>2. CASE RepoOf[e] = repo[s]
    BY <1>5, <2>1, <2>2
  <2>3. CASE RepoOf[e] # repo[s]
    BY <1>2, <1>3, <2>3, MergedTyped
  <2>4. QED
    BY <2>2, <2>3
<1>7. pc'[s] = step /\ Publishing = {}
  BY <1>1, OthersWait
<1>8. step = "record" => ~materialize[s]
  OBVIOUS
<1> HIDE DEF step
<1>9. HoldsTheFile(s)'
  BY <1>1, <1>2, <1>4, <1>5, <1>7, <1>8 DEF HoldsTheFile
<1>10. SerialInv'
  BY <1>1, <1>3, <1>4, <1>6, <1>7, <1>9, StepKeeps DEF SerialInv
<1>11. QED
  BY <1>2, <1>3, <1>10

LEMMA ReadForPipelineKeeps ==
  ASSUME TypeOK, SerialInv, NEW s \in Syncers, ReadForPipeline(s)
  PROVE  SerialInv'
<1>1. CASE torn
  BY <1>1, LeaveKeeps DEF ReadForPipeline, Fail
<1>2. CASE ~torn
  <2>1. Goto(s, "compute") /\ "compute" \in Steps /\ pc[s] = "pipeline"
    BY <1>2 DEF ReadForPipeline, Steps
  <2>2. pc'[s] = "compute" /\ ~Writing /\ Publishing = {}
    BY <2>1, OthersWait
  <2>3. Versions' /\ UNCHANGED <<raw, torn, lake, gen, acked, shown, wrecked, cut, mine, repo>>
    BY <1>2 DEF SerialInv, Versions, ReadForPipeline, file, published, history
  <2>4. /\ mine[s] = gen /\ base'[s] = raw
        /\ \A e \in Events : RepoOf[e] = repo[s] => raw[e] = mine[s]
    BY <1>2, <2>1 DEF SerialInv, HoldsTheFile, ReadForPipeline, TypeOK, Steps
  <2>5. HoldsTheFile(s)'
    BY <2>2, <2>3, <2>4 DEF HoldsTheFile
  <2>6. QED
    BY <2>1, <2>2, <2>3, <2>5, StepKeeps DEF SerialInv
<1>3. QED
  BY <1>1, <1>2

\* From now on nothing is promised of the published files.
LEMMA PublishStartsKeeps ==
  ASSUME TypeOK, SerialInv, NEW s \in Syncers, PublishStarts(s)
  PROVE  SerialInv'
<1>1. Goto(s, "publish") /\ "publish" \in Steps /\ pc[s] = "compute"
  BY DEF PublishStarts, Steps
<1>2. pc'[s] = "publish" /\ ~Writing /\ Publishing = {}
  BY <1>1, OthersWait
<1>3. Versions' /\ UNCHANGED <<raw, torn, gen, acked, shown, wrecked, cut, mine, repo, base>>
  BY DEF SerialInv, Versions, PublishStarts, file, history
<1>4. ~mixed'
  BY <1>2 DEF PublishStarts
<1>5. HoldsTheFile(s)'
  BY <1>1, <1>2, <1>3, <1>4 DEF SerialInv, HoldsTheFile, Steps
<1>6. QED
  BY <1>1, <1>2, <1>3, <1>5, StepKeeps DEF SerialInv

\* What was published when the last file is written holds every row that was
\* acknowledged.
LEMMA PublishEndsKeeps ==
  ASSUME TypeOK, SerialInv, NEW s \in Syncers, PublishEnds(s)
  PROVE  SerialInv'
<1>1. Goto(s, "record") /\ "record" \in Steps /\ pc[s] = "publish"
  BY DEF PublishEnds, Steps
<1>2. pc'[s] = "record" /\ ~Writing
  BY <1>1, OthersWait
<1>3. Versions' /\ UNCHANGED <<raw, torn, gen, acked, shown, wrecked, mine, repo>>
  BY DEF SerialInv, Versions, PublishEnds, file
<1>4. /\ mine[s] = gen /\ lake' = raw
      /\ \A e \in Events : RepoOf[e] = repo[s] => raw[e] = mine[s]
  BY <1>1 DEF SerialInv, HoldsTheFile, PublishEnds, Steps
<1>5. HoldsTheFile(s)'
  BY <1>2, <1>3, <1>4 DEF HoldsTheFile
<1>6. ~wrecked => \A e \in Events : lake'[e] >= shown[e]
  <2> SUFFICES ASSUME ~wrecked, NEW e \in Events PROVE raw[e] >= shown[e]
    BY <1>4
  <2>1. raw[e] >= acked[e] /\ shown[e] <= acked[e]
    BY <1>2 DEF SerialInv, Versions
  <2>2. raw[e] \in Nat /\ acked[e] \in Nat /\ shown[e] \in Nat
    BY DEF TypeOK, Rows
  <2>3. QED
    BY <2>1, <2>2
<1>7. QED
  BY <1>1, <1>2, <1>3, <1>5, <1>6, StepKeeps DEF SerialInv

\* A publication that stops half-way is known to be cut, and the file is as it was.
LEMMA StopKeeps ==
  ASSUME TypeOK, SerialInv, NEW s \in Syncers, pc[s] = "publish", StopsPublishing(s),
         Leave(s), UNCHANGED <<file, gen, wrecked>>
  PROVE  SerialInv'
<1>1. Goto(s, "idle") /\ "idle" \in Steps
  BY DEF Leave, Steps
<1>2. pc'[s] = "idle" /\ ~Writing
  BY <1>1, OthersWait
<1>3. Versions' /\ UNCHANGED <<raw, torn, acked, wrecked>> /\ cut'
  BY DEF SerialInv, Versions, StopsPublishing, file
<1>4. HoldsTheFile(s)'
  BY <1>2 DEF HoldsTheFile
<1>5. QED
  BY <1>1, <1>2, <1>3, <1>4, StepKeeps DEF SerialInv

\* What is acknowledged is in the file and, if asked for, in the lake.
LEMMA RecordOkKeeps ==
  ASSUME TypeOK, SerialInv, NEW s \in Syncers, RecordOk(s)
  PROVE  SerialInv'
<1>1. Goto(s, "idle") /\ "idle" \in Steps /\ pc[s] = "record"
  BY DEF RecordOk, Leave, Steps
<1>2. pc'[s] = "idle" /\ ~Writing /\ Publishing = {}
  BY <1>1, OthersWait
<1>3. UNCHANGED <<raw, torn, lake, gen, wrecked, cut>>
  BY DEF RecordOk, file, published
<1>4. /\ mine[s] = gen
      /\ materialize[s] => lake = raw
      /\ \A e \in Events : RepoOf[e] = repo[s] => raw[e] = mine[s]
  BY <1>1 DEF SerialInv, HoldsTheFile, Steps
<1>5. HoldsTheFile(s)'
  BY <1>2 DEF HoldsTheFile
<1>6. \A e \in Events : /\ acked'[e] \in {acked[e], gen} /\ acked'[e] >= acked[e]
                        /\ acked'[e] # acked[e] => raw[e] = gen
  BY <1>4 DEF RecordOk, TypeOK, Rows
<1>7. ~wrecked => ~torn /\ \A e \in Events : raw[e] >= acked'[e]
  BY <1>2, <1>6 DEF SerialInv, TypeOK, Rows
<1>8. \A e \in Events : raw[e] \in Nat /\ acked[e] \in Nat /\ shown[e] \in Nat
                        /\ acked[e] <= gen /\ shown[e] <= acked[e] /\ gen \in Nat
  BY DEF SerialInv, Versions, TypeOK, Rows
<1>9. CASE materialize[s]
  <2>1. shown' = acked' /\ lake = raw
    BY <1>4, <1>9 DEF RecordOk
  <2>2. Versions'
    BY <1>3, <1>6, <1>8, <2>1 DEF Versions
  <2>3. ~wrecked => \A e \in Events : lake'[e] >= shown'[e]
    BY <1>3, <1>7, <2>1
  <2>4. QED
    BY <1>1, <1>3, <1>5, <1>7, <2>2, <2>3, StepKeeps
<1>10. CASE ~materialize[s]
  <2>1. shown' = shown
    BY <1>10 DEF RecordOk
  <2>2. Versions'
    BY <1>3, <1>6, <1>8, <2>1 DEF Versions
  <2>3. QED
    BY <1>1, <1>2, <1>3, <1>5, <1>7, <2>1, <2>2, StepKeeps DEF SerialInv
<1>11. QED
  BY <1>9, <1>10

LEMMA CrashKeeps ==
  ASSUME TypeOK, SerialInv, NEW s \in Syncers, Crash(s)
  PROVE  SerialInv' /\ (torn => torn' /\ raw' = raw)
<1>1. CASE pc[s] \notin {"write", "publish"}
  <2>1. UNCHANGED <<file, published, gen, history>>
    BY <1>1 DEF Crash, history
  <2>2. SerialInv'
    BY <1>1, <2>1, LeaveKeeps DEF Crash
  <2>3. QED
    BY <2>1, <2>2 DEF file
<1>2. CASE pc[s] = "publish"
  <2>1. StopsPublishing(s) /\ Leave(s) /\ UNCHANGED <<file, gen, wrecked>>
    BY <1>2 DEF Crash
  <2>2. QED
    BY <1>2, <2>1, StopKeeps DEF file
<1>3. CASE pc[s] = "write"
  <2>1. Goto(s, "idle") /\ "idle" \in Steps /\ wrecked' /\ ~torn
    BY <1>3 DEF Crash, Leave, Steps, SerialInv, HoldsTheFile
  <2>2. pc'[s] = "idle"
    BY <1>3, <2>1, OthersWait
  <2>3. HoldsTheFile(s)'
    BY <2>2 DEF HoldsTheFile
  <2>4. Versions'
    BY <1>3 DEF SerialInv, Versions, Crash
  <2>5. QED
    BY <1>3, <2>1, <2>3, <2>4, StepKeeps
<1>4. QED
  BY <1>1, <1>2, <1>3

LEMMA InitIInv == Init => IInv
<1> SUFFICES ASSUME Init PROVE TypeOK /\ SerialInv
  BY DEF IInv
<1>1. \A s \in Syncers : pc[s] = "idle"
  BY DEF Init
<1>2. \A e \in Events : raw[e] = 0 /\ lake[e] = 0 /\ acked[e] = 0 /\ shown[e] = 0 /\ gen = 0
  BY NoRowsTyped DEF Init
<1>3. \A s \in Syncers : HoldsTheFile(s)
  BY <1>1 DEF HoldsTheFile
<1>4. Alone /\ Versions
  BY <1>1, <1>2 DEF Alone, Versions
<1>5. ~torn
  BY DEF Init
<1>6. QED
  BY <1>2, <1>3, <1>4, <1>5, InitTypeOK DEF SerialInv

\* No step of syncs that take turns breaks the invariant or touches a file
\* that does not parse.
LEMMA NextSerialInv ==
  ASSUME TypeOK, SerialInv, Serial, [Next]_vars
  PROVE  SerialInv' /\ (torn => torn' /\ raw' = raw)
<1>1. CASE Configure \/ UNCHANGED vars
  <2>1. UNCHANGED <<file, published, gen, locals, history>>
    BY <1>1 DEF Configure, vars
  <2>2. \A s \in Syncers : HoldsTheFile(s)'
    BY <2>1 DEF SerialInv, HoldsTheFile, file, published, locals, history
  <2>3. QED
    BY <2>1, <2>2 DEF SerialInv, Alone, Versions, Writing, Publishing, file, published, locals, history
<1>2. ASSUME NEW s \in Syncers, NEW r \in Repos, NEW m \in BOOLEAN, Start(s, r, m)
      PROVE  SerialInv' /\ UNCHANGED file
  BY <1>2, StartKeeps DEF Start
<1>3. ASSUME NEW s \in Syncers, StartRefused(s) \/ CollectFails(s) \/ ComputeRaises(s)
                                \/ PublishFails(s)
      PROVE  SerialInv' /\ UNCHANGED file
  BY <1>3, LeaveKeeps, StopKeeps
     DEF StartRefused, CollectFails, ComputeRaises, PublishFails, Fail
<1>4. ASSUME NEW s \in Syncers, Collect(s) \/ ReadRaw(s) \/ ReadForPipeline(s)
                                \/ PublishStarts(s) \/ PublishEnds(s) \/ RecordOk(s)
      PROVE  SerialInv' /\ UNCHANGED file
  BY <1>4, CollectKeeps, ReadRawKeeps, ReadForPipelineKeeps, PublishStartsKeeps,
     PublishEndsKeeps, RecordOkKeeps
     DEF Collect, ReadRaw, ReadForPipeline, PublishStarts, PublishEnds, RecordOk
<1>5. ASSUME NEW s \in Syncers, Truncate(s) PROVE SerialInv' /\ ~torn
  BY <1>5, TruncateKeeps DEF Truncate, SerialInv, HoldsTheFile
<1>6. ASSUME NEW s \in Syncers, WriteRows(s) PROVE SerialInv' /\ ~torn
  BY <1>6, WriteRowsKeeps
<1>7. ASSUME NEW s \in Syncers, Crash(s) PROVE SerialInv' /\ (torn => torn' /\ raw' = raw)
  BY <1>7, CrashKeeps
<1>8. QED
  BY <1>1, <1>2, <1>3, <1>4, <1>5, <1>6, <1>7 DEF Next, Step, file

THEOREM SyncInvariant == Spec => []IInv
<1>1. IInv /\ [Next]_vars => IInv'
  BY NextTypeOK, NextSerialInv DEF IInv
<1>2. QED
  BY InitIInv, <1>1, PTL DEF Spec

\* Whatever later syncs do, evidence a sync reported ok stays in the raw file
\* unless a crash hits the rewrite.
THEOREM EvidenceKept == Spec => []AckedEvidenceKept
<1>1. IInv => AckedEvidenceKept
  BY DEF IInv, SerialInv, AckedEvidenceKept
<1>2. QED
  BY SyncInvariant, <1>1, PTL

\* When syncs take turns, evidence a materializing sync reported ok is in the
\* published files, but for the time from a publication that was cut to the end of
\* the next one, which has it again.
THEOREM EvidencePublished == Spec => [](Serial => AckedEvidencePublished)
<1>1. IInv => (Serial => AckedEvidencePublished)
  BY DEF IInv, SerialInv, AckedEvidencePublished
<1>2. QED
  BY SyncInvariant, <1>1, PTL

\* A raw file that does not parse is never overwritten by syncs that take turns.
THEOREM TornKept == Spec => TornFileKept
<1>1. IInv /\ [Next]_vars => [Serial /\ torn => torn' /\ raw' = raw]_vars
  BY NextSerialInv DEF IInv
<1>2. QED
  BY SyncInvariant, <1>1, PTL DEF Spec, TornFileKept
=============================================================================
