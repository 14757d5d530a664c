---------------------------- MODULE LakePipeline ----------------------------
(***************************************************************************)
(* run_pipeline and the readers of the lake.  A run reads the raw file,    *)
(* computes everything in memory and publishes one artifact after the      *)
(* other: JSON files are opened for writing, which empties them, and then  *)
(* written; the marts are unlinked, recreated and filled.  The last        *)
(* artifact, current_posture.json, is computed from three files read back  *)
(* from disk.  API handlers and snapshots compute a posture from the same  *)
(* three files.  Nothing is locked; runs, readers and crashes interleave.  *)
(*                                                                         *)
(* The content of an artifact is the generation of the raw file it was     *)
(* computed from.                                                          *)
(***************************************************************************)
EXTENDS Integers, Sequences, SequencesExt

CONSTANTS
    Runners,      \* processes or threads that call run_pipeline
    Reviewers,    \* readers of the lake: callers of build_current_posture,
                  \* write_assessment_snapshot, verify_event
    Omitted,      \* artifacts this instance leaves out (see Optional)
    Serial,       \* TRUE: runs never overlap (reviews overlap anything)
    MaxRaw,       \* bound on generations of the raw file
    BoundRuns,    \* TRUE: at most MaxRuns runs, FALSE: any number
    MaxRuns,
    MaxCrashes    \* bound on crashes

\* duckdb is written when the package is installed; the others have no reader
\* here, and small instances do without some of them.
Optional ==
    {"control_tests", "evidence_freshness", "metrics", "dashboard_data", "duckdb", "manifest"}

ASSUME LakeAssumption ==
    /\ Runners \cap Reviewers = {}
    /\ Omitted \subseteq Optional
    /\ Serial \in BOOLEAN /\ BoundRuns \in BOOLEAN
    /\ MaxRaw \in Nat \ {0} /\ MaxRuns \in Nat /\ MaxCrashes \in Nat

Missing == 0     \* no such file; for rows read: none
Torn == -1       \* emptied, or broken by a second writer
Marts == {"duckdb", "sqlite"}

\* Rows may not pass validate_raw_events; or pass, and the computation raises on
\* them (a null entity, null controls, an unreadable collected_at, a rule of the
\* catalog that raises for a control they name); or get through both.
Kinds == {"invalid", "raises", "sound"}

\* Mutant: the posture is computed before the asset risk is published.
Steps_PostureEarly ==
    <<"bronze", "silver", "control_posture", "control_tests", "evidence_freshness",
      "current_posture", "asset_risk", "metrics", "dashboard_data", "manifest", "sqlite">>

\* Mutant: the asset risk of an earlier run stays.
Steps_NoAssetRisk ==
    <<"bronze", "silver", "control_posture", "control_tests", "evidence_freshness",
      "metrics", "dashboard_data", "manifest", "sqlite", "current_posture">>

\* The artifacts in the order of their publication.
Steps ==
    <<"bronze", "silver", "control_posture", "control_tests", "evidence_freshness",
      "asset_risk", "metrics", "dashboard_data", "duckdb", "manifest", "sqlite",
      "current_posture">>

\* The step after step i among those of this instance, 0 after the last.
NextStep(i) ==
    LET later == {j \in DOMAIN Steps : j > i /\ Steps[j] \notin Omitted}
    IN  IF later = {} THEN 0 ELSE Min(later)

Files ==
    (Optional \cup {"bronze", "silver", "control_posture", "asset_risk", "sqlite"}) \ Omitted

\* What build_current_posture reads, in this order.
Parts == <<"silver", "control_posture", "asset_risk">>

Workers == Runners \cup Reviewers
Contents == Missing..MaxRaw \cup {Torn}
Seen == UNION {[1..n -> Missing..MaxRaw] : n \in 0..Len(Parts)}

VARIABLES
    raw,        \* generation of the raw file
    kind,       \* what run_pipeline makes of its rows (see Kinds)
    file,       \* file[f]: the generation f holds, Missing or Torn
    posture,    \* current_posture.json: the parts it stems from, <<>> if unreadable
    at,         \* at[p]: index of the step run p is at, 0 when it does not run
    open,       \* open[p]: the artifact of this step is emptied or unlinked
    gen,        \* gen[p]: the generation p has read
    seen,       \* seen[w]: the parts w has read so far
    verifying,  \* the reviewers that are verifying an event
    issued,     \* the latest review: its parts, and whether the lake was calm
    runs, crashes,
    latest,     \* history: the parts of the latest posture written
    alone,      \* history: alone[p], no other run overlapped p so far
    settled,    \* history: a run that was alone ended last, none started since
    calm        \* history: calm[r], the lake was settled throughout review r

running == <<at, open, gen, alone>>
bounds == <<runs, crashes>>
vars == <<raw, kind, file, posture, running, seen, verifying, issued, bounds,
          latest, settled, calm>>

MayStart == Serial => \A p \in Runners : at[p] = 0

\* An empty directory, or the lake of an earlier complete run.
Init ==
    /\ raw = 1 /\ kind \in Kinds
    /\ \E g \in IF kind = "sound" THEN {Missing, 1} ELSE {Missing} :
         /\ file = [f \in Files |-> g]
         /\ posture = IF g = Missing THEN <<>> ELSE <<g, g, g>>
         /\ settled = (g # Missing)
    /\ at = [p \in Runners |-> 0]
    /\ open = [p \in Runners |-> FALSE]
    /\ gen = [p \in Runners |-> 0]
    /\ seen = [w \in Workers |-> <<>>]
    /\ verifying = {}
    /\ issued = [parts |-> <<>>, calm |-> FALSE]
    /\ runs = 0 /\ crashes = 0
    /\ latest = posture
    /\ alone = [p \in Runners |-> FALSE]
    /\ calm = [r \in Reviewers |-> FALSE]

\* A connector sync or an operator replaces the raw file.
Ingest ==
    /\ raw < MaxRaw
    /\ raw' = raw + 1
    /\ kind' \in Kinds
    /\ UNCHANGED <<file, posture, running, seen, verifying, issued, bounds, latest,
                   settled, calm>>

-----------------------------------------------------------------------------
(* A run of the pipeline.                                                  *)

\* The rows are read, validated and computed with in memory.
MayPublish == kind = "sound"

\* A run that raises there leaves every artifact alone.
StartRaises(p) ==
    /\ at[p] = 0 /\ MayStart /\ ~MayPublish /\ (BoundRuns => runs < MaxRuns)
    /\ runs' = IF BoundRuns THEN runs + 1 ELSE runs
    /\ UNCHANGED <<raw, kind, file, posture, running, seen, verifying, issued, crashes,
                   latest, settled, calm>>

\* The run reads the file and gets as far as its first artifact.
Start(p) ==
    /\ at[p] = 0 /\ MayStart /\ MayPublish /\ (BoundRuns => runs < MaxRuns)
    /\ at' = [at EXCEPT ![p] = NextStep(0)]
    /\ gen' = [gen EXCEPT ![p] = raw]
    /\ runs' = IF BoundRuns THEN runs + 1 ELSE runs
    /\ alone' = [q \in Runners |-> q = p /\ \A o \in Runners : at[o] = 0]
    /\ settled' = FALSE
    /\ calm' = [r \in Reviewers |-> FALSE]
    /\ UNCHANGED <<raw, kind, file, posture, open, seen, verifying, issued,
                   crashes, latest>>

Step(p) == Steps[at[p]]

\* Mutant: files are opened for appending.
Empty_Appends(p) ==
    /\ at[p] # 0 /\ ~open[p] /\ Step(p) \in Files
    /\ file' = [file EXCEPT ![Step(p)] = IF Step(p) \in Marts THEN Missing ELSE @]
    /\ open' = [open EXCEPT ![p] = TRUE]
    /\ UNCHANGED <<raw, kind, posture, at, gen, alone, seen, verifying, issued, bounds,
                   latest, settled, calm>>

\* Mutant: a mart that exists is not removed first.
Empty_KeepsMarts(p) ==
    /\ at[p] # 0 /\ ~open[p] /\ Step(p) \in Files
    /\ file' = [file EXCEPT ![Step(p)] = IF Step(p) \in Marts THEN @ ELSE Torn]
    /\ open' = [open EXCEPT ![p] = TRUE]
    /\ UNCHANGED <<raw, kind, posture, at, gen, alone, seen, verifying, issued, bounds,
                   latest, settled, calm>>

\* open("w") empties a file, the marts are unlinked if they exist.
Empty(p) ==
    /\ at[p] # 0 /\ ~open[p] /\ Step(p) \in Files
    /\ file' = [file EXCEPT ![Step(p)] = IF Step(p) \in Marts THEN Missing ELSE Torn]
    /\ open' = [open EXCEPT ![p] = TRUE]
    /\ UNCHANGED <<raw, kind, posture, at, gen, alone, seen, verifying, issued, bounds,
                   latest, settled, calm>>

Advance(p) ==
    /\ at' = [at EXCEPT ![p] = NextStep(@)]
    /\ open' = [open EXCEPT ![p] = FALSE]

\* Another run that wrote since leaves a longer tail, or not.
Write(p) ==
    /\ at[p] # 0 /\ open[p] /\ Step(p) \in Files \ Marts
    /\ \E c \in {gen[p]} \cup (IF file[Step(p)] = Torn THEN {} ELSE {Torn}) :
         file' = [file EXCEPT ![Step(p)] = c]
    /\ Advance(p)
    /\ UNCHANGED <<raw, kind, posture, gen, alone, seen, verifying, issued, bounds,
                   latest, settled, calm>>

\* A fresh database takes the tables; one that another run created since
\* already has them (see Raise).
FillMart(p) ==
    /\ at[p] # 0 /\ open[p] /\ Step(p) \in Marts /\ file[Step(p)] = Missing
    /\ file' = [file EXCEPT ![Step(p)] = gen[p]]
    /\ Advance(p)
    /\ UNCHANGED <<raw, kind, posture, gen, alone, seen, verifying, issued, bounds,
                   latest, settled, calm>>

\* verify_event reads two files.
PartsOf(w) == IF w \in verifying THEN <<"silver", "bronze">> ELSE Parts

\* A posture needs all its parts; a verification ends without a silver record.
ReadsOn(w) ==
    Len(seen[w]) < Len(PartsOf(w)) /\ ~(w \in verifying /\ seen[w] = <<Missing>>)
NextPart(w) == PartsOf(w)[Len(seen[w]) + 1]

\* Mutant: a broken file is passed on as it is.
Rows_Unchecked(f) == file[f]

\* read_jsonl: an emptied file has no rows; one cut in a line raises (Unreadable).
Rows(f) == IF file[f] = Torn THEN Missing ELSE file[f]

ReadPart(w) ==
    /\ ReadsOn(w) /\ (w \in verifying \/ file[NextPart(w)] # Missing)
    /\ seen' = [seen EXCEPT ![w] = Append(@, Rows(NextPart(w)))]

ReadBack(p) ==
    /\ at[p] # 0 /\ Step(p) = "current_posture"
    /\ ReadPart(p)
    /\ UNCHANGED <<raw, kind, file, posture, running, verifying, issued, bounds,
                   latest, settled, calm>>

EmptyPosture(p) ==
    /\ at[p] # 0 /\ ~open[p] /\ Step(p) = "current_posture" /\ Len(seen[p]) = Len(Parts)
    /\ posture' = <<>>
    /\ open' = [open EXCEPT ![p] = TRUE]
    /\ UNCHANGED <<raw, kind, file, at, gen, alone, seen, verifying, issued,
                   bounds, latest,
                   settled, calm>>

\* The run ends: this is its last step.
WritePosture(p) ==
    /\ at[p] # 0 /\ open[p] /\ Step(p) = "current_posture"
    /\ \E c \in {seen[p]} \cup (IF posture = <<>> THEN {} ELSE {<<>>}) : posture' = c
    /\ latest' = seen[p]
    /\ seen' = [seen EXCEPT ![p] = <<>>]
    /\ at' = [at EXCEPT ![p] = NextStep(@)]
    /\ open' = [open EXCEPT ![p] = FALSE]
    /\ settled' = alone[p]
    /\ UNCHANGED <<raw, kind, file, gen, alone, verifying, issued, bounds, calm>>

Stop(p) ==
    /\ at' = [at EXCEPT ![p] = 0]
    /\ open' = [open EXCEPT ![p] = FALSE]
    /\ seen' = [seen EXCEPT ![p] = <<>>]
    /\ UNCHANGED <<raw, kind, file, posture, gen, alone, verifying, issued, runs,
                   latest, settled, calm>>

Unreadable(w) ==
    /\ ReadsOn(w)
    /\ file[NextPart(w)] = Torn \/ (w \notin verifying /\ file[NextPart(w)] = Missing)

\* CREATE TABLE on a mart that is there again; a part that cannot be read.
Raise(p) ==
    /\ at[p] # 0
    /\ \/ open[p] /\ Step(p) \in Marts /\ file[Step(p)] # Missing
       \/ Step(p) = "current_posture" /\ Unreadable(p)
    /\ Stop(p)
    /\ UNCHANGED crashes

Crash(p) ==
    /\ at[p] # 0 /\ crashes < MaxCrashes
    /\ Stop(p)
    /\ crashes' = crashes + 1

-----------------------------------------------------------------------------
(* A reader: GET /posture/current, a snapshot, a metric capture, or the    *)
(* verification of an event, which compares the hash its silver row holds  *)
(* with that of its bronze row.                                            *)

BeginVerify(r) ==
    /\ seen[r] = <<>> /\ r \notin verifying
    /\ verifying' = verifying \cup {r}
    /\ UNCHANGED <<raw, kind, file, posture, running, seen, issued, bounds, latest,
                   settled, calm>>

ReviewPart(r) ==
    /\ ReadPart(r) /\ UNCHANGED verifying
    /\ calm' = [calm EXCEPT ![r] = settled /\ (seen[r] = <<>> \/ @)]
    /\ UNCHANGED <<raw, kind, file, posture, running, issued, bounds, latest, settled>>

Review(r) ==
    /\ seen[r] # <<>> /\ ~ReadsOn(r)
    /\ issued' = [parts |-> seen[r], calm |-> calm[r]]
    /\ seen' = [seen EXCEPT ![r] = <<>>]
    /\ calm' = [calm EXCEPT ![r] = FALSE]
    /\ verifying' = verifying \ {r}
    /\ UNCHANGED <<raw, kind, file, posture, running, bounds, latest, settled>>

ReviewFails(r) ==
    /\ seen[r] # <<>> /\ Unreadable(r)
    /\ seen' = [seen EXCEPT ![r] = <<>>]
    /\ calm' = [calm EXCEPT ![r] = FALSE]
    /\ verifying' = verifying \ {r}
    /\ UNCHANGED <<raw, kind, file, posture, running, issued, bounds, latest, settled>>

RunStep(p) ==
    \/ Empty(p) \/ Write(p) \/ FillMart(p)
    \/ ReadBack(p) \/ EmptyPosture(p) \/ WritePosture(p)
    \/ Raise(p)

Next ==
    \/ Ingest
    \/ \E p \in Runners : Start(p) \/ StartRaises(p) \/ RunStep(p) \/ Crash(p)
    \/ \E r \in Reviewers : BeginVerify(r) \/ ReviewPart(r) \/ Review(r) \/ ReviewFails(r)

Spec == Init /\ [][Next]_vars

\* A run goes on until it ends; the scheduler starts another one.
Fairness ==
    /\ \A p \in Runners : WF_vars(RunStep(p))
    /\ WF_vars(\E p \in Runners : Start(p))

FairSpec == Spec /\ Fairness

-----------------------------------------------------------------------------
(* Properties.                                                             *)

TypeOK ==
    /\ raw \in 1..MaxRaw /\ kind \in Kinds
    /\ file \in [Files -> Contents]
    /\ posture \in Seen /\ latest \in Seen
    /\ at \in [Runners -> 0..Len(Steps)]
    /\ open \in [Runners -> BOOLEAN]
    /\ gen \in [Runners -> 0..MaxRaw]
    /\ seen \in [Workers -> Seen]
    /\ verifying \subseteq Reviewers
    /\ issued \in [parts : Seen, calm : BOOLEAN]
    /\ runs \in 0..MaxRuns /\ crashes \in 0..MaxCrashes
    /\ alone \in [Runners -> BOOLEAN] /\ settled \in BOOLEAN
    /\ calm \in [Reviewers -> BOOLEAN]

OneGeneration(parts) == \A i, j \in DOMAIN parts : parts[i] = parts[j]

\* A run that no other run overlapped leaves every artifact, the marts and the
\* posture at its own generation, whatever crashes and overlapping runs had left.
QuietRunHeals ==
    settled => \E g \in 1..MaxRaw :
        /\ \A f \in Files : file[f] = g
        /\ posture = <<g, g, g>>

\* A review of a lake that no run touches meanwhile, and whose last run was
\* alone, never mixes generations, although it reads several files; so verify_event
\* does not take evidence nobody touched for drifted.
CalmReviewCoherent == issued.calm => OneGeneration(issued.parts)

\* What readers of current_posture.json are promised while runs do not overlap.
Feed == INSTANCE PostureFeed WITH
    answer <- ToSet(latest),
    up <- posture # <<>>

FeedSpec == Feed!Spec

\* Evidence that run_pipeline gets through reaches the posture, through crashes and
\* runs that failed while publishing, and whatever the raw file held before: after
\* one that kept every run from publishing, the repaired one does.  Evidence that
\* only passes validate_raw_events need not.
EvidenceReachesPosture ==
    \A g \in 1..MaxRaw :
        (raw = g /\ kind = "sound") ~> (g \in ToSet(posture) \/ raw > g)
=============================================================================
