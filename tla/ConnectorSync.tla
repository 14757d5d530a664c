--------------------------- MODULE ConnectorSync ---------------------------
(***************************************************************************)
(* connector_runner.run_connector_sync: check that the connector is        *)
(* enabled, collect the governance events of one repository, merge them    *)
(* into raw/connector_events.jsonl by event_id, run the pipeline over the  *)
(* whole file, append a run event.                                         *)
(*                                                                         *)
(* The merge reads the file, computes the new content in memory, opens the *)
(* file for writing (which empties it) and writes.  Nothing locks it, and  *)
(* CLI, scheduler and HTTP server may all be syncing.  A file that ends in *)
(* a broken line makes read_jsonl raise.  run_pipeline computes in memory, *)
(* which may raise, and then empties and rewrites the published files one  *)
(* after another; a run that fails or dies there leaves what it has got to *)
(* by then.  The published files are one table here, LakePipeline has them *)
(* one by one.                                                             *)
(***************************************************************************)
EXTENDS Integers

CONSTANTS
    Syncers,      \* processes or threads inside run_connector_sync
    Repos,        \* repositories the github-security connector collects
    Events,       \* stable event ids, one per repository and signal
    RepoOf,       \* RepoOf[e]: the repository the event describes
    Serial,       \* TRUE: syncs never overlap
    MaxSyncs,     \* bound on collections
    MaxFaults     \* bound on crashes and failing pipelines

ASSUME SyncAssumption ==
    /\ RepoOf \in [Events -> Repos]
    /\ Serial \in BOOLEAN
    /\ MaxSyncs \in Nat
    /\ MaxFaults \in Nat

VARIABLES
    enabled,    \* latest connector config says state = enabled
    raw,        \* raw[e]: collection the row of e in the file stems from, 0: no row
    torn,       \* the file holds a line that is not JSON
    lake,       \* lake[e]: the same for the published files
    mixed,      \* two publications have been under way at once, none alone since
    gen,        \* number of collections so far
    pc,         \* pc[s]: where syncer s is
    mine,       \* mine[s]: the collection s made
    repo,       \* repo[s]: the repository s collected
    base,       \* base[s]: the rows s read last
    materialize,\* materialize[s]: the caller's flag
    lastRun,    \* result of the latest run event
    acked,      \* history: acked[e], newest collection of e a sync reported ok
    shown,      \* history: the same for syncs that reported materialized
    wrecked,    \* history: a crash hit between emptying the file and closing it
    cut,        \* history: a publication failed or died, none has ended since
    faults

file == <<raw, torn>>
published == <<lake, mixed>>
locals == <<pc, mine, repo, base, materialize>>
history == <<acked, shown, wrecked, cut>>
vars == <<enabled, file, published, gen, locals, lastRun, history, faults>>

NoRows == [e \in Events |-> 0]
Steps == {"idle", "collect", "read", "truncate", "write", "pipeline", "compute", "publish", "record"}

Init ==
    /\ enabled = FALSE
    /\ raw = NoRows /\ torn = FALSE /\ lake = NoRows /\ mixed = FALSE /\ gen = 0
    /\ pc = [s \in Syncers |-> "idle"]
    /\ mine = [s \in Syncers |-> 0]
    /\ repo \in [Syncers -> Repos]
    /\ base = [s \in Syncers |-> NoRows]
    /\ materialize \in [Syncers -> BOOLEAN]
    /\ lastRun = "none"
    /\ acked = NoRows /\ shown = NoRows /\ wrecked = FALSE /\ cut = FALSE
    /\ faults = 0

Goto(s, step) == pc' = [pc EXCEPT ![s] = step]

\* The locals of a call that is over.
Leave(s) ==
    /\ Goto(s, "idle")
    /\ mine' = [mine EXCEPT ![s] = 0]
    /\ base' = [base EXCEPT ![s] = NoRows]
    /\ UNCHANGED <<repo, materialize>>

\* Mutant: the failure is recorded with a probe's result.
Fail_Skipped(s) == Leave(s) /\ lastRun' = "skipped"

\* The except clause: an error run event, then ConnectorSyncError.
Fail(s) == Leave(s) /\ lastRun' = "error"

Configure ==
    /\ enabled' = ~enabled
    /\ UNCHANGED <<file, published, gen, locals, lastRun, history, faults>>

Start(s, r, m) ==
    /\ pc[s] = "idle"
    /\ Serial => \A t \in Syncers : pc[t] = "idle"
    /\ enabled
    /\ Goto(s, "collect")
    /\ repo' = [repo EXCEPT ![s] = r]
    /\ materialize' = [materialize EXCEPT ![s] = m]
    /\ UNCHANGED <<enabled, file, published, gen, mine, base, lastRun, history, faults>>

\* An unknown or disabled connector: nothing but an error run event.
StartRefused(s) ==
    /\ pc[s] = "idle"
    /\ ~enabled
    /\ Fail(s)
    /\ UNCHANGED <<enabled, file, published, gen, history, faults>>

Collect(s) ==
    /\ pc[s] = "collect"
    /\ gen < MaxSyncs
    /\ gen' = gen + 1
    /\ mine' = [mine EXCEPT ![s] = gen + 1]
    /\ Goto(s, "read")
    /\ UNCHANGED <<enabled, file, published, repo, base, materialize, lastRun, history, faults>>

\* The API does not answer, or there is neither a token nor a fixture.
CollectFails(s) ==
    /\ pc[s] = "collect"
    /\ Fail(s)
    /\ UNCHANGED <<enabled, file, published, gen, history, faults>>

\* Mutant: lines that do not parse are passed over.
ReadRaw_Lenient(s) ==
    /\ pc[s] = "read"
    /\ base' = [base EXCEPT ![s] = raw]
    /\ Goto(s, "truncate")
    /\ UNCHANGED <<enabled, file, published, gen, mine, repo, materialize, lastRun, history, faults>>

ReadRaw(s) ==
    /\ pc[s] = "read"
    /\ IF torn THEN Fail(s)
       ELSE /\ base' = [base EXCEPT ![s] = raw]
            /\ Goto(s, "truncate")
            /\ UNCHANGED <<mine, repo, materialize, lastRun>>
    /\ UNCHANGED <<enabled, file, published, gen, history, faults>>

\* write_jsonl opens the file with mode "w".
Truncate(s) ==
    /\ pc[s] = "truncate"
    /\ raw' = NoRows
    /\ torn' = FALSE
    /\ Goto(s, "write")
    /\ UNCHANGED <<enabled, published, gen, mine, repo, base, materialize, lastRun, history, faults>>

\* Mutant: only the rows just collected are written.
Merged_DropsOthers(s) == [e \in Events |-> IF RepoOf[e] = repo[s] THEN mine[s] ELSE 0]

\* Collected rows replace rows of the same event_id, other rows stay.
Merged(s) == [e \in Events |-> IF RepoOf[e] = repo[s] THEN mine[s] ELSE base[s][e]]

\* When another syncer has written since this one emptied the file, both write
\* from offset zero: the longer text may leave a broken tail.
WriteRows(s) ==
    /\ pc[s] = "write"
    /\ raw' = Merged(s)
    /\ torn' \in {FALSE, torn \/ raw # NoRows}
    /\ base' = [base EXCEPT ![s] = NoRows]
    /\ Goto(s, IF materialize[s] THEN "pipeline" ELSE "record")
    /\ UNCHANGED <<enabled, published, gen, mine, repo, materialize, lastRun, history, faults>>

\* run_pipeline reads the whole file again.
ReadForPipeline(s) ==
    /\ pc[s] = "pipeline"
    /\ IF torn THEN Fail(s)
       ELSE /\ base' = [base EXCEPT ![s] = raw]
            /\ Goto(s, "compute")
            /\ UNCHANGED <<mine, repo, materialize, lastRun>>
    /\ UNCHANGED <<enabled, file, published, gen, history, faults>>

\* Rows or rules on which the computation raises: nothing has been published.
ComputeRaises(s) ==
    /\ pc[s] = "compute"
    /\ Fail(s)
    /\ UNCHANGED <<enabled, file, published, gen, history, faults>>

Publishing == {t \in Syncers : pc[t] = "publish"}

\* The rows that are found in files of which some hold rows and some others.
Mix(rows, others) == {[e \in Events |-> IF e \in D THEN rows[e] ELSE others[e]] : D \in SUBSET Events}

\* The first file is emptied; until the last one is written anything from the old
\* rows to none is there.
PublishStarts(s) ==
    /\ pc[s] = "compute"
    /\ lake' \in Mix(lake, NoRows)
    /\ mixed' = (Publishing # {})
    /\ Goto(s, "publish")
    /\ UNCHANGED <<enabled, file, gen, mine, repo, base, materialize, lastRun, history, faults>>

\* Every file is written.  Files of two runs that published at once are of either.
PublishEnds(s) ==
    /\ pc[s] = "publish"
    /\ IF mixed THEN lake' \in Mix(base[s], lake) /\ UNCHANGED cut
       ELSE lake' = base[s] /\ cut' = FALSE
    /\ base' = [base EXCEPT ![s] = NoRows]
    /\ Goto(s, "record")
    /\ UNCHANGED <<enabled, file, mixed, gen, mine, repo, materialize, lastRun,
                   acked, shown, wrecked, faults>>

\* The publication stops half-way: some rows are new, some old, some gone.
StopsPublishing(s) ==
    /\ lake' \in Mix(base[s], lake)
    /\ cut' = TRUE
    /\ UNCHANGED <<mixed, acked, shown>>

\* Mutant: the exception of the pipeline is swallowed.
PublishFails_Swallowed(s) ==
    /\ pc[s] = "publish"
    /\ faults < MaxFaults
    /\ faults' = faults + 1
    /\ lake' \in Mix(base[s], lake)
    /\ Goto(s, "record")
    /\ UNCHANGED <<enabled, file, mixed, gen, mine, repo, base, materialize, lastRun, history>>

\* The pipeline raises while it publishes: an error is recorded although the raw
\* rows are merged, and published rows are gone.
PublishFails(s) ==
    /\ pc[s] = "publish"
    /\ faults < MaxFaults
    /\ faults' = faults + 1
    /\ StopsPublishing(s)
    /\ Fail(s)
    /\ UNCHANGED <<enabled, file, gen, wrecked>>

RecordOk(s) ==
    /\ pc[s] = "record"
    /\ Leave(s)
    /\ lastRun' = "ok"
    /\ acked' = [e \in Events |-> IF RepoOf[e] = repo[s] /\ mine[s] > acked[e]
                                  THEN mine[s] ELSE acked[e]]
    /\ shown' = IF materialize[s] THEN acked' ELSE shown
    /\ UNCHANGED <<enabled, file, published, gen, wrecked, cut, faults>>

\* A process that dies while writing leaves some of the rows, and perhaps half
\* a line after them.
Crash(s) ==
    /\ pc[s] # "idle"
    /\ faults < MaxFaults
    /\ faults' = faults + 1
    /\ Leave(s)
    /\ IF pc[s] = "write"
       THEN /\ \E D \in SUBSET Events : raw' = [e \in Events |-> IF e \in D THEN Merged(s)[e] ELSE 0]
            /\ torn' \in BOOLEAN
            /\ wrecked' = TRUE
       ELSE UNCHANGED <<file, wrecked>>
    /\ IF pc[s] = "publish" THEN StopsPublishing(s) ELSE UNCHANGED <<published, acked, shown, cut>>
    /\ UNCHANGED <<enabled, gen, lastRun>>

Step(s) ==
    \/ Collect(s)
    \/ CollectFails(s)
    \/ ReadRaw(s)
    \/ Truncate(s)
    \/ WriteRows(s)
    \/ ReadForPipeline(s)
    \/ ComputeRaises(s)
    \/ PublishStarts(s)
    \/ PublishEnds(s)
    \/ PublishFails(s)
    \/ RecordOk(s)

Next ==
    \/ Configure
    \/ \E s \in Syncers :
        \/ \E r \in Repos, m \in BOOLEAN : Start(s, r, m)
        \/ StartRefused(s)
        \/ Step(s)
        \/ Crash(s)

Spec == Init /\ [][Next]_vars

-----------------------------------------------------------------------------
Rows == [Events -> Nat]

TypeOK ==
    /\ enabled \in BOOLEAN
    /\ raw \in Rows /\ torn \in BOOLEAN /\ lake \in Rows /\ mixed \in BOOLEAN /\ gen \in Nat
    /\ pc \in [Syncers -> Steps]
    /\ mine \in [Syncers -> Nat]
    /\ repo \in [Syncers -> Repos]
    /\ base \in [Syncers -> Rows]
    /\ materialize \in [Syncers -> BOOLEAN]
    /\ lastRun \in {"none", "ok", "error"}
    /\ acked \in Rows /\ shown \in Rows /\ wrecked \in BOOLEAN /\ cut \in BOOLEAN
    /\ faults \in Nat

Writing == \E s \in Syncers : pc[s] = "write"

\* When syncs do not overlap, evidence a sync reported ok stays in the raw file,
\* at that version or a newer one, whatever later syncs do or fail to do; only
\* a crash in the middle of the rewrite can take it away.
AckedEvidenceKept ==
    Serial /\ ~wrecked /\ ~Writing => ~torn /\ \A e \in Events : raw[e] >= acked[e]

\* "Current posture should refresh whenever connectors ingest new evidence":
\* evidence a materializing sync reported ok is in the published files, at that
\* version or a newer one.  It is missing from the moment the next run empties
\* them, and stays so if that run fails or dies; the first publication that ends
\* after that, of whatever repository, has all of it again.
AckedEvidencePublished ==
    ~wrecked /\ ~cut /\ Publishing = {} => \A e \in Events : lake[e] >= shown[e]

\* The same, only looked at when no sync is under way.
EvidencePublishedAtRest ==
    (\A s \in Syncers : pc[s] = "idle") => AckedEvidencePublished

\* When syncs do not overlap, a raw file that does not parse is never
\* overwritten: every later sync fails until somebody repairs it.
TornFileKept == [][Serial /\ torn => torn' /\ raw' = raw]_vars
=============================================================================
