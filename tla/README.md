# Verification of the security compliance lakehouse

TLA+ modules, TLC configurations and TLAPS proofs for the Python package
`src/src/security_lakehouse/`. Source paths below are relative to that package
unless they start with another directory. `PROJECT.json` maps every definition
to the lines it models, and lists every hazard at its line.

1. [The system](#1-the-system)
2. [The modules](#2-the-modules)
3. [The runs](#3-the-runs)
4. [The proofs](#4-the-proofs)
5. [Where code and documentation disagree](#5-where-code-and-documentation-disagree)
6. [What is not modelled](#6-what-is-not-modelled)
7. [Plan](#7-plan)

## 1. The system

A lake is a directory with `raw/`, `bronze/`, `silver/`, `gold/` and `mart/`. An
optional SQL database (SQLAlchemy) holds accounts, remediation, tags and metric
points. Four kinds of process share them, and no process takes a lock:

* `server.py`: a threaded HTTP server without authentication, for local use;
* `server_app.py`: the FastAPI server, with API keys, sessions and scopes;
  handlers run on a thread pool;
* `cli.py`: one process per command;
* the scheduler: a Kubernetes CronJob (`scheduler tick` every five minutes,
  `concurrencyPolicy: Forbid`, `restartPolicy: OnFailure`), the daemon
  `scheduler run`, or `POST /api/scheduler/tick`.

`deploy/helm/trustops/values.yaml:10` asks for a single writer of the lake; the
API pod and the CronJob are two.

| component | source | state it keeps | operations | what makes it hard | what makes it correct |
|---|---|---|---|---|---|
| scheduler | `scheduler.py` | `gold/scheduler_state.jsonl` | `tick`, `run_forever` | overlapping ticks; death between a run and its record; targets that raise | nothing runs twice in its period, the state tells the latest run, a failed sync is retried, everything due is run |
| connector sync | `connector_runner.py` | `raw/connector_events.jsonl`, `gold/connector_runs.jsonl` | `run_connector_sync` | read, merge, truncate, rewrite without a lock; failure after the rewrite, or while the pipeline publishes | acknowledged evidence stays in the raw file, and is in the lake after every complete publication |
| connector state | `connector_state.py`, `connectors.py` | `gold/connector_config.jsonl`, `gold/connector_runs.jsonl` | configuration, probe, run events, catalog view | latest by timestamp text; enablement read before the result is appended | the current configuration and probe are the latest, to a second |
| pipeline | `pipeline.py`, `validation.py`, `io.py` | bronze, silver, gold files, marts, manifest | `run_pipeline` | rows and rules that make it raise; a dozen artifacts published one after another; marts unlinked and recreated | a complete run leaves one generation everywhere |
| policy engine | `policy.py` | none | `evaluate_control`, `validate_rule` | fallback on a bad rule; what raises and what does not | every rule that lints evaluates |
| freshness, control tests | `evidence_freshness.py`, `programs.py` | none | freshness rows, control summary, test result | three times of evaluation; boundaries; missing references | a test passes only on fresh, complete evidence |
| assessment | `assessment.py` | `gold/current_posture.json`, `gold/snapshots/` | `build_current_posture`, `write_current_posture`, `write_assessment_snapshot` | reads three files that a run rewrites; old statuses, new freshness | one generation; scores monotone in the evidence |
| verification | `verification.py` | none | `verify_event` | reads silver and bronze one after the other | untouched evidence verifies |
| workflows | `workflows.py` | `gold/workflows.jsonl`, `gold/workflow_runs.jsonl` | `save_workflow`, `list_workflows`, `run_workflow` | version race; cycles and unknown sources; conditional edges; error in mid-run | each node at most once, parents first, nothing runs that an edge declines |
| violation tracking | `tracking.py` | `gold/violation_tracking.jsonl` | `append_event`, `latest_state` | order by timestamp text; a writer that stamped early appends late | the current state is never a second older than an answered change |
| trust shares | `trust_share.py` | `gold/trust_shares.jsonl` | create, list, revoke | expiry; revocation by append | a revoked share stays revoked |
| accounts | `auth/`, `db/repository.py` | tenants, users, API keys, sessions | login, logout, key and session use, mint, revoke, commands | revocation against a request in flight; provisioning race | a dead credential opens nothing and stays dead |
| remediation | `db/remediation.py`, `db/metrics.py` | tasks, evidence requests, exceptions | create, update, status, revoke, insights | column-wise writes of concurrent transactions; refused requests | stamps match statuses; what is over stays over |
| tags, saved views | `db/tags.py` | tags, entity tags, views | create, delete, attach, detach | unique-key race; SQLite does not cascade | attach is idempotent; a deleted tag is gone from every entity |
| metric points | `db/metrics.py` | metric points | capture, list | a capture computes a posture while a run publishes | points describe one posture |
| audit | `audit_log.py`, `auth/request_audit.py` | `gold/request_audit.jsonl` | middleware append, merged view | appended after the handler committed; a torn line takes the next with it | the line names who did what; what was answered is listed |
| HTTP layer | `api_legacy.py`, `api_v1.py`, `server_app.py`, `server.py` | none of its own | routes, filters, sorting, pages, event stream | change detection in the event stream | same answer from both APIs |
| framework sync | `framework_sync.py` | `frameworks/registry.json` | `sync_frameworks` | partial failures; rewrite in place | the registry records what the last report says |
| database schema | `db/migrate.py`, `migrations/` | tables, `alembic_version` | upgrade by the server and by commands | overlapping upgrades; death between a table and its stamp on SQLite | whoever upgraded finds the tables of its revision |
| catalogs and views | `catalog.py`, `controls.py`, `mappings.py`, `readiness.py`, `framework_*.py`, `graph.py` | none | joins, counts, gates | none | gates in order |

How they interact: a tick runs workflows and syncs; a sync rewrites the raw file
and runs the pipeline; the pipeline evaluates freshness, rules and tests, and
publishes; handlers read what is published, compute postures and snapshots from
it, and append to the logs; handlers change the database in transactions of their
own, after an identity was found and a scope checked in the same database, and
before the audit middleware appends its line to the lake. The server and most
commands upgrade the schema before they open the database.

## 2. The modules

| module | models | used by |
|---|---|---|
| `Scheduler` | `scheduler.py`: `tick`, state file, daemon | `MCScheduler`, `SchedulerProofs` |
| `ConnectorSync` | `connector_runner.py`: one sync, step by step | `MCConnectorSync`, `ConnectorSyncProofs` |
| `PostureFeed` | what readers of the posture are promised | `LakePipeline` (refinement), `LakePipelineProofs` |
| `LakePipeline` | `pipeline.py`, `io.py`, reads of `assessment.py`: publication order | `MCLakePipeline`, `LakePipelineProofs` |
| `Policy` | `policy.py`: rules, predicates, lint | `Evaluation` |
| `Evaluation` | what `pipeline.py`, `evidence_freshness.py`, `programs.py` and `assessment.py` compute | `MCEvaluation`, `EvaluationProofs` |
| `Remediation` | `db/remediation.py` and its handlers, the insights | `MCRemediation`, `Server`, `RecordProofs` |
| `Workflow` | `workflows.py`: versions, topological order, action library, run | `MCWorkflow`, `WorkflowProofs` |
| `Access` | `auth/`, `db/repository.py`, the handlers and commands on accounts, the request audit | `Server`, `AccessProofs` |
| `Labels` | what clients of the tag routes are promised | `Tags` (refinement), `RecordProofs` |
| `Tags` | `db/tags.py`, migration 0005 and its handlers, saved views | `Server`, `RecordProofs` |
| `EventLog` | `tracking.py`, `trust_share.py`, `connector_state.py`, `audit_log.py` | `Server`, `ServerProofs` |
| `FrameworkSync` | `framework_sync.py` | `Server`, `ServerProofs` |
| `Migrations` | `db/migrate.py`, `migrations/` | `Server`, `ServerProofs` |
| `Server` | `Remediation`, `Access`, `Tags`, `EventLog`, `FrameworkSync` and `Migrations` in one specification | `MCServer`, `ServerProofs` |

**Scheduler.** `lastFired` is what `_read_state` would return from the state file
(the largest `fired_at` per target). A ticker goes through the phases of `tick`:
capture the moment, list the workflows, read the state once, run each due
workflow, list the connectors, run each due one. `RunReturns` and `RecordFire` are
two steps because the run and the append of its record are; a crash or a failed
append between them loses the record (`lost`). An append that stops in the middle
leaves a half line (`torn`), and the next record, of whatever target and process,
merges with it and is lost as well (`MergeRecord`). A run that raises records nothing
(`RunRaises`). One that returns is recorded whatever its result: `run_workflow`
returns `error` when a node fails, `run_connector_sync` raises when it does not
succeed (`Results`). The histories `runs` and `lost` are read by properties only.

**ConnectorSync.** One step per file access: collect, read the raw file, truncate,
write, read it again in the pipeline, compute, start to publish, end, record. A row is
abstracted to the number of the collection it came from, so "newer evidence replaces
older" is visible. `torn` is a raw file that does not parse. A failure after the
rewrite is recorded as an error with the rows already merged. The published files are
one table, `lake`: a publication empties it and refills it, one that fails or dies
leaves any mixture of new, old and missing rows (`Mix`, `cut`), and so do two at once
(`mixed`).

**LakePipeline.** A run reads, validates and computes before it publishes, and raises
there, without having touched an artifact, on rows that `validate_raw_events` refuses
or the computation does not bear (`kind`, `StartRaises`). The content of an artifact
is the generation of the raw file it was computed from, `Missing` or `Torn`. Opening a
file for writing empties it and is a step of its own; a mart is unlinked, then created
and filled, and creating tables that another run has made again raises.
`current_posture.json` is computed from three files read back one by one, as every
reader does. A reviewer may also verify one event (`verification.py`): silver first,
then bronze, which a run in between makes another generation. A missing or empty file
reads as no rows. The mart is filled in one step: its only writer that can get in
between fails at `CREATE TABLE`. `PostureFeed` is the abstract promise: the posture
stems from one generation, never goes back, and may be away.

**Policy.** A JSON object is a record, its keys the `DOMAIN`. A recursive function
gives each predicate of the catalog a verdict: match, no match, raise. The catalog's
predicates come in `Levels`, members on lower levels than their connective, as a
finite text has them (`PolicyAssumption`). Python evaluates all
members of an `all` or `any` before combining them, so a member that raises is
not saved by another one (`Combine`). Only the resolution of a rule is inside the `try`.

**Evaluation.** A run computes control rows (freshness and rules at one time), control
tests (at a later time) and the posture (later still); `Tick` may come between any
two, and `Review` computes a posture from the published rows at any later time.
Publication is one step here, `LakePipeline` has the interleavings. Severities,
statuses and the four places that list "open" statuses are as in the code. The SLO of
an event is that of its type: one connector reports each type here, and the code takes
the SLO of the connector the row's source belongs to. Times are numbers; scores are in
hundredths, to which quotients are rounded (`Nearest`; a half goes up, where the code
leaves it to its floating point). The next raw file differs from the last in one
event, which reaches every combination of events.

**Remediation.** A request loads a row, assigns attributes, and commits; SQLAlchemy
writes only the columns that differ from what was loaded. `was` is the loaded row,
`mem` the object, `Commit` writes the difference. `Refuse` and `Drop` close without
a commit. The tenant check, titles and priorities (except the refusal of an unknown
one) are abstracted.

**Workflow.** `NumberVersion` and `AppendVersion` are the two halves of
`save_workflow`. A run executes Kahn's algorithm as the code does, parallel edges and
unknown sources included, appends what is left, and then takes node after node
(`Turn`, the first place of the order without a result): `Skip` when an incoming edge
declines, else `Execute`. `Outcomes` is the action library: how a trigger, a check, an
action and an unknown type can end. An action that succeeds has changed the lake, one
that raised may have (`touched`); `Die` ends a run without a record, and its changes
stay. Edges are known by their index, so that parallel ones count twice; `InOrder`
lists a set of nodes as the code meets them. Node ids are fixed to `NodeSeq`, because
the order of insertion is all the sort uses; conditions outside the three known ones
(which allow after any parent that ran) are left out.

**Access.** A request is received with a credential, resolved (the row is read),
identified (the user and the clock are read, `last_used_at` is written), handled
(several statements) and audited; each is a step. Single sign-on callbacks, legacy
POSTs and the middleware run on the event loop, which `loop` holds from one await to
the next; everything else interleaves. Commands and administrators change accounts
between any two steps. `stale` remembers that the credential was dead, or its user
disabled, on arrival; a user who is disabled later may still see this one request
answered. Tokens, hashes and the messages of OIDC and SAML are the identity of the
row they stand for.

**Labels and Tags.** Requests find a tag, look for an association, insert or remove
it, and answer, one statement a step. `enforced` tells Postgres from SQLite, where
`ON DELETE CASCADE` does nothing because nobody sets `PRAGMA foreign_keys`: the
associations of a deleted tag stay, and the join of `tags_for_entity` hides them.
`Labels` has only what a client sees, and `Tags` implements it either way.

**EventLog.** Four logs of one shape. A writer takes its time, then appends; a write
can stop in the middle and leaves half a line, with which the next record merges to
one that does not parse. What is current is computed from the lines as the code does
it: largest `occurred_at` text (an even time has no fraction and sorts after the odd
one of its second), or `created_at` with later lines preferred for shares. `answered`
remembers the records whose append was answered. A line cut just before its newline
counts as half a line, although it parses until the next append: nobody was answered.
The audit
log merges the logs by the field each writes (`when`).

**FrameworkSync.** One sync at a time, as the weekly job runs it: read the registry,
pull one source after another, empty the file, fill it. Sources change, are out of
reach, entries are incomplete, the process dies.

**Migrations.** A revision is the sequence of its tables. On SQLite each
`CREATE TABLE` stands at once and the stamp follows in a transaction of its own; on
Postgres an upgrade is one transaction (`atOnce`). An upgrade reads the stamp once;
a table that exists makes it raise. The first table of a revision is what keeps two
overlapping upgrades apart. An index is part of its table's step.

**Server** composes the parts that share no state with each other. `part` never
changes and says which part moves, so one run checks every behaviour of each at the
sum of their state spaces instead of the product. This loses nothing: no step of one
part reads or writes a variable of another.

## 3. The runs

| run | bounds | distinct states | what it shows |
|---|---|---|---|
| `scheduler_overlap` | one workflow, two processes, time to 4, one fault | 8.2 M | neither process refires a target within its period unless the record was lost; the state tells the latest recorded run, in whatever order records arrive |
| `scheduler_live` | two workflows (one returns `error`, one raises, always), a connector, ticks never overlap, time to 3, one more fault | 1.2 M | nothing runs twice within its period; the state tells the latest recorded run, for a connector one that ended ok; every due target that can run is run |
| `sync_serial` | two repositories, four syncs in turn, two faults | 0.61 M | acknowledged evidence stays in the raw file, and is in the lake whenever the last publication has ended; a broken raw file is never overwritten |
| `sync_overlap` | two syncs at a time | violation | see section 5 |
| `lake_serial` | two raw generations, sound or not, any number of runs, a reviewer, one crash | 0.70 M | `PostureFeed` is implemented; reviews and verifications no run touches are coherent; evidence a run gets through reaches the posture |
| `lake_overlap` | two overlapping runs and a third, one crash | 3.1 M | a run that was alone repairs what overlapping and broken runs left |
| `evaluation` | two events of any kind, two controls in two frameworks, three rule assignments, two types with SLOs 0 and 1, time to 3 | 0.12 M | see below |
| `policy_lint` | one event, one bad rule | violation | see section 5 |
| `server` | see below | 3.3 M | what clients were told stays true, part by part |
| `remediation_overlap` | a task and an exception, two requests at a time | 3.6 M | a status changes only to one that was asked for; an exception that is over stays over |
| `remediation_insights` | a task, two requests at a time | violation | see section 5 |
| `workflow_run` | every graph of three nodes and up to three edges, every outcome of every kind of node, a server that dies | 2.2 M | each node once; parents first; no node runs that an edge declines; a recorded run tells every change it made and none comes after an error |

`server` moves one part at a time:

| part | bounds | distinct states | properties |
|---|---|---|---|
| remediation | a task, a request, an exception, one request at a time | 0.51 M | `AnswerHolds` |
| access | two tenants, one email, two keys, one session, two calls of any kind, two commands or changes by administrators, one tick of the clock | 1.49 M | `StaleOpensNothing`, `CredentialStaysDead`, `AuditTellsTheTruth`, `LoginsNeverCollide` |
| tags | two tags, two names, one entity, two associations, one view, two calls, foreign keys on and off | 0.14 M | `AttachKeepsItsWord`, `LabelsKept` (`Labels` is implemented) |
| logs | one violation, two connectors (one in the catalog), one share, two writers, three lines, one torn log, times 0 to 2 | 1.19 M | `ShareStaysRevoked`, `AnsweredStaysCurrent`, `AckedIsLogged` |
| registry | two frameworks, one new body each, two days | 6 k | `SyncRecordsWhatItPulled` |
| schema | the six revisions, two upgrades that overlap and die, SQLite and Postgres | 7 k | `UpgradedIsThere` |

`ServerTypeOK` is the type invariant of all of them.

`evaluation` checks five properties: a passing test has earned it (`PassIsEarned`);
an open critical event shows in posture, framework, control and test, and the counts
of pipeline and assessment agree (`ReportsAgree`); time heals nothing
(`AgingNeverHeals`); closing a finding never hurts (`ClosingHelps`); and scores stay
within 0 and 100 (`TypeOK`).

*Why the bounds are enough.* The hazards are races of two actors, or one actor and a
crash; two actors, one or two rows and one fault more than needed reach them all. The
scheduler's clock covers two full periods where ticks overlap, so that a target is
due, run and due again; every run of one workflow ends in `error` (`Endings`), which
is recorded like any other result; the clock of `Evaluation` runs to three times the
longest SLO, so that evidence passes through fresh, stale and expired. Two raw
generations distinguish "this run" from "an earlier one". Three nodes and three edges
hold every shape the sort treats differently: chain, diamond minus an edge, cycle,
self-loop, parallel edges, a node behind a cycle, an unknown source. Two calls and two
outside changes let a credential be revoked, or a user disabled or created, before,
between and after the reads of a request; two associations let one be detached and
made anew while an attach is on its way; three lines and two writers let two records
arrive out of order behind a third, or a torn line take its successor. The revisions
are the ones of the code. Two events of any type and any citation allow two events of
one type (the choice of the newest), one event on two controls, and two severities on
one control. Every property is violated by at least one plausible change of the code
under the same bounds (the mutants listed in `PROJECT.json`).

*Symmetry* is used for processes, calls, writers and events where every property and
action treats them alike, and never in a run with liveness properties.

*Fairness.* `Scheduler`: a step of a tick that can be taken is taken unless its
process dies, and ticks keep being started: the CronJob's schedule restarts them,
the daemon loops. Fairness is weak, because a tick waits for nobody. Only ticks that
never overlap are assumed to be live. `LakePipeline`: a run goes on until it ends or
dies, and another one is started; again weak. No fairness is assumed of requests,
reviewers, the clock, crashes or faults.

*Deadlock* is checked except where the bounded clock or the bounded number of runs
ends the instance (`CHECK_DEADLOCK FALSE` in the two lake configurations and in
`Server.cfg`, where ids, lines and commands are used up).

## 4. The proofs

TLAPS proves these for all values of the constants that satisfy the `ASSUME`s of the
modules, which TLC evaluates on every run. The assumptions say what kind of thing a
constant is (a set of times is a set of numbers), that names which stand for nothing
are nobody's name, and which side of a configuration holds (`Serial`, `Exclusive`);
none of them bounds the number of processes, rows, events or steps. Every proof has
the same shape: an invariant, the initial states satisfy it, every action keeps it,
it implies the property. What follows is why the properties are not inductive and
what the invariants add.

`SchedulerProofs` (any targets, periods, processes, faults):

* `SchedulerType`: `Spec => []TypeOK`.
* `NoRefire`, `SingleFire`, `StateIsHonest`: the three safety properties of the runs.
  Whether a run may follow another depends on the copy of the state the tick works on.
  `IInv` adds: a run that waits for its record belongs to the tick in progress
  (`InFlightInv`); a run whose record is not lost waits for it or is covered by the
  state (`RecordedInv`); a run of a connector ended ok (`ResultInv`); under `Exclusive`
  one tick is in progress (`OneTickInv`); what a tick has still to visit is due by its
  copy (`TodoInv`); the copy covers every run the tick could collide with, except for
  targets it is done with (`SnapInv`).

`ConnectorSyncProofs` (any events, repositories, syncs, faults):

* `TypeCorrect`, and for syncs that take turns `EvidenceKept`, `EvidencePublished`
  and `TornKept`. `AckedEvidenceKept` says nothing while the file is being rewritten,
  `AckedEvidencePublished` nothing from the start of a publication to the end of the
  next complete one: rows are gone then, and the theorem says that they come back.
  `SerialInv` says where the evidence is meanwhile: in the rows the one syncer in
  progress read before it emptied the file (`Alone`, `HoldsTheFile`). `Versions` adds
  that nothing acknowledged is newer than what that syncer has collected; the rows it
  publishes are those of the raw file, which has all that was acknowledged.

`LakePipelineProofs` (any runners, reviewers, generations, runs, crashes):

* `TypeCorrect`; `QuietHeals` and `CalmCoherent`, however other runs overlap.
  `QuietRunHeals` speaks of the moment a run ends. `Undisturbed` follows the run from
  its start: as long as no other run has touched the lake, every artifact before its
  step holds its generation, the one it has open is empty, and the parts it has read
  back are its own. `SettledInv` and `CalmInv` carry this on until the next run, and
  to the reviews that begin and end before it.
* `FeedKept`: when runs take turns, `LakePipeline` implements `PostureFeed`; every
  step is one of its steps or leaves the posture alone. Runs that take turns are
  undisturbed, so this rests on the same invariant.

`EvaluationProofs` (any events, controls, frameworks, rules, requirements, SLOs, times):

* `EvaluationInvariant`: what is on disk is what the code computes from the events
  that are there, each part at some time until now (`IInv`). The five properties are
  consequences of it and of what the computations do, which takes the lemmas below;
  the two action properties compare a part computed at that time with one computed now.
* *Sums* (`SumRemoves`, `TotalGrows`, `TotalOfSome`, `TotalCount`). The library's
  induction takes an operator as a parameter, so induction is stated over sets: a
  family of subsets of `S` that has the empty set and grows by any element has all of
  the finite `S` (`AddingUp`, from the well-foundedness of finite sets). With the
  family of sets that a sum is right for, this gives sums that are well-defined, grow
  with their terms, and count.
* *Rules* (`Evaluates`, `NamedVerdict`, `NamedControl`). By induction over the levels
  there is one function of verdicts, and it satisfies its recursion. The named rules,
  and what falls back to one, never raise and fail a control exactly when it has an
  open violation of the kind they look for, or old or no evidence (`FailsControl`).
  That can only come about as time passes (`FailsLater`) and only go away as a finding
  is closed (`ClosedFails`).
* `LintedRuleRaises`: a rule that passes the lint raises exactly if some leaf in it
  names two things or describes one by a number. So the rule of
  `policy_lint` is one of two ways to get past the lint, and a rule of that kind raises
  for every control and whatever its evidence. A second induction over the levels shows
  what the lint has seen (`LintsWhole`); a connective, which evaluates all of its
  members, raises just when one does (`ConnectiveRaises`). Strings and lists where an
  object belongs, and objects with values of the wrong type inside (`{"min": "x"}`),
  are not in the model.
* *Freshness* (`LatestIsThere`, `FreshControl`, `StaleLater`): which evidence is the
  newest does not depend on the time, and what is stale stays so.
* *Scores* (`ScoreFalls`, `AverageFalls`): penalties grow with the violations, rounding
  and averages keep the order, and an average of points lies between 0 and 100.
* `EvaluationTypes`, `ReportsDoAgree`, `ClosingDoesHelp`, `PassesAreEarned`,
  `AgingDoesNotHeal`: the five properties of the run. The counts of the pipeline (per
  control) and of the assessment (pairs of event and control) agree because both count
  the same pairs, grouped differently (`ViolationsOf`).

`WorkflowProofs` (any nodes, graphs, savers, saves, outcomes):

* `TypeCorrect`, `OrderIsComplete`, `ParentsComeFirst`, `DeclinedNeverRun`,
  `EffectsTold`. While nodes are sorted (`SortInv`), a node counts the edges into it
  whose source has no place yet, parallel edges and unknown sources included, and it
  has a place or is ready just when there is none. When nothing is ready and a node is
  left, every such node has an open edge, so no set of nodes that contains its parents
  and is free of circles holds it: that is how `ParentsFirst` reads "a node that can
  be sorted". While nodes are executed (`RunInv`), what has a result is a beginning of
  the order that an error ends, so a parent's result no longer changes once a child was
  let through, and every change of the lake is by a node with a result.

`AccessProofs` (any tenants, users, credentials, requests, commands):

* `AccessTypes`, `DeadStaysDead`, `StaleStaysOut`, `AuditIsTrue`. A request reads the
  row of its token, then the user, and compares the expiry with the time it arrived;
  anything may change in between. Rows move one way (`AccessForward`): a credential
  keeps its owner and its expiry, revoked stays revoked, a user stays known and is not
  activated again. So a credential that was stale on arrival fails at one of the two
  later reads (`StaleInv`), and the identity a request carries is the owner of its
  credential to the end (`StageInv`, `LineInv`), which is what the audit line names.
* `LoginsKeepApart`: a login holds the event loop from its look-up of the user to its
  commit (`LoginInv`), and only logins and commands make users.

`RecordProofs`, of `Remediation` (any rows, requests, dates) and of `Tags` (any tags,
names, entities, requests, foreign keys enforced or not):

* `RemediationType`, `EditsKeepStatus`, `ExceptionsStayOver` hold however requests
  overlap. They need only what a request about to write holds (`PendingOk`): it
  assigned a status only if it was asked to, and an exception it works on was active
  and becomes revoked.
* `StampsMatch`, `AnswersHold` hold for one request at a time. `SerialInv` adds that
  what the request loaded is what is stored, so that writing the changed columns
  stores the whole object, and that the object's stamp matches its status.
* `TagsType`, `AttachesKept`. Rows only move on (`TagsForward`), so what a request has
  seen of its pair can be undone in two ways, and both leave a trace (`TakenAway`): the
  tag is gone, or a row of the pair is that was not gone when the request began.
* `ImplementsLabels`: `Tags` implements `Labels`. The unique constraint keeps one row
  for a pair (`OneLinkPerPair`): a detach takes a label away and leaves no second one.

`ServerProofs`:

* `EventLog` (any files' rows, writers, lines): `LogsType`, `AnsweredIsLogged`,
  `RevokedStays`, `AnsweredCurrent`. A line that parses is a record some request made;
  only the last line can lack its end, and only after a write that stopped (`LinesInv`);
  what was answered and is not in the file is counted by the torn line that took it with
  it (`CountInv`), and so are the answered records that are missing themselves
  (`MissingInv`), so that what is current is no older than any other; all lines of a
  share carry the `created_at` of its first, which is why the last line wins and a
  revocation stays (`ShareInv`).
* `FrameworkSync`: `SyncRecords`. While a sync pulls, the registry stays as it was
  read, the entries it holds differ only for sources it reached, and no report stands
  while the registry is being written (`PullInv`).
* `Migrations`: `UpgradedStands`. Whoever creates the first table of a revision is
  alone with it, as everyone else finds the table and raises (`UpgradeInv`); a table no
  stamp accounts for is being made by an upgrade that runs, unless one was cut off
  (`Accounted`).
* `PartsAlone`, `ServerType`, `ServerSafe`: no step of one part of `Server` touches the
  state of another, so the server behaves, for each part, as the part alone does, and
  all of the theorems about `Remediation`, `Access`, `Tags`, `EventLog`,
  `FrameworkSync` and `Migrations` hold of it.

Only model-checked: liveness (`DueTargetsFire`, `EvidenceReachesPosture`), which is
beyond the prover. Every other property of a passing run is a theorem. Only proved:
`StampMatchesStatus`, what `InsightsAccurate` lacks when requests overlap. What a custom
rule with nested connectives decides is stated (`Evaluates`), and when it raises
(`LintedRuleRaises`), but not analysed further:
the properties speak of the named rules, as the catalog has no others. That the rounding
agrees with Python's on halves is not claimed; the instance meets none.

## 5. Where code and documentation disagree

Found by runs (`PROJECT.json`, findings):

* `sync_overlap`: of two overlapping syncs both report `ok`, and one writes back the
  rows it had read before; the evidence of the other is neither in the raw file nor
  in the lake. `docs/INTERNAL_COMPLIANCE_TOOL.md:100` promises a posture refreshed
  whenever evidence is ingested.
* `remediation_insights`: overlapping PATCH requests leave a resolved task without
  `resolved_at`; the insights, "always accurate" by `db/metrics.py:3-5`, omit it.
* `policy_lint`: a rule with two leaves passes `validate_rule` and makes every run
  raise; by `policy.py:103-105` one bad entry never crashes the pipeline.

Met while reading, not checked by a run:

* two overlapping saves of a workflow get one version number, and the one
  acknowledged last is never listed (`workflows.py:269`);
* a snapshot taken while a run publishes mixes generations, and an emptied silver
  file reads as no violations (`assessment.py:40`), so no later posture reproduces it,
  as `docs/ARCHITECTURE.md:80` asks; `LakePipeline` has such reviews, and
  `CalmReviewCoherent` excludes them;
* a workflow run in which a node failed is recorded as fired (`workflows.py:433-452`
  returns normally, `scheduler.py:219` records it) and waits for a whole period, while
  a connector sync that failed is retried by the next tick;
* a run that fails or dies while it publishes (`pipeline.py:83-140`) leaves published
  files emptied or rewritten: evidence that was reported as materialized is missing
  until the next publication that ends. A sync that does not materialize reports `ok`
  meanwhile, and repairs nothing;
* `validate_raw_events` accepts rows on which every run raises until they are
  repaired: a null `entity` or `controls` (`pipeline.py:164`, `pipeline.py:182`), a
  `collected_at` that cannot be read (`evidence_freshness.py:179`);
* `@hourly` is documented as "every hour on the hour" and is a period counted from
  the last run (`scheduler.py:20`, `scheduler.py:213`);
* a posture can be `ready` while a control fails, as only score, critical violations
  and stale controls decide; a critical event that cites no control is in the
  metrics and not in the posture; an empty lake is `ready` with 100 points;
* a required evidence type whose newest evidence has no reference counts as fresh in
  `summarize_control_freshness`; under the rules the catalog uses the control then
  fails for another reason, which is what `PassIsEarned` shows;
* the event stream promises a ping when nothing changed, and compares payloads that
  contain the time of evaluation (`server_app.py:206`);
* `framework_sync.py:5-7` says that the registry changes only when the upstream body
  has; every successful pull moves `pulled_at` and rewrites the file. The comment at
  line 134 calls the write atomic; it empties the file in place, and a process that
  dies there leaves a registry no sync can read;
* `db/tags.py:70` says that deleting a tag cascades to its associations; on SQLite
  they stay (`db/base.py:43-47` never enables foreign keys), though nothing shows
  them; `attach_tag` strips `entity_type`, `detach_tag` does not;
* `docs/SERVER_AUTH.md:83` gives admins full access; the role lacks `workflow_run`
  and `evidence_request` (`auth/rbac.py`);
* a request whose handler raises is not in the request audit, and a legacy POST that
  failed after it changed the lake is recorded as denied (`server_app.py:261`);
* on SQLite an upgrade that dies between a table and its stamp leaves tables that
  make every later upgrade raise, the one at each start of the server included; no
  command repairs it (`UpgradedIsThere` excludes this case with `cut`);
* bronze is called immutable and is rewritten by every run.

## 6. What is not modelled

* *Pure projections of static files*: coverage, provenance, mappings, readiness,
  graph, dashboard, fixtures. There is no state and nothing to interleave.
* *Formatting and I/O*: how GitHub's answers and repository files become events,
  argument parsing, HTML, the messages of OIDC and SAML (`Access` has what their
  handlers do with an identity once it is verified), routing, filters, sorting and
  pages of the HTTP APIs, the event stream, which keeps no state of the system.
* *The web console, the deployment files and the agent skills*: clients and settings
  without state of the system.
* *Downgrades of the schema*: nothing in the repository runs one.
* *Confidence scores, lifecycle labels, the validation of the program catalog,
  metric points* (appended, never changed).
* Abstracted in what is modelled: payloads (generation or collection numbers),
  timestamps as numbers (their textual order is modelled where it decides, in
  `EventLog`, and is a hazard without a property in the choice of the newest
  evidence, `evidence_freshness.py:104`), tokens, asset rows, most metrics.
* In the models, but excluded by the properties because the code does not prevent it
  and no document says it does: two processes that run one target from stale copies of
  the state (`NoRefireBySameTicker` speaks of one process, `NoDoubleFire` of ticks in
  turn); a review or a verification while a run publishes (`CalmReviewCoherent`); a
  workflow run that dies before it is recorded (`EffectsAreTold`); an audit line that
  is never written (`AuditTellsTheTruth`); a registry cut in its rewrite
  (`SyncRecordsWhatItPulled`); evidence lost by a crash in the rewrite of the raw file
  (`AckedEvidenceKept`); the date of an exception that is revoked twice
  (`ExceptionStaysOver` speaks of its status).
* Left out because the code promises nothing about it: a sync that goes on while its
  connector is disabled (`connector_runner.py:100`), a probe recorded after the
  configuration it read was replaced (`connector_state.py:227`), a repeated
  `PATCH status=resolved` that moves `resolved_at` (`db/remediation.py:114`).

## 7. Plan

The most important behaviour, evidence on its way from a connector to the posture,
came first, then what clients change beside it.

1. Done: all modules of section 2, the runs of section 3, the proofs of section 4:
   every safety property of a passing run is proved.
2. Model, if the need arises: scheduler, sync and lake composed (what a due connector
   collects reaches the posture), readiness as an order of gates. Their invariants
   would rest on those of the parts, as `ServerProofs` does for the server.
