----------------------------- MODULE Evaluation -----------------------------
(***************************************************************************)
(* What the evidence says: the computations of run_pipeline and of         *)
(* build_current_posture.  A run turns the events it was given into        *)
(* control rows (freshness and evaluation rules), then into control tests  *)
(* (required evidence types), then into the current posture; each of the   *)
(* three asks for the time again.  API handlers compute a posture from the *)
(* published rows at any later time.                                       *)
(*                                                                         *)
(* LakePipeline models how the results are published; here a run publishes *)
(* what it computes at once, and the numbers are what the code computes    *)
(* from the rows.  Scores are in hundredths of a point, times in units in  *)
(* which the freshness SLOs are given.                                     *)
(***************************************************************************)
EXTENDS Policy, FiniteSets, FiniteSetsExt

CONSTANTS
    Events,        \* identifiers of events
    Controls,      \* identifiers of controls an event may cite
    Framework,     \* Framework[c]: the framework of c ("unmapped" without a catalog entry)
    RuleChoices,   \* functions that give each control its evaluation rule
    Types,         \* event types
    Slo,           \* Slo[ty]: freshness SLO of the connector that reports ty; one
                   \* connector reports a type here (the code looks up the row's source)
    Required,      \* Required[c]: the event types the control's test asks for
    Severities,    \* severities that events of this instance have
    CiteChoices,   \* sets of controls that events of this instance cite
    MaxClock       \* bound on the time

SEVERITY_SCORE ==
    [critical |-> 100, high |-> 80, medium |-> 50, low |-> 20, info |-> 5, none |-> 0]

ASSUME EvaluationAssumption ==
    /\ IsFiniteSet(Events) /\ IsFiniteSet(Controls)
    /\ \A choice \in RuleChoices : \A c \in Controls :
          Resolvable(choice[c]) => Resolve(choice[c]) \in Predicates
    /\ Framework \in [Controls -> STRING]
    /\ Slo \in [Types -> Nat]
    /\ Required \in [Controls -> SUBSET Types]
    /\ CiteChoices \subseteq SUBSET Controls
    /\ Severities \subseteq DOMAIN SEVERITY_SCORE
    /\ MaxClock \in Nat

\* A normalized event: the controls it cites, whether its status is one of
\* open, failed, blocked and noncompliant, when its evidence was collected and
\* whether it has an evidence_ref.
Row == [cites: CiteChoices, open: BOOLEAN, severity: Severities, type: Types,
        at: 0..MaxClock, ref: BOOLEAN]

VARIABLES
    rules,      \* rules[c]: evaluation_rule of control c
    clock,
    silver,     \* silver[e]: the row of each event of the last run
    phase,      \* what the current run computes next, "idle" when there is none
    controls,   \* controls[c]: control row of each cited control
    tests,      \* tests[c]: result of its control test, once this run has them
    posture,    \* current posture, NoPosture while a run has yet to compute it
    raised      \* the last run raised

vars == <<rules, clock, silver, phase, controls, tests, posture, raised>>

---------------------------------------------------------------------------
(* Freshness                                                               *)

\* Mutant: evidence without a reference is no cause for concern.
STALE_STATUSES_NotMissing == {"stale", "expired"}

\* Mutant: only what the label says.
STALE_STATUSES_OnlyStale == {"stale"}

STALE_STATUSES == {"stale", "expired", "missing"}

FreshnessOf(row, now) ==
    LET age == IF now > row.at THEN now - row.at ELSE 0
        slo == Slo[row.type]
    IN  CASE ~row.ref                                    -> "missing"
          [] row.ref /\ age <= slo                       -> "fresh"
          [] row.ref /\ age > slo /\ age <= 2 * slo      -> "stale"
          [] row.ref /\ age > slo /\ age > 2 * slo       -> "expired"

Stale(row, now) == FreshnessOf(row, now) \in STALE_STATUSES

StaleControls(rows, now) ==
    UNION {rows[e].cites : e \in {x \in DOMAIN rows : Stale(rows[x], now)}}

\* The status of the newest evidence of a type.  Records are sorted by status,
\* in alphabetical order, and the first of the newest is kept.
Alphabet == [expired |-> 1, fresh |-> 2, missing |-> 3, stale |-> 4]
LatestStatus(rows, evidence, now) ==
    LET newest == {e \in evidence : \A x \in evidence : rows[x].at <= rows[e].at}
        statuses == {FreshnessOf(rows[e], now) : e \in newest}
    IN  CHOOSE s \in statuses : \A t \in statuses : Alphabet[s] <= Alphabet[t]

Citing(rows, c) == {e \in DOMAIN rows : c \in rows[e].cites}

\* summarize_control_freshness.  Note the type whose newest evidence is
\* "missing" a reference: it is in none of the three lists.
ControlFreshness(rows, c, now) ==
    LET ofType(ty) == {e \in Citing(rows, c) : rows[e].type = ty}
        missing == {ty \in Required[c] : ofType(ty) = {}}
        having(status) ==
            {ty \in Required[c] \ missing : LatestStatus(rows, ofType(ty), now) = status}
    IN  IF missing # {} /\ missing = Required[c] THEN "missing"
        ELSE IF having("expired") # {}           THEN "expired"
        ELSE IF having("stale") # {} \/ missing # {} THEN "stale"
        ELSE "fresh"

---------------------------------------------------------------------------
(* Control rows and control tests                                          *)

Cited(rows) == UNION {rows[e].cites : e \in DOMAIN rows}

Open(rows, c) == {e \in Citing(rows, c) : rows[e].open}
Evidence(rows, c) == {e \in Citing(rows, c) : rows[e].ref}

\* Severity of the worst open event; "info" when none is open.
WorstOpen(rows, c) ==
    LET open == {rows[e].severity : e \in Open(rows, c)} IN
    IF open = {} THEN "info"
    ELSE CHOOSE s \in open : \A t \in open : SEVERITY_SCORE[t] <= SEVERITY_SCORE[s]

Context(rows, c, now) == [
    open     |-> Cardinality(Open(rows, c)),
    events   |-> Cardinality(Citing(rows, c)),
    evidence |-> Cardinality(Evidence(rows, c)),
    severity |-> WorstOpen(rows, c),
    status   |-> IF c \in StaleControls(rows, now) THEN "stale" ELSE "fresh"]

Status(rows, c, now) == EvaluateControl(rules[c], Context(rows, c, now))

ControlRows(rows, now) == [c \in Cited(rows) |->
    [status   |-> Status(rows, c, now),
     open     |-> Cardinality(Open(rows, c)),
     evidence |-> Cardinality(Evidence(rows, c))]]

TestResult(rows, control, c, now) ==
    IF control.evidence = 0 THEN "needs_evidence"
    ELSE IF Open(rows, c) # {} \/ control.status = "fail" THEN "fail"
    ELSE IF ControlFreshness(rows, c, now) \in STALE_STATUSES THEN "needs_evidence"
    ELSE "pass"

---------------------------------------------------------------------------
(* Posture                                                                 *)

\* One violation for every open event and every control it cites.
Violations(rows) == {v \in (DOMAIN rows) \X Controls : rows[v[1]].open /\ v[2] \in rows[v[1]].cites}

OfSeverity(rows, violations, s) == {v \in violations : rows[v[1]].severity = s}

\* round(a / d).  A half, which the code's floating point turns into a little
\* more or a little less, goes up.
Nearest(a, d) == (2 * a + d) \div (2 * d)

\* Mutant: the score may go below zero.
FrameworkScore_Unbounded(penalty, total, stale) ==
    10000 - Nearest(100 * penalty, total) - 500 * stale

Total(f) == MapThenSumSet(LAMBDA x : f[x], DOMAIN f)

\* Mutant: the penalty of a control is averaged, not added up.
Penalty_Average(rows, violations) ==
    IF violations = {} THEN 0
    ELSE Total([v \in violations |-> SEVERITY_SCORE[rows[v[1]].severity]])
            \div Cardinality(violations)

Penalty(rows, violations) == Total([v \in violations |-> SEVERITY_SCORE[rows[v[1]].severity]])

\* max(0, 100 - penalty / (100 * total) * 100 - 5 * stale), rounded.
FrameworkScore(penalty, total, stale) ==
    LET score == 10000 - Nearest(100 * penalty, total) - 500 * stale IN
    IF score < 0 THEN 0 ELSE score

\* Mutant: only the violations of failing controls are counted.
FrameworkRow_Failing(rows, held, f, now) ==
    LET mine == {c \in DOMAIN held : Framework[c] = f}
        failing == {c \in mine : held[c].status = "fail"}
        stale == mine \cap StaleControls(rows, now)
        violations == {v \in Violations(rows) : v[2] \in failing}
    IN  [score      |-> FrameworkScore(Penalty(rows, violations), Cardinality(mine),
                                       Cardinality(stale)),
         state      |-> IF failing = {} /\ stale = {} THEN "ready" ELSE "attention_required",
         controls   |-> Cardinality(mine),
         violations |-> Cardinality(violations)]

\* One row of _framework_scores, over the control rows held on disk.
FrameworkRow(rows, held, f, now) ==
    LET mine == {c \in DOMAIN held : Framework[c] = f}
        failing == {c \in mine : held[c].status = "fail"}
        stale == mine \cap StaleControls(rows, now)
        violations == {v \in Violations(rows) : v[2] \in mine}
    IN  [score      |-> FrameworkScore(Penalty(rows, violations), Cardinality(mine),
                                       Cardinality(stale)),
         state      |-> IF failing = {} /\ stale = {} THEN "ready" ELSE "attention_required",
         controls   |-> Cardinality(mine),
         violations |-> Cardinality(violations)]

FrameworkScores(rows, held, now) ==
    [f \in {Framework[c] : c \in DOMAIN held} |-> FrameworkRow(rows, held, f, now)]

\* Average over the controls; a lake without controls scores 100.
WeightedPostureScore(frameworks) ==
    LET total == Total([f \in DOMAIN frameworks |-> frameworks[f].controls]) IN
    IF total = 0 THEN 10000
    ELSE Nearest(Total([f \in DOMAIN frameworks |->
                            frameworks[f].score * frameworks[f].controls]), total)

PostureState(score, critical, stale) ==
    CASE critical # {}                                    -> "critical"
      [] critical = {} /\ (score < 7500 \/ stale # {})    -> "attention_required"
      [] critical = {} /\ ~(score < 7500 \/ stale # {})   -> "ready"

BuildCurrentPosture(rows, held, now) ==
    LET frameworks == FrameworkScores(rows, held, now)
        critical == OfSeverity(rows, Violations(rows), "critical")
        stale == StaleControls(rows, now)
        score == WeightedPostureScore(frameworks)
    IN  [score |-> score,
         state |-> PostureState(score, critical, stale),
         open |-> Cardinality(Violations(rows)),
         frameworks |-> frameworks]

---------------------------------------------------------------------------
(* Runs                                                                    *)

NoEvents == [e \in {} |-> 0]

\* Also the posture of an empty lake, which is ready and scores 100.
NoPosture == BuildCurrentPosture(NoEvents, NoEvents, 0)

Init ==
    /\ rules \in RuleChoices
    /\ clock = 0
    /\ silver = NoEvents /\ controls = NoEvents /\ tests = NoEvents
    /\ posture = NoPosture
    /\ phase = "idle" /\ raised = FALSE

Tick ==
    /\ clock < MaxClock
    /\ clock' = clock + 1
    /\ UNCHANGED <<rules, silver, phase, controls, tests, posture, raised>>

With(x, row) == [e \in DOMAIN silver \cup {x} |-> IF e = x THEN row ELSE silver[e]]

\* What the next raw file may hold: the same events, one less, or one new,
\* reopened, closed or collected again.
Revisions ==
    {silver}
    \cup {[e \in DOMAIN silver \ {x} |-> silver[e]] : x \in DOMAIN silver}
    \cup {With(entry[1], entry[2]) : entry \in Events \X {row \in Row : row.at = clock}}
    \cup {[silver EXCEPT ![x].open = ~@] : x \in DOMAIN silver}

Raises(rows, now) == \E c \in Cited(rows) : Status(rows, c, now) = "raise"

\* A run reads the raw file and builds the control rows.
BuildControlRows(rows) ==
    /\ phase = "idle"
    /\ ~Raises(rows, clock)
    /\ silver' = rows
    /\ controls' = ControlRows(rows, clock)
    /\ phase' = "tests"
    /\ raised' = FALSE
    /\ tests' = NoEvents /\ posture' = NoPosture
    /\ UNCHANGED <<rules, clock>>

\* The rule of one cited control raises: the run ends before it has written
\* anything.
RunRaises(rows) ==
    /\ phase = "idle"
    /\ Raises(rows, clock)
    /\ raised' = TRUE
    /\ UNCHANGED <<rules, clock, silver, phase, controls, tests, posture>>

BuildControlTests ==
    /\ phase = "tests"
    /\ tests' = [c \in DOMAIN controls |-> TestResult(silver, controls[c], c, clock)]
    /\ phase' = "posture"
    /\ UNCHANGED <<rules, clock, silver, controls, posture, raised>>

\* The run writes the current posture.
WriteCurrentPosture ==
    /\ phase = "posture"
    /\ posture' = BuildCurrentPosture(silver, controls, clock)
    /\ phase' = "idle"
    /\ UNCHANGED <<rules, clock, silver, controls, tests, raised>>

\* A handler computes it again from what the last run left.
Review ==
    /\ phase = "idle"
    /\ posture' = BuildCurrentPosture(silver, controls, clock)
    /\ UNCHANGED <<rules, clock, silver, phase, controls, tests, raised>>

Next ==
    \/ Tick
    \/ \E rows \in Revisions : BuildControlRows(rows)
    \/ \E rows \in Revisions : RunRaises(rows)
    \/ BuildControlTests
    \/ WriteCurrentPosture
    \/ Review

Spec == Init /\ [][Next]_vars

---------------------------------------------------------------------------
(* Properties                                                              *)

Points == 0..10000

\* Type invariant.  Scores stay between 0 and 100 points however many
\* violations and stale controls a framework has.
TypeOK ==
    /\ rules \in RuleChoices
    /\ clock \in 0..MaxClock
    /\ phase \in {"idle", "tests", "posture"} /\ raised \in BOOLEAN
    /\ DOMAIN silver \subseteq Events /\ \A e \in DOMAIN silver : silver[e] \in Row
    /\ DOMAIN controls \subseteq Controls
    /\ \A c \in DOMAIN controls :
          controls[c] \in [status: {"pass", "fail"}, open: 0..Cardinality(Events),
                           evidence: 0..Cardinality(Events)]
    /\ DOMAIN tests \subseteq Controls
    /\ \A c \in DOMAIN tests : tests[c] \in {"pass", "fail", "needs_evidence"}
    /\ posture.score \in Points
    /\ posture.state \in {"critical", "attention_required", "ready"}
    /\ posture.open \in Nat
    /\ \A f \in DOMAIN posture.frameworks :
          posture.frameworks[f] \in [score: Points, state: {"ready", "attention_required"},
                                     controls: Nat, violations: Nat]

\* Rules that fail a control on old evidence as well, as all of the catalog do.
StaleSensitive(rule) ==
    rule \in {Named("fail_when_stale_evidence"),
              Named("fail_when_open_violation_or_stale_evidence")}

\* A control test that passes has earned it: under a rule that looks at the age
\* of evidence nothing that cites the control is open, and for every event type
\* the test requires there is evidence with a reference, the newest of it not
\* beyond its SLO at the time of the test.  (_test_result combines a status
\* computed earlier, counts, and a freshness of its own that is blind to
\* evidence without a reference.)
PassIsEarned ==
    [][phase = "tests" /\ phase' = "posture" =>
         \A c \in DOMAIN tests' : tests'[c] = "pass" /\ StaleSensitive(rules[c]) =>
            /\ Open(silver, c) = {}
            /\ \A ty \in Required[c] :
                  LET mine == {e \in Citing(silver, c) : silver[e].type = ty} IN
                  /\ mine # {}
                  /\ \A e \in mine : silver[e].ref
                  /\ \E e \in mine : clock <= silver[e].at + Slo[ty]]_vars

\* The rule is one of the named ones, or falls back to one.
IsNamed(rule) == rule.kind # "object" \/ ~Resolvable(rule)

\* What is critical shows everywhere: once a run has finished, an open critical
\* event that cites a control makes the posture critical however good the score
\* and however old the evidence, keeps its framework from being ready, fails the
\* control under every named rule, and lets no test of it pass.
CriticalIsSeen ==
    phase = "idle" =>
        /\ posture.state = "critical"
             <=> \E e \in DOMAIN silver :
                    silver[e].open /\ silver[e].severity = "critical" /\ silver[e].cites # {}
        /\ \A e \in DOMAIN silver :
              silver[e].open /\ silver[e].severity = "critical" =>
                 \A c \in silver[e].cites : IsNamed(rules[c]) =>
                    /\ controls[c].status = "fail"
                    /\ tests[c] # "pass"
                    /\ posture.frameworks[Framework[c]].state = "attention_required"

\* The posture and the control rows, computed by different modules from
\* different files, count the same violations: in all, and framework by
\* framework.
CountsAgree ==
    phase = "idle" =>
        /\ posture.open = Total([c \in DOMAIN controls |-> controls[c].open])
        /\ \A f \in DOMAIN posture.frameworks :
              posture.frameworks[f].violations =
                 Total([c \in {x \in DOMAIN controls : Framework[x] = f} |-> controls[c].open])

\* What one module finds the others report: the critical state, the frameworks,
\* the control rows and the tests tell of the same violations.
ReportsAgree == CriticalIsSeen /\ CountsAgree

\* The passing of time heals nothing: with the same events a later posture never
\* has a better score or state, and no control that failed passes in a later
\* run.
Severeness == [ready |-> 0, attention_required |-> 1, critical |-> 2]
AgingNeverHeals ==
    [][phase = "idle" /\ silver' = silver =>
         /\ phase' = "idle" =>
               /\ posture'.score <= posture.score
               /\ Severeness[posture'.state] >= Severeness[posture.state]
         /\ \A c \in DOMAIN controls : IsNamed(rules[c]) /\ controls[c].status = "fail" =>
               controls'[c].status = "fail"]_vars

\* Closing a finding never hurts: for every open event, the lake in which it is
\* closed scores at least as much now, and no control with a named rule that
\* passes would fail.
ClosingHelps ==
    \A e \in {x \in DOMAIN silver : silver[x].open} :
        LET closed == [silver EXCEPT ![e].open = FALSE]
            better == ControlRows(closed, clock)
        IN  /\ BuildCurrentPosture(closed, better, clock).score
                  >= BuildCurrentPosture(silver, ControlRows(silver, clock), clock).score
            /\ \A c \in DOMAIN better :
                  IsNamed(rules[c]) /\ Status(silver, c, clock) = "pass" => better[c].status = "pass"

\* "one bad catalog entry never crashes the pipeline" (evaluate_control), and a
\* rule without problems is a valid one (validate_rule): if the catalog passes
\* the lint, no run raises.
BadRuleNeverCrashes == raised => \E c \in Controls : ~Lints(rules[c])
=============================================================================
