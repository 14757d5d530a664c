------------------------------- MODULE Policy -------------------------------
(***************************************************************************)
(* The controls-as-code rule engine (policy.py).  A control's evaluation   *)
(* rule is absent, a name, or a JSON object with a fail_if predicate.      *)
(* A predicate is a record whose DOMAIN is the object's keys; NotObject is *)
(* a number where an object belongs.  (A string or a list there raises as  *)
(* well, except under open_violations, where it names no bound.)  Every    *)
(* evaluation ends in a verdict: the predicate matches, it does not, or    *)
(* Python raises.                                                          *)
(*                                                                         *)
(* Predicates nest.  Those a catalog holds are given in levels, the        *)
(* members of a connective on lower levels than itself, which is what a    *)
(* JSON text without end cannot have.                                      *)
(***************************************************************************)
EXTENDS Integers, Sequences, Functions

CONSTANTS
    NotObject,
    Levels       \* Levels[i]: the predicates of the catalog on level i

SEVERITY_ORDER == [info |-> 0, low |-> 1, medium |-> 2, high |-> 3, critical |-> 4]
STALE_EVIDENCE == {"stale", "expired", "missing"}
LeafKeys ==
    {"open_violations", "max_severity", "evidence_present", "evidence_status",
     "min_evidence_coverage"}

AnOpenViolation == [open_violations |-> [min |-> 1]]
StaleEvidence == [evidence_status |-> [in |-> STALE_EVIDENCE]]

NAMED_RULES == [
    fail_when_open_violation |-> AnOpenViolation,
    fail_when_stale_evidence |-> [any |-> <<StaleEvidence, AnOpenViolation>>],
    fail_when_open_violation_or_stale_evidence |->
        [any |-> <<AnOpenViolation, StaleEvidence>>],
    fail_when_missing_evidence |->
        [any |-> <<[evidence_present |-> FALSE], AnOpenViolation>>],
    fail_when_high_severity_open |->
        [all |-> <<AnOpenViolation, [max_severity |-> [at_least |-> "high"]]>>]]

\* Rules as the catalog may hold them.
NoRule == [kind |-> "none"]
Named(n) == [kind |-> "name", name |-> n]
Inline(p) == [kind |-> "object", spec |-> [fail_if |-> p]]

\* resolve_rule accepts this rule.
Resolvable(rule) ==
    \/ rule.kind = "none"
    \/ rule.kind = "name" /\ rule.name \in DOMAIN NAMED_RULES
    \/ rule.kind = "object" /\ "fail_if" \in DOMAIN rule.spec

DefaultPredicate == NAMED_RULES["fail_when_open_violation"]

\* The predicate of an accepted rule.
Resolve(rule) ==
    CASE rule.kind = "none"   -> DefaultPredicate
      [] rule.kind = "name"   -> NAMED_RULES[rule.name]
      [] rule.kind = "object" -> rule.spec.fail_if

---------------------------------------------------------------------------
(* The predicates of a catalog.                                            *)

Has(spec, key) == key \in DOMAIN spec

Connectives == {"all", "any", "not"}

\* What the predicate is made of: the members of an all or any, or what is negated.
\* A member that stands alone, without a list, is given as a list of one.
Members(pred) ==
    CASE pred = NotObject -> {}
      [] pred # NotObject /\ Has(pred, "all") ->
            IF pred.all = NotObject THEN {} ELSE Range(pred.all)
      [] pred # NotObject /\ Has(pred, "any") /\ ~Has(pred, "all") ->
            IF pred.any = NotObject THEN {} ELSE Range(pred.any)
      [] pred # NotObject /\ Has(pred, "not") /\ ~Has(pred, "all") /\ ~Has(pred, "any") ->
            {pred["not"]}
      [] pred # NotObject /\ DOMAIN pred \cap Connectives = {} -> {}

Predicates == UNION Range(Levels)

ASSUME PolicyAssumption ==
    /\ Len(Levels) \in Nat /\ DOMAIN Levels = 1..Len(Levels)
    /\ \A i \in DOMAIN Levels : \A p \in Levels[i] :
          Members(p) \subseteq UNION {Levels[j] : j \in 1..(i - 1)}
    /\ Range(NAMED_RULES) \subseteq Predicates
    /\ \A r \in Range(NAMED_RULES) : \A p \in {r} \cup Members(r) :
          p # NotObject /\ \A k \in DOMAIN p : p[k] # NotObject

---------------------------------------------------------------------------
If(condition) == IF condition THEN "match" ELSE "no"

\* An unknown severity ranks as the caller says: lowest of a row, high of a rule.
RankOr(severity, default) ==
    IF severity \in DOMAIN SEVERITY_ORDER THEN SEVERITY_ORDER[severity] ELSE default
Rank(severity) == RankOr(severity, 0)

\* evidence_coverage < below, a percentage; no event at all counts as none.
CoverageBelow(ctx, below) ==
    IF ctx.events = 0 THEN 0 < below ELSE 100 * ctx.evidence < below * ctx.events

\* What one leaf says of a control's evidence; a specification of the wrong
\* type raises (TypeError, AttributeError), which nothing catches either.
Leaf(key, spec, ctx) ==
    CASE key = "evidence_present" -> If((ctx.evidence > 0) = (spec # FALSE))
      [] key # "evidence_present" /\ spec = NotObject -> "raise"
      [] key = "open_violations" /\ spec # NotObject ->
            If(\/ Has(spec, "min") /\ ctx.open >= spec.min
               \/ Has(spec, "max") /\ ctx.open > spec.max)
      [] key = "max_severity" /\ spec # NotObject ->
            If(/\ Rank(ctx.severity) >= (IF Has(spec, "at_least") THEN RankOr(spec.at_least, 3) ELSE 3)
               /\ ctx.open > 0)
      [] key = "evidence_status" /\ spec # NotObject ->
            If(Has(spec, "in") /\ ctx.status \in spec.in)
      [] key = "min_evidence_coverage" /\ spec # NotObject ->
            If(CoverageBelow(ctx, IF Has(spec, "below") THEN spec.below ELSE 50))

\* A leaf predicate names exactly one leaf.
EvalLeaf(pred, ctx) ==
    LET keys == DOMAIN pred \cap LeafKeys IN
    IF \E k \in keys : keys = {k}
    THEN LET k == CHOOSE k \in keys : TRUE IN Leaf(k, pred[k], ctx)
    ELSE "raise"

\* The verdict on a predicate, given those on its members, which are all found
\* before they are combined: one that raises is not saved by another that decides.
Combine(pred, verdicts, ctx) ==
    IF pred = NotObject THEN "raise"
    ELSE CASE Has(pred, "all") ->
                IF pred.all = NotObject \/ "raise" \in verdicts THEN "raise"
                ELSE If("no" \notin verdicts)
           [] Has(pred, "any") /\ ~Has(pred, "all") ->
                IF pred.any = NotObject \/ "raise" \in verdicts THEN "raise"
                ELSE If("match" \in verdicts)
           [] Has(pred, "not") /\ ~Has(pred, "all") /\ ~Has(pred, "any") ->
                IF "raise" \in verdicts THEN "raise" ELSE If("no" \in verdicts)
           [] DOMAIN pred \cap Connectives = {} -> EvalLeaf(pred, ctx)

EvalPredicate(pred, ctx) ==
    LET eval[p \in Predicates] == Combine(p, {eval[q] : q \in Members(p)}, ctx)
    IN  eval[pred]

\* evaluate_control: a rule that does not resolve falls back to the default,
\* but only there; what the predicate raises goes to the caller.
EvaluateControl(rule, ctx) ==
    LET verdict == EvalPredicate(IF Resolvable(rule) THEN Resolve(rule) ELSE DefaultPredicate, ctx)
    IN  CASE verdict = "match" -> "fail" [] verdict = "no" -> "pass" [] verdict = "raise" -> "raise"

---------------------------------------------------------------------------
\* _validate_predicate reports nothing: some known leaf is enough.
PredicateLints(pred) ==
    LET lints[p \in Predicates] ==
          /\ p # NotObject
          /\ IF DOMAIN p \cap Connectives = {} THEN DOMAIN p \cap LeafKeys # {}
             ELSE /\ Has(p, "all") => p.all # NotObject
                  /\ Has(p, "any") /\ ~Has(p, "all") => p.any # NotObject
                  /\ \A q \in Members(p) : lints[q]
    IN  lints[pred]

\* validate_rule returns no problem ("empty == valid").
Lints(rule) == Resolvable(rule) /\ PredicateLints(Resolve(rule))
=============================================================================
