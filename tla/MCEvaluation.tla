---------------------------- MODULE MCEvaluation ----------------------------
(* Small instances of Evaluation.                                          *)
EXTENDS Evaluation, TLC

EventSymmetry == Permutations(Events)

MCFramework == [c \in Controls |-> IF c = "c1" THEN "soc2" ELSE "unmapped"]
MCCites == {{"c1"}, {"c1", "c2"}}
MCSlo == [ty \in Types |-> IF ty = "scan" THEN 1 ELSE 0]
MCRequired == [c \in Controls |-> IF c = "c1" THEN Types ELSE {}]

\* A rule that passes the lint and raises: an object with two leaves.
TwoLeaves == Inline([open_violations |-> [min |-> 1], evidence_present |-> FALSE])

\* An inline rule with each connective.
Nested == Inline([all |-> <<[not |-> [open_violations |-> [max |-> 0]]],
                            [min_evidence_coverage |-> [below |-> 50]]>>])

\* Their predicates and those of the named rules, members before connectives.
MCLevels == <<
    {AnOpenViolation, StaleEvidence, [evidence_present |-> FALSE],
     [max_severity |-> [at_least |-> "high"]], [open_violations |-> [max |-> 0]],
     [min_evidence_coverage |-> [below |-> 50]], TwoLeaves.spec.fail_if},
    Range(NAMED_RULES) \cup {[not |-> [open_violations |-> [max |-> 0]]]},
    {Nested.spec.fail_if}>>

\* The two rules of the catalog, one it could use, an unknown one, and inline ones.
CatalogRules == {
    [c1 |-> Named("fail_when_open_violation_or_stale_evidence"), c2 |-> Named("no_such_rule")],
    [c1 |-> Named("fail_when_stale_evidence"), c2 |-> TwoLeaves],
    [c1 |-> Named("fail_when_high_severity_open"), c2 |-> Nested]}

\* One bad entry.
BadRules == {[c1 |-> NoRule, c2 |-> TwoLeaves]}
=============================================================================
