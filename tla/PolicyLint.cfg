\* A catalog that passes the lint, with one rule that names two leaves.
CONSTANTS
    NotObject = NotObject
    Levels <- MCLevels
    Events = {e1}
    Controls = {"c1", "c2"}
    Framework <- MCFramework
    CiteChoices <- MCCites
    RuleChoices <- BadRules
    Types = {"scan", "log"}
    Slo <- MCSlo
    Required <- MCRequired
    Severities = {"low"}
    MaxClock = 1
SPECIFICATION Spec
INVARIANT BadRuleNeverCrashes
