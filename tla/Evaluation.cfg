\* Runs over two events that change, age and go, and reviews between them.
CONSTANTS
    NotObject = NotObject
    Levels <- MCLevels
    Events = {e1, e2}
    Controls = {"c1", "c2"}
    Framework <- MCFramework
    CiteChoices <- MCCites
    RuleChoices <- CatalogRules
    Types = {"scan", "log"}
    Slo <- MCSlo
    Required <- MCRequired
    Severities = {"critical", "low"}
    MaxClock = 3
SYMMETRY EventSymmetry
SPECIFICATION Spec
INVARIANTS
    TypeOK
    ReportsAgree
    ClosingHelps
PROPERTIES
    PassIsEarned
    AgingNeverHeals
