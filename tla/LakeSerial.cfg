\* Runs, started again and again, that never overlap, a reviewer, one crash.
CONSTANTS
    Runners = {p1}
    Reviewers = {r1}
    Omitted = {"control_tests", "evidence_freshness", "dashboard_data"}
    Serial = TRUE
    MaxRaw = 2
    BoundRuns = FALSE
    MaxRuns = 0
    MaxCrashes = 1
SPECIFICATION FairSpec
INVARIANTS
    TypeOK
    CalmReviewCoherent
PROPERTIES
    FeedSpec
    EvidenceReachesPosture
CHECK_DEADLOCK FALSE
