\* Two overlapping runs, a crash, and a third run.
CONSTANTS
    Runners = {p1, p2}
    Reviewers = {}
    Omitted = {"duckdb", "control_tests", "metrics", "dashboard_data"}
    Serial = FALSE
    MaxRaw = 2
    BoundRuns = TRUE
    MaxRuns = 3
    MaxCrashes = 1
SPECIFICATION Spec
INVARIANTS
    QuietRunHeals
CHECK_DEADLOCK FALSE
SYMMETRY RunnerSymmetry
