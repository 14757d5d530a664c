\* Overlapping requests on one task.
CONSTANTS
    Tasks = {t1}
    Requests = {}
    Exceptions = {}
    Callers = {c1, c2}
    Dues = {}
    None = None
    Serial = FALSE
    MaxTime = 1
SPECIFICATION Spec
INVARIANT InsightsAccurate
