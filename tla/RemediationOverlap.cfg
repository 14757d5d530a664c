\* Two overlapping requests on a task and an exception.
CONSTANTS
    Tasks = {t1}
    Requests = {}
    Exceptions = {x1}
    Callers = {c1, c2}
    Dues = {1}
    None = None
    Serial = FALSE
    MaxTime = 1
SPECIFICATION Spec
PROPERTIES
    EditKeepsStatus
    ExceptionStaysOver
SYMMETRY CallerSymmetry
