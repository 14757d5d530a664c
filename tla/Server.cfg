\* One remediation request at a time; two HTTP calls on accounts of two tenants;
\* two overlapping calls on two tags; two writers of the logs; a framework
\* sync; two upgrades of the schema.
CONSTANTS
    Tasks = {task}
    Requests = {request}
    Exceptions = {exception}
    Callers = {caller}
    Dues = {1}
    None = None
    Serial = TRUE
    MaxTime = 2
    Tenants = {ta, tb}
    Emails = {email}
    Keys = {k1, k2}
    Cookies = {cookie1}
    Calls = {c1, c2}
    GivenRoles = {"admin", "contributor"}
    PostScopes = {"workflow_run"}
    SsoTenant = ta
    SsoRole = "read_only"
    NoOne = NoOne
    Insecure = Insecure
    MaxMoment = 1
    MaxOutside = 2
    TagIds = {t1, t2}
    LinkIds = {l1, l2}
    ViewIds = {v1}
    Names = {n1, n2}
    Entities = {entity}
    Visits = {r1, r2}
    Nil = Nil
    Violations = {violation}
    Connectors = {x1, x2}
    Shares = {share}
    States = {"resolved"}
    Registered = {x1}
    Writers = {w1, w2}
    Nothing = Nothing
    MaxNow = 2
    MaxLines = 3
    MaxTorn = 1
    Frameworks = {f1, f2}
    Incomplete = {}
    MaxBody = 1
    MaxDay = 2
    Upgraders = {u1, u2}
SPECIFICATION ServerSpec
INVARIANTS
    ServerTypeOK
    AnswerHolds
    StaleOpensNothing
    AuditTellsTheTruth
    LoginsNeverCollide
    AttachKeepsItsWord
    ShareStaysRevoked
    AnsweredStaysCurrent
    AckedIsLogged
    SyncRecordsWhatItPulled
    UpgradedIsThere
PROPERTIES
    CredentialStaysDead
    LabelsKept
CHECK_DEADLOCK FALSE
SYMMETRY ServerSymmetry
