\* Syncs one after another over two repositories, with crashes and failing
\* pipelines.
CONSTANTS
    ra = ra
    rb = rb
    a1 = a1
    b1 = b1
    Syncers = {sa}
    Repos = {ra, rb}
    Events = {a1, b1}
    RepoOf <- RepoOfDef
    Serial = TRUE
    MaxSyncs = 4
    MaxFaults = 2
SPECIFICATION Spec
INVARIANTS
    TypeOK
    AckedEvidenceKept
    AckedEvidencePublished
PROPERTY TornFileKept
