\* Two syncs of different repositories at the same time, no faults.
CONSTANTS
    ra = ra
    rb = rb
    a1 = a1
    b1 = b1
    Syncers = {sa, sb}
    Repos = {ra, rb}
    Events = {a1, b1}
    RepoOf <- RepoOfDef
    Serial = FALSE
    MaxSyncs = 2
    MaxFaults = 0
SPECIFICATION Spec
INVARIANT EvidencePublishedAtRest
