\* Every graph of three nodes and at most three edges, every outcome.
CONSTANTS
    n1 = n1
    n2 = n2
    n3 = n3
    NodeSeq <- ThreeNodes
    Ghost = ghost
    Savers = {s1}
    MaxEdges = 3
    MaxSaves = 1
SPECIFICATION Spec
INVARIANTS
    TypeOK
    OrderComplete
    ParentsFirst
    NoneRunsDeclined
    EffectsAreTold
