\* A workflow that raises on every tick beside a healthy workflow and a
\* healthy connector, one more fault; ticks never overlap.
CONSTANTS
    w1 = w1
    w2 = w2
    c1 = c1
    Workflows = {w1, w2}
    Connectors = {c1}
    Tickers = {ta}
    Period <- PeriodDef
    Broken = {w2}
    Endings <- EndingsDef
    Exclusive = TRUE
    MaxTime = 3
    MaxFaults = 1
SPECIFICATION FairSpec
INVARIANTS
    NoDoubleFire
    StateIsLatestRun
PROPERTY DueTargetsFire
