\* Two processes tick the same lake at the same time; one fault.
CONSTANTS
    w1 = w1
    w2 = w2
    c1 = c1
    Workflows = {w1}
    Connectors = {}
    Tickers = {ta, tb}
    Period <- PeriodDef
    Broken = {}
    Endings <- EndingsDef
    Exclusive = FALSE
    MaxTime = 4
    MaxFaults = 1
SPECIFICATION Spec
SYMMETRY TickerSymmetry
INVARIANTS
    TypeOK
    NoRefireBySameTicker
    StateIsLatestRun
