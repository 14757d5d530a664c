---------------------------- MODULE MCScheduler ----------------------------
(* Small instances of Scheduler.                                           *)
EXTENDS Scheduler, TLC

CONSTANTS w1, w2, c1

\* A workflow on a two-unit period; every other target fires each unit.
PeriodDef == [x \in Targets |-> IF x = w1 THEN 2 ELSE 1]

\* Every run of w1 has a node that fails.
EndingsDef == [w \in Workflows |-> IF w = w1 THEN {"error"} ELSE {"ok"}]

TickerSymmetry == Permutations(Tickers)
=============================================================================
