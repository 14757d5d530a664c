-------------------------- MODULE SchedulerProofs --------------------------
(***************************************************************************)
(* Proofs about Scheduler, for every set of targets and tickers, every     *)
(* period and every number of faults.                                      *)
(***************************************************************************)
EXTENDS Scheduler, TLAPS

\* The operators every proof below may look through.
USE DEF Never, Phases

(***************************************************************************)
(* Type correctness.                                                       *)
(***************************************************************************)

LEMMA InitTypeOK == Init => TypeOK
<1> SUFFICES ASSUME Init PROVE TypeOK
  OBVIOUS
<1>1. \A S : <<>> \in Seq(S)
  OBVIOUS
<1>2. runs \in Seq(RunRecord)
  BY <1>1 DEF Init
<1>3. /\ lastFired \in [Targets -> Nat \cup {Never}]
      /\ snap \in [Tickers -> [Targets -> Nat \cup {Never}]]
      /\ todo \in [Tickers -> SUBSET Targets]
  BY SMT DEF Init
<1>4. /\ phase \in [Tickers -> Phases]
      /\ cur \in [Tickers -> Nat] /\ moment \in [Tickers -> Nat]
  BY DEF Init
<1>5. QED
  BY <1>2, <1>3, <1>4 DEF Init, TypeOK

\* Appending a run keeps the run history well typed.
LEMMA AppendRun ==
    ASSUME TypeOK, NEW t \in Tickers, NEW x \in Targets, NEW result \in Results(x),
           RunReturns(t, x, result)
    PROVE  /\ runs' \in Seq(RunRecord)
           /\ Len(runs') = Len(runs) + 1 /\ Len(runs') \in Nat
           /\ DOMAIN runs' = DOMAIN runs \cup {Len(runs')}
           /\ \A i \in DOMAIN runs : runs'[i] = runs[i]
           /\ runs'[Len(runs')] = [target |-> x, by |-> t, at |-> moment[t], result |-> result]
           /\ x \in Connectors => result = "ok"
<1> DEFINE r == [target |-> x, by |-> t, at |-> moment[t], result |-> result]
<1>0. result \in {"ok", "error"} /\ (x \in Connectors => result = "ok")
  BY SchedulerAssumption DEF Results
<1>1. r \in RunRecord /\ runs \in Seq(RunRecord) /\ runs' = Append(runs, r)
  BY <1>0 DEF TypeOK, RunReturns, RunRecord
<1> HIDE DEF r
<1>2. /\ runs' \in Seq(RunRecord)
      /\ Len(runs') = Len(runs) + 1 /\ Len(runs') \in Nat
      /\ DOMAIN runs' = DOMAIN runs \cup {Len(runs')}
      /\ \A i \in DOMAIN runs : runs'[i] = runs[i]
      /\ runs'[Len(runs')] = r
  BY <1>1
<1>3. QED
  BY <1>0, <1>2 DEF r

LEMMA RunsTyped ==
    ASSUME TypeOK
    PROVE  \A i \in DOMAIN runs :
               /\ i \in Nat \ {0}
               /\ runs[i].target \in Targets /\ runs[i].by \in Tickers /\ runs[i].at \in Nat
<1>1. runs \in Seq(RunRecord)
  BY DEF TypeOK
<1>2. TAKE i \in DOMAIN runs
<1>3. runs[i] \in RunRecord /\ i \in Nat \ {0}
  BY <1>1
<1>4. QED
  BY <1>3 DEF RunRecord

LEMMA NextTypeOK == TypeOK /\ [Next]_vars => TypeOK'
<1> SUFFICES ASSUME TypeOK, [Next]_vars PROVE TypeOK'
  OBVIOUS
<1> USE SchedulerAssumption DEF TypeOK, tickVars
<1>1. CASE Advance
  BY <1>1 DEF Advance
<1>2. ASSUME NEW x \in Targets, Reschedule(x) PROVE TypeOK'
  BY <1>2 DEF Reschedule
<1>3. ASSUME NEW t \in Tickers, StartTick(t) PROVE TypeOK'
  BY <1>3 DEF StartTick
<1>4. ASSUME NEW t \in Tickers, ListWorkflows(t) PROVE TypeOK'
  BY <1>4 DEF ListWorkflows
<1>5. ASSUME NEW t \in Tickers, ReadState(t) PROVE TypeOK'
  BY <1>5 DEF ReadState
<1>6. ASSUME NEW t \in Tickers, NEW x \in Targets, NEW result \in Results(x),
             RunReturns(t, x, result)
      PROVE  TypeOK'
  <2>1. runs' \in Seq(RunRecord) /\ Len(runs') \in Nat
    BY <1>6, AppendRun
  <2>2. QED
    BY <1>6, <2>1 DEF RunReturns
<1>7. ASSUME NEW t \in Tickers, NEW x \in Targets, RunRaises(t, x) PROVE TypeOK'
  BY <1>7 DEF RunRaises
<1>8. ASSUME NEW t \in Tickers, RecordFire(t) PROVE TypeOK'
  <2> DEFINE x == runs[cur[t]].target
             v == IF moment[t] > lastFired[x] THEN moment[t] ELSE lastFired[x]
  <2>1. CASE torn
    <3>1. lastFired' = lastFired /\ lost' = lost \cup {cur[t]} /\ cur[t] \in Nat
      BY <1>8, <2>1 DEF RecordFire, MergeRecord
    <3>2. lost' \subseteq Nat
      BY <3>1
    <3>3. torn' = FALSE /\ cur' = [cur EXCEPT ![t] = 0]
          /\ UNCHANGED <<clock, scheduled, phase, moment, todo, snap, runs, faults>>
      BY <1>8 DEF RecordFire
    <3>4. QED
      BY <3>1, <3>2, <3>3
  <2>2. CASE ~torn
    <3>1. lastFired' = [lastFired EXCEPT ![x] = v] /\ lost' = lost
      BY <1>8, <2>2 DEF RecordFire
    <3>2. x \in Targets => v \in Nat \cup {Never}
      OBVIOUS
    <3>3. lastFired' \in [Targets -> Nat \cup {Never}]
      <4> HIDE DEF x, v
      <4>1. QED
        BY <3>1, <3>2
    <3>4. torn' = FALSE /\ cur' = [cur EXCEPT ![t] = 0]
          /\ UNCHANGED <<clock, scheduled, phase, moment, todo, snap, runs, faults>>
      BY <1>8 DEF RecordFire
    <3>5. QED
      BY <3>1, <3>3, <3>4
  <2>3. QED
    BY <2>1, <2>2
<1>9. ASSUME NEW t \in Tickers, RecordFails(t) PROVE TypeOK'
  <2>1. lost' = lost \cup {cur[t]} /\ cur[t] \in Nat
    BY <1>9 DEF RecordFails
  <2>2. lost' \subseteq Nat
    BY <2>1
  <2>3. /\ faults' = faults + 1
        /\ torn' \in BOOLEAN
        /\ cur' = [cur EXCEPT ![t] = 0]
        /\ UNCHANGED <<clock, scheduled, lastFired, phase, moment, todo, snap, runs>>
    BY <1>9 DEF RecordFails
  <2>4. QED
    BY <2>2, <2>3
<1>10. ASSUME NEW t \in Tickers, ListConnectors(t) PROVE TypeOK'
  <2> DEFINE S == {x \in scheduled \cap Connectors : IsDue(snap[t], moment[t], x)}
  <2>1. S \in SUBSET Targets
    OBVIOUS
  <2>2. /\ todo' = [todo EXCEPT ![t] = S]
        /\ phase' = [phase EXCEPT ![t] = "connectors"]
        /\ UNCHANGED <<clock, scheduled, lastFired, torn, moment, snap, cur, runs, lost, faults>>
    BY <1>10 DEF ListConnectors
  <2> HIDE DEF S
  <2>3. QED
    BY <2>1, <2>2
<1>11. ASSUME NEW t \in Tickers, EndTick(t) PROVE TypeOK'
  BY <1>11 DEF EndTick, DropLocals
<1>12. ASSUME NEW t \in Tickers, Crash(t) PROVE TypeOK'
  <2>1. lost' = lost \cup ({cur[t]} \ {0}) /\ cur[t] \in Nat
    BY <1>12 DEF Crash
  <2>2. lost' \subseteq Nat
    BY <2>1
  <2>3. /\ faults' = faults + 1 /\ torn' \in BOOLEAN
        /\ UNCHANGED <<clock, scheduled, lastFired, runs>> /\ DropLocals(t)
    BY <1>12 DEF Crash
  <2>4. QED
    BY <2>2, <2>3 DEF DropLocals
<1>13. CASE UNCHANGED vars
  BY <1>13 DEF vars
<1>14. QED
  BY <1>1, <1>2, <1>3, <1>4, <1>5, <1>6, <1>7, <1>8, <1>9, <1>10, <1>11, <1>12, <1>13
     DEF Next, Step

\* Every variable of the scheduler keeps its type in every behaviour.
THEOREM SchedulerType == Spec => []TypeOK
BY InitTypeOK, NextTypeOK, PTL DEF Spec

(***************************************************************************)
(* The inductive invariant.                                                *)
(***************************************************************************)

InLoops(t) == phase[t] \in {"workflows", "connectors"}

\* A run waiting for its record belongs to the ticker that made it, in the
\* tick that made it.
InFlightInv ==
    \A t \in Tickers : cur[t] # 0 =>
        /\ InLoops(t)
        /\ cur[t] \in DOMAIN runs
        /\ runs[cur[t]].by = t
        /\ runs[cur[t]].at = moment[t]

\* A run whose record is not lost is waiting for it or covered by the state.
RecordedInv ==
    \A i \in DOMAIN runs \ lost :
        \/ cur[runs[i].by] = i
        \/ lastFired[runs[i].target] >= runs[i].at

\* A sync that returned ended ok.
ResultInv == \A i \in DOMAIN runs : runs[i].target \in Connectors => runs[i].result = "ok"

\* Under Exclusive one ticker at most is inside tick().
OneTickInv ==
    Exclusive => \A t, u \in Tickers : phase[t] # "idle" /\ phase[u] # "idle" => t = u

\* What a ticker still has to visit is due by the state it read.
TodoInv ==
    \A t \in Tickers :
        /\ phase[t] \in {"reading", "workflows"} => todo[t] \subseteq Workflows
        /\ phase[t] = "connectors" => todo[t] \subseteq Connectors
        /\ InLoops(t) => \A x \in todo[t] : IsDue(snap[t], moment[t], x)

\* The current tick is done with target x.
Visited(t, x) == x \notin todo[t] /\ (phase[t] = "workflows" => x \in Workflows)

\* The copy of the state a tick works on covers every recorded run it can
\* collide with, except those of targets the tick has done with.
SnapInv ==
    \A t \in Tickers : InLoops(t) =>
        \A i \in DOMAIN runs \ lost :
            (runs[i].by = t \/ Exclusive) =>
                \/ snap[t][runs[i].target] >= runs[i].at
                \/ Visited(t, runs[i].target)

IInv ==
    /\ TypeOK
    /\ InFlightInv
    /\ RecordedInv
    /\ ResultInv
    /\ OneTickInv
    /\ TodoInv
    /\ SnapInv
    /\ NoRefireBySameTicker
    /\ NoDoubleFire
    /\ FiredMeansRan

LEMMA InitIInv == Init => IInv
<1> SUFFICES ASSUME Init PROVE IInv
  OBVIOUS
<1>1. TypeOK
  BY InitTypeOK
<1>2. DOMAIN runs = {}
  BY DEF Init
<1>3. QED
  BY <1>1, <1>2
     DEF Init, IInv, InFlightInv, RecordedInv, OneTickInv, TodoInv, SnapInv, InLoops,
         ResultInv, NoRefireBySameTicker, NoDoubleFire, FiredMeansRan

\* The parts of the invariant that are about the histories and the state file.
HistoryInv == ResultInv /\ NoRefireBySameTicker /\ NoDoubleFire /\ FiredMeansRan

LEMMA HistoryUnchanged ==
    ASSUME HistoryInv, UNCHANGED <<runs, lastFired>>, lost \subseteq lost'
    PROVE  HistoryInv'
BY DEF HistoryInv, ResultInv, NoRefireBySameTicker, NoDoubleFire, FiredMeansRan, Spaced

LEMMA QuietIInv ==
    ASSUME IInv, UNCHANGED <<lastFired, tickVars, runs, lost>>, TypeOK'
    PROVE  IInv'
BY DEF IInv, tickVars, InFlightInv, RecordedInv, OneTickInv, TodoInv, SnapInv, InLoops,
       Visited, IsDue, ResultInv, NoRefireBySameTicker, NoDoubleFire, FiredMeansRan, Spaced

\* Steps of a ticker outside its loops.
LEMMA StartTickIInv ==
    ASSUME IInv, TypeOK', NEW t \in Tickers, StartTick(t)
    PROVE  IInv'
<1> USE DEF IInv, TypeOK, StartTick
<1>1. /\ phase'[t] = "listing" /\ cur[t] = 0
      /\ \A u \in Tickers \ {t} : phase'[u] = phase[u] /\ moment'[u] = moment[u]
  BY DEF InFlightInv, InLoops
<1>2. InFlightInv'
  BY <1>1 DEF InFlightInv, InLoops
<1>3. RecordedInv'
  BY DEF RecordedInv
<1>4. OneTickInv'
  BY <1>1 DEF OneTickInv
<1>5. TodoInv'
  BY <1>1 DEF TodoInv, InLoops, IsDue
<1>6. SnapInv'
  BY <1>1 DEF SnapInv, InLoops, Visited
<1>7. QED
  BY <1>2, <1>3, <1>4, <1>5, <1>6, HistoryUnchanged DEF HistoryInv

LEMMA ListWorkflowsIInv ==
    ASSUME IInv, TypeOK', NEW t \in Tickers, ListWorkflows(t)
    PROVE  IInv'
<1> USE DEF IInv, TypeOK, ListWorkflows
<1>1. /\ phase'[t] = "reading" /\ cur[t] = 0 /\ todo'[t] \subseteq Workflows
      /\ \A u \in Tickers \ {t} : phase'[u] = phase[u] /\ todo'[u] = todo[u]
  BY DEF InFlightInv, InLoops
<1>2. InFlightInv'
  BY <1>1 DEF InFlightInv, InLoops
<1>3. RecordedInv'
  BY DEF RecordedInv
<1>4. OneTickInv'
  BY <1>1 DEF OneTickInv
<1>5. TodoInv'
  BY <1>1 DEF TodoInv, InLoops, IsDue
<1>6. SnapInv'
  BY <1>1 DEF SnapInv, InLoops, Visited
<1>7. QED
  BY <1>2, <1>3, <1>4, <1>5, <1>6, HistoryUnchanged DEF HistoryInv

\* The state read covers every recorded run of this ticker, and under Exclusive
\* of every ticker: no run is waiting for its record at that moment.
LEMMA ReadStateIInv ==
    ASSUME IInv, TypeOK', NEW t \in Tickers, ReadState(t)
    PROVE  IInv'
<1> USE DEF IInv, TypeOK, ReadState
<1>1. /\ phase'[t] = "workflows" /\ cur[t] = 0 /\ snap'[t] = lastFired
      /\ todo'[t] \subseteq todo[t]
      /\ \A x \in todo'[t] : IsDue(lastFired, moment[t], x)
      /\ \A u \in Tickers \ {t} : phase'[u] = phase[u] /\ todo'[u] = todo[u] /\ snap'[u] = snap[u]
  BY DEF InFlightInv, InLoops
<1>2. InFlightInv'
  BY <1>1 DEF InFlightInv, InLoops
<1>3. RecordedInv'
  BY DEF RecordedInv
<1>4. OneTickInv'
  BY <1>1 DEF OneTickInv
<1>5. TodoInv'
  BY <1>1 DEF TodoInv, InLoops, IsDue
<1>6. SnapInv'
  <2>1. SUFFICES ASSUME NEW i \in DOMAIN runs \ lost, runs[i].by = t \/ Exclusive
                 PROVE  lastFired[runs[i].target] >= runs[i].at
    BY <1>1 DEF SnapInv, InLoops, Visited
  <2>2. runs[i].by \in Tickers /\ i # 0
    BY RunsTyped
  <2>3. ASSUME cur[runs[i].by] = i PROVE FALSE
    BY <1>1, <2>1, <2>2, <2>3 DEF InFlightInv, InLoops, OneTickInv
  <2>4. QED
    BY <2>3 DEF RecordedInv
<1>7. QED
  BY <1>2, <1>3, <1>4, <1>5, <1>6, HistoryUnchanged DEF HistoryInv

\* Steps of a ticker inside its loops.  The new run is due by a copy of the
\* state that covers every run it must be a period away from.
LEMMA RunReturnsIInv ==
    ASSUME IInv, TypeOK', NEW t \in Tickers, NEW x \in Targets, NEW result \in Results(x),
           RunReturns(t, x, result)
    PROVE  IInv'
<1> DEFINE n == Len(runs')
<1>1. /\ TypeOK /\ InLoops(t) /\ cur[t] = 0 /\ x \in todo[t]
      /\ todo' = [todo EXCEPT ![t] = @ \ {x}] /\ cur' = [cur EXCEPT ![t] = n]
      /\ UNCHANGED <<clock, scheduled, lastFired, phase, moment, snap, lost, faults>>
  BY DEF RunReturns, InLoop, InLoops, IInv
<1>2. /\ n \in Nat \ {0} /\ n = Len(runs) + 1
      /\ DOMAIN runs' = DOMAIN runs \cup {n}
      /\ \A i \in DOMAIN runs : runs'[i] = runs[i] /\ i < n
      /\ runs'[n].target = x /\ runs'[n].by = t /\ runs'[n].at = moment[t]
  <2>1. runs \in Seq(RunRecord)
    BY <1>1 DEF TypeOK
  <2>2. \A i \in DOMAIN runs : i < Len(runs) + 1
    BY <2>1
  <2>3. Len(runs) \in Nat
    BY <2>1
  <2>4. runs'[n] = [target |-> x, by |-> t, at |-> moment[t], result |-> result]
    BY <1>1, AppendRun
  <2>5. runs'[n].target = x /\ runs'[n].by = t /\ runs'[n].at = moment[t]
    BY <2>4
  <2>6. /\ n = Len(runs) + 1 /\ DOMAIN runs' = DOMAIN runs \cup {n}
        /\ \A i \in DOMAIN runs : runs'[i] = runs[i]
    BY <1>1, AppendRun
  <2> HIDE DEF n
  <2>7. QED
    BY <2>2, <2>3, <2>5, <2>6
<1> HIDE DEF n
<1>3. /\ cur \in [Tickers -> Nat] /\ todo \in [Tickers -> SUBSET Targets] /\ moment \in [Tickers -> Nat]
      /\ snap \in [Tickers -> [Targets -> Nat \cup {Never}]]
      /\ Period \in [Targets -> Nat \ {0}]
  BY <1>1, SchedulerAssumption DEF TypeOK
<1>4. \A i \in DOMAIN runs :
         i \in Nat \ {0} /\ runs[i].target \in Targets /\ runs[i].by \in Tickers /\ runs[i].at \in Nat
  BY <1>1, RunsTyped
<1>5. \A u \in Tickers \ {t} : todo'[u] = todo[u] /\ cur'[u] = cur[u]
  BY <1>1, <1>3
<1>6. cur'[t] = n /\ todo'[t] = todo[t] \ {x}
  BY <1>1, <1>3
<1>7. InFlightInv'
  BY <1>1, <1>2, <1>5, <1>6 DEF IInv, InFlightInv, InLoops
<1>8. RecordedInv'
  <2>1. SUFFICES ASSUME NEW i \in DOMAIN runs' \ lost
                 PROVE  cur'[runs'[i].by] = i \/ lastFired[runs'[i].target] >= runs'[i].at
    BY <1>1 DEF RecordedInv
  <2>2. CASE i = n
    BY <1>2, <1>6, <2>2
  <2>3. CASE i \in DOMAIN runs
    BY <1>1, <1>2, <1>4, <1>5, <2>1, <2>3 DEF IInv, RecordedInv
  <2>4. QED
    BY <1>2, <2>2, <2>3
<1>9. OneTickInv'
  BY <1>1 DEF IInv, OneTickInv
<1>10. TodoInv'
  BY <1>1, <1>5, <1>6 DEF IInv, TodoInv, InLoops, IsDue
<1>11. SnapInv'
  <2>1. SUFFICES ASSUME NEW u \in Tickers, InLoops(u), NEW i \in DOMAIN runs' \ lost,
                        runs'[i].by = u \/ Exclusive
                 PROVE  \/ snap[u][runs'[i].target] >= runs'[i].at
                        \/ /\ runs'[i].target \notin todo'[u]
                           /\ phase[u] = "workflows" => runs'[i].target \in Workflows
    BY <1>1 DEF SnapInv, InLoops, Visited
  <2>2. CASE i = n
    <3>1. u = t
      BY <1>1, <1>2, <2>1, <2>2 DEF IInv, OneTickInv, InLoops
    <3>2. phase[t] = "workflows" => x \in Workflows
      BY <1>1 DEF IInv, TodoInv
    <3>3. QED
      BY <1>1, <1>2, <1>6, <2>2, <3>1, <3>2 DEF Visited
  <2>3. CASE i \in DOMAIN runs
    <3>1. runs'[i] = runs[i]
      BY <1>2, <2>3
    <3>2. snap[u][runs[i].target] >= runs[i].at \/ Visited(u, runs[i].target)
      BY <2>1, <2>3, <3>1 DEF IInv, SnapInv
    <3>3. todo'[u] \subseteq todo[u]
      BY <1>5, <1>6
    <3>4. QED
      BY <1>1, <3>1, <3>2, <3>3 DEF Visited
  <2>4. QED
    BY <1>2, <2>2, <2>3
<1>12. ASSUME NEW i \in DOMAIN runs \ lost, runs[i].target = x, runs[i].by = t \/ Exclusive
       PROVE  moment[t] >= runs[i].at + Period[x]
  <2>1. snap[t][x] >= runs[i].at
    BY <1>1, <1>12 DEF IInv, SnapInv, Visited
  <2>2. snap[t][x] = Never \/ moment[t] >= snap[t][x] + Period[x]
    BY <1>1 DEF IInv, TodoInv, IsDue
  <2>3. snap[t][x] \in Nat \cup {Never} /\ runs[i].at \in Nat /\ Period[x] \in Nat /\ moment[t] \in Nat
    BY <1>3, <1>4
  <2>4. QED
    BY <2>1, <2>2, <2>3
<1>13. NoRefireBySameTicker'
  <2>1. SUFFICES ASSUME NEW i \in DOMAIN runs', NEW j \in DOMAIN runs', i < j, i \notin lost,
                        runs'[i].target = runs'[j].target, runs'[i].by = runs'[j].by
                 PROVE  runs'[j].at >= runs'[i].at + Period[runs'[i].target]
    BY <1>1 DEF NoRefireBySameTicker, Spaced
  <2>2. i \in DOMAIN runs
    BY <1>2, <1>4, <2>1
  <2>3. CASE j = n
    BY <1>2, <1>12, <2>1, <2>2, <2>3
  <2>4. CASE j \in DOMAIN runs
    BY <1>2, <2>1, <2>2, <2>4 DEF IInv, NoRefireBySameTicker, Spaced
  <2>5. QED
    BY <1>2, <2>3, <2>4
<1>14. NoDoubleFire'
  <2>1. SUFFICES ASSUME Exclusive, NEW i \in DOMAIN runs', NEW j \in DOMAIN runs', i < j,
                        i \notin lost, runs'[i].target = runs'[j].target
                 PROVE  runs'[j].at >= runs'[i].at + Period[runs'[i].target]
    BY <1>1 DEF NoDoubleFire, Spaced
  <2>2. i \in DOMAIN runs
    BY <1>2, <1>4, <2>1
  <2>3. CASE j = n
    BY <1>2, <1>12, <2>1, <2>2, <2>3
  <2>4. CASE j \in DOMAIN runs
    BY <1>2, <2>1, <2>2, <2>4 DEF IInv, NoDoubleFire, Spaced
  <2>5. QED
    BY <1>2, <2>3, <2>4
<1>15. FiredMeansRan'
  BY <1>1, <1>2 DEF IInv, FiredMeansRan
<1>16. ResultInv'
  <2>1. runs'[n] = [target |-> x, by |-> t, at |-> moment[t], result |-> result]
        /\ (x \in Connectors => result = "ok")
    BY <1>1, AppendRun DEF n
  <2>2. QED
    BY <1>2, <2>1 DEF IInv, ResultInv
<1>17. QED
  BY <1>7, <1>8, <1>9, <1>10, <1>11, <1>13, <1>14, <1>15, <1>16 DEF IInv

LEMMA RunRaisesIInv ==
    ASSUME IInv, TypeOK', NEW t \in Tickers, NEW x \in Targets, RunRaises(t, x)
    PROVE  IInv'
<1> USE DEF IInv, TypeOK, RunRaises, InLoop
<1>1. \A u \in Tickers : todo'[u] \subseteq todo[u]
  OBVIOUS
<1>2. InFlightInv'
  BY DEF InFlightInv, InLoops
<1>3. RecordedInv' /\ OneTickInv'
  BY DEF RecordedInv, OneTickInv
<1>4. TodoInv'
  BY <1>1 DEF TodoInv, InLoops, IsDue
<1>5. SnapInv'
  BY <1>1 DEF SnapInv, InLoops, Visited
<1>6. QED
  BY <1>2, <1>3, <1>4, <1>5, HistoryUnchanged DEF HistoryInv

LEMMA RecordKeptIInv ==
    ASSUME IInv, TypeOK', NEW t \in Tickers, RecordFire(t), ~torn
    PROVE  IInv'
<1> DEFINE k == cur[t]
           x == runs[k].target
           m == moment[t]
<1>1. /\ TypeOK /\ k \in DOMAIN runs /\ runs[k].by = t /\ runs[k].at = m
  BY DEF IInv, InFlightInv, RecordFire
<1>2. x \in Targets /\ m \in Nat
  BY <1>1, RunsTyped DEF TypeOK
<1>3. /\ lastFired' = [lastFired EXCEPT ![x] = IF m > lastFired[x] THEN m ELSE lastFired[x]]
      /\ cur' = [cur EXCEPT ![t] = 0]
      /\ UNCHANGED <<clock, scheduled, phase, moment, todo, snap, runs, lost, faults>>
  BY DEF RecordFire
<1> HIDE DEF x, m
<1>4. \A y \in Targets : /\ lastFired'[y] >= lastFired[y]
                         /\ lastFired'[y] = lastFired[y] \/ (y = x /\ lastFired'[y] = m)
                         /\ y = x => lastFired'[y] >= m
  <2>1. TAKE y \in Targets
  <2>2. lastFired[y] \in Nat \cup {Never} /\ lastFired \in [Targets -> Nat \cup {Never}]
    BY <1>1 DEF TypeOK
  <2>3. CASE y # x
    <3>1. lastFired'[y] = lastFired[y]
      BY <1>3, <2>2, <2>3
    <3>2. QED
      BY <2>2, <2>3, <3>1
  <2>4. CASE y = x
    <3>1. lastFired'[y] = IF m > lastFired[y] THEN m ELSE lastFired[y]
      BY <1>3, <2>2, <2>4
    <3>2. QED
      BY <1>2, <2>2, <2>4, <3>1
  <2>5. QED
    BY <2>3, <2>4
<1>5. cur'[t] = 0 /\ \A u \in Tickers \ {t} : cur'[u] = cur[u]
  BY <1>1, <1>3 DEF TypeOK
<1>6. \A i \in DOMAIN runs :
         i \in Nat \ {0} /\ runs[i].target \in Targets /\ runs[i].by \in Tickers /\ runs[i].at \in Nat
  BY <1>1, RunsTyped
<1>7. InFlightInv'
  BY <1>3, <1>5 DEF IInv, InFlightInv, InLoops
<1>8. RecordedInv'
  <2>1. SUFFICES ASSUME NEW i \in DOMAIN runs \ lost
                 PROVE  cur'[runs[i].by] = i \/ lastFired'[runs[i].target] >= runs[i].at
    BY <1>3 DEF RecordedInv
  <2>2. CASE i = k
    BY <1>1, <1>2, <1>4, <2>2 DEF x, m
  <2>3. CASE i # k /\ cur[runs[i].by] = i
    BY <1>5, <1>6, <2>3
  <2>4. CASE lastFired[runs[i].target] >= runs[i].at
    <3>1. runs[i].target \in Targets /\ runs[i].at \in Nat
      BY <1>6
    <3>2. lastFired'[runs[i].target] >= lastFired[runs[i].target]
      BY <1>4, <3>1
    <3>3. lastFired[runs[i].target] \in Nat \cup {Never} /\ lastFired'[runs[i].target] \in Nat \cup {Never}
      BY <1>1, <3>1 DEF TypeOK
    <3>4. QED
      BY <2>4, <3>1, <3>2, <3>3
  <2>5. QED
    BY <2>2, <2>3, <2>4 DEF IInv, RecordedInv
<1>9. OneTickInv' /\ TodoInv' /\ SnapInv'
  BY <1>3 DEF IInv, OneTickInv, TodoInv, SnapInv, InLoops, IsDue, Visited
<1>10. NoRefireBySameTicker' /\ NoDoubleFire'
  BY <1>3 DEF IInv, NoRefireBySameTicker, NoDoubleFire, Spaced
<1>11. ResultInv /\ ResultInv'
  BY <1>3 DEF IInv, ResultInv
<1>12. FiredMeansRan'
  <2>1. SUFFICES ASSUME NEW y \in Targets, lastFired'[y] # Never
                 PROVE  \E i \in DOMAIN runs : /\ runs[i].target = y /\ runs[i].at = lastFired'[y]
                                               /\ y \in Connectors => runs[i].result = "ok"
    BY <1>3 DEF FiredMeansRan
  <2>2. CASE lastFired'[y] = lastFired[y]
    BY <2>1, <2>2 DEF IInv, FiredMeansRan
  <2>3. CASE y = x /\ lastFired'[y] = m
    BY <1>1, <2>3, <1>11 DEF x, m, ResultInv
  <2>4. QED
    BY <1>4, <2>2, <2>3
<1>13. QED
  BY <1>7, <1>8, <1>9, <1>10, <1>11, <1>12 DEF IInv

\* A record that is lost, for whatever reason, is no longer waited for.
LEMMA RecordLostIInv ==
    ASSUME IInv, TypeOK', NEW t \in Tickers, cur[t] # 0,
           cur' = [cur EXCEPT ![t] = 0], lost' = lost \cup {cur[t]},
           UNCHANGED <<clock, scheduled, lastFired, phase, moment, todo, snap, runs>>
    PROVE  IInv'
<1> USE DEF IInv, TypeOK
<1>1. /\ cur'[t] = 0 /\ \A u \in Tickers \ {t} : cur'[u] = cur[u]
      /\ lost' = lost \cup {cur[t]}
      /\ UNCHANGED <<clock, scheduled, lastFired, phase, moment, todo, snap, runs>>
  OBVIOUS
<1>2. InFlightInv'
  BY <1>1 DEF InFlightInv, InLoops
<1>3. RecordedInv'
  BY <1>1, RunsTyped DEF RecordedInv
<1>4. OneTickInv' /\ TodoInv' /\ SnapInv'
  BY <1>1 DEF OneTickInv, TodoInv, SnapInv, InLoops, IsDue, Visited
<1>5. QED
  BY <1>1, <1>2, <1>3, <1>4, HistoryUnchanged DEF HistoryInv

\* A record appended to a whole line is found from then on; one appended to a
\* half line is lost with it.
LEMMA RecordFireIInv ==
    ASSUME IInv, TypeOK', NEW t \in Tickers, RecordFire(t)
    PROVE  IInv'
<1>1. CASE torn
  <2>1. /\ cur[t] # 0 /\ cur' = [cur EXCEPT ![t] = 0] /\ lost' = lost \cup {cur[t]}
        /\ UNCHANGED <<clock, scheduled, lastFired, phase, moment, todo, snap, runs>>
    BY <1>1 DEF RecordFire, MergeRecord
  <2>2. QED
    BY <2>1, RecordLostIInv
<1>2. CASE ~torn
  BY <1>2, RecordKeptIInv
<1>3. QED
  BY <1>1, <1>2 DEF IInv, TypeOK

LEMMA RecordFailsIInv ==
    ASSUME IInv, TypeOK', NEW t \in Tickers, RecordFails(t)
    PROVE  IInv'
BY RecordLostIInv DEF RecordFails

\* The workflows are done with; the connectors left to visit are due.
LEMMA ListConnectorsIInv ==
    ASSUME IInv, TypeOK', NEW t \in Tickers, ListConnectors(t)
    PROVE  IInv'
<1> DEFINE S == {x \in scheduled \cap Connectors : IsDue(snap[t], moment[t], x)}
<1>1. /\ TypeOK /\ phase[t] = "workflows" /\ todo[t] = {}
      /\ phase' = [phase EXCEPT ![t] = "connectors"]
      /\ todo' = [todo EXCEPT ![t] = S]
      /\ UNCHANGED <<clock, scheduled, lastFired, moment, snap, cur, runs, lost, faults>>
  BY DEF ListConnectors, IInv
<1>2. S \subseteq Connectors /\ \A x \in S : IsDue(snap[t], moment[t], x)
  OBVIOUS
<1> HIDE DEF S
<1>3. /\ phase'[t] = "connectors" /\ todo'[t] = S
      /\ \A u \in Tickers \ {t} : phase'[u] = phase[u] /\ todo'[u] = todo[u]
  BY <1>1 DEF TypeOK
<1>4. InFlightInv'
  BY <1>1, <1>3 DEF IInv, InFlightInv, InLoops
<1>5. RecordedInv'
  BY <1>1 DEF IInv, RecordedInv
<1>6. OneTickInv'
  BY <1>1, <1>3 DEF IInv, OneTickInv
<1>7. TodoInv'
  BY <1>1, <1>2, <1>3 DEF IInv, TodoInv, InLoops, IsDue
<1>8. SnapInv'
  <2>1. SUFFICES ASSUME NEW u \in Tickers, phase'[u] \in {"workflows", "connectors"},
                        NEW i \in DOMAIN runs \ lost, runs[i].by = u \/ Exclusive
                 PROVE  \/ snap[u][runs[i].target] >= runs[i].at
                        \/ /\ runs[i].target \notin todo'[u]
                           /\ phase'[u] = "workflows" => runs[i].target \in Workflows
    BY <1>1 DEF SnapInv, InLoops, Visited
  <2>2. CASE u # t
    BY <1>3, <2>1, <2>2 DEF IInv, SnapInv, InLoops, Visited
  <2>3. CASE u = t
    <3>1. snap[t][runs[i].target] >= runs[i].at \/ runs[i].target \in Workflows
      BY <1>1, <2>1, <2>3 DEF IInv, SnapInv, InLoops, Visited
    <3>2. Workflows \cap S = {}
      BY <1>2, SchedulerAssumption
    <3>3. QED
      BY <1>3, <2>3, <3>1, <3>2
  <2>4. QED
    BY <2>2, <2>3
<1>9. QED
  BY <1>1, <1>4, <1>5, <1>6, <1>7, <1>8, HistoryUnchanged DEF IInv, HistoryInv

\* The end of a tick, by return or by crash; a crash loses the pending record.
LEMMA LeaveTickIInv ==
    ASSUME IInv, TypeOK', NEW t \in Tickers, DropLocals(t),
           UNCHANGED <<lastFired, runs>>, lost' = lost \cup ({cur[t]} \ {0})
    PROVE  IInv'
<1> USE DEF IInv, TypeOK
<1>1. /\ phase'[t] = "idle" /\ cur'[t] = 0
      /\ \A u \in Tickers \ {t} : /\ phase'[u] = phase[u] /\ moment'[u] = moment[u]
                                  /\ todo'[u] = todo[u] /\ snap'[u] = snap[u] /\ cur'[u] = cur[u]
  BY DEF DropLocals
<1>2. InFlightInv'
  BY <1>1 DEF InFlightInv, InLoops
<1>3. RecordedInv'
  BY <1>1, RunsTyped DEF RecordedInv
<1>4. OneTickInv'
  BY <1>1 DEF OneTickInv
<1>5. TodoInv'
  BY <1>1 DEF TodoInv, InLoops, IsDue
<1>6. SnapInv'
  BY <1>1 DEF SnapInv, InLoops, Visited
<1>7. QED
  BY <1>1, <1>2, <1>3, <1>4, <1>5, <1>6, HistoryUnchanged DEF HistoryInv

LEMMA NextIInv == IInv /\ [Next]_vars => IInv'
<1> SUFFICES ASSUME IInv, [Next]_vars PROVE IInv'
  OBVIOUS
<1> USE NextTypeOK DEF IInv
<1>1. CASE Advance
  BY <1>1, QuietIInv DEF Advance
<1>2. ASSUME NEW x \in Targets, Reschedule(x) PROVE IInv'
  BY <1>2, QuietIInv DEF Reschedule
<1>3. ASSUME NEW t \in Tickers, EndTick(t) PROVE IInv'
  <2>1. lost' = lost \cup ({cur[t]} \ {0}) /\ DropLocals(t) /\ UNCHANGED <<lastFired, runs>>
    BY <1>3 DEF EndTick, InLoop
  <2>2. QED
    BY <2>1, LeaveTickIInv
<1>4. ASSUME NEW t \in Tickers, Crash(t) PROVE IInv'
  BY <1>4, LeaveTickIInv DEF Crash
<1>5. ASSUME NEW t \in Tickers, Step(t) PROVE IInv'
  BY <1>3, <1>5, ListWorkflowsIInv, ReadStateIInv, RunReturnsIInv, RunRaisesIInv,
     RecordFireIInv, RecordFailsIInv, ListConnectorsIInv DEF Step
<1>6. CASE UNCHANGED vars
  BY <1>6, QuietIInv DEF vars
<1>7. QED
  BY <1>1, <1>2, <1>4, <1>5, <1>6, StartTickIInv DEF Next

THEOREM SchedulerInvariant == Spec => []IInv
BY InitIInv, NextIInv, PTL DEF Spec

\* No process refires a target whose record it appended before the period is
\* over, however many processes tick the lake at once.
THEOREM NoRefire == Spec => []NoRefireBySameTicker
BY SchedulerInvariant, PTL DEF IInv

\* With ticks that do not overlap, only a lost record lets a target fire twice
\* within its period.
THEOREM SingleFire == Spec => []NoDoubleFire
BY SchedulerInvariant, PTL DEF IInv

\* The state file tells the latest run of every target that was recorded, and for a
\* connector only syncs that ended ok: a failed one is retried.
THEOREM StateIsHonest == Spec => []StateIsLatestRun
<1>1. IInv => RanMeansFired
  BY RunsTyped DEF IInv, RecordedInv, RanMeansFired
<1>2. IInv => StateIsLatestRun
  BY <1>1 DEF IInv, StateIsLatestRun
<1>3. QED
  BY SchedulerInvariant, <1>2, PTL
=============================================================================
