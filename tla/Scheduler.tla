----------------------------- MODULE Scheduler -----------------------------
(***************************************************************************)
(* The cron scheduler of security_lakehouse/scheduler.py.                  *)
(*                                                                         *)
(* A tick captures the current moment, lists the workflows that carry a    *)
(* trigger.cron node, reads gold/scheduler_state.jsonl once, runs every    *)
(* due workflow, then lists the enabled connectors with a sync schedule    *)
(* and runs every due one.  The state file is appended to after each run   *)
(* that returned, whatever its result; a run that raised leaves it alone.  *)
(* An append can stop in the middle of its line, and the next record, of   *)
(* whatever target and process, then merges with that half line to one     *)
(* that _read_state skips.  Several processes tick the same lake: the      *)
(* Kubernetes CronJob, the `scheduler run` daemon, `scheduler tick` from a *)
(* shell, and POST /api/scheduler/tick.  Nothing locks the lake, so their  *)
(* steps interleave.                                                       *)
(***************************************************************************)
EXTENDS Integers, Sequences

CONSTANTS
    Workflows,     \* workflow ids that may carry a trigger.cron node
    Connectors,    \* connector ids that may carry a sync_schedule option
    Tickers,       \* processes that call tick()
    Period,        \* Period[x]: what parse_schedule returns, in clock units
    Broken,        \* targets whose run always raises
    Endings,       \* Endings[w]: the results a run of workflow w may return
    Exclusive,     \* TRUE: ticks never overlap (CronJob, concurrencyPolicy Forbid)
    MaxTime,       \* bound on the clock
    MaxFaults      \* bound on crashes, failed state writes and passing run errors

Targets == Workflows \cup Connectors

ASSUME SchedulerAssumption ==
    /\ Workflows \cap Connectors = {}
    /\ Period \in [Targets -> Nat \ {0}]
    /\ Broken \subseteq Targets
    /\ Endings \in [Workflows -> SUBSET {"ok", "error"}]
    /\ Exclusive \in BOOLEAN
    /\ MaxTime \in Nat
    /\ MaxFaults \in Nat

Never == -1    \* no readable last_fired_at row for the target

VARIABLES
    clock,      \* wall clock
    scheduled,  \* targets a listing would return now
    lastFired,  \* lastFired[x]: what _read_state would return now
    torn,       \* the last line of the state file is a half line
    phase,      \* phase[t]: where ticker t is inside tick()
    moment,     \* moment[t]: the `moment` local of t's tick
    todo,       \* todo[t]: listed targets t still has to visit
    snap,       \* snap[t]: the `state` local of t's tick
    cur,        \* cur[t]: index in runs of the run t has not recorded yet, or 0
    runs,       \* history: runs that returned, in order
    lost,       \* history: indices of runs whose record no reader will find
    faults      \* faults taken so far

tickVars == <<phase, moment, todo, snap, cur>>
vars == <<clock, scheduled, lastFired, torn, tickVars, runs, lost, faults>>

Phases == {"idle", "listing", "reading", "workflows", "connectors"}
RunRecord == [target : Targets, by : Tickers, at : Nat, result : {"ok", "error"}]

Init ==
    /\ clock = 0
    /\ scheduled = {}
    /\ lastFired = [x \in Targets |-> Never]
    /\ torn = FALSE
    /\ phase = [t \in Tickers |-> "idle"]
    /\ moment = [t \in Tickers |-> 0]
    /\ todo = [t \in Tickers |-> {}]
    /\ snap = [t \in Tickers |-> [x \in Targets |-> Never]]
    /\ cur = [t \in Tickers |-> 0]
    /\ runs = <<>>
    /\ lost = {}
    /\ faults = 0

-----------------------------------------------------------------------------
(* Environment: time passes; operators edit workflows and connectors.      *)

Advance ==
    /\ clock < MaxTime
    /\ clock' = clock + 1
    /\ UNCHANGED <<scheduled, lastFired, torn, tickVars, runs, lost, faults>>

\* A saved workflow version gains or drops its trigger.cron node; a config
\* event enables a connector with a schedule, or disables it.
Reschedule(x) ==
    /\ scheduled' = IF x \in scheduled THEN scheduled \ {x} ELSE scheduled \cup {x}
    /\ UNCHANGED <<clock, lastFired, torn, tickVars, runs, lost, faults>>

-----------------------------------------------------------------------------
(* One tick.                                                               *)

\* Mutant: due one unit early.
IsDue_Early(state, m, x) == state[x] = Never \/ m + 1 >= state[x] + Period[x]

IsDue(state, m, x) == state[x] = Never \/ m >= state[x] + Period[x]

\* Mutant: the moment is taken one unit back.
StartTick_Backdated(t) ==
    /\ phase[t] = "idle"
    /\ Exclusive => \A u \in Tickers : phase[u] = "idle"
    /\ phase' = [phase EXCEPT ![t] = "listing"]
    /\ moment' = [moment EXCEPT ![t] = clock - 1]
    /\ UNCHANGED <<clock, scheduled, lastFired, torn, todo, snap, cur, runs, lost, faults>>

StartTick(t) ==
    /\ phase[t] = "idle"
    /\ Exclusive => \A u \in Tickers : phase[u] = "idle"
    /\ phase' = [phase EXCEPT ![t] = "listing"]
    /\ moment' = [moment EXCEPT ![t] = clock]
    /\ UNCHANGED <<clock, scheduled, lastFired, torn, todo, snap, cur, runs, lost, faults>>

ListWorkflows(t) ==
    /\ phase[t] = "listing"
    /\ phase' = [phase EXCEPT ![t] = "reading"]
    /\ todo' = [todo EXCEPT ![t] = scheduled \cap Workflows]
    /\ UNCHANGED <<clock, scheduled, lastFired, torn, moment, snap, cur, runs, lost, faults>>

\* The state is read once; both loops of the tick use this copy.  A target that
\* is not due by it is passed over without effect.
ReadState(t) ==
    /\ phase[t] = "reading"
    /\ phase' = [phase EXCEPT ![t] = "workflows"]
    /\ snap' = [snap EXCEPT ![t] = lastFired]
    /\ todo' = [todo EXCEPT ![t] = {x \in @ : IsDue(lastFired, moment[t], x)}]
    /\ UNCHANGED <<clock, scheduled, lastFired, torn, moment, cur, runs, lost, faults>>

InLoop(t) == phase[t] \in {"workflows", "connectors"} /\ cur[t] = 0

\* Mutant: a sync that fails returns its error instead of raising it.
Results_SyncReturnsError(x) == IF x \in Workflows THEN Endings[x] ELSE {"ok", "error"}

\* How a run that returns can end.  run_workflow catches what a node raises and
\* returns the result "error"; run_connector_sync raises when it fails.
Results(x) == IF x \in Workflows THEN Endings[x] ELSE {"ok"}

RunReturns(t, x, result) ==
    /\ InLoop(t)
    /\ x \in todo[t] \ Broken
    /\ todo' = [todo EXCEPT ![t] = @ \ {x}]
    /\ runs' = Append(runs, [target |-> x, by |-> t, at |-> moment[t], result |-> result])
    /\ cur' = [cur EXCEPT ![t] = Len(runs')]
    /\ UNCHANGED <<clock, scheduled, lastFired, torn, phase, moment, snap, lost, faults>>

\* tick() returns or its process dies: its locals are gone.
DropLocals(t) ==
    /\ phase' = [phase EXCEPT ![t] = "idle"]
    /\ moment' = [moment EXCEPT ![t] = 0]
    /\ todo' = [todo EXCEPT ![t] = {}]
    /\ snap' = [snap EXCEPT ![t] = [x \in Targets |-> Never]]
    /\ cur' = [cur EXCEPT ![t] = 0]

\* Mutant: no except clause, the first failing target ends the tick.
RunRaises_EndsTick(t, x) ==
    /\ InLoop(t)
    /\ x \in todo[t]
    /\ x \in Broken \/ faults < MaxFaults
    /\ faults' = IF x \in Broken THEN faults ELSE faults + 1
    /\ DropLocals(t)
    /\ UNCHANGED <<clock, scheduled, lastFired, torn, runs, lost>>

\* The exception is caught, the target's state does not advance and the loop
\* goes on with the next target.
RunRaises(t, x) ==
    /\ InLoop(t)
    /\ x \in todo[t]
    /\ x \in Broken \/ faults < MaxFaults
    /\ faults' = IF x \in Broken THEN faults ELSE faults + 1
    /\ todo' = [todo EXCEPT ![t] = @ \ {x}]
    /\ UNCHANGED <<clock, scheduled, lastFired, torn, phase, moment, snap, cur, runs, lost>>

\* A record appended to a half line merges with it, and no reader finds either.
MergeRecord(t) ==
    /\ lost' = lost \cup {cur[t]}
    /\ UNCHANGED lastFired

\* Mutant: the last row wins, whatever its moment.
RecordFire_LastRowWins(t) ==
    /\ cur[t] # 0
    /\ IF torn THEN MergeRecord(t)
       ELSE /\ LET x == runs[cur[t]].target IN lastFired' = [lastFired EXCEPT ![x] = moment[t]]
            /\ UNCHANGED lost
    /\ torn' = FALSE
    /\ cur' = [cur EXCEPT ![t] = 0]
    /\ UNCHANGED <<clock, scheduled, phase, moment, todo, snap, runs, faults>>

\* The append of last_fired_at = moment, whatever the result of the run; a later
\* read takes the latest row.
RecordFire(t) ==
    /\ cur[t] # 0
    /\ IF torn THEN MergeRecord(t)
       ELSE /\ LET x == runs[cur[t]].target IN
               lastFired' = [lastFired EXCEPT ![x] = IF moment[t] > @ THEN moment[t] ELSE @]
            /\ UNCHANGED lost
    /\ torn' = FALSE
    /\ cur' = [cur EXCEPT ![t] = 0]
    /\ UNCHANGED <<clock, scheduled, phase, moment, todo, snap, runs, faults>>

\* The append sits in the same try block as the run: when it raises, the tick
\* reports an error and goes on, although the run has happened.  It leaves
\* nothing or a half line.  (A line cut just before its newline can be read until
\* the next record merges with it; its run counts as lost at once.)
RecordFails(t) ==
    /\ cur[t] # 0
    /\ faults < MaxFaults
    /\ faults' = faults + 1
    /\ lost' = lost \cup {cur[t]}
    /\ torn' \in {torn, TRUE}
    /\ cur' = [cur EXCEPT ![t] = 0]
    /\ UNCHANGED <<clock, scheduled, lastFired, phase, moment, todo, snap, runs>>

\* Connectors are listed only after every workflow has been visited.
ListConnectors(t) ==
    /\ phase[t] = "workflows"
    /\ InLoop(t)
    /\ todo[t] = {}
    /\ phase' = [phase EXCEPT ![t] = "connectors"]
    /\ todo' = [todo EXCEPT ![t] =
           {x \in scheduled \cap Connectors : IsDue(snap[t], moment[t], x)}]
    /\ UNCHANGED <<clock, scheduled, lastFired, torn, moment, snap, cur, runs, lost, faults>>

EndTick(t) ==
    /\ phase[t] = "connectors"
    /\ InLoop(t)
    /\ todo[t] = {}
    /\ DropLocals(t)
    /\ UNCHANGED <<clock, scheduled, lastFired, torn, runs, lost, faults>>

\* A run the process had not recorded stays unrecorded; a process that dies in
\* its append may leave a half line.
Crash(t) ==
    /\ phase[t] # "idle"
    /\ faults < MaxFaults
    /\ faults' = faults + 1
    /\ DropLocals(t)
    /\ lost' = lost \cup ({cur[t]} \ {0})
    /\ torn' \in {torn, torn \/ cur[t] # 0}
    /\ UNCHANGED <<clock, scheduled, lastFired, runs>>

Step(t) ==
    \/ ListWorkflows(t)
    \/ ReadState(t)
    \/ \E x \in Targets :
         \/ \E result \in Results(x) : RunReturns(t, x, result)
         \/ RunRaises(t, x)
    \/ RecordFire(t)
    \/ RecordFails(t)
    \/ ListConnectors(t)
    \/ EndTick(t)

Next ==
    \/ Advance
    \/ \E x \in Targets : Reschedule(x)
    \/ \E t \in Tickers : StartTick(t) \/ Step(t) \/ Crash(t)

Spec == Init /\ [][Next]_vars

\* A tick keeps running until it ends or its process dies, and ticks keep
\* being started (the CronJob schedule, the daemon's loop).
Fairness ==
    /\ WF_vars(\E t \in Tickers : StartTick(t))
    /\ \A t \in Tickers : WF_vars(Step(t))

FairSpec == Spec /\ Fairness

-----------------------------------------------------------------------------
(* Properties.                                                             *)

TypeOK ==
    /\ clock \in Nat
    /\ scheduled \subseteq Targets
    /\ lastFired \in [Targets -> Nat \cup {Never}]
    /\ torn \in BOOLEAN
    /\ phase \in [Tickers -> Phases]
    /\ moment \in [Tickers -> Nat]
    /\ todo \in [Tickers -> SUBSET Targets]
    /\ snap \in [Tickers -> [Targets -> Nat \cup {Never}]]
    /\ cur \in [Tickers -> Nat]
    /\ runs \in Seq(RunRecord)
    /\ lost \subseteq Nat
    /\ faults \in Nat

Spaced(i, j) == runs[j].at >= runs[i].at + Period[runs[i].target]

\* Whatever overlaps, one process never runs a target again within its period
\* unless the record of its earlier run was lost: a late append by a slower
\* process with an older moment cannot pull last_fired_at back.
NoRefireBySameTicker ==
    \A i, j \in DOMAIN runs :
        (/\ i < j
         /\ runs[i].target = runs[j].target
         /\ runs[i].by = runs[j].by
         /\ i \notin lost) => Spaced(i, j)

\* When ticks do not overlap, a target runs twice within its period only if the
\* record of the first run was lost: "successive ticks don't double-fire".
NoDoubleFire ==
    Exclusive =>
        \A i, j \in DOMAIN runs :
            (/\ i < j
             /\ runs[i].target = runs[j].target
             /\ i \notin lost) => Spaced(i, j)

\* last_fired_at names a moment at which the target did run and return.
FiredMeansRan ==
    \A x \in Targets : lastFired[x] # Never =>
        \E i \in DOMAIN runs :
            /\ runs[i].target = x
            /\ runs[i].at = lastFired[x]
            /\ x \in Connectors => runs[i].result = "ok"

\* No run whose record was written is later.
RanMeansFired ==
    \A i \in DOMAIN runs \ lost :
        (\A t \in Tickers : cur[t] # i) => lastFired[runs[i].target] >= runs[i].at

\* The state file tells the latest run of every target whose record was neither
\* lost nor is still to be written, in whatever order overlapping ticks append
\* theirs.  A sync returns only if it ended ok, so one that failed leaves its
\* connector due and the next tick retries it; a failed workflow run returned as
\* well, is recorded as fired, and its workflow waits for a whole period.
StateIsLatestRun == FiredMeansRan /\ RanMeansFired

DueNow(x) ==
    /\ x \in scheduled \ Broken
    /\ lastFired[x] = Never \/ clock >= lastFired[x] + Period[x]

\* A due target does not stay due: crashes, lost records, passing errors and
\* targets that raise on every tick delay it but never block it.
DueTargetsFire == \A x \in Targets : DueNow(x) ~> ~DueNow(x)
=============================================================================
