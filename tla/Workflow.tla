------------------------------ MODULE Workflow ------------------------------
(***************************************************************************)
(* workflows.py: a workflow is a graph of nodes and conditional edges,     *)
(* saved as numbered versions in an append-only log; a run takes the       *)
(* latest version, sorts the nodes (Kahn's algorithm; nodes on or behind a *)
(* cycle or an unknown source come last, in insertion order), executes     *)
(* them one by one unless an incoming edge declines, and stops at the      *)
(* first error.  A save reads the log to number its version and appends    *)
(* later; nothing locks the log.  A node that acts changes the lake, which *)
(* no later error undoes, and the process may die before the run is        *)
(* recorded.                                                               *)
(***************************************************************************)
EXTENDS Integers, Sequences, FiniteSets, SequencesExt

CONSTANTS
    NodeSeq,     \* the node ids in insertion order
    Ghost,       \* an id that an edge may name and no node has
    Savers,      \* requests that save the workflow
    MaxEdges,    \* bound on the edges of a version
    MaxSaves     \* bound on saves

Nodes == ToSet(NodeSeq)
Conditions == {"always", "passed", "failed"}
Edges == [source : Nodes \cup {Ghost}, target : Nodes, condition : Conditions]
Graphs == UNION {[1..k -> Edges] : k \in 0..MaxEdges}

\* The outcome of a node: skipped by an edge, failed with an exception, or ok
\* with output.passed true or not.
Results == {"none", "skipped", "error", "ok passed", "ok"}

\* The action library: how a node of each kind may end.  A trigger only reports;
\* a check raises on a parameter or a file it cannot read; an action freezes a
\* snapshot or assigns an owner; a type the library lacks always raises.
Outcomes ==
    [trigger |-> {"ok"}, check |-> {"ok passed", "ok", "error"},
     action |-> {"ok", "error"}, unknown |-> {"error"}]

ASSUME WorkflowAssumption ==
    /\ NodeSeq \in Seq(Nodes) /\ NodeSeq # <<>> /\ IsInjective(NodeSeq)
    /\ Ghost \notin Nodes
    /\ MaxEdges \in Nat /\ MaxSaves \in Nat

VARIABLES
    log,       \* workflows.jsonl: the versions in the order they were appended
    draft,     \* draft[s]: the version s is about to append, or NoDraft
    saves,
    phase,     \* the run: "idle", "sort", "execute" or "ended"
    graph,     \* the edges of the version it executes
    indeg, ready, order,    \* Kahn's algorithm
    results,   \* results[n]: the outcome of node n in this run
    failed,    \* a node raised
    touched    \* the nodes that changed the lake in this run

store == <<log, draft, saves>>
sorting == <<indeg, ready, order>>
running == <<phase, graph, sorting, results, failed, touched>>
vars == <<store, running>>

NoDraft == [version |-> 0, edges |-> <<>>]

Init ==
    /\ log = <<>>
    /\ draft = [s \in Savers |-> NoDraft]
    /\ saves = 0
    /\ phase = "idle"
    /\ graph = <<>>
    /\ indeg = [n \in Nodes |-> 0] /\ ready = <<>> /\ order = <<>>
    /\ results = [n \in Nodes |-> "none"]
    /\ failed = FALSE
    /\ touched = {}

-----------------------------------------------------------------------------
(* Versions.                                                               *)

\* list_workflows: of equal numbers the one appended first stays.
LatestIndex ==
    CHOOSE i \in DOMAIN log :
        /\ \A j \in DOMAIN log : log[j].version <= log[i].version
        /\ \A j \in 1..(i - 1) : log[j].version < log[i].version

LatestVersion == IF log = <<>> THEN 0 ELSE log[LatestIndex].version

\* Mutant: the new version takes the number of the latest.
NumberVersion_Same(s) ==
    /\ draft[s] = NoDraft /\ saves < MaxSaves
    /\ \E edges \in Graphs :
         draft' = [draft EXCEPT ![s] = [version |-> LatestVersion, edges |-> edges]]
    /\ saves' = saves + 1
    /\ UNCHANGED <<log, running>>

\* save_workflow numbers the version after those it finds in the log ...
NumberVersion(s) ==
    /\ draft[s] = NoDraft /\ saves < MaxSaves
    /\ \E edges \in Graphs :
         draft' = [draft EXCEPT ![s] = [version |-> LatestVersion + 1, edges |-> edges]]
    /\ saves' = saves + 1
    /\ UNCHANGED <<log, running>>

\* ... and appends it.
AppendVersion(s) ==
    /\ draft[s] # NoDraft
    /\ log' = Append(log, draft[s])
    /\ draft' = [draft EXCEPT ![s] = NoDraft]
    /\ UNCHANGED <<saves, running>>

-----------------------------------------------------------------------------
(* A run.                                                                  *)

\* The edges of a version into n, and those of them from m, by their indices.
Into(edges, n) == {i \in DOMAIN edges : edges[i].target = n}
Between(edges, m, n) == {i \in Into(edges, n) : edges[i].source = m}

\* The nodes of S in insertion order.
Inserted(n) == CHOOSE i \in DOMAIN NodeSeq : NodeSeq[i] = n
Rank(n, S) == Cardinality({m \in S : Inserted(m) <= Inserted(n)})
InOrder(S) == [i \in 1..Cardinality(S) |-> CHOOSE n \in S : Rank(n, S) = i]

Start ==
    /\ phase \in {"idle", "ended"} /\ log # <<>>
    /\ graph' = log[LatestIndex].edges
    /\ indeg' = [n \in Nodes |-> Cardinality(Into(graph', n))]
    /\ ready' = InOrder({n \in Nodes : indeg'[n] = 0})
    /\ order' = <<>>
    /\ results' = [n \in Nodes |-> "none"]
    /\ failed' = FALSE
    /\ touched' = {}
    /\ phase' = "sort"
    /\ UNCHANGED store

\* Mutant: a node is ready as soon as one of its parents is placed.
Place_FirstParent ==
    /\ phase = "sort" /\ ready # <<>>
    /\ order' = Append(order, Head(ready))
    /\ indeg' = [n \in Nodes |-> IF Between(graph, Head(ready), n) = {} THEN indeg[n] ELSE 0]
    /\ ready' = Tail(ready) \o InOrder({n \in Nodes : indeg[n] # 0 /\ indeg'[n] = 0})
    /\ UNCHANGED <<store, phase, graph, results, failed, touched>>

\* The next ready node takes its place; children without another open parent
\* become ready.
Place ==
    /\ phase = "sort" /\ ready # <<>>
    /\ order' = Append(order, Head(ready))
    /\ indeg' = [n \in Nodes |-> indeg[n] - Cardinality(Between(graph, Head(ready), n))]
    /\ ready' = Tail(ready) \o InOrder({n \in Nodes : indeg[n] # 0 /\ indeg'[n] = 0})
    /\ UNCHANGED <<store, phase, graph, results, failed, touched>>

\* Mutant: every node with an incoming edge is appended again.
PlaceRest_Twice ==
    /\ phase = "sort" /\ ready = <<>>
    /\ order' = order \o InOrder({n \in Nodes : Into(graph, n) # {}})
    /\ phase' = "execute"
    /\ UNCHANGED <<store, graph, indeg, ready, results, failed, touched>>

\* Whatever is left stands on or behind a cycle or an unknown source.
PlaceRest ==
    /\ phase = "sort" /\ ready = <<>>
    /\ order' = order \o InOrder(Nodes \ ToSet(order))
    /\ phase' = "execute"
    /\ UNCHANGED <<store, graph, indeg, ready, results, failed, touched>>

\* Mutant: a parent that has not run does not decline.
Allows_Absent(e, outcome) ==
    \/ e.condition = "always" \/ outcome = "none"
    \/ e.condition = "passed" /\ outcome = "ok passed"
    \/ e.condition = "failed" /\ outcome = "ok"

\* _edge_allows: a condition asks for a parent that ran without error.
Allows(e, outcome) ==
    \/ e.condition = "always"
    \/ e.condition = "passed" /\ outcome = "ok passed"
    \/ e.condition = "failed" /\ outcome = "ok"

OutcomeOf(id) == IF id \in Nodes THEN results[id] ELSE "none"
Declined(n) == \E i \in Into(graph, n) : ~Allows(graph[i], OutcomeOf(graph[i].source))

\* The places in the order the run has not come to, and the node whose turn it is.
Pending == {i \in DOMAIN order : results[order[i]] = "none"}
Turn == order[CHOOSE i \in Pending : \A j \in Pending : i <= j]

Skip ==
    /\ phase = "execute" /\ ~failed /\ Pending # {}
    /\ Declined(Turn)
    /\ results' = [results EXCEPT ![Turn] = "skipped"]
    /\ UNCHANGED <<store, phase, graph, sorting, failed, touched>>

\* A node ends in an outcome of its kind; an action that ends well changed the
\* lake, one that raised may have.
Perform(n, outcome) ==
    \E kind \in DOMAIN Outcomes :
        /\ outcome \in Outcomes[kind]
        /\ results' = [results EXCEPT ![n] = outcome]
        /\ \/ kind # "action" /\ UNCHANGED touched
           \/ kind = "action" /\ touched' = touched \cup {n}
           \/ kind = "action" /\ outcome = "error" /\ UNCHANGED touched

\* Mutant: an error does not end the run.
Execute_GoesOn ==
    /\ phase = "execute" /\ ~failed /\ Pending # {}
    /\ ~Declined(Turn)
    /\ \E outcome \in Results : Perform(Turn, outcome)
    /\ UNCHANGED <<store, phase, graph, sorting, failed>>

Execute ==
    /\ phase = "execute" /\ ~failed /\ Pending # {}
    /\ ~Declined(Turn)
    /\ \E outcome \in Results :
         /\ Perform(Turn, outcome)
         /\ failed' = (outcome = "error")
    /\ UNCHANGED <<store, phase, graph, sorting>>

\* The run record is appended.
End ==
    /\ phase = "execute" /\ (failed \/ Pending = {})
    /\ phase' = "ended"
    /\ UNCHANGED <<store, graph, sorting, results, failed, touched>>

\* The server dies: what the nodes did stays, the run is never recorded and a
\* version that was not yet appended is gone.
Die ==
    /\ phase \in {"sort", "execute"}
    /\ phase' = "idle" /\ graph' = <<>>
    /\ indeg' = [n \in Nodes |-> 0] /\ ready' = <<>> /\ order' = <<>>
    /\ results' = [n \in Nodes |-> "none"]
    /\ failed' = FALSE
    /\ draft' = [s \in Savers |-> NoDraft]
    /\ UNCHANGED <<log, saves, touched>>

Run == Start \/ Place \/ PlaceRest \/ Skip \/ Execute \/ End \/ Die

Next == Run \/ \E s \in Savers : NumberVersion(s) \/ AppendVersion(s)

Spec == Init /\ [][Next]_vars

-----------------------------------------------------------------------------
(* Properties.                                                             *)

TypeOK ==
    /\ log \in Seq([version : 1..MaxSaves, edges : Graphs])
    /\ draft \in [Savers -> [version : 0..MaxSaves, edges : Graphs]]
    /\ saves \in 0..MaxSaves
    /\ phase \in {"idle", "sort", "execute", "ended"}
    /\ indeg \in [Nodes -> 0..MaxEdges]
    /\ graph \in Graphs /\ ready \in Seq(Nodes) /\ order \in Seq(Nodes)
    /\ results \in [Nodes -> Results]
    /\ failed \in BOOLEAN
    /\ touched \subseteq Nodes

Sorted == phase \in {"execute", "ended"}

\* Cycles, unknown sources and parallel edges included, the order holds every
\* node exactly once: no action runs twice in a run, none is forgotten.
OrderComplete == Sorted => IsInjective(order) /\ ToSet(order) = Nodes

\* n depends, through any number of edges, neither on a cycle nor on an unknown
\* node: of nodes that have all their parents among them it is one, and none of
\* those depend on each other in a circle.
Parents(n) == {graph[i].source : i \in Into(graph, n)}
Sound(n) ==
    \E S \in SUBSET Nodes :
        /\ n \in S /\ \A m \in S : Parents(m) \subseteq S
        /\ \A T \in (SUBSET S) \ {{}} : \E m \in T : Parents(m) \cap T = {}

Position(n) == CHOOSE i \in DOMAIN order : order[i] = n

\* Every node that depends on no cycle and no unknown node comes after all of
\* its parents, even when the rest of the graph is cyclic.
ParentsFirst ==
    Sorted => \A n \in Nodes : Sound(n) =>
        \A m \in Parents(n) : Position(m) < Position(n)

\* When the run is over, no node was executed against the condition of an edge:
\* a parent's outcome never changes or arrives after its child was let through.
NoneRunsDeclined ==
    phase = "ended" => \A n \in Nodes : results[n] \notin {"none", "skipped"} => ~Declined(n)

\* A recorded run tells every change it made: whatever changed the lake stands in
\* the record as executed, and nothing that comes after an error was executed or
\* changed anything.  (The record of a run that dies is missing; its changes are
\* told by nothing, and this property says nothing of them.)
EffectsAreTold ==
    phase = "ended" =>
        /\ \A n \in touched : results[n] \in {"ok", "error"}
        /\ \A n, m \in Nodes :
             results[m] = "error" /\ Position(n) > Position(m) =>
                 results[n] = "none" /\ n \notin touched
=============================================================================
