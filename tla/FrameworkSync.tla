---------------------------- MODULE FrameworkSync ----------------------------
(***************************************************************************)
(* sync_frameworks: pulls the official source of every framework and       *)
(* records its hash and the time in frameworks/registry.json, which is     *)
(* read whole before and written in place, whole, after.                   *)
(*                                                                         *)
(* The hash of a body is the body.  A weekly job runs one sync at a time.  *)
(***************************************************************************)
EXTENDS Integers

CONSTANTS
    Frameworks,
    Incomplete,     \* registry entries without an id or a source
    MaxBody,        \* bound on the bodies a source serves one after the other
    MaxDay          \* bound on the clock

ASSUME FrameworkSyncAssumption ==
    Incomplete \subseteq Frameworks /\ {MaxBody, MaxDay} \subseteq Nat

VARIABLES
    source,     \* source[f]: what the official source of f serves
    registry,   \* registry[f]: the hash and pulled_at of its entry
    whole,      \* the registry parses
    pull,       \* the sync: its step, the entries it holds, its results
    told,       \* history: the entries of the latest report that still stands
    day

pullVars == <<source, registry, whole, pull, told, day>>

Entry == [sha : 0..MaxBody, pulled : 0..MaxDay]
States3 == {"updated", "unchanged", "skipped", "error"}
NoPull == [step |-> "idle", online |-> FALSE, entries |-> [f \in {} |-> 0],
           results |-> [f \in {} |-> "none"]]
NoReport == [f \in {} |-> 0]

PullInit ==
    /\ source = [f \in Frameworks |-> 0]
    /\ registry = [f \in Frameworks |-> [sha |-> 0, pulled |-> 0]]
    /\ whole = TRUE /\ pull = NoPull /\ told = NoReport /\ day = 0

\* read_text and json.loads; a registry that does not parse raises.
ReadRegistry ==
    /\ pull.step = "idle" /\ whole
    /\ \E online \in BOOLEAN :
         pull' = [step |-> "pull", online |-> online, entries |-> registry,
                  results |-> [f \in {} |-> "none"]]
    /\ UNCHANGED <<source, registry, whole, told, day>>

Awaits(f) == pull.step = "pull" /\ f \notin DOMAIN pull.results
Result(f, state) == [g \in DOMAIN pull.results \cup {f} |->
                        IF g = f THEN state ELSE pull.results[g]]

\* Neither an incomplete entry nor a source that is not reached stops the sync.
Pass(f) ==
    /\ Awaits(f)
    /\ pull' = [pull EXCEPT !.results = Result(f,
         IF f \in Incomplete THEN "error" ELSE IF pull.online THEN "error" ELSE "skipped")]
    /\ UNCHANGED <<source, registry, whole, told, day>>

\* Mutant: pulled_at moves only with the hash.
Pulled_OnlyDrift(f) ==
    IF pull.entries[f].sha = source[f] THEN pull.entries[f]
    ELSE [sha |-> source[f], pulled |-> day]

Pulled(f) == [sha |-> source[f], pulled |-> day]

Fetch(f) ==
    /\ Awaits(f) /\ pull.online /\ f \notin Incomplete
    /\ LET state == IF source[f] = pull.entries[f].sha THEN "unchanged" ELSE "updated"
       IN pull' = [pull EXCEPT !.entries[f] = Pulled(f), !.results = Result(f, state)]
    /\ UNCHANGED <<source, registry, whole, told, day>>

\* Mutant: only drift is written back.
WritesBack_OnlyDrift(states) == "updated" \in states

\* The registry is written if any source was reached.
WritesBack(states) == states \cap {"updated", "unchanged"} # {}

Finished == DOMAIN pull.results = Frameworks

\* write_text empties the registry ...
EmptyRegistry ==
    /\ pull.step = "pull" /\ Finished
    /\ WritesBack({pull.results[f] : f \in Frameworks})
    /\ whole' = FALSE
    /\ pull' = [pull EXCEPT !.step = "write"]
    /\ told' = NoReport
    /\ UNCHANGED <<source, registry, day>>

\* ... and fills it; the results are returned.
FillRegistry ==
    /\ pull.step = "write"
    /\ registry' = pull.entries /\ whole' = TRUE
    /\ told' = pull.entries /\ pull' = NoPull
    /\ UNCHANGED <<source, day>>

ReturnUnwritten ==
    /\ pull.step = "pull" /\ Finished
    /\ ~WritesBack({pull.results[f] : f \in Frameworks})
    /\ told' = pull.entries /\ pull' = NoPull
    /\ UNCHANGED <<source, registry, whole, day>>

\* The process dies; or fetching raises what sync_frameworks does not catch.
PullDies ==
    /\ pull.step # "idle"
    /\ pull' = NoPull
    /\ UNCHANGED <<source, registry, whole, told, day>>

\* An operator restores a registry that does not parse from version control,
\* as it was before the interrupted sync.
Restore ==
    /\ ~whole /\ pull.step = "idle"
    /\ whole' = TRUE
    /\ UNCHANGED <<source, registry, pull, told, day>>

Publish(f) ==
    /\ source[f] < MaxBody
    /\ source' = [source EXCEPT ![f] = @ + 1]
    /\ UNCHANGED <<registry, whole, pull, told, day>>

NextDay ==
    /\ day < MaxDay /\ day' = day + 1
    /\ UNCHANGED <<source, registry, whole, pull, told>>

PullNext ==
    \/ ReadRegistry \/ EmptyRegistry \/ FillRegistry \/ ReturnUnwritten
    \/ PullDies \/ Restore \/ NextDay
    \/ \E f \in Frameworks : Pass(f) \/ Fetch(f) \/ Publish(f)

PullSpec == PullInit /\ [][PullNext]_pullVars
-----------------------------------------------------------------------------
(* Properties.                                                             *)

PullTypeOK ==
    /\ source \in [Frameworks -> 0..MaxBody]
    /\ registry \in [Frameworks -> Entry]
    /\ whole \in BOOLEAN
    /\ pull.step \in {"idle", "pull", "write"} /\ pull.online \in BOOLEAN
    /\ \A f \in DOMAIN pull.results : pull.results[f] \in States3
    /\ day \in 0..MaxDay

\* The registry, when it parses, says of every framework what the latest report
\* says that no interrupted write has overtaken: the hash and the time of its
\* latest successful pull, also where other sources failed or did not change.
SyncRecordsWhatItPulled ==
    whole /\ told # NoReport => registry = told
=============================================================================
