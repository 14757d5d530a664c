---------------------------- MODULE PostureFeed ----------------------------
(***************************************************************************)
(* What the data lake promises the readers of its current posture: the     *)
(* answer stems from one generation of the raw evidence, never mixes two,  *)
(* never goes back to an older one, and may be away for a while.           *)
(***************************************************************************)
EXTENDS Integers

VARIABLES
    raw,      \* generation of the raw evidence
    answer,   \* the generations the latest posture was computed from
    up        \* the posture can be read

vars == <<raw, answer, up>>

Init == raw = 1 /\ answer \in {{}, {1}} /\ up = (answer # {})

Ingest == raw' = raw + 1 /\ UNCHANGED <<answer, up>>

Publish ==
    /\ \E g \in 1..raw : (\A h \in answer : h <= g) /\ answer' = {g}
    /\ up' = TRUE
    /\ UNCHANGED raw

Break == up' = FALSE /\ UNCHANGED <<raw, answer>>

Next == Ingest \/ Publish \/ Break

Spec == Init /\ [][Next]_vars
=============================================================================
