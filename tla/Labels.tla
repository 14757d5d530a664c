------------------------------- MODULE Labels -------------------------------
(***************************************************************************)
(* What clients of the tag routes are promised: a tag is made once and     *)
(* deleted once, an entity gets a tag or loses one at a time, and a        *)
(* deleted tag is gone from every entity for good.                         *)
(***************************************************************************)
CONSTANTS TagIds, Entities

VARIABLES
    live,     \* the tags list_tags returns
    past,     \* the tags that were deleted
    shown     \* the pairs of a tag and an entity tags_for_entity returns

labels == <<live, past, shown>>

LabelsInit == live = {} /\ past = {} /\ shown = {}

Make(t) ==
    /\ t \notin live \cup past
    /\ live' = live \cup {t}
    /\ UNCHANGED <<past, shown>>

Remove(t) ==
    /\ t \in live
    /\ live' = live \ {t}
    /\ past' = past \cup {t}
    /\ shown' = {p \in shown : p[1] # t}

Put(t, e) ==
    /\ t \in live /\ <<t, e>> \notin shown
    /\ shown' = shown \cup {<<t, e>>}
    /\ UNCHANGED <<live, past>>

Take(t, e) ==
    /\ <<t, e>> \in shown
    /\ shown' = shown \ {<<t, e>>}
    /\ UNCHANGED <<live, past>>

LabelsNext ==
    \E t \in TagIds : Make(t) \/ Remove(t) \/ \E e \in Entities : Put(t, e) \/ Take(t, e)

LabelsSpec == LabelsInit /\ [][LabelsNext]_labels
=============================================================================
