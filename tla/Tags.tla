-------------------------------- MODULE Tags --------------------------------
(***************************************************************************)
(* Tags, their association with entities and saved views: db/tags.py and   *)
(* its handlers in server_app.py, one step per statement.                  *)
(*                                                                         *)
(* A handler reads, then writes and commits; the session works in          *)
(* autocommit until the first write (SQLite) or reads what is committed    *)
(* (Postgres), so requests interleave at every statement.  Ids are UUIDs:  *)
(* a row that was deleted does not come back under its id.                 *)
(***************************************************************************)
EXTENDS FiniteSets

CONSTANTS
    TagIds, LinkIds, ViewIds,   \* ids of tags, associations and saved views
    Names,                      \* tag names, stripped
    Entities,                   \* a stripped entity_type with an entity_id
    Visits,                     \* requests that may be in progress
    Nil

ASSUME TagsAssumption == Nil \notin TagIds \cup LinkIds \cup ViewIds \cup Names \cup Entities

VARIABLES
    enforced,   \* whether the database enforces foreign keys: Postgres does,
                \* SQLite (the default) only when asked to, and nobody asks
    tag,        \* tag[t]: [status, name]
    link,       \* link[l]: [status, tag, entity]
    view,       \* view[v]: "absent", "live" or "gone"
    visit       \* visit[r]: a request

tagsVars == <<enforced, tag, link, view, visit>>

Statuses3 == {"absent", "live", "gone"}
NoVisit == [step |-> "idle", op |-> "none", tag |-> Nil, entity |-> Nil, link |-> Nil,
            lostBefore |-> {}]

TagsInit ==
    /\ enforced \in BOOLEAN
    /\ tag = [t \in TagIds |-> [status |-> "absent", name |-> Nil]]
    /\ link = [l \in LinkIds |-> [status |-> "absent", tag |-> Nil, entity |-> Nil]]
    /\ view = [v \in ViewIds |-> "absent"]
    /\ visit = [r \in Visits |-> NoVisit]

Live(t) == tag[t].status = "live"
Links(t, e) == {l \in LinkIds : link[l].tag = t /\ link[l].entity = e}
Attached(t, e) == {l \in Links(t, e) : link[l].status = "live"}
TakenOff(t, e) == {l \in Links(t, e) : link[l].status = "gone"}

Is(r, step) == visit[r].step = step
Go(r, step) == visit' = [visit EXCEPT ![r].step = step]
Leave(r) == visit' = [visit EXCEPT ![r] = NoVisit]

-----------------------------------------------------------------------------
(* Tags.                                                                   *)

\* create_tag: the unique name refuses a second one (400, nothing changes).
CreateTag(t) ==
    /\ tag[t].status = "absent"
    /\ \E n \in Names :
         /\ \A s \in TagIds : Live(s) => tag[s].name # n
         /\ tag' = [tag EXCEPT ![t] = [status |-> "live", name |-> n]]
    /\ UNCHANGED <<enforced, link, view, visit>>

\* Every other route names a tag: get_tag, 400 or 404 if there is none.  The
\* entity_type of an attach is stripped, that of a detach is not: with blanks
\* around it a detach finds nothing (404), which is the end of a request too.
FindTag(r) ==
    /\ Is(r, "idle")
    /\ \E t \in TagIds, e \in Entities, op \in {"attach", "detach", "delete"} :
         /\ Live(t)
         /\ visit' = [visit EXCEPT ![r] =
              [step |-> IF op = "delete" THEN "delete" ELSE "look", op |-> op, tag |-> t,
               entity |-> IF op = "delete" THEN Nil ELSE e, link |-> Nil,
               lostBefore |-> IF op = "attach" THEN TakenOff(t, e) ELSE {}]]
    /\ UNCHANGED <<enforced, tag, link, view>>

\* ON DELETE CASCADE, where foreign keys are enforced.
Cascade(t) ==
    [l \in LinkIds |-> IF enforced /\ link[l].tag = t /\ link[l].status = "live"
                       THEN [link[l] EXCEPT !.status = "gone"] ELSE link[l]]

\* delete_tag: DELETE by id and commit.  No row to delete is only a warning.
DeleteTag(r) ==
    /\ Is(r, "delete")
    /\ tag' = [tag EXCEPT ![visit[r].tag].status = "gone"]
    /\ link' = Cascade(visit[r].tag)
    /\ Leave(r)
    /\ UNCHANGED <<enforced, view>>

-----------------------------------------------------------------------------
(* Associations.                                                           *)

\* The association that is there already, or the step that follows.
Look(r) ==
    /\ Is(r, "look")
    /\ LET there == Attached(visit[r].tag, visit[r].entity)
       IN \/ /\ visit[r].op = "attach"
             /\ Go(r, IF there = {} THEN "insert" ELSE "attached")
          \/ /\ visit[r].op = "detach" /\ there = {}
             /\ Leave(r)
          \/ /\ visit[r].op = "detach" /\ there # {}
             /\ \E l \in there :
                  visit' = [visit EXCEPT ![r].step = "remove", ![r].link = l]
    /\ UNCHANGED <<enforced, tag, link, view>>

\* Mutant: the constraint leaves the tag out.
Clashes_AnyTag(t, e) ==
    \/ \E s \in TagIds : Attached(s, e) # {}
    \/ enforced /\ ~Live(t)

\* The unique constraint on the pair, and the foreign key.
Clashes(t, e) == Attached(t, e) # {} \/ (enforced /\ ~Live(t))

\* attach_tag: INSERT and commit; an integrity error rolls back.
Insert(r) ==
    /\ Is(r, "insert")
    /\ LET t == visit[r].tag
           e == visit[r].entity
       IN IF Clashes(t, e)
          THEN Go(r, "again") /\ UNCHANGED link
          ELSE /\ \E l \in LinkIds :
                    /\ link[l].status = "absent"
                    /\ link' = [link EXCEPT ![l] = [status |-> "live", tag |-> t, entity |-> e]]
               /\ Go(r, "attached")
    /\ UNCHANGED <<enforced, tag, view>>

\* After the lost race exactly one association is expected; without one the
\* exception passes through the handler (500).
LookAgain(r) ==
    /\ Is(r, "again")
    /\ Go(r, IF Attached(visit[r].tag, visit[r].entity) # {} THEN "attached" ELSE "failed")
    /\ UNCHANGED <<enforced, tag, link, view>>

\* Mutant: the entity loses all its tags.
Removed_SameEntity(l) == {k \in LinkIds : link[k].entity = link[l].entity}

\* DELETE by id.
Removed(l) == {l}

\* detach_tag: the row that was found, whatever is left of it.
Detach(r) ==
    /\ Is(r, "remove")
    /\ link' = [l \in LinkIds |-> IF l \in Removed(visit[r].link)
                                  THEN [link[l] EXCEPT !.status = "gone"] ELSE link[l]]
    /\ Leave(r)
    /\ UNCHANGED <<enforced, tag, view>>

\* The answer of an attach reaches the client.
Reply(r) ==
    /\ Is(r, "attached") \/ Is(r, "failed")
    /\ Leave(r)
    /\ UNCHANGED <<enforced, tag, link, view>>

\* The process dies, or the database refuses the write.
Abandon(r) ==
    /\ visit[r].step \in {"insert", "remove", "delete"}
    /\ Leave(r)
    /\ UNCHANGED <<enforced, tag, link, view>>

-----------------------------------------------------------------------------
(* Saved views: two of one name may exist.                                 *)

CreateView(v) ==
    /\ view[v] = "absent"
    /\ view' = [view EXCEPT ![v] = "live"]
    /\ UNCHANGED <<enforced, tag, link, visit>>

\* delete_saved_view: a request that found the view deletes it, once more if
\* another one was faster.
FindView(r, v) ==
    /\ Is(r, "idle") /\ view[v] = "live"
    /\ visit' = [visit EXCEPT ![r] = [NoVisit EXCEPT !.step = "drop", !.op = "drop", !.link = v]]
    /\ UNCHANGED <<enforced, tag, link, view>>

DeleteView(r) ==
    /\ Is(r, "drop")
    /\ view' = [view EXCEPT ![visit[r].link] = "gone"]
    /\ Leave(r)
    /\ UNCHANGED <<enforced, tag, link>>

TagsNext ==
    \/ \E t \in TagIds : CreateTag(t)
    \/ \E v \in ViewIds : CreateView(v) \/ \E r \in Visits : FindView(r, v)
    \/ \E r \in Visits :
         \/ FindTag(r) \/ DeleteTag(r) \/ Look(r) \/ Insert(r) \/ LookAgain(r)
         \/ Detach(r) \/ Reply(r) \/ Abandon(r) \/ DeleteView(r)

TagsSpec == TagsInit /\ [][TagsNext]_tagsVars

-----------------------------------------------------------------------------
(* Properties.                                                             *)

TagsTypeOK ==
    /\ enforced \in BOOLEAN
    /\ tag \in [TagIds -> [status : Statuses3, name : Names \cup {Nil}]]
    /\ link \in [LinkIds -> [status : Statuses3, tag : TagIds \cup {Nil},
                             entity : Entities \cup {Nil}]]
    /\ view \in [ViewIds -> Statuses3]
    /\ visit \in [Visits -> [step : {"idle", "look", "insert", "again", "attached", "failed",
                                     "remove", "delete", "drop"},
                             op : {"none", "attach", "detach", "delete", "drop"},
                             tag : TagIds \cup {Nil}, entity : Entities \cup {Nil},
                             link : LinkIds \cup ViewIds \cup {Nil},
                             lostBefore : SUBSET LinkIds]]

\* An attach is idempotent under any overlap: when it answers 201 the entity has
\* the tag, and it answers 500 only, if the tag was deleted or this pair
\* detached after the request began (attach_tag).
AttachKeepsItsWord ==
    \A r \in Visits :
        LET t == visit[r].tag
            e == visit[r].entity
            takenAway == ~Live(t) \/ TakenOff(t, e) # visit[r].lostBefore
        IN /\ Is(r, "attached") => Attached(t, e) # {} \/ takenAway
           /\ Is(r, "failed") => takenAway

\* What clients see of tags and associations, rows of deleted tags left out by
\* the join of tags_for_entity, implements Labels with and without enforced
\* foreign keys.
Shown == {p \in TagIds \X Entities : Live(p[1]) /\ Attached(p[1], p[2]) # {}}

Promise == INSTANCE Labels WITH
    live <- {t \in TagIds : Live(t)},
    past <- {t \in TagIds : tag[t].status = "gone"},
    shown <- Shown

LabelsKept == Promise!LabelsSpec
=============================================================================
