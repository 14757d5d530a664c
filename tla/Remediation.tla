---------------------------- MODULE Remediation ----------------------------
(***************************************************************************)
(* The remediation workflow of the server: tasks, evidence requests and    *)
(* control exceptions (db/remediation.py), the handlers that change them   *)
(* (server_app.py) and the insights derived from them (db/metrics.py).     *)
(*                                                                         *)
(* A handler loads the row, assigns attributes of the object it got and    *)
(* commits; the ORM then writes only the columns whose value differs from  *)
(* the value loaded.  Requests run on a thread pool, in several processes, *)
(* and no row is locked or versioned, so requests for one row interleave   *)
(* between load and commit.  A request that is refused after it assigned   *)
(* an attribute closes its session without a commit.                       *)
(***************************************************************************)
EXTENDS Integers, FiniteSets

CONSTANTS
    Tasks, Requests, Exceptions,    \* ids of the three kinds of rows
    Callers,                        \* requests that may be in progress
    Dues,                           \* values of due_at and expires_at
    None,                           \* SQL NULL
    Serial,                         \* TRUE: one request at a time
    MaxTime                         \* bound on the clock

Items == Tasks \cup Requests \cup Exceptions

ASSUME RemediationAssumption ==
    /\ Tasks \cap Requests = {}
    /\ Exceptions \cap (Tasks \cup Requests) = {}
    /\ Dues \subseteq Nat
    /\ None \notin Nat
    /\ Serial \in BOOLEAN
    /\ MaxTime \in Nat

TaskStatuses == {"open", "in_progress", "blocked", "resolved", "dismissed"}
RequestStatuses == {"open", "fulfilled", "cancelled"}
ExceptionStatuses == {"active", "revoked"}
Statuses == TaskStatuses \cup RequestStatuses \cup ExceptionStatuses

\* A field the body of a PATCH leaves out, and a value outside the vocabulary.
Unset == "unset"
Unknown == "unknown"

VARIABLES
    row,      \* row[i]: the stored columns of i, "absent" before its creation
    clock,
    pc,       \* pc[c]: "idle", "write" or "refuse"
    item,     \* item[c]: the row c works on
    was,      \* was[c]: its columns as c loaded them
    mem,      \* mem[c]: its attributes as c assigned them
    ask,      \* ask[c]: the status the request asks for, or Unset
    said      \* history while Serial: said[i], the columns in the latest 2xx answer

session == <<pc, item, was, mem, ask>>
vars == <<row, clock, session, said>>

Columns == [status : Statuses \cup {"absent"}, at : Nat \cup {None},
            due : Dues \cup {None}, created : Nat]

Absent == [status |-> "absent", at |-> None, due |-> None, created |-> 0]

Init ==
    /\ row = [i \in Items |-> Absent]
    /\ clock = 0
    /\ pc = [c \in Callers |-> "idle"]
    /\ item \in [Callers -> Items]
    /\ was = [c \in Callers |-> Absent]
    /\ mem = [c \in Callers |-> Absent]
    /\ ask = [c \in Callers |-> Unset]
    /\ said = row

\* The status that sets resolved_at, fulfilled_at, revoked_at.
Stamping(i) ==
    IF i \in Tasks THEN "resolved" ELSE IF i \in Requests THEN "fulfilled" ELSE "revoked"

Exists(i) == row[i] # Absent
MayStart(c) == pc[c] = "idle" /\ (Serial => \A d \in Callers : pc[d] = "idle")

\* The 2xx answer about i.
Answer(i, columns) == said' = IF Serial THEN [said EXCEPT ![i] = columns] ELSE said

-----------------------------------------------------------------------------
(* Creation: one INSERT, committed by the handler.                         *)

Created(status, due) == [status |-> status, at |-> None, due |-> due, created |-> clock]

Create(i, status) ==
    /\ ~Exists(i)
    /\ Serial => \A c \in Callers : pc[c] = "idle"
    /\ \E due \in Dues \cup {None} :
         row' = [row EXCEPT ![i] = Created(status, due)] /\ Answer(i, Created(status, due))
    /\ UNCHANGED <<clock, session>>

CreateTask(t) == Create(t, "open")
CreateRequest(r) == Create(r, "open")
CreateException(x) == Create(x, "active")

-----------------------------------------------------------------------------
(* Changes: load and assign, then commit.                                  *)

\* Load row i and assign.  Moments have microseconds: a new time stamp differs
\* from the one stored.
Open(c, i, step, status, new) ==
    /\ MayStart(c) /\ Exists(i)
    /\ status = Stamping(i) => clock # row[i].at
    /\ pc' = [pc EXCEPT ![c] = step]
    /\ item' = [item EXCEPT ![c] = i]
    /\ was' = [was EXCEPT ![c] = row[i]]
    /\ mem' = [mem EXCEPT ![c] = new]
    /\ ask' = [ask EXCEPT ![c] = status]
    /\ UNCHANGED <<row, clock, said>>

\* The status and the time stamp that goes with it.
WithStatus(i, status) ==
    [row[i] EXCEPT !.status = status, !.at = IF status = Stamping(i) THEN clock ELSE None]

\* Mutant: the status is not checked against the vocabulary.
UpdateTask_Unchecked(c, t) ==
    \E status \in TaskStatuses \cup {Unknown} :
        Open(c, t, "write", status, WithStatus(t, status))

\* update_task: the status is assigned before the priority is checked, so a bad
\* priority refuses a request that has already changed the object.
UpdateTask(c, t) ==
    \E status \in TaskStatuses \cup {Unset, Unknown}, badPriority \in BOOLEAN :
        \/ /\ status # Unknown /\ ~badPriority
           /\ \E due \in Dues \cup {None, row[t].due} :
                Open(c, t, "write", status,
                     LET new == IF status = Unset THEN row[t]
                                ELSE WithStatus(t, status)
                     IN [new EXCEPT !.due = due])
        \/ /\ status = Unknown
           /\ Open(c, t, "refuse", status, row[t])
        \/ /\ status \in TaskStatuses /\ badPriority
           /\ Open(c, t, "refuse", status, WithStatus(t, status))

SetRequestStatus(c, r) ==
    \E status \in RequestStatuses :
        Open(c, r, "write", status, WithStatus(r, status))

RevokeException(c, x) ==
    /\ row[x].status = "active"
    /\ Open(c, x, "write", "revoked", WithStatus(x, "revoked"))

\* Mutant: every column is written, changed or not.
Flushed_WholeRow(stored, loaded, new) == new

\* UPDATE sets the columns whose value is not the value loaded.
Flushed(stored, loaded, new) ==
    [stored EXCEPT !.status = IF new.status # loaded.status THEN new.status ELSE @,
                   !.at = IF new.at # loaded.at THEN new.at ELSE @,
                   !.due = IF new.due # loaded.due THEN new.due ELSE @]

Close(c) ==
    /\ pc' = [pc EXCEPT ![c] = "idle"]
    /\ was' = [was EXCEPT ![c] = Absent]
    /\ mem' = [mem EXCEPT ![c] = Absent]
    /\ ask' = [ask EXCEPT ![c] = Unset]
    /\ UNCHANGED <<item, clock>>

\* flush and commit: one UPDATE under the row lock, answered with the object.
Commit(c) ==
    /\ pc[c] = "write"
    /\ row' = [row EXCEPT ![item[c]] = Flushed(@, was[c], mem[c])]
    /\ Answer(item[c], mem[c])
    /\ Close(c)

\* Mutant: the refused request commits what it had assigned.
Refuse_Commits(c) ==
    /\ pc[c] = "refuse"
    /\ row' = [row EXCEPT ![item[c]] = Flushed(@, was[c], mem[c])]
    /\ UNCHANGED said
    /\ Close(c)

\* ValueError becomes a 400 answer; get_session closes without a commit.
Refuse(c) ==
    /\ pc[c] = "refuse"
    /\ UNCHANGED <<row, said>>
    /\ Close(c)

\* The process dies, or the database refuses the UPDATE (locked, lost).
Drop(c) ==
    /\ pc[c] = "write"
    /\ UNCHANGED <<row, said>>
    /\ Close(c)

Advance ==
    /\ clock < MaxTime
    /\ clock' = clock + 1
    /\ UNCHANGED <<row, session, said>>

Next ==
    \/ Advance
    \/ \E t \in Tasks : CreateTask(t) \/ \E c \in Callers : UpdateTask(c, t)
    \/ \E r \in Requests : CreateRequest(r) \/ \E c \in Callers : SetRequestStatus(c, r)
    \/ \E x \in Exceptions : CreateException(x) \/ \E c \in Callers : RevokeException(c, x)
    \/ \E c \in Callers : Commit(c) \/ Refuse(c) \/ Drop(c)

Spec == Init /\ [][Next]_vars

-----------------------------------------------------------------------------
(* What is derived from the rows.                                          *)

\* remediation_insights: the tasks behind resolved_count and mttr_hours, and
\* those behind sla_eligible_count.
InMttr(t) == row[t].status = "resolved" /\ row[t].at # None /\ row[t].at >= row[t].created
SlaEligible(t) == row[t].status = "resolved" /\ row[t].at # None /\ row[t].due # None

\* Mutant: active once the date has passed.
IsActive_Swapped(x) ==
    /\ row[x].status = "active" /\ row[x].at = None
    /\ row[x].due = None \/ row[x].due <= clock

\* ControlException.is_active
IsActive(x) ==
    /\ row[x].status = "active" /\ row[x].at = None
    /\ row[x].due = None \/ row[x].due > clock

-----------------------------------------------------------------------------
(* Properties.                                                             *)

TypeOK ==
    /\ row \in [Items -> Columns]
    /\ clock \in Nat
    /\ pc \in [Callers -> {"idle", "write", "refuse"}]
    /\ item \in [Callers -> Items]
    /\ was \in [Callers -> Columns]
    /\ mem \in [Callers -> Columns]
    /\ ask \in [Callers -> Statuses \cup {Unset, Unknown}]
    /\ said \in [Items -> Columns]

\* With one request at a time a row carries its time stamp (resolved_at,
\* fulfilled_at, revoked_at) exactly while its status says so, through refused
\* and dropped requests as well.
StampMatchesStatus ==
    Serial => \A i \in Items : row[i].status = Stamping(i) <=> row[i].at # None

\* With one request at a time what the latest successful answer told a client
\* is what is stored: a refused or dropped request leaves no trace.
AnswerHolds == Serial => said = row

\* However requests overlap, a stored status changes only to one that a request
\* for this row asked for: an edit of the due date never reopens a task that
\* was resolved while the edit was in progress.
EditKeepsStatus ==
    [][\A i \in Items : Exists(i) /\ row'[i].status # row[i].status =>
        \E c \in Callers : pc[c] = "write" /\ item[c] = i /\ ask[c] = row'[i].status]_vars

\* However requests overlap, an exception that is over, by revocation or by its
\* date, never becomes active again.
ExceptionStaysOver ==
    [][\A x \in Exceptions : Exists(x) /\ ~IsActive(x) => ~IsActive(x)']_vars

\* Every resolved task is behind the MTTR that remediation_insights reports, and
\* behind its SLA attainment if it has a date.
InsightsAccurate ==
    \A t \in Tasks : row[t].status = "resolved" =>
        InMttr(t) /\ (row[t].due # None => SlaEligible(t))
=============================================================================
