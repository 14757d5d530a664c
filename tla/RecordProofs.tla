---------------------------- MODULE RecordProofs ----------------------------
(***************************************************************************)
(* Theorems about the records of the database that requests edit: those of *)
(* Remediation, for any sets of rows and requests, and those of Tags, for  *)
(* any tags, associations, entities and requests, with and without         *)
(* enforced foreign keys.                                                  *)
(***************************************************************************)
EXTENDS Remediation, Tags, TLAPS

-----------------------------------------------------------------------------
(* Remediation.  A request that is about to write holds what it loaded and *)
(* what it assigned; the invariant relates the two to the row and to the   *)
(* status the request asked for.  Without overlap what was loaded is still *)
(* what is stored, so that writing the changed columns writes the whole    *)
(* object.                                                                 *)

\* What a request that is about to write may have assigned.
PendingOk(c) ==
    pc[c] = "write" =>
        /\ was[c] # Absent
        /\ mem[c].status # was[c].status => mem[c].status = ask[c]
        /\ item[c] \in Exceptions =>
             was[c].status = "active" /\ mem[c].status = "revoked"

OverlapInv == TypeOK /\ \A c \in Callers : PendingOk(c)

LEMMA AbsentIsColumns == Absent \in Columns /\ Absent.status = "absent"
  BY RemediationAssumption DEF Absent, Columns

LEMMA StatusFacts ==
    /\ TaskStatuses \subseteq Statuses
    /\ RequestStatuses \subseteq Statuses
    /\ ExceptionStatuses \subseteq Statuses
    /\ "open" \in Statuses /\ "active" \in Statuses /\ "revoked" \in Statuses
    /\ Unset \notin Statuses /\ "absent" \notin Statuses /\ Unknown \notin Statuses
    /\ "open" # "absent" /\ "active" # "absent"
    /\ "revoked" \in ExceptionStatuses
  BY DEF Statuses, TaskStatuses, RequestStatuses, ExceptionStatuses, Unset, Unknown

\* The parts of the object that a change of the status touches.
LEMMA WithStatusFacts ==
  ASSUME NEW i \in Items, NEW status \in Statuses, row[i] \in Columns, clock \in Nat
  PROVE  /\ WithStatus(i, status) \in Columns
         /\ WithStatus(i, status).status = status
         /\ WithStatus(i, status).at = IF status = Stamping(i) THEN clock ELSE None
         /\ WithStatus(i, status).due = row[i].due
         /\ WithStatus(i, status).created = row[i].created
  BY DEF WithStatus, Columns

\* The columns of a row after an UPDATE.
LEMMA FlushedFacts ==
  ASSUME NEW stored \in Columns, NEW loaded \in Columns, NEW new \in Columns
  PROVE  /\ Flushed(stored, loaded, new) \in Columns
         /\ Flushed(stored, loaded, new).status =
              IF new.status # loaded.status THEN new.status ELSE stored.status
         /\ Flushed(stored, loaded, new).at =
              IF new.at # loaded.at THEN new.at ELSE stored.at
         /\ Flushed(stored, loaded, new).due =
              IF new.due # loaded.due THEN new.due ELSE stored.due
         /\ Flushed(stored, loaded, new).created = stored.created
  BY DEF Flushed, Columns

\* Every step of a request that loads a row is Open with these arguments.
OpensRow(c, i, step, status, new) ==
    /\ Open(c, i, step, status, new)
    /\ i \in Items /\ c \in Callers
    /\ step \in {"write", "refuse"}
    /\ status \in Statuses \cup {Unset, Unknown}
    /\ new \in Columns
    /\ new.created = row[i].created
    /\ step = "write" =>
         /\ status = Unset => new.status = row[i].status /\ new.at = row[i].at
         /\ status # Unset =>
              /\ new.status = status
              /\ new.at = IF status = Stamping(i) THEN clock ELSE None
    /\ i \in Exceptions => row[i].status = "active" /\ status = "revoked"

LEMMA OpensRowCases ==
  ASSUME TypeOK, NEW c \in Callers,
         \/ \E t \in Tasks : UpdateTask(c, t)
         \/ \E r \in Requests : SetRequestStatus(c, r)
         \/ \E x \in Exceptions : RevokeException(c, x)
  PROVE  \E i, step, status, new : OpensRow(c, i, step, status, new)
<1>1. CASE \E t \in Tasks : UpdateTask(c, t)
  <2>1. PICK t \in Tasks : UpdateTask(c, t)
    BY <1>1
  <2>2. t \in Items /\ t \notin Exceptions /\ row[t] \in Columns /\ clock \in Nat
    BY RemediationAssumption DEF Items, TypeOK
  <2>3. PICK status \in TaskStatuses \cup {Unset, Unknown}, badPriority \in BOOLEAN :
          \/ /\ status # Unknown /\ ~badPriority
             /\ \E due \in Dues \cup {None, row[t].due} :
                  Open(c, t, "write", status,
                       LET new == IF status = Unset THEN row[t] ELSE WithStatus(t, status)
                       IN [new EXCEPT !.due = due])
          \/ /\ status = Unknown
             /\ Open(c, t, "refuse", status, row[t])
          \/ /\ status \in TaskStatuses /\ badPriority
             /\ Open(c, t, "refuse", status, WithStatus(t, status))
    BY <2>1 DEF UpdateTask
  <2>4. status \in Statuses \cup {Unset, Unknown}
    BY StatusFacts
  <2>5. CASE /\ status # Unknown
             /\ \E due \in Dues \cup {None, row[t].due} :
                  Open(c, t, "write", status,
                       LET new == IF status = Unset THEN row[t] ELSE WithStatus(t, status)
                       IN [new EXCEPT !.due = due])
    <3> DEFINE base == IF status = Unset THEN row[t] ELSE WithStatus(t, status)
    <3>1. PICK due \in Dues \cup {None, row[t].due} :
            Open(c, t, "write", status, [base EXCEPT !.due = due])
      BY <2>5
    <3>2. /\ base \in Columns
          /\ base.created = row[t].created
          /\ status = Unset => base.status = row[t].status /\ base.at = row[t].at
          /\ status # Unset =>
               /\ base.status = status
               /\ base.at = IF status = Stamping(t) THEN clock ELSE None
      BY <2>2, <2>4, <2>5, WithStatusFacts
    <3>3. due \in Dues \cup {None}
      BY <2>2 DEF Columns
    <3> HIDE DEF base
    <3>4. /\ [base EXCEPT !.due = due] \in Columns
          /\ [base EXCEPT !.due = due].created = base.created
          /\ [base EXCEPT !.due = due].status = base.status
          /\ [base EXCEPT !.due = due].at = base.at
      BY <3>2, <3>3 DEF Columns
    <3>5. OpensRow(c, t, "write", status, [base EXCEPT !.due = due])
      BY <3>1, <3>2, <3>4, <2>2, <2>4 DEF OpensRow
    <3>6. QED
      BY <3>5
  <2>6. CASE status = Unknown /\ Open(c, t, "refuse", status, row[t])
    <3>1. OpensRow(c, t, "refuse", status, row[t])
      BY <2>2, <2>4, <2>6 DEF OpensRow
    <3>2. QED
      BY <3>1
  <2>7. CASE status \in TaskStatuses /\ Open(c, t, "refuse", status, WithStatus(t, status))
    <3>1. OpensRow(c, t, "refuse", status, WithStatus(t, status))
      BY <2>2, <2>4, <2>7, StatusFacts, WithStatusFacts DEF OpensRow
    <3>2. QED
      BY <3>1
  <2>8. QED
    BY <2>3, <2>5, <2>6, <2>7
<1>2. CASE \E r \in Requests : SetRequestStatus(c, r)
  <2>1. PICK r \in Requests, status \in RequestStatuses :
          Open(c, r, "write", status, WithStatus(r, status))
    BY <1>2 DEF SetRequestStatus
  <2>2. /\ r \in Items /\ r \notin Exceptions /\ row[r] \in Columns /\ clock \in Nat
        /\ status \in Statuses /\ status # Unset
    BY RemediationAssumption, StatusFacts DEF Items, TypeOK
  <2>3. OpensRow(c, r, "write", status, WithStatus(r, status))
    BY <2>1, <2>2, WithStatusFacts DEF OpensRow
  <2>4. QED
    BY <2>3
<1>3. CASE \E x \in Exceptions : RevokeException(c, x)
  <2>1. PICK x \in Exceptions :
          row[x].status = "active" /\ Open(c, x, "write", "revoked", WithStatus(x, "revoked"))
    BY <1>3 DEF RevokeException
  <2>2. /\ x \in Items /\ row[x] \in Columns /\ clock \in Nat
        /\ "revoked" \in Statuses /\ "revoked" # Unset
    BY StatusFacts DEF Items, TypeOK
  <2>3. OpensRow(c, x, "write", "revoked", WithStatus(x, "revoked"))
    BY <2>1, <2>2, WithStatusFacts DEF OpensRow
  <2>4. QED
    BY <2>3
<1>4. QED
  BY <1>1, <1>2, <1>3

\* The steps of Next by what they do to the rows.
LEMMA NextCases ==
  ASSUME TypeOK, Next
  PROVE  \/ Advance
         \/ \E i \in Items, status \in {"open", "active"} : Create(i, status)
         \/ \E c \in Callers : \E i, step, status, new : OpensRow(c, i, step, status, new)
         \/ \E c \in Callers : Commit(c)
         \/ \E c \in Callers : Refuse(c) \/ Drop(c)
<1>1. \/ Advance
      \/ \E i \in Items, status \in {"open", "active"} : Create(i, status)
      \/ \E c \in Callers :
           \/ \E t \in Tasks : UpdateTask(c, t)
           \/ \E r \in Requests : SetRequestStatus(c, r)
           \/ \E x \in Exceptions : RevokeException(c, x)
      \/ \E c \in Callers : Commit(c) \/ Refuse(c) \/ Drop(c)
  BY DEF Next, CreateTask, CreateRequest, CreateException, Items
<1>2. QED
  BY <1>1, OpensRowCases

-----------------------------------------------------------------------------
(* What holds however requests overlap.                                    *)

LEMMA OverlapInit == Init => OverlapInv
<1> SUFFICES ASSUME Init PROVE OverlapInv
  OBVIOUS
<1>1. TypeOK
  BY AbsentIsColumns DEF Init, TypeOK
<1>2. \A c \in Callers : PendingOk(c)
  BY DEF Init, PendingOk
<1>3. QED
  BY <1>1, <1>2 DEF OverlapInv

\* A row is loaded: the request holds a sound pending change.
LEMMA OpensKeeps ==
  ASSUME OverlapInv, NEW e \in Callers, NEW i, NEW step, NEW status, NEW new,
         OpensRow(e, i, step, status, new)
  PROVE  OverlapInv'
<1>1. TypeOK'
  BY DEF OverlapInv, TypeOK, OpensRow, Open
<1>2. ASSUME NEW c \in Callers PROVE PendingOk(c)'
  <2>1. CASE c = e
    <3>1. /\ was'[c] = row[i] /\ row[i] # Absent /\ mem'[c] = new
          /\ ask'[c] = status /\ item'[c] = i /\ pc'[c] = step
      BY <2>1 DEF OverlapInv, TypeOK, OpensRow, Open, Exists
    <3>2. step = "write" =>
            (new.status # row[i].status => new.status = status)
      BY DEF OpensRow
    <3>3. step = "write" /\ i \in Exceptions =>
            row[i].status = "active" /\ new.status = "revoked"
      BY DEF OpensRow, Unset
    <3>4. QED
      BY <3>1, <3>2, <3>3 DEF PendingOk
  <2>2. CASE c # e
    BY <2>2 DEF OverlapInv, TypeOK, PendingOk, OpensRow, Open
  <2>3. QED
    BY <2>1, <2>2
<1>3. QED
  BY <1>1, <1>2 DEF OverlapInv

LEMMA CreateKeeps ==
  ASSUME OverlapInv, NEW i \in Items, NEW status \in {"open", "active"}, Create(i, status)
  PROVE  OverlapInv'
<1>1. PICK due \in Dues \cup {None} :
        row' = [row EXCEPT ![i] = Created(status, due)] /\ Answer(i, Created(status, due))
  BY DEF Create
<1>2. Created(status, due) \in Columns
  BY StatusFacts DEF OverlapInv, TypeOK, Created, Columns
<1>3. row' \in [Items -> Columns] /\ said' \in [Items -> Columns]
  BY <1>1, <1>2 DEF OverlapInv, TypeOK, Answer
<1>4. TypeOK'
  BY <1>3 DEF OverlapInv, TypeOK, Create, session
<1>5. \A c \in Callers : PendingOk(c)'
  BY DEF OverlapInv, PendingOk, Create, session
<1>6. QED
  BY <1>4, <1>5 DEF OverlapInv

\* A request that ends forgets what it held; the others keep it.
LEMMA CloseKeeps ==
  ASSUME OverlapInv, NEW e \in Callers, Close(e)
  PROVE  /\ pc' \in [Callers -> {"idle", "write", "refuse"}]
         /\ item' \in [Callers -> Items] /\ clock' \in Nat
         /\ was' \in [Callers -> Columns] /\ mem' \in [Callers -> Columns]
         /\ ask' \in [Callers -> Statuses \cup {Unset, Unknown}]
         /\ \A c \in Callers : PendingOk(c)'
  BY AbsentIsColumns DEF OverlapInv, TypeOK, PendingOk, Close

LEMMA CommitRow ==
  ASSUME TypeOK, NEW e \in Callers, Commit(e)
  PROVE  /\ row' = [row EXCEPT ![item[e]] = Flushed(row[item[e]], was[e], mem[e])]
         /\ Flushed(row[item[e]], was[e], mem[e]) \in Columns
         /\ row' \in [Items -> Columns]
         /\ Serial => said' = [said EXCEPT ![item[e]] = mem[e]]
         /\ said' \in [Items -> Columns]
<1>1. /\ item[e] \in Items /\ was[e] \in Columns /\ mem[e] \in Columns
      /\ row[item[e]] \in Columns
  BY DEF TypeOK
<1>2. Flushed(row[item[e]], was[e], mem[e]) \in Columns
  BY <1>1, FlushedFacts
<1>3. row' = [row EXCEPT ![item[e]] = Flushed(row[item[e]], was[e], mem[e])]
  BY DEF Commit
<1>4. said' = IF Serial THEN [said EXCEPT ![item[e]] = mem[e]] ELSE said
  BY DEF Commit, Answer
<1>5. QED
  BY <1>1, <1>2, <1>3, <1>4 DEF TypeOK

LEMMA OverlapStep == OverlapInv /\ [Next]_vars => OverlapInv'
<1> SUFFICES ASSUME OverlapInv, [Next]_vars PROVE OverlapInv'
  OBVIOUS
<1>0. TypeOK
  BY DEF OverlapInv
<1>1. CASE Advance
  <2>1. TypeOK'
    BY <1>0, <1>1 DEF TypeOK, Advance, session
  <2>2. \A c \in Callers : PendingOk(c)'
    BY <1>1 DEF OverlapInv, PendingOk, Advance, session
  <2>3. QED
    BY <2>1, <2>2 DEF OverlapInv
<1>2. CASE \E i \in Items, status \in {"open", "active"} : Create(i, status)
  BY <1>2, CreateKeeps
<1>3. CASE \E c \in Callers : \E i, step, status, new : OpensRow(c, i, step, status, new)
  BY <1>3, OpensKeeps
<1>4. CASE \E c \in Callers : Commit(c)
  <2>1. PICK e \in Callers : Commit(e)
    BY <1>4
  <2>2. Close(e)
    BY <2>1 DEF Commit
  <2>3. row' \in [Items -> Columns] /\ said' \in [Items -> Columns]
    BY <1>0, <2>1, CommitRow
  <2>4. TypeOK'
    BY <2>2, <2>3, CloseKeeps DEF TypeOK
  <2>5. QED
    BY <2>2, <2>4, CloseKeeps DEF OverlapInv
<1>5. CASE \E c \in Callers : Refuse(c) \/ Drop(c)
  <2>1. PICK e \in Callers : Close(e) /\ UNCHANGED <<row, said>>
    BY <1>5 DEF Refuse, Drop
  <2>2. TypeOK'
    BY <1>0, <2>1, CloseKeeps DEF TypeOK
  <2>3. QED
    BY <2>1, <2>2, CloseKeeps DEF OverlapInv
<1>6. CASE UNCHANGED vars
  BY <1>6 DEF OverlapInv, TypeOK, PendingOk, vars, session
<1>7. QED
  BY <1>0, <1>1, <1>2, <1>3, <1>4, <1>5, <1>6, NextCases

\* Every column and every object of a request has its type.
THEOREM RemediationType == Spec => []TypeOK
<1>1. OverlapInv => TypeOK
  BY DEF OverlapInv
<1>2. QED
  BY <1>1, OverlapInit, OverlapStep, PTL DEF Spec

\* A stored status changes only to one that a request for the row asked for:
\* writing the changed columns alone keeps an edit from reopening a task.
THEOREM EditsKeepStatus == Spec => EditKeepsStatus
<1> DEFINE Asked ==
      \A i \in Items : Exists(i) /\ row'[i].status # row[i].status =>
        \E c \in Callers : pc[c] = "write" /\ item[c] = i /\ ask[c] = row'[i].status
<1>1. OverlapInv /\ [Next]_vars => [Asked]_vars
  <2> SUFFICES ASSUME OverlapInv, Next,
                      NEW i \in Items, Exists(i), row'[i].status # row[i].status
               PROVE  \E c \in Callers :
                        pc[c] = "write" /\ item[c] = i /\ ask[c] = row'[i].status
    OBVIOUS
  <2>0. TypeOK
    BY DEF OverlapInv
  <2>1. CASE \E j \in Items, status \in {"open", "active"} : Create(j, status)
    BY <2>0, <2>1 DEF Create, TypeOK
  <2>2. CASE \E c \in Callers : Commit(c)
    <3>1. PICK e \in Callers : Commit(e)
      BY <2>2
    <3>2. /\ row' = [row EXCEPT ![item[e]] = Flushed(row[item[e]], was[e], mem[e])]
          /\ pc[e] = "write"
      BY <2>0, <3>1, CommitRow DEF Commit
    <3>3. item[e] = i
      BY <2>0, <3>2 DEF TypeOK
    <3>4. row'[i] = Flushed(row[i], was[e], mem[e])
      BY <2>0, <3>2, <3>3 DEF TypeOK
    <3>5. row[i] \in Columns /\ was[e] \in Columns /\ mem[e] \in Columns
      BY <2>0 DEF TypeOK
    <3>6. row'[i].status = mem[e].status /\ mem[e].status # was[e].status
      BY <3>4, <3>5, FlushedFacts
    <3>7. mem[e].status = ask[e]
      BY <3>2, <3>6 DEF OverlapInv, PendingOk
    <3>8. QED
      BY <3>2, <3>3, <3>6, <3>7
  <2>3. CASE row' = row
    BY <2>3
  <2>4. QED
    BY <2>0, <2>1, <2>2, <2>3, NextCases
       DEF Advance, OpensRow, Open, Refuse, Drop
<1>2. QED
  BY <1>1, OverlapInit, OverlapStep, PTL DEF Spec, EditKeepsStatus

\* An exception that is over never becomes active again: a commit can only
\* revoke it, and the clock does not run backwards.
THEOREM ExceptionsStayOver == Spec => ExceptionStaysOver
<1> DEFINE Over ==
      \A x \in Exceptions : Exists(x) /\ ~IsActive(x) => ~IsActive(x)'
<1>1. OverlapInv /\ [Next]_vars => [Over]_vars
  <2> SUFFICES ASSUME OverlapInv, Next,
                      NEW x \in Exceptions, Exists(x), ~IsActive(x)
               PROVE  ~IsActive(x)'
    OBVIOUS
  <2>0. TypeOK /\ x \in Items
    BY DEF OverlapInv, Items
  <2>1. CASE \E j \in Items, status \in {"open", "active"} : Create(j, status)
    BY <2>0, <2>1 DEF Create, TypeOK, IsActive
  <2>2. CASE \E c \in Callers : Commit(c)
    <3>1. PICK e \in Callers : Commit(e)
      BY <2>2
    <3>2. /\ row' = [row EXCEPT ![item[e]] = Flushed(row[item[e]], was[e], mem[e])]
          /\ pc[e] = "write" /\ clock' = clock
      BY <2>0, <3>1, CommitRow DEF Commit, Close
    <3>3. CASE item[e] = x
      <4>1. row'[x] = Flushed(row[x], was[e], mem[e])
        BY <2>0, <3>2, <3>3 DEF TypeOK
      <4>2. row[x] \in Columns /\ was[e] \in Columns /\ mem[e] \in Columns
        BY <2>0 DEF TypeOK
      <4>3. was[e].status = "active" /\ mem[e].status = "revoked"
        BY <3>2, <3>3 DEF OverlapInv, PendingOk
      <4>4. row'[x].status = "revoked"
        BY <4>1, <4>2, <4>3, FlushedFacts
      <4>5. QED
        BY <4>4 DEF IsActive
    <3>4. CASE item[e] # x
      BY <2>0, <3>2, <3>4 DEF TypeOK, IsActive
    <3>5. QED
      BY <3>3, <3>4
  <2>3. CASE row' = row /\ clock' \in Nat /\ clock' >= clock
    <3>1. row[x] \in Columns /\ clock \in Nat
      BY <2>0 DEF TypeOK
    <3>2. IsActive(x)' <=> /\ row[x].status = "active" /\ row[x].at = None
                           /\ row[x].due = None \/ row[x].due > clock'
      BY <2>3 DEF IsActive
    <3>3. row[x].due \in Nat \cup {None}
      BY <3>1, RemediationAssumption DEF Columns
    <3>4. row[x].due # None /\ row[x].due > clock' => row[x].due > clock
      BY <2>3, <3>1, <3>3
    <3>5. QED
      BY <3>2, <3>4 DEF IsActive
  <2>4. QED
    BY <2>0, <2>1, <2>2, <2>3, NextCases
       DEF Advance, OpensRow, Open, Refuse, Drop, Close, TypeOK
<1>2. QED
  BY <1>1, OverlapInit, OverlapStep, PTL DEF Spec, ExceptionStaysOver

-----------------------------------------------------------------------------
(* What holds while requests do not overlap.                               *)

StampOk(i, columns) == columns.status = Stamping(i) <=> columns.at # None

\* The one request in progress holds the row as it is stored, and an object
\* whose time stamp matches its status.
SerialInv ==
    /\ TypeOK
    /\ \A c, d \in Callers : pc[c] # "idle" /\ pc[d] # "idle" => c = d
    /\ \A c \in Callers : pc[c] # "idle" => was[c] = row[item[c]]
    /\ \A c \in Callers : pc[c] = "write" =>
          StampOk(item[c], mem[c]) /\ mem[c].created = was[c].created
    /\ \A i \in Items : StampOk(i, row[i])
    /\ said = row

LEMMA StampFacts ==
  ASSUME NEW i \in Items
  PROVE  /\ Stamping(i) \in Statuses
         /\ Stamping(i) \notin {"absent", "open", "active"}
  BY DEF Stamping, Statuses, TaskStatuses, RequestStatuses, ExceptionStatuses

\* Writing the changed columns of an object to the row it was loaded from
\* stores the object.
LEMMA FlushStoresObject ==
  ASSUME NEW loaded \in Columns, NEW new \in Columns, new.created = loaded.created
  PROVE  Flushed(loaded, loaded, new) = new
<1>1. Flushed(loaded, loaded, new) \in Columns
  BY FlushedFacts
<1>2. /\ Flushed(loaded, loaded, new).status = new.status
      /\ Flushed(loaded, loaded, new).at = new.at
      /\ Flushed(loaded, loaded, new).due = new.due
      /\ Flushed(loaded, loaded, new).created = new.created
  BY FlushedFacts
<1> DEFINE f == Flushed(loaded, loaded, new)
<1>3. f = [status |-> f.status, at |-> f.at, due |-> f.due, created |-> f.created]
  <2>1. f \in Columns
    BY <1>1
  <2> HIDE DEF f
  <2>2. QED
    BY <2>1 DEF Columns
<1>4. new = [status |-> new.status, at |-> new.at, due |-> new.due, created |-> new.created]
  BY DEF Columns
<1>5. QED
  BY <1>2, <1>3, <1>4

LEMMA SerialInit == Init => SerialInv
<1> SUFFICES ASSUME Init PROVE SerialInv
  OBVIOUS
<1>1. TypeOK
  BY OverlapInit DEF OverlapInv
<1>2. \A i \in Items : StampOk(i, row[i])
  <2> SUFFICES ASSUME NEW i \in Items PROVE StampOk(i, Absent)
    BY DEF Init
  <2> QED BY StampFacts DEF StampOk, Absent
<1>3. QED
  BY <1>1, <1>2 DEF Init, SerialInv

LEMMA SerialStep == Serial /\ SerialInv /\ [Next]_vars => SerialInv'
<1> SUFFICES ASSUME Serial, SerialInv, [Next]_vars PROVE SerialInv'
  OBVIOUS
<1>0. TypeOK
  BY DEF SerialInv
<1>1. CASE Advance
  BY <1>1 DEF SerialInv, TypeOK, StampOk, Advance, session
<1>2. CASE \E i \in Items, status \in {"open", "active"} : Create(i, status)
  <2>1. PICK i \in Items, status \in {"open", "active"} : Create(i, status)
    BY <1>2
  <2>2. PICK due \in Dues \cup {None} :
          row' = [row EXCEPT ![i] = Created(status, due)] /\ Answer(i, Created(status, due))
    BY <2>1 DEF Create
  <2>3. Created(status, due) \in Columns /\ StampOk(i, Created(status, due))
    BY <1>0, <2>1, StatusFacts, StampFacts DEF TypeOK, Created, Columns, StampOk
  <2>4. row' \in [Items -> Columns] /\ row'[i] = Created(status, due)
    BY <1>0, <2>2, <2>3 DEF TypeOK
  <2>5. said' = row'
    BY <2>2 DEF SerialInv, Answer
  <2>6. \A c \in Callers : pc[c] = "idle" /\ pc'[c] = "idle"
    BY <2>1 DEF Create, session
  <2>7. TypeOK'
    BY <1>0, <2>1, <2>4, <2>5 DEF TypeOK, Create, session
  <2>8. \A j \in Items : StampOk(j, row'[j])
    BY <1>0, <2>2, <2>3, <2>4 DEF SerialInv, TypeOK
  <2>9. QED
    BY <2>5, <2>6, <2>7, <2>8 DEF SerialInv, StampOk, Stamping
<1>3. CASE \E c \in Callers : \E i, step, status, new : OpensRow(c, i, step, status, new)
  <2>e. PICK e \in Callers : \E i, step, status, new : OpensRow(e, i, step, status, new)
    BY <1>3
  <2>1. PICK i, step, status, new : OpensRow(e, i, step, status, new)
    BY <2>e
  <2>2. \A c \in Callers : pc[c] = "idle"
    BY <2>1 DEF OpensRow, Open, MayStart
  <2>3. TypeOK'
    BY <1>0, <2>1 DEF TypeOK, OpensRow, Open
  <2>4. \A c \in Callers : c # e => pc'[c] = "idle"
    BY <1>0, <2>1, <2>2 DEF TypeOK, OpensRow, Open
  <2>5. /\ pc'[e] = step /\ was'[e] = row[i] /\ item'[e] = i /\ mem'[e] = new
        /\ row' = row /\ said' = said /\ i \in Items
    BY <1>0, <2>1 DEF TypeOK, OpensRow, Open
  <2>6. step = "write" => StampOk(i, new) /\ new.created = row[i].created
    <3>1. CASE status = Unset
      BY <2>1, <2>5, <3>1 DEF OpensRow, SerialInv, StampOk
    <3>2. CASE status # Unset
      BY <1>0, <2>1, <2>5, <3>2, RemediationAssumption DEF OpensRow, StampOk, TypeOK
    <3>3. QED
      BY <3>1, <3>2
  <2>7. \A c, d \in Callers : pc'[c] # "idle" /\ pc'[d] # "idle" => c = d
    BY <2>4
  <2>8. \A c \in Callers : pc'[c] # "idle" => was'[c] = row'[item'[c]]
    BY <2>4, <2>5
  <2>9. \A c \in Callers : pc'[c] = "write" =>
          StampOk(item'[c], mem'[c]) /\ mem'[c].created = was'[c].created
    BY <2>4, <2>5, <2>6
  <2>10. QED
    BY <2>3, <2>5, <2>7, <2>8, <2>9 DEF SerialInv, StampOk, Stamping
<1>4. CASE \E c \in Callers : Commit(c)
  <2>1. PICK e \in Callers : Commit(e)
    BY <1>4
  <2>2. /\ pc[e] = "write" /\ Close(e)
        /\ was[e] = row[item[e]] /\ item[e] \in Items
        /\ was[e] \in Columns /\ mem[e] \in Columns
        /\ mem[e].created = was[e].created /\ StampOk(item[e], mem[e])
    BY <1>0, <2>1 DEF Commit, SerialInv, TypeOK
  <2>3. Flushed(row[item[e]], was[e], mem[e]) = mem[e]
    BY <2>2, FlushStoresObject
  <2>4. /\ row' = [row EXCEPT ![item[e]] = mem[e]]
        /\ said' = [said EXCEPT ![item[e]] = mem[e]]
        /\ row' \in [Items -> Columns] /\ said' \in [Items -> Columns]
    BY <1>0, <2>1, <2>3, CommitRow
  <2>5. said' = row'
    BY <2>4 DEF SerialInv
  <2>6. \A c \in Callers : pc'[c] = "idle"
    BY <1>0, <2>2 DEF Close, SerialInv, TypeOK
  <2>7. TypeOK'
    BY <1>0, <2>2, <2>4, AbsentIsColumns DEF TypeOK, Close
  <2>8. \A j \in Items : StampOk(j, row'[j])
    BY <1>0, <2>2, <2>4 DEF SerialInv, TypeOK
  <2>9. QED
    BY <2>5, <2>6, <2>7, <2>8 DEF SerialInv, StampOk, Stamping
<1>5. CASE \E c \in Callers : Refuse(c) \/ Drop(c)
  <2>1. PICK e \in Callers : pc[e] # "idle" /\ Close(e) /\ UNCHANGED <<row, said>>
    BY <1>5 DEF Refuse, Drop
  <2>2. \A c \in Callers : pc'[c] = "idle"
    BY <1>0, <2>1 DEF Close, SerialInv, TypeOK
  <2>3. TypeOK'
    BY <1>0, <2>1, AbsentIsColumns DEF TypeOK, Close
  <2>4. QED
    BY <2>1, <2>2, <2>3 DEF SerialInv, StampOk, Stamping
<1>6. CASE UNCHANGED vars
  BY <1>6 DEF SerialInv, TypeOK, StampOk, Stamping, vars, session
<1>7. QED
  BY <1>0, <1>1, <1>2, <1>3, <1>4, <1>5, <1>6, NextCases

\* With one request at a time resolved_at, fulfilled_at and revoked_at are set
\* exactly while the status is the one that sets them.
THEOREM StampsMatch == Spec => []StampMatchesStatus
<1>1. SerialInv => StampMatchesStatus
  BY DEF SerialInv, StampMatchesStatus, StampOk
<1>2. CASE Serial
  BY <1>1, <1>2, SerialInit, SerialStep, PTL DEF Spec
<1>3. CASE ~Serial
  <2>1. StampMatchesStatus
    BY <1>3 DEF StampMatchesStatus
  <2>2. QED
    BY <2>1, PTL
<1>4. QED
  BY <1>2, <1>3

\* With one request at a time the stored rows are what clients were told.
THEOREM AnswersHold == Spec => []AnswerHolds
<1>1. SerialInv => AnswerHolds
  BY DEF SerialInv, AnswerHolds
<1>2. CASE Serial
  BY <1>1, <1>2, SerialInit, SerialStep, PTL DEF Spec
<1>3. CASE ~Serial
  <2>1. AnswerHolds
    BY <1>3 DEF AnswerHolds
  <2>2. QED
    BY <2>1, PTL
<1>4. QED
  BY <1>2, <1>3

-----------------------------------------------------------------------------
(* Tags.  Rows only move on: what was there keeps its tag and its entity,  *)
(* and a row that is gone stays gone (TagsForward).  So what a request has *)
(* seen of its pair can be undone in two ways only, and both leave a       *)
(* trace: the tag is gone, or a row of the pair that was not gone when the *)
(* request began.  The unique constraint keeps one row for a pair, which   *)
(* is why a detach takes one label away and never leaves a second one      *)
(* behind.                                                                 *)

\* The pair of a request was deleted or detached after the request began.
TakenAway(r) ==
    \/ ~Live(visit[r].tag)
    \/ TakenOff(visit[r].tag, visit[r].entity) # visit[r].lostBefore

VisitInv(r) ==
    /\ visit[r].step \in {"look", "insert", "again", "attached", "failed"} =>
         visit[r].tag \in TagIds /\ visit[r].entity \in Entities
    /\ visit[r].step \in {"insert", "again", "attached", "failed"} => visit[r].op = "attach"
    /\ visit[r].step = "look" => visit[r].op \in {"attach", "detach"}
    /\ visit[r].op \in {"attach", "delete"} =>
         visit[r].tag \in TagIds /\ tag[visit[r].tag].status # "absent"
    /\ visit[r].op = "attach" =>
         visit[r].lostBefore \subseteq TakenOff(visit[r].tag, visit[r].entity)
    /\ visit[r].step = "delete" => visit[r].op = "delete"
    /\ visit[r].step = "remove" =>
         visit[r].link \in LinkIds /\ link[visit[r].link].status # "absent"
    /\ visit[r].step \in {"again", "attached"} =>
         Attached(visit[r].tag, visit[r].entity) # {} \/ TakenAway(r)
    /\ visit[r].step = "failed" => TakenAway(r)

\* The unique constraint on the pair.
OneLinkPerPair ==
    \A l, k \in LinkIds :
        /\ link[l].status = "live" /\ link[k].status = "live"
        /\ link[l].tag = link[k].tag /\ link[l].entity = link[k].entity
        => l = k

\* A row of an association names a tag that was made.
LinksHaveTags ==
    \A l \in LinkIds : link[l].status = "live" =>
        /\ link[l].tag \in TagIds /\ tag[link[l].tag].status # "absent"
        /\ link[l].entity \in Entities

TagsInv ==
    /\ TagsTypeOK
    /\ OneLinkPerPair
    /\ LinksHaveTags
    /\ \A r \in Visits : VisitInv(r)

-----------------------------------------------------------------------------
(* Rows only move on.                                                      *)

TagsForward ==
    /\ \A t \in TagIds : tag[t].status # "absent" => tag[t].status' # "absent"
    /\ \A t \in TagIds : tag[t].status = "gone" => tag[t].status' = "gone"
    /\ \A l \in LinkIds : link[l].status # "absent" =>
         /\ link[l].tag' = link[l].tag
         /\ link[l].entity' = link[l].entity
         /\ link[l].status' # "absent"
         /\ link[l].status = "gone" => link[l].status' = "gone"
         /\ link[l].status # link[l].status' => link[l].status' = "gone"

\* What one step may do to the rows (CreateTag, Cascade, Insert, Detach).
LEMMA TagsNextForward ==
  ASSUME TagsInv, [TagsNext]_tagsVars PROVE TagsForward
<1> USE DEF TagsInv, TagsTypeOK, TagsForward
<1>1. ASSUME NEW t \in TagIds, CreateTag(t) PROVE TagsForward
  BY <1>1 DEF CreateTag
<1>2. ASSUME NEW r \in Visits, DeleteTag(r) PROVE TagsForward
  <2>1. visit[r].tag \in TagIds
    BY <1>2 DEF DeleteTag, Is, VisitInv
  <2>2. \A t \in TagIds : tag[t].status' = IF t = visit[r].tag THEN "gone" ELSE tag[t].status
    BY <1>2, <2>1 DEF DeleteTag
  <2>3. \A l \in LinkIds :
          /\ link[l].tag' = link[l].tag
          /\ link[l].entity' = link[l].entity
          /\ link[l].status # link[l].status' =>
               link[l].status = "live" /\ link[l].status' = "gone"
    BY <1>2 DEF DeleteTag, Cascade
  <2> QED  BY <2>2, <2>3
<1>3. ASSUME NEW r \in Visits, Insert(r) PROVE TagsForward
  BY <1>3 DEF Insert
<1>4. ASSUME NEW r \in Visits, Detach(r) PROVE TagsForward
  BY <1>4 DEF Detach
<1>5. ASSUME UNCHANGED <<tag, link>> PROVE TagsForward
  BY <1>5
<1> QED
  BY <1>1, <1>2, <1>3, <1>4, <1>5
  DEF TagsNext, tagsVars, CreateView, FindView, FindTag, Look, LookAgain, Reply, Abandon,
      DeleteView

\* The rows that are gone are still gone.
LEMMA StillTakenOff ==
  ASSUME NEW t, NEW e, TagsTypeOK, TagsForward
  PROVE  TakenOff(t, e) \subseteq TakenOff(t, e)'
  BY DEF TagsTypeOK, TagsForward, TakenOff, Links

\* An association that disappears leaves a row that is gone.
LEMMA DetachLeavesTrace ==
  ASSUME NEW t, NEW e, TagsTypeOK, TagsForward, Attached(t, e) # {}
  PROVE  Attached(t, e)' # {} \/ TakenOff(t, e)' # TakenOff(t, e)
<1>1. PICK l \in LinkIds : link[l].status = "live" /\ link[l].tag = t /\ link[l].entity = e
  BY DEF Attached, Links
<1>2. link[l].tag' = t /\ link[l].entity' = e /\ link[l].status' \in {"live", "gone"}
  BY <1>1 DEF TagsForward
<1>3. CASE link[l].status' = "live"
  BY <1>2, <1>3 DEF Attached, Links
<1>4. CASE link[l].status' = "gone"
  BY <1>1, <1>2, <1>4 DEF TakenOff, Links
<1> QED  BY <1>2, <1>3, <1>4

\* What is known of a request holds while others take their steps.
LEMMA VisitKept ==
  ASSUME NEW r \in Visits, TagsTypeOK, TagsForward, VisitInv(r), visit'[r] = visit[r]
  PROVE  VisitInv(r)'
<1> DEFINE t == visit[r].tag
           e == visit[r].entity
<1>0. t' = t /\ e' = e /\ visit[r].lostBefore' = visit[r].lostBefore
  OBVIOUS
<1>1. TakenOff(t, e) \subseteq TakenOff(t, e)'
  BY StillTakenOff
<1>2. TakenOff(visit[r].tag, visit[r].entity)' = TakenOff(t, e)'
      /\ Attached(visit[r].tag, visit[r].entity)' = Attached(t, e)'
  BY <1>0 DEF TakenOff, Attached, Links
<1>3. ASSUME visit[r].op = "attach" PROVE TakenAway(r) => TakenAway(r)'
  <2>1. t \in TagIds /\ tag[t].status # "absent"
        /\ visit[r].lostBefore \subseteq TakenOff(t, e)
    BY <1>3 DEF VisitInv
  <2>2. CASE ~Live(t)
    <3>1. tag[t].status = "gone"
      BY <2>1, <2>2 DEF TagsTypeOK, Live, Statuses3
    <3>2. tag'[t].status = "gone"
      BY <2>1, <3>1 DEF TagsForward
    <3> QED  BY <1>0, <3>2 DEF TakenAway, Live
  <2>3. CASE TakenOff(t, e) # visit[r].lostBefore
    BY <1>0, <1>1, <1>2, <2>1, <2>3 DEF TakenAway
  <2> QED  BY <2>2, <2>3 DEF TakenAway
<1>4. ASSUME visit[r].op = "attach", Attached(t, e) # {}
      PROVE  Attached(t, e)' # {} \/ TakenAway(r)'
  <2>1. CASE Attached(t, e)' # {}
    BY <2>1
  <2>2. CASE TakenOff(t, e)' # TakenOff(t, e)
    <3>1. visit[r].lostBefore \subseteq TakenOff(t, e)
      BY <1>4 DEF VisitInv
    <3>2. TakenOff(t, e)' # visit[r].lostBefore
      BY <1>1, <2>2, <3>1
    <3> QED  BY <1>0, <1>2, <3>2 DEF TakenAway
  <2> QED  BY <1>4, <2>1, <2>2, DetachLeavesTrace
<1>5. visit[r].op \in {"attach", "delete"} =>
        visit'[r].tag \in TagIds /\ tag'[visit'[r].tag].status # "absent"
  BY DEF VisitInv, TagsForward
<1>6. visit[r].op = "attach" =>
        visit'[r].lostBefore \subseteq TakenOff(visit[r].tag, visit[r].entity)'
  BY <1>0, <1>1, <1>2 DEF VisitInv
<1>7. visit[r].step = "remove" =>
        visit'[r].link \in LinkIds /\ link'[visit'[r].link].status # "absent"
  BY DEF VisitInv, TagsForward
<1>8. visit[r].step \in {"again", "attached"} =>
        Attached(visit[r].tag, visit[r].entity)' # {} \/ TakenAway(r)'
  BY <1>2, <1>3, <1>4 DEF VisitInv
<1>9. visit[r].step = "failed" => TakenAway(r)'
  BY <1>3 DEF VisitInv
<1> QED
  BY <1>0, <1>5, <1>6, <1>7, <1>8, <1>9 DEF VisitInv

LEMMA NoVisitInv ==
  ASSUME NEW r \in Visits, visit'[r] = NoVisit
  PROVE  VisitInv(r)'
  BY DEF VisitInv, NoVisit

-----------------------------------------------------------------------------
(* The invariant.                                                          *)

LEMMA TagsInitInv == TagsInit => TagsInv
<1> SUFFICES ASSUME TagsInit PROVE TagsInv
  OBVIOUS
<1>1. TagsTypeOK
  BY DEF TagsInit, TagsTypeOK, NoVisit, Statuses3
<1>2. OneLinkPerPair
  BY DEF TagsInit, OneLinkPerPair
<1>3. \A r \in Visits : VisitInv(r)
  BY DEF TagsInit, VisitInv, NoVisit
<1>4. LinksHaveTags
  BY DEF TagsInit, LinksHaveTags
<1> QED  BY <1>1, <1>2, <1>3, <1>4 DEF TagsInv

TagRows == [TagIds -> [status : Statuses3, name : Names \cup {Nil}]]
LinkRows == [LinkIds -> [status : Statuses3, tag : TagIds \cup {Nil}, entity : Entities \cup {Nil}]]
VisitSteps == {"idle", "look", "insert", "again", "attached", "failed", "remove", "delete", "drop"}
VisitType == [step : VisitSteps, op : {"none", "attach", "detach", "delete", "drop"},
              tag : TagIds \cup {Nil}, entity : Entities \cup {Nil},
              link : LinkIds \cup ViewIds \cup {Nil}, lostBefore : SUBSET LinkIds]

LEMMA TagsTypeParts ==
  TagsTypeOK <=> /\ enforced \in BOOLEAN
                 /\ tag \in TagRows
                 /\ link \in LinkRows
                 /\ view \in [ViewIds -> Statuses3]
                 /\ visit \in [Visits -> VisitType]
  BY DEF TagsTypeOK, TagRows, LinkRows, VisitType, VisitSteps

LEMMA VisitStepType ==
  ASSUME visit \in [Visits -> VisitType], NEW r \in Visits, NEW s \in VisitSteps
  PROVE  [visit EXCEPT ![r].step = s] \in [Visits -> VisitType]
<1>1. [visit[r] EXCEPT !.step = s] \in VisitType
  BY DEF VisitType
<1> QED  BY <1>1

LEMMA NoVisitType == NoVisit \in VisitType
  BY DEF NoVisit, VisitType, VisitSteps

LEMMA VisitTyped ==
  ASSUME TagsInv, [TagsNext]_tagsVars PROVE visit' \in [Visits -> VisitType]
<1>1. visit \in [Visits -> VisitType]
  BY TagsTypeParts DEF TagsInv
<1>2. ASSUME NEW r \in Visits, visit' = [visit EXCEPT ![r] = NoVisit]
      PROVE  visit' \in [Visits -> VisitType]
  BY <1>1, <1>2, NoVisitType
<1>3. ASSUME NEW r \in Visits, NEW v \in ViewIds, FindView(r, v)
      PROVE  visit' \in [Visits -> VisitType]
  <2>1. [NoVisit EXCEPT !.step = "drop", !.op = "drop", !.link = v] \in VisitType
    BY DEF NoVisit, VisitType, VisitSteps
  <2> QED  BY <1>1, <1>3, <2>1 DEF FindView
<1>4. ASSUME NEW r \in Visits, FindTag(r)
      PROVE  visit' \in [Visits -> VisitType]
  <2>1. PICK t \in TagIds, e \in Entities, op \in {"attach", "detach", "delete"} :
          /\ Live(t)
          /\ visit' = [visit EXCEPT ![r] =
               [step |-> IF op = "delete" THEN "delete" ELSE "look", op |-> op, tag |-> t,
                entity |-> IF op = "delete" THEN Nil ELSE e, link |-> Nil,
                lostBefore |-> IF op = "attach" THEN TakenOff(t, e) ELSE {}]]
    BY <1>4 DEF FindTag
  <2>2. TakenOff(t, e) \in SUBSET LinkIds
    BY DEF TakenOff, Links
  <2>3. [step |-> IF op = "delete" THEN "delete" ELSE "look", op |-> op, tag |-> t,
         entity |-> IF op = "delete" THEN Nil ELSE e, link |-> Nil,
         lostBefore |-> IF op = "attach" THEN TakenOff(t, e) ELSE {}] \in VisitType
    BY <2>2 DEF VisitType, VisitSteps
  <2> QED  BY <1>1, <2>1, <2>3
<1>5. ASSUME NEW r \in Visits, Look(r)
      PROVE  visit' \in [Visits -> VisitType]
  <2>1. \A s \in {"insert", "attached"} : [visit EXCEPT ![r].step = s] \in [Visits -> VisitType]
    BY <1>1, VisitStepType DEF VisitSteps
  <2>2. ASSUME NEW l \in Attached(visit[r].tag, visit[r].entity),
               visit' = [visit EXCEPT ![r].step = "remove", ![r].link = l]
        PROVE  visit' \in [Visits -> VisitType]
    <3>1. [visit[r] EXCEPT !.step = "remove", !.link = l] \in VisitType
      BY <1>1 DEF VisitType, VisitSteps, Attached, Links
    <3>2. visit' = [visit EXCEPT ![r] = [visit[r] EXCEPT !.step = "remove", !.link = l]]
      BY <1>1, <2>2 DEF VisitType
    <3> QED  BY <1>1, <3>1, <3>2
  <2> QED  BY <1>2, <1>5, <2>1, <2>2 DEF Look, Go, Leave
<1>6. ASSUME NEW r \in Visits, Insert(r) \/ LookAgain(r)
      PROVE  visit' \in [Visits -> VisitType]
  <2>1. \A s \in {"again", "attached", "failed"} :
          [visit EXCEPT ![r].step = s] \in [Visits -> VisitType]
    BY <1>1, VisitStepType DEF VisitSteps
  <2> QED  BY <1>6, <2>1 DEF Insert, LookAgain, Go
<1>7. UNCHANGED visit => visit' \in [Visits -> VisitType]
  BY <1>1
<1> QED
  BY <1>2, <1>3, <1>4, <1>5, <1>6, <1>7
  DEF TagsNext, tagsVars, CreateTag, CreateView, DeleteTag, Detach, Reply, Abandon, DeleteView,
      Leave

LEMMA RowsTyped ==
  ASSUME TagsInv, [TagsNext]_tagsVars PROVE tag' \in TagRows /\ link' \in LinkRows
<1>1. tag \in TagRows /\ link \in LinkRows /\ \A r \in Visits : VisitInv(r)
  BY TagsTypeParts DEF TagsInv
<1>2. ASSUME NEW t \in TagIds, CreateTag(t) PROVE tag' \in TagRows /\ link' \in LinkRows
  BY <1>1, <1>2 DEF CreateTag, TagRows, Statuses3
<1>3. ASSUME NEW r \in Visits, DeleteTag(r) PROVE tag' \in TagRows /\ link' \in LinkRows
  <2>1. tag' \in TagRows
    BY <1>1, <1>3 DEF DeleteTag, TagRows, Statuses3
  <2>2. link' \in LinkRows
    BY <1>1, <1>3 DEF DeleteTag, Cascade, LinkRows, Statuses3
  <2> QED  BY <2>1, <2>2
<1>4. ASSUME NEW r \in Visits, Insert(r) PROVE tag' \in TagRows /\ link' \in LinkRows
  <2>1. visit[r].tag \in TagIds /\ visit[r].entity \in Entities
    BY <1>1, <1>4 DEF Insert, Is, VisitInv
  <2>2. [status |-> "live", tag |-> visit[r].tag, entity |-> visit[r].entity] \in
          [status : Statuses3, tag : TagIds \cup {Nil}, entity : Entities \cup {Nil}]
    BY <2>1 DEF Statuses3
  <2>3. \/ UNCHANGED link
        \/ \E l \in LinkIds : link' = [link EXCEPT ![l] =
             [status |-> "live", tag |-> visit[r].tag, entity |-> visit[r].entity]]
    BY <1>4 DEF Insert
  <2>4. link' \in LinkRows
    BY <1>1, <2>2, <2>3 DEF LinkRows
  <2> QED  BY <1>1, <1>4, <2>4 DEF Insert
<1>5. ASSUME NEW r \in Visits, Detach(r) PROVE tag' \in TagRows /\ link' \in LinkRows
  BY <1>1, <1>5 DEF Detach, LinkRows, Statuses3
<1>6. ASSUME UNCHANGED <<tag, link>> PROVE tag' \in TagRows /\ link' \in LinkRows
  BY <1>1, <1>6
<1> QED
  BY <1>2, <1>3, <1>4, <1>5, <1>6
  DEF TagsNext, tagsVars, CreateView, FindView, FindTag, Look, LookAgain, Reply, Abandon,
      DeleteView

LEMMA TagsTypeStep ==
  ASSUME TagsInv, [TagsNext]_tagsVars PROVE TagsTypeOK'
<1>1. enforced' \in BOOLEAN
  BY DEF TagsInv, TagsTypeOK, TagsNext, tagsVars, CreateTag, CreateView, DeleteTag, Insert, Detach,
         FindView, FindTag, Look, LookAgain, Reply, Abandon, DeleteView
<1>2. view \in [ViewIds -> Statuses3]
  BY DEF TagsInv, TagsTypeOK
<1>3. \/ UNCHANGED view
      \/ \E v \in ViewIds : view' = [view EXCEPT ![v] = "live"]
      \/ \E r \in Visits : view' = [view EXCEPT ![visit[r].link] = "gone"]
  BY DEF TagsNext, tagsVars, CreateTag, CreateView, DeleteTag, Insert, Detach,
         FindView, FindTag, Look, LookAgain, Reply, Abandon, DeleteView
<1>4. view' \in [ViewIds -> Statuses3]
  BY <1>2, <1>3 DEF Statuses3
<1> QED
  BY <1>1, <1>4, VisitTyped, RowsTyped DEF TagsTypeOK, TagRows, LinkRows, VisitType, VisitSteps

\* An INSERT passes the constraint only for a pair without a row.
LEMMA OneLinkStep ==
  ASSUME TagsInv, [TagsNext]_tagsVars PROVE OneLinkPerPair'
<1>1. TagsForward
  BY TagsNextForward
<1>2. ASSUME NEW r \in Visits, Insert(r), ~UNCHANGED link PROVE OneLinkPerPair'
  <2> DEFINE t == visit[r].tag
             e == visit[r].entity
  <2>1. ~Clashes(t, e)
    BY <1>2 DEF Insert
  <2>2. PICK l \in LinkIds :
          /\ link[l].status = "absent"
          /\ link' = [link EXCEPT ![l] = [status |-> "live", tag |-> t, entity |-> e]]
    BY <1>2, <2>1 DEF Insert
  <2>3. \A k \in LinkIds : link[k].status = "live" => ~(link[k].tag = t /\ link[k].entity = e)
    BY <2>1 DEF Clashes, Attached, Links
  <2>4. link'[l] = [status |-> "live", tag |-> t, entity |-> e]
        /\ \A k \in LinkIds \ {l} : link'[k] = link[k]
    BY <2>2 DEF TagsInv, TagsTypeOK
  <2> HIDE DEF t, e
  <2> QED  BY <2>3, <2>4 DEF TagsInv, OneLinkPerPair
<1>3. ASSUME \A l \in LinkIds : link[l].status = "absent" => link[l].status' # "live"
      PROVE  OneLinkPerPair'
  <2>1. \A l \in LinkIds : link[l].status' = "live" =>
          link[l].status = "live" /\ link[l].tag' = link[l].tag /\ link[l].entity' = link[l].entity
    BY <1>1, <1>3 DEF TagsForward
  <2> QED  BY <2>1 DEF TagsInv, OneLinkPerPair
<1>4. ASSUME NEW r \in Visits, DeleteTag(r)
      PROVE  \A l \in LinkIds : link[l].status = "absent" => link[l].status' # "live"
  BY <1>4 DEF DeleteTag, Cascade
<1>5. ASSUME NEW r \in Visits, Detach(r)
      PROVE  \A l \in LinkIds : link[l].status = "absent" => link[l].status' # "live"
  BY <1>5 DEF Detach, TagsInv, TagsTypeOK
<1>6. UNCHANGED link => \A l \in LinkIds : link[l].status = "absent" => link[l].status' # "live"
  OBVIOUS
<1>7. \/ UNCHANGED link
      \/ \E r \in Visits : DeleteTag(r) \/ Detach(r) \/ Insert(r)
  BY DEF TagsNext, tagsVars, CreateTag, CreateView, FindView, FindTag, Look, LookAgain, Reply,
         Abandon, DeleteView
<1> QED  BY <1>2, <1>3, <1>4, <1>5, <1>6, <1>7

LEMMA LinksHaveTagsStep ==
  ASSUME TagsInv, [TagsNext]_tagsVars PROVE LinksHaveTags'
<1> SUFFICES ASSUME NEW l \in LinkIds, link[l].status' = "live"
             PROVE  /\ link[l].tag' \in TagIds /\ tag'[link'[l].tag].status # "absent"
                    /\ link[l].entity' \in Entities
  BY DEF LinksHaveTags
<1>1. TagsForward /\ LinksHaveTags /\ link \in LinkRows
  BY TagsNextForward, TagsTypeParts DEF TagsInv
<1>2. CASE link[l].status = "live"
  BY <1>1, <1>2 DEF TagsForward, LinksHaveTags
<1>3. CASE link[l].status = "gone"
  BY <1>1, <1>3 DEF TagsForward
<1>4. CASE link[l].status = "absent"
  <2>1. PICK r \in Visits : Insert(r)
    BY <1>1, <1>4
    DEF TagsNext, tagsVars, CreateTag, CreateView, FindView, FindTag, Look, LookAgain, Reply,
        Abandon, DeleteView, DeleteTag, Cascade, Detach, LinkRows
  <2>2. VisitInv(r) /\ Is(r, "insert") /\ UNCHANGED tag
    BY <2>1 DEF TagsInv, Insert
  <2>3. /\ visit[r].tag \in TagIds /\ visit[r].entity \in Entities
        /\ tag'[visit[r].tag].status # "absent"
    BY <2>2 DEF VisitInv, Is
  <2>4. link'[l].tag = visit[r].tag /\ link'[l].entity = visit[r].entity
    BY <1>1, <1>4, <2>1 DEF Insert, LinkRows
  <2> QED  BY <2>3, <2>4
<1> QED  BY <1>1, <1>2, <1>3, <1>4 DEF LinkRows, Statuses3

\* The requests that took no step.
LEMMA OthersKept ==
  ASSUME TagsInv, [TagsNext]_tagsVars, NEW r \in Visits, \A q \in Visits \ {r} : visit'[q] = visit[q],
         VisitInv(r)'
  PROVE  \A q \in Visits : VisitInv(q)'
<1> SUFFICES ASSUME NEW q \in Visits PROVE VisitInv(q)'
  OBVIOUS
<1>1. TagsForward /\ TagsTypeOK /\ VisitInv(q)
  BY TagsNextForward DEF TagsInv
<1>2. CASE q = r
  BY <1>2
<1>3. CASE q # r
  BY <1>1, <1>3, VisitKept
<1> QED  BY <1>2, <1>3

LEMMA VisitsStep ==
  ASSUME TagsInv, [TagsNext]_tagsVars PROVE \A q \in Visits : VisitInv(q)'
<1>1. TagsTypeOK /\ TagsForward /\ \A r \in Visits : VisitInv(r)
  BY TagsNextForward DEF TagsInv
<1>2. ASSUME UNCHANGED visit PROVE \A q \in Visits : VisitInv(q)'
  BY <1>1, <1>2, VisitKept
<1>3. ASSUME NEW r \in Visits, visit' = [visit EXCEPT ![r] = NoVisit]
      PROVE  \A q \in Visits : VisitInv(q)'
  <2>1. visit'[r] = NoVisit /\ \A q \in Visits \ {r} : visit'[q] = visit[q]
    BY <1>1, <1>3 DEF TagsTypeOK
  <2> QED  BY <2>1, NoVisitInv, OthersKept
<1>4. ASSUME NEW r \in Visits, NEW v \in ViewIds, FindView(r, v)
      PROVE  \A q \in Visits : VisitInv(q)'
  <2>1. /\ visit'[r] = [NoVisit EXCEPT !.step = "drop", !.op = "drop", !.link = v]
        /\ \A q \in Visits \ {r} : visit'[q] = visit[q]
    BY <1>1, <1>4 DEF FindView, TagsTypeOK
  <2>2. VisitInv(r)'
    BY <2>1 DEF VisitInv, NoVisit
  <2> QED  BY <2>1, <2>2, OthersKept
<1>5. ASSUME NEW r \in Visits, FindTag(r)
      PROVE  \A q \in Visits : VisitInv(q)'
  <2>1. PICK t \in TagIds, e \in Entities, op \in {"attach", "detach", "delete"} :
          /\ Live(t)
          /\ visit' = [visit EXCEPT ![r] =
               [step |-> IF op = "delete" THEN "delete" ELSE "look", op |-> op, tag |-> t,
                entity |-> IF op = "delete" THEN Nil ELSE e, link |-> Nil,
                lostBefore |-> IF op = "attach" THEN TakenOff(t, e) ELSE {}]]
    BY <1>5 DEF FindTag
  <2>2. UNCHANGED <<tag, link>>
    BY <1>5 DEF FindTag
  <2>3. /\ visit'[r].step = IF op = "delete" THEN "delete" ELSE "look"
        /\ visit'[r].op = op /\ visit'[r].tag = t
        /\ op # "delete" => visit'[r].entity = e
        /\ op = "attach" => visit'[r].lostBefore = TakenOff(t, e)
        /\ \A q \in Visits \ {r} : visit'[q] = visit[q]
    BY <1>1, <2>1 DEF TagsTypeOK
  <2>4. op = "attach" => TakenOff(visit[r].tag, visit[r].entity)' = TakenOff(t, e)
    BY <2>2, <2>3 DEF TakenOff, Links
  <2>5. tag'[t].status # "absent"
    BY <2>1, <2>2 DEF Live
  <2>6. VisitInv(r)'
    BY <2>3, <2>4, <2>5 DEF VisitInv
  <2> QED  BY <2>3, <2>6, OthersKept
<1>6. ASSUME NEW r \in Visits, Look(r)
      PROVE  \A q \in Visits : VisitInv(q)'
  <2> DEFINE t == visit[r].tag
             e == visit[r].entity
  <2>1. Is(r, "look") /\ VisitInv(r) /\ UNCHANGED <<tag, link>>
    BY <1>1, <1>6 DEF Look
  <2>2. t \in TagIds /\ e \in Entities
    BY <2>1 DEF Is, VisitInv
  <2>3. ASSUME visit[r].op = "attach", NEW s \in {"insert", "attached"},
               s = "attached" => Attached(t, e) # {},
               visit' = [visit EXCEPT ![r].step = s]
        PROVE  \A q \in Visits : VisitInv(q)'
    <3>1. /\ visit'[r].step = s /\ visit'[r].op = "attach" /\ visit'[r].tag = t
          /\ visit'[r].entity = e /\ visit'[r].lostBefore = visit[r].lostBefore
          /\ \A q \in Visits \ {r} : visit'[q] = visit[q]
      BY <1>1, <2>3 DEF TagsTypeOK
    <3>2. TakenOff(visit[r].tag, visit[r].entity)' = TakenOff(t, e)
          /\ Attached(visit[r].tag, visit[r].entity)' = Attached(t, e)
      BY <2>1, <3>1 DEF TakenOff, Attached, Links
    <3>3. VisitInv(r)'
      BY <2>1, <2>2, <2>3, <3>1, <3>2 DEF VisitInv
    <3> QED  BY <3>1, <3>3, OthersKept
  <2>4. ASSUME visit[r].op = "detach", NEW l \in Attached(t, e),
               visit' = [visit EXCEPT ![r].step = "remove", ![r].link = l]
        PROVE  \A q \in Visits : VisitInv(q)'
    <3>1. /\ visit'[r].step = "remove" /\ visit'[r].op = "detach" /\ visit'[r].link = l
          /\ \A q \in Visits \ {r} : visit'[q] = visit[q]
      BY <1>1, <2>4 DEF TagsTypeOK
    <3>2. l \in LinkIds /\ link'[l].status # "absent"
      BY <2>1 DEF Attached, Links
    <3>3. VisitInv(r)'
      BY <3>1, <3>2 DEF VisitInv
    <3> QED  BY <3>1, <3>3, OthersKept
  <2> QED
    BY <1>3, <1>6, <2>3, <2>4 DEF Look, Go, Leave
<1>7. ASSUME NEW r \in Visits, Insert(r)
      PROVE  \A q \in Visits : VisitInv(q)'
  <2> DEFINE t == visit[r].tag
             e == visit[r].entity
  <2>1. Is(r, "insert") /\ VisitInv(r) /\ UNCHANGED tag
    BY <1>1, <1>7 DEF Insert
  <2>2. t \in TagIds /\ e \in Entities /\ visit[r].op = "attach"
    BY <2>1 DEF Is, VisitInv
  <2>3. CASE Clashes(t, e)
    <3>1. UNCHANGED link /\ visit' = [visit EXCEPT ![r].step = "again"]
      BY <1>7, <2>3 DEF Insert, Go
    <3>2. /\ visit'[r].step = "again" /\ visit'[r].op = "attach" /\ visit'[r].tag = t
          /\ visit'[r].entity = e /\ visit'[r].lostBefore = visit[r].lostBefore
          /\ \A q \in Visits \ {r} : visit'[q] = visit[q]
      BY <1>1, <2>2, <3>1 DEF TagsTypeOK
    <3>3. TakenOff(visit[r].tag, visit[r].entity)' = TakenOff(t, e)
          /\ Attached(visit[r].tag, visit[r].entity)' = Attached(t, e)
      BY <3>1, <3>2 DEF TakenOff, Attached, Links
    <3>4. Attached(t, e) # {} \/ ~Live(t)
      BY <2>3 DEF Clashes
    <3>5. Live(visit[r].tag)' = Live(t)
      BY <2>1, <3>2 DEF Live
    <3>6. VisitInv(r)'
      BY <2>1, <2>2, <3>2, <3>3, <3>4, <3>5 DEF VisitInv, TakenAway
    <3> QED  BY <3>2, <3>6, OthersKept
  <2>4. CASE ~Clashes(t, e)
    <3>1. PICK l \in LinkIds :
            /\ link[l].status = "absent"
            /\ link' = [link EXCEPT ![l] = [status |-> "live", tag |-> t, entity |-> e]]
      BY <1>7, <2>4 DEF Insert
    <3>2. visit' = [visit EXCEPT ![r].step = "attached"]
      BY <1>7, <2>4 DEF Insert, Go
    <3>3. /\ visit'[r].step = "attached" /\ visit'[r].op = "attach" /\ visit'[r].tag = t
          /\ visit'[r].entity = e /\ visit'[r].lostBefore = visit[r].lostBefore
          /\ \A q \in Visits \ {r} : visit'[q] = visit[q]
      BY <1>1, <2>2, <3>2 DEF TagsTypeOK
    <3>4. link'[l] = [status |-> "live", tag |-> t, entity |-> e]
      BY <1>1, <3>1 DEF TagsTypeOK
    <3>5. l \in Attached(visit[r].tag, visit[r].entity)'
      BY <3>3, <3>4 DEF Attached, Links
    <3>6. TakenOff(visit[r].tag, visit[r].entity)' = TakenOff(t, e)'
      BY <3>3 DEF TakenOff, Links
    <3>7. visit'[r].lostBefore \subseteq TakenOff(visit[r].tag, visit[r].entity)'
      BY <1>1, <2>1, <2>2, <3>3, <3>6, StillTakenOff DEF VisitInv
    <3>8. VisitInv(r)'
      BY <2>1, <2>2, <3>3, <3>5, <3>7 DEF VisitInv
    <3> QED  BY <3>3, <3>8, OthersKept
  <2> QED  BY <2>3, <2>4
<1>8. ASSUME NEW r \in Visits, LookAgain(r)
      PROVE  \A q \in Visits : VisitInv(q)'
  <2> DEFINE t == visit[r].tag
             e == visit[r].entity
             s == IF Attached(t, e) # {} THEN "attached" ELSE "failed"
  <2>1. Is(r, "again") /\ VisitInv(r) /\ UNCHANGED <<tag, link>>
        /\ visit' = [visit EXCEPT ![r].step = s]
    BY <1>1, <1>8 DEF LookAgain, Go
  <2>2. t \in TagIds /\ e \in Entities /\ visit[r].op = "attach"
        /\ (Attached(t, e) # {} \/ TakenAway(r))
    BY <2>1 DEF Is, VisitInv
  <2>3. /\ visit'[r].step = s /\ visit'[r].op = "attach" /\ visit'[r].tag = t
        /\ visit'[r].entity = e /\ visit'[r].lostBefore = visit[r].lostBefore
        /\ \A q \in Visits \ {r} : visit'[q] = visit[q]
    BY <1>1, <2>1, <2>2 DEF TagsTypeOK
  <2>4. TakenOff(visit[r].tag, visit[r].entity)' = TakenOff(t, e)
        /\ Attached(visit[r].tag, visit[r].entity)' = Attached(t, e)
        /\ Live(visit[r].tag)' = Live(t)
    BY <2>1, <2>3 DEF TakenOff, Attached, Links, Live
  <2>5. TakenAway(r)' = TakenAway(r)
    BY <2>3, <2>4 DEF TakenAway
  <2>6. VisitInv(r)'
    BY <2>1, <2>2, <2>3, <2>4, <2>5 DEF VisitInv
  <2> QED  BY <2>3, <2>6, OthersKept
<1> QED
  BY <1>2, <1>3, <1>4, <1>5, <1>6, <1>7, <1>8
  DEF TagsNext, tagsVars, CreateTag, CreateView, DeleteTag, Detach, Reply, Abandon, DeleteView,
      Leave

\* The invariant: rows, the unique pair, and what each request knows.
THEOREM TagsInvariant == TagsSpec => []TagsInv
<1>1. TagsInv /\ [TagsNext]_tagsVars => TagsInv'
  BY TagsTypeStep, OneLinkStep, LinksHaveTagsStep, VisitsStep DEF TagsInv
<1> QED  BY TagsInitInv, <1>1, PTL DEF TagsSpec

\* The rows and requests of the tag routes keep their types: TagsTypeOK, which
\* the composed run checks within ServerTypeOK.
THEOREM TagsType == TagsSpec => []TagsTypeOK
<1>1. TagsInv => TagsTypeOK
  BY DEF TagsInv
<1> QED  BY TagsInvariant, <1>1, PTL

\* attach_tag under any overlap: a 201 means that the entity has the tag, or that
\* somebody took it away after the request began; a 500 means the latter.
THEOREM AttachesKept == TagsSpec => []AttachKeepsItsWord
<1>1. TagsInv => AttachKeepsItsWord
  BY DEF TagsInv, VisitInv, TakenAway, AttachKeepsItsWord, Is
<1> QED  BY TagsInvariant, <1>1, PTL

-----------------------------------------------------------------------------
(* What clients are promised.                                              *)

LEMMA ShowsTheSame ==
  ASSUME UNCHANGED <<tag, link>> PROVE UNCHANGED Promise!labels
  BY DEF Promise!labels, Live, Shown, Attached, Links

\* A pair is shown through the one row it has.
LEMMA ShownRow ==
  ASSUME TagsInv, NEW t \in TagIds, NEW e \in Entities
  PROVE  <<t, e>> \in Shown <=>
           Live(t) /\ \E l \in LinkIds : link[l].status = "live" /\ link[l].tag = t
                                                             /\ link[l].entity = e
  BY DEF Shown, Attached, Links

LEMMA CreateMakes ==
  ASSUME TagsInv, NEW t \in TagIds, CreateTag(t) PROVE Promise!Make(t)
<1>1. PICK n \in Names : tag' = [tag EXCEPT ![t] = [status |-> "live", name |-> n]]
  BY DEF CreateTag
<1>2. /\ tag[t].status = "absent" /\ tag'[t].status = "live" /\ UNCHANGED link
      /\ \A s \in TagIds \ {t} : tag'[s] = tag[s]
  BY <1>1 DEF CreateTag, TagsInv, TagsTypeOK
<1>3. {s \in TagIds : Live(s)}' = {s \in TagIds : Live(s)} \cup {t}
  BY <1>2 DEF Live
<1>4. {s \in TagIds : tag[s].status = "gone"}' = {s \in TagIds : tag[s].status = "gone"}
  BY <1>2
<1>5. \A e \in Entities : Attached(t, e) = {}
  BY <1>2 DEF Attached, Links, TagsInv, LinksHaveTags
<1>6. \A s, e : Attached(s, e)' = Attached(s, e)
  BY <1>2 DEF Attached, Links
<1>7. Shown' = Shown
  BY <1>2, <1>5, <1>6 DEF Shown, Live
<1>8. t \notin {s \in TagIds : Live(s)} \cup {s \in TagIds : tag[s].status = "gone"}
  BY <1>2 DEF Live
<1> QED  BY <1>3, <1>4, <1>7, <1>8 DEF Promise!Make

LEMMA DeleteRemoves ==
  ASSUME TagsInv, NEW r \in Visits, DeleteTag(r)
  PROVE  \/ \E t \in TagIds : Promise!Remove(t)
         \/ UNCHANGED Promise!labels
<1>0. visit[r].tag \in TagIds
  BY DEF TagsInv, VisitInv, DeleteTag, Is
<1> PICK t \in TagIds : t = visit[r].tag
  BY <1>0
<1>1. t \in TagIds /\ tag[t].status # "absent"
  BY DEF TagsInv, VisitInv, DeleteTag, Is
<1>2. tag'[t].status = "gone" /\ \A s \in TagIds \ {t} : tag'[s] = tag[s]
  BY <1>1 DEF DeleteTag, TagsInv, TagsTypeOK
<1>3. \A l \in LinkIds : link[l].tag # t => link'[l] = link[l]
  BY DEF DeleteTag, Cascade
<1>4. \A l \in LinkIds : link[l].tag' = link[l].tag
  BY DEF DeleteTag, Cascade
<1>5. \A s, e : s # t => Attached(s, e)' = Attached(s, e)
  BY <1>3, <1>4 DEF Attached, Links
<1>6. Shown' = {p \in Shown : p[1] # t}
  BY <1>2, <1>5 DEF Shown, Live
<1>7. {s \in TagIds : Live(s)}' = {s \in TagIds : Live(s)} \ {t}
  BY <1>2 DEF Live
<1>8. {s \in TagIds : tag[s].status = "gone"}' = {s \in TagIds : tag[s].status = "gone"} \cup {t}
  BY <1>1, <1>2
<1>9. CASE Live(t)
  BY <1>1, <1>6, <1>7, <1>8, <1>9 DEF Promise!Remove
<1>10. CASE ~Live(t)
  <2>1. tag[t].status = "gone"
    BY <1>1, <1>10 DEF TagsInv, TagsTypeOK, Live, Statuses3
  <2>2. \A p \in Shown : p[1] # t
    BY <1>10 DEF Shown
  <2> QED  BY <1>1, <1>6, <1>7, <1>8, <1>10, <2>1, <2>2 DEF Promise!labels
<1> QED  BY <1>9, <1>10

LEMMA InsertPuts ==
  ASSUME TagsInv, NEW r \in Visits, Insert(r)
  PROVE  \/ \E t \in TagIds, e \in Entities : Promise!Put(t, e)
         \/ UNCHANGED Promise!labels
<1>0. visit[r].tag \in TagIds /\ visit[r].entity \in Entities
  BY DEF TagsInv, VisitInv, Insert, Is
<1> PICK t \in TagIds, e \in Entities : t = visit[r].tag /\ e = visit[r].entity
  BY <1>0
<1>1. t \in TagIds /\ e \in Entities /\ UNCHANGED tag
  BY DEF Insert
<1>2. CASE Clashes(t, e)
  BY <1>1, <1>2, ShowsTheSame DEF Insert
<1>3. CASE ~Clashes(t, e)
  <2>1. PICK l \in LinkIds :
          /\ link[l].status = "absent"
          /\ link' = [link EXCEPT ![l] = [status |-> "live", tag |-> t, entity |-> e]]
    BY <1>3 DEF Insert
  <2>2. /\ link'[l] = [status |-> "live", tag |-> t, entity |-> e]
        /\ \A k \in LinkIds \ {l} : link'[k] = link[k]
    BY <2>1 DEF TagsInv, TagsTypeOK
  <2>3. Attached(t, e) = {} /\ Attached(t, e)' # {}
    BY <1>3, <2>2 DEF Clashes, Attached, Links
  <2>4. \A s, f : <<s, f>> # <<t, e>> => Attached(s, f)' = Attached(s, f)
    BY <2>1, <2>2 DEF Attached, Links
  <2>5. \A s \in TagIds : Live(s)' = Live(s)
    BY <1>1 DEF Live
  <2>6. {s \in TagIds : Live(s)}' = {s \in TagIds : Live(s)}
        /\ {s \in TagIds : tag[s].status = "gone"}' = {s \in TagIds : tag[s].status = "gone"}
    BY <1>1, <2>5
  <2>7. CASE Live(t)
    <3>1. <<t, e>> \notin Shown
      BY <2>3 DEF Shown
    <3>2. Shown' = Shown \cup {<<t, e>>}
      BY <1>1, <2>3, <2>4, <2>5, <2>7 DEF Shown
    <3>3. Promise!Put(t, e)
      BY <1>1, <2>6, <2>7, <3>1, <3>2 DEF Promise!Put
    <3> QED  BY <1>1, <3>3
  <2>8. CASE ~Live(t)
    <3>1. Shown' = Shown
      BY <1>1, <2>4, <2>5, <2>8 DEF Shown
    <3> QED  BY <2>6, <3>1 DEF Promise!labels
  <2> QED  BY <2>7, <2>8
<1> QED  BY <1>2, <1>3

LEMMA DetachTakes ==
  ASSUME TagsInv, NEW r \in Visits, Detach(r)
  PROVE  \/ \E t \in TagIds, e \in Entities : Promise!Take(t, e)
         \/ UNCHANGED Promise!labels
<1>0. visit[r].link \in LinkIds
  BY DEF TagsInv, VisitInv, Detach, Is
<1> PICK l \in LinkIds : l = visit[r].link
  BY <1>0
<1>a. link[l].tag \in TagIds \cup {Nil} /\ link[l].entity \in Entities \cup {Nil}
  BY DEF TagsInv, TagsTypeOK
<1> PICK t \in TagIds \cup {Nil}, e \in Entities \cup {Nil} : t = link[l].tag /\ e = link[l].entity
  BY <1>a
<1>1. l \in LinkIds /\ link[l].status # "absent" /\ UNCHANGED tag
  BY DEF TagsInv, VisitInv, Detach, Is
<1>2. /\ link'[l] = [link[l] EXCEPT !.status = "gone"]
      /\ \A k \in LinkIds \ {l} : link'[k] = link[k]
  BY <1>1 DEF Detach, Removed
<1>3. link[l] \in [status : Statuses3, tag : TagIds \cup {Nil}, entity : Entities \cup {Nil}]
  BY <1>1 DEF TagsInv, TagsTypeOK
<1>4. link'[l].status = "gone" /\ link'[l].tag = t /\ link'[l].entity = e
  BY <1>2, <1>3
<1>5. \A s \in TagIds : Live(s)' = Live(s)
  BY <1>1 DEF Live
<1>6. {s \in TagIds : Live(s)}' = {s \in TagIds : Live(s)}
      /\ {s \in TagIds : tag[s].status = "gone"}' = {s \in TagIds : tag[s].status = "gone"}
  BY <1>1, <1>5
<1>7. CASE link[l].status = "gone"
  <2>1. \A s, f : Attached(s, f)' = Attached(s, f)
    BY <1>1, <1>2, <1>4, <1>7 DEF Attached, Links
  <2>2. Shown' = Shown
    BY <1>5, <2>1 DEF Shown
  <2> QED  BY <1>6, <2>2 DEF Promise!labels
<1>8. CASE link[l].status = "live"
  <2>1. t \in TagIds /\ e \in Entities
    BY <1>1, <1>8 DEF TagsInv, LinksHaveTags
  <2>2. Attached(t, e) = {l}
    BY <1>1, <1>8 DEF Attached, Links, TagsInv, OneLinkPerPair
  <2>3. Attached(t, e)' = {}
    <3>1. \A k \in LinkIds \ {l} : k \notin Attached(t, e)
      BY <2>2
    <3> QED  BY <1>2, <1>4, <3>1 DEF Attached, Links
  <2>4. \A s, f : s # t \/ f # e => Attached(s, f)' = Attached(s, f)
    BY <1>2, <1>4 DEF Attached, Links
  <2>5. CASE Live(t)
    <3>1. <<t, e>> \in Shown
      BY <2>1, <2>2, <2>5 DEF Shown
    <3>2. Shown' = Shown \ {<<t, e>>}
      BY <2>1, <2>3, <2>4, <1>5 DEF Shown
    <3>3. Promise!Take(t, e)
      BY <1>6, <3>1, <3>2 DEF Promise!Take
    <3> QED  BY <2>1, <3>3
  <2>6. CASE ~Live(t)
    <3>1. Shown' = Shown
      BY <2>1, <2>4, <2>6, <1>5 DEF Shown
    <3> QED  BY <1>6, <3>1 DEF Promise!labels
  <2> QED  BY <2>5, <2>6
<1> QED  BY <1>1, <1>3, <1>7, <1>8 DEF Statuses3

\* The tag routes implement Labels: a tag is made once and deleted once, an
\* entity gets or loses one tag at a time, and a deleted tag is gone from every
\* entity for good, with and without enforced foreign keys (LabelsKept).
THEOREM ImplementsLabels == TagsSpec => LabelsKept
<1>1. TagsInit => Promise!LabelsInit
  BY DEF TagsInit, Promise!LabelsInit, Live, Shown, Attached, Links
<1>2. TagsInv /\ [TagsNext]_tagsVars => [Promise!LabelsNext]_Promise!labels
  <2> SUFFICES ASSUME TagsInv, [TagsNext]_tagsVars
               PROVE  Promise!LabelsNext \/ UNCHANGED Promise!labels
    OBVIOUS
  <2>1. ASSUME NEW t \in TagIds, CreateTag(t) PROVE Promise!LabelsNext
    BY <2>1, CreateMakes DEF Promise!LabelsNext
  <2>2. ASSUME NEW r \in Visits, DeleteTag(r)
        PROVE  Promise!LabelsNext \/ UNCHANGED Promise!labels
    BY <2>2, DeleteRemoves DEF Promise!LabelsNext
  <2>3. ASSUME NEW r \in Visits, Insert(r)
        PROVE  Promise!LabelsNext \/ UNCHANGED Promise!labels
    BY <2>3, InsertPuts DEF Promise!LabelsNext
  <2>4. ASSUME NEW r \in Visits, Detach(r)
        PROVE  Promise!LabelsNext \/ UNCHANGED Promise!labels
    BY <2>4, DetachTakes DEF Promise!LabelsNext
  <2>5. UNCHANGED <<tag, link>> => UNCHANGED Promise!labels
    BY ShowsTheSame
  <2> QED
    BY <2>1, <2>2, <2>3, <2>4, <2>5
    DEF TagsNext, tagsVars, CreateView, FindView, FindTag, Look, LookAgain, Reply, Abandon,
        DeleteView
<1> QED
  BY <1>1, <1>2, TagsInvariant, PTL DEF TagsSpec, LabelsKept, Promise!LabelsSpec

=============================================================================
