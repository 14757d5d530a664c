------------------------------ MODULE EventLog ------------------------------
(***************************************************************************)
(* The append-only logs of gold/: triage of violations (tracking.py),      *)
(* configuration and probes of connectors (connector_state.py), trust      *)
(* shares (trust_share.py), their routes (api_legacy.py) and the merged    *)
(* audit log (audit_log.py).                                               *)
(*                                                                         *)
(* A writer takes the time, then appends a line; others append in between: *)
(* the local server has a thread per request, and commands of cli.py and   *)
(* other servers use the same files.                                       *)
(* There is no other state: what is current is worked out from the lines,  *)
(* mostly by the greatest time stamp compared as text.  A stamp without a  *)
(* fraction ends in "05Z" and sorts after "05.000001Z": times are numbers  *)
(* here, two to a second, the even ones without a fraction.                *)
(***************************************************************************)
EXTENDS Integers, Sequences, FiniteSets

CONSTANTS
    Violations, Connectors, Shares,     \* what the lines are about
    States,                             \* the triage states that are used
    Registered,                         \* the connectors of the catalog
    Writers,                            \* requests that may be in progress
    Nothing,
    MaxNow, MaxLines, MaxTorn           \* bounds: clock, lines in all, torn lines

Files == {"violation_tracking", "connector_config", "connector_runs", "trust_shares"}
AllowedStates == {"open", "triaged", "in_progress", "resolved", "dismissed"}

ASSUME EventLogAssumption ==
    /\ States \subseteq AllowedStates /\ Registered \subseteq Connectors
    /\ Nothing \notin Violations \cup Connectors \cup Shares
    /\ {MaxNow, MaxLines, MaxTorn} \subseteq Nat

VARIABLES
    lines,    \* lines[f]: the lines of a log
    writer,   \* writer[w]: a request and the record it is about to append
    acks,     \* history: acks[f], how many appends were answered
    answered, \* history: answered[f], the records of those appends
    torn,     \* history: torn[f], how many writes stopped in the middle
    ended,    \* history: the shares whose revocation was answered
    now

logVars == <<lines, writer, acks, answered, torn, ended, now>>

\* "at" is the stamp the readers of the log compare; "when" the one of the audit.
Record(subject, value, at, when) ==
    [subject |-> subject, value |-> value, at |-> at, when |-> when]
NoRecord == Record(Nothing, "none", 0, 0)
\* A line whose end is missing, and what an append makes of it.  (One that misses
\* nothing but its newline parses until the next append; nobody was answered.)
Half == Record(Nothing, "half", 0, 0)
Garbled == Record(Nothing, "garbled", 0, 0)

NotWriting == [step |-> "idle", file |-> "violation_tracking", record |-> NoRecord]

EventLogInit ==
    /\ lines = [f \in Files |-> << >>]
    /\ writer = [w \in Writers |-> NotWriting]
    /\ acks = [f \in Files |-> 0]
    /\ answered = [f \in Files |-> {}]
    /\ torn = [f \in Files |-> 0]
    /\ ended = {}
    /\ now = 0

-----------------------------------------------------------------------------
(* Readers.                                                                *)

Parses(line) == line \notin {Half, Garbled}

\* Mutant: reading stops at the first line that does not parse.
Readable_Stops(f) ==
    {i \in DOMAIN lines[f] : \A j \in 1..i : Parses(lines[f][j])}

\* list_events, _read_jsonl, _read_log: a line that does not parse is skipped.
Readable(f) == {i \in DOMAIN lines[f] : Parses(lines[f][i])}

Second(t) == t \div 2
HasFraction(t) == t % 2 = 1
\* The order of the texts: within a second the stamp without a fraction is last.
SortsBefore(s, t) ==
    \/ Second(s) < Second(t)
    \/ Second(s) = Second(t) /\ HasFraction(s) /\ ~HasFraction(t)

About(f, subject) == {i \in Readable(f) : lines[f][i].subject = subject}

\* Mutant: the last line.
Latest_LastLine(f, subject) ==
    IF About(f, subject) = {} THEN NoRecord
    ELSE lines[f][CHOOSE i \in About(f, subject) : \A j \in About(f, subject) : j <= i]

\* latest_state, latest_config, latest_run: max takes the first of equals.
Latest(f, subject) ==
    IF About(f, subject) = {} THEN NoRecord
    ELSE lines[f][CHOOSE i \in About(f, subject) : \A j \in About(f, subject) :
                    \/ SortsBefore(lines[f][j].at, lines[f][i].at)
                    \/ lines[f][j].at = lines[f][i].at /\ i <= j]

TriageState(v) ==
    IF About("violation_tracking", v) = {} THEN "open" ELSE Latest("violation_tracking", v).value

\* build_catalog_view
ConnectorState(x) ==
    IF About("connector_config", x) = {} THEN "disabled" ELSE Latest("connector_config", x).value

\* Mutant: only a later created_at replaces the record.
Replaces_Later(new, old) == SortsBefore(old.at, new.at)

\* A line replaces the record of its share unless its created_at is smaller; a
\* revocation copies created_at.
Replaces(new, old) == ~SortsBefore(new.at, old.at)

\* list_shares reads the lines in their order: what stays of a share is the line
\* that replaced the ones before it and that none after it replaced.
CurrentShare(s) ==
    LET mine == About("trust_shares", s)
        line(i) == lines["trust_shares"][i]
    IN IF mine = {} THEN NoRecord
       ELSE line(CHOOSE i \in mine : \A j \in mine :
                   /\ j < i => Replaces(line(i), line(j))
                   /\ i < j => ~Replaces(line(j), line(i)))

\* build_audit_log: an entry for every record of every log; wording, sorting and
\* the page are left out.
Entries(f) == {<<f, i>> : i \in Readable(f)}
AuditLog == UNION {Entries(f) : f \in Files}

-----------------------------------------------------------------------------
(* Writers.                                                                *)

AllLines == UNION {{<<f, i>> : i \in DOMAIN lines[f]} : f \in Files}

Idling(w) == writer[w].step = "idle"
Prepare(w, f, record) ==
    /\ Cardinality(AllLines) < MaxLines
    /\ writer' = [writer EXCEPT ![w] = [step |-> "append", file |-> f, record |-> record]]
    /\ UNCHANGED <<lines, acks, answered, torn, ended, now>>

\* append_event; an unknown state is refused (400) before anything is taken.
Triage(w, v) ==
    /\ Idling(w)
    /\ \E state \in States : Prepare(w, "violation_tracking", Record(v, state, now, now))

\* append_config_event; an unknown connector is refused.
Configure(w, x) ==
    /\ Idling(w) /\ x \in Registered
    /\ \E state \in {"enabled", "disabled"} :
         Prepare(w, "connector_config", Record(x, state, now, now))

\* run_probe reads the configuration ...
Probe(w, x) ==
    /\ Idling(w)
    /\ LET result == IF x \notin Registered THEN "error"
                     ELSE IF ConnectorState(x) = "enabled" THEN "ok" ELSE "skipped"
       IN writer' = [writer EXCEPT ![w] =
            [step |-> "probed", file |-> "connector_runs", record |-> Record(x, result, 0, 0)]]
    /\ UNCHANGED <<lines, acks, answered, torn, ended, now>>

\* ... and append_run_event takes the time when it has the result.
RecordProbe(w) ==
    /\ writer[w].step = "probed"
    /\ LET r == writer[w].record
       IN Prepare(w, "connector_runs", Record(r.subject, r.value, now, now))

CreateShare(w, s) ==
    /\ Idling(w)
    /\ \A i \in Readable("trust_shares") : lines["trust_shares"][i].subject # s
    /\ \A u \in Writers : writer[u].record.subject # s
    /\ Prepare(w, "trust_shares", Record(s, "created", now, now))

\* revoke_share: the current record once more, with revoked_at; nothing is
\* appended for an unknown share (404) or one that is revoked already.
RevokeShare(w, s) ==
    /\ Idling(w)
    /\ CurrentShare(s).value = "created"
    /\ Prepare(w, "trust_shares", Record(s, "revoked", CurrentShare(s).at, now))

\* Open for appending, write, close; then the answer.  The record is lost with
\* the half line it is appended to.
AppendLine(w) ==
    /\ writer[w].step = "append"
    /\ LET f == writer[w].file
           r == writer[w].record
           old == lines[f]
       IN /\ lines' = [lines EXCEPT ![f] =
                 IF old # << >> /\ old[Len(old)] = Half
                 THEN [old EXCEPT ![Len(old)] = Garbled] ELSE Append(old, r)]
          /\ acks' = [acks EXCEPT ![f] = @ + 1]
          /\ answered' = [answered EXCEPT ![f] = @ \cup {r}]
          /\ ended' = IF r.value = "revoked" THEN ended \cup {r.subject} ELSE ended
    /\ writer' = [writer EXCEPT ![w] = NotWriting]
    /\ UNCHANGED <<torn, now>>

\* The process dies or the disk is full in the middle of the line.
Tear(w) ==
    /\ writer[w].step = "append"
    /\ Cardinality({f \in Files : torn[f] > 0}) < MaxTorn
    /\ LET f == writer[w].file
           old == lines[f]
       IN /\ lines' = [lines EXCEPT ![f] =
                 IF old # << >> /\ old[Len(old)] = Half THEN old ELSE Append(old, Half)]
          /\ torn' = [torn EXCEPT ![f] = @ + 1]
    /\ writer' = [writer EXCEPT ![w] = NotWriting]
    /\ UNCHANGED <<acks, answered, ended, now>>

\* The process dies before it writes.
Forget(w) ==
    /\ ~Idling(w)
    /\ writer' = [writer EXCEPT ![w] = NotWriting]
    /\ UNCHANGED <<lines, acks, answered, torn, ended, now>>

LogTick ==
    /\ now < MaxNow
    /\ now' = now + 1
    /\ UNCHANGED <<lines, writer, acks, answered, torn, ended>>

EventLogNext ==
    \/ LogTick
    \/ \E w \in Writers :
         \/ \E v \in Violations : Triage(w, v)
         \/ \E x \in Connectors : Configure(w, x) \/ Probe(w, x)
         \/ \E s \in Shares : CreateShare(w, s) \/ RevokeShare(w, s)
         \/ RecordProbe(w) \/ AppendLine(w) \/ Tear(w) \/ Forget(w)

EventLogSpec == EventLogInit /\ [][EventLogNext]_logVars

-----------------------------------------------------------------------------
(* Properties.                                                             *)

LineType == [subject : Violations \cup Connectors \cup Shares \cup {Nothing},
             value : AllowedStates \cup {"enabled", "disabled", "ok", "skipped", "error", "created",
                                         "revoked", "none", "half", "garbled"},
             at : 0..MaxNow, when : 0..MaxNow]

EventLogTypeOK ==
    /\ lines \in [Files -> Seq(LineType)]
    /\ writer \in [Writers -> [step : {"idle", "probed", "append"}, file : Files,
                               record : LineType]]
    /\ acks \in [Files -> Nat] /\ torn \in [Files -> Nat]
    /\ answered \in [Files -> SUBSET LineType]
    /\ ended \subseteq Shares /\ now \in 0..MaxNow

\* Once its revocation was answered a share is never listed as valid again,
\* whoever else creates and revokes meanwhile, as long as no write to the log
\* stopped in the middle (revoke_share, list_shares).
ShareStaysRevoked ==
    torn["trust_shares"] = 0 => \A s \in ended : CurrentShare(s).value = "revoked"

\* The current state of a violation or connector is never by a second or more
\* older than a change that was answered, in whatever order writers append what
\* they stamped; a write that stopped takes one answered change with it at most
\* (append_event and latest_state, append_config_event and latest_config,
\* append_run_event and latest_run).
AnsweredStaysCurrent ==
    \A f \in Files \ {"trust_shares"} :
        Cardinality({r \in answered[f] : Second(Latest(f, r.subject).at) < Second(r.at)})
            <= torn[f]

\* What was answered is in the audit log: a write that stopped in the middle
\* takes one later record with it at most.
AckedIsLogged ==
    \A f \in Files :
        acks[f] - Cardinality({e \in AuditLog : e[1] = f}) <= torn[f]
=============================================================================
