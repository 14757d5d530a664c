----------------------------- MODULE Migrations -----------------------------
(***************************************************************************)
(* db/migrate.py and migrations/: the schema of the application database.  *)
(* The server at its start and most commands bring it to the newest        *)
(* revision, `db upgrade` to any; nothing keeps two of them apart.  On     *)
(* Postgres an upgrade is one transaction.  On SQLite each table stands as *)
(* soon as it is created, and the stamp follows the tables of a revision   *)
(* in a transaction of its own.  (Nothing in the repository downgrades.)   *)
(* Alembic and the database are external: the model has of them what the   *)
(* revisions rely on.                                                      *)
(***************************************************************************)
EXTENDS Integers, Sequences, SequencesExt

CONSTANT Upgraders      \* processes that upgrade: a server, commands

\* The table a batch copies a changed one into, before it takes its place.
Scratch == "_alembic_tmp_users"

\* What each revision creates, in its order; a table stands for its indexes too.
Baseline == <<"tenants", "users">>
ApiKeys == <<"api_keys", Scratch>>
UserSessions == <<"user_sessions">>
RemediationTables == <<"remediation_tasks", "evidence_requests", "control_exceptions">>
TagTables == <<"tags", "entity_tags", "saved_views">>
MetricTables == <<"posture_metric_points">>

Revisions == <<Baseline, ApiKeys, UserSessions, RemediationTables, TagTables, MetricTables>>
HeadRevision == Len(Revisions)
TablesUpTo(r) == (UNION {ToSet(Revisions[i]) : i \in 1..r}) \ {Scratch}

VARIABLES
    atOnce,      \* the database runs an upgrade as one transaction (Postgres)
    tables,      \* the tables that stand
    stamp,       \* alembic_version: the revision the database says it has, 0 for none
    upgrade,     \* upgrade[u]: the revision u runs, its tables created so far, the target
    granted,     \* granted[u]: the revision the last upgrade of u returned with
    cut          \* an upgrade died between a table and the stamp

schemaVars == <<atOnce, tables, stamp, upgrade, granted, cut>>

NotUpgrading == [at |-> 0, made |-> 0, target |-> 0]

SchemaInit ==
    /\ atOnce \in BOOLEAN
    /\ tables = {} /\ stamp = 0
    /\ upgrade = [u \in Upgraders |-> NotUpgrading]
    /\ granted = [u \in Upgraders |-> 0]
    /\ cut = FALSE

Upgrading(u) == upgrade[u] # NotUpgrading
NextTable(u) == Revisions[upgrade[u].at][upgrade[u].made + 1]
AllMade(u) == upgrade[u].made = Len(Revisions[upgrade[u].at])

\* migrate.upgrade reads the stamp once; what is behind the target is to run.
BeginUpgrade(u) ==
    /\ ~Upgrading(u)
    /\ \E target \in 1..HeadRevision :
         IF target <= stamp
         THEN /\ granted' = [granted EXCEPT ![u] = target]
              /\ UNCHANGED upgrade
         ELSE /\ upgrade' = [upgrade EXCEPT ![u] =
                               [at |-> stamp + 1, made |-> 0, target |-> target]]
              /\ granted' = [granted EXCEPT ![u] = 0]
    /\ UNCHANGED <<atOnce, tables, stamp, cut>>

\* Mutant: the stamp is written with the first table of a revision.
CreateTable_Stamps(u) ==
    /\ ~atOnce /\ Upgrading(u) /\ ~AllMade(u)
    /\ NextTable(u) \notin tables
    /\ tables' = tables \cup {NextTable(u)}
    /\ stamp' = upgrade[u].at
    /\ upgrade' = [upgrade EXCEPT ![u].made = @ + 1]
    /\ UNCHANGED <<atOnce, granted, cut>>

\* op.create_table, on SQLite.
CreateTable(u) ==
    /\ ~atOnce /\ Upgrading(u) /\ ~AllMade(u)
    /\ NextTable(u) \notin tables
    /\ tables' = tables \cup {NextTable(u)}
    /\ upgrade' = [upgrade EXCEPT ![u].made = @ + 1]
    /\ UNCHANGED <<atOnce, stamp, granted, cut>>

\* The revision is complete: the copy takes the place of its table and the stamp
\* moves in one transaction.
StampRevision(u) ==
    /\ ~atOnce /\ Upgrading(u) /\ AllMade(u) /\ stamp = upgrade[u].at - 1
    /\ tables' = tables \ {Scratch}
    /\ stamp' = upgrade[u].at
    /\ IF upgrade[u].at = upgrade[u].target
       THEN /\ upgrade' = [upgrade EXCEPT ![u] = NotUpgrading]
            /\ granted' = [granted EXCEPT ![u] = upgrade[u].target]
       ELSE /\ upgrade' = [upgrade EXCEPT ![u].at = @ + 1, ![u].made = 0]
            /\ UNCHANGED granted
    /\ UNCHANGED <<atOnce, cut>>

\* The whole upgrade commits, on Postgres.
CommitUpgrade(u) ==
    /\ atOnce /\ Upgrading(u) /\ NextTable(u) \notin tables
    /\ tables' = TablesUpTo(upgrade[u].target)
    /\ stamp' = upgrade[u].target
    /\ granted' = [granted EXCEPT ![u] = upgrade[u].target]
    /\ upgrade' = [upgrade EXCEPT ![u] = NotUpgrading]
    /\ UNCHANGED <<atOnce, cut>>

\* "table already exists": someone else was here first; the upgrade raises.
UpgradeRaises(u) ==
    /\ Upgrading(u) /\ ~AllMade(u) /\ NextTable(u) \in tables
    /\ upgrade' = [upgrade EXCEPT ![u] = NotUpgrading]
    /\ UNCHANGED <<atOnce, tables, stamp, granted, cut>>

\* The process dies, or a statement fails (the database is locked, the disk is full).
UpgradeDies(u) ==
    /\ Upgrading(u)
    /\ upgrade' = [upgrade EXCEPT ![u] = NotUpgrading]
    /\ cut' = (cut \/ upgrade[u].made > 0)
    /\ UNCHANGED <<atOnce, tables, stamp, granted>>

SchemaNext ==
    \E u \in Upgraders :
        \/ BeginUpgrade(u) \/ CreateTable(u) \/ StampRevision(u)
        \/ CommitUpgrade(u) \/ UpgradeRaises(u) \/ UpgradeDies(u)

SchemaSpec == SchemaInit /\ [][SchemaNext]_schemaVars

-----------------------------------------------------------------------------
(* Properties.                                                             *)

SchemaTypeOK ==
    /\ atOnce \in BOOLEAN /\ cut \in BOOLEAN
    /\ stamp \in 0..HeadRevision
    /\ tables \subseteq TablesUpTo(HeadRevision) \cup {Scratch}
    /\ upgrade \in [Upgraders -> [at : 0..HeadRevision, made : 0..3, target : 0..HeadRevision]]
    /\ granted \in [Upgraders -> 0..HeadRevision]

\* Whoever returned from an upgrade, a server that goes on to serve among them,
\* works on a database that has every table of the revision asked for, whatever
\* other upgrades do at the same time or leave behind when they die.  And upgrades
\* that only overlap never block the next: once none runs, and none was cut off
\* between a table and its stamp, exactly the stamped tables stand.
UpgradedIsThere ==
    /\ \A u \in Upgraders : TablesUpTo(granted[u]) \subseteq tables
    /\ TablesUpTo(stamp) \subseteq tables
    /\ ~cut /\ (\A u \in Upgraders : ~Upgrading(u)) => tables = TablesUpTo(stamp)
=============================================================================
