-------------------------------- MODULE Server --------------------------------
(***************************************************************************)
(* The parts of the platform that share no state with each other, in one   *)
(* specification: the remediation workflow, accounts and the audit of      *)
(* requests, tags, the append-only logs of the lake, the registry of       *)
(* frameworks and the schema of the database.  Since no step of one part   *)
(* can enable, disable or change a step of another, a behaviour moves one  *)
(* part only, and every behaviour of every part is among them.             *)
(***************************************************************************)
EXTENDS Remediation, Access, Tags, EventLog, FrameworkSync, Migrations

VARIABLE part     \* the part that moves

Parts == {"remediation", "access", "tags", "logs", "registry", "schema"}

serverVars == <<part, vars, accessVars, tagsVars, logVars, pullVars, schemaVars>>

\* Of a part that does not move one initial state is as good as another.
ServerInit ==
    /\ part \in Parts
    /\ Init /\ AccessInit /\ TagsInit /\ EventLogInit /\ PullInit /\ SchemaInit
    /\ part # "remediation" => item = CHOOSE i \in [Callers -> Items] : TRUE
    /\ part # "access" => mode.auth /\ mode.provision
    /\ part # "tags" => enforced
    /\ part # "schema" => atOnce

ServerNext ==
    /\ UNCHANGED part
    /\ \/ /\ part = "remediation" /\ Next
          /\ UNCHANGED <<accessVars, tagsVars, logVars, pullVars, schemaVars>>
       \/ /\ part = "access" /\ AccessNext
          /\ UNCHANGED <<vars, tagsVars, logVars, pullVars, schemaVars>>
       \/ /\ part = "tags" /\ TagsNext
          /\ UNCHANGED <<vars, accessVars, logVars, pullVars, schemaVars>>
       \/ /\ part = "logs" /\ EventLogNext
          /\ UNCHANGED <<vars, accessVars, tagsVars, pullVars, schemaVars>>
       \/ /\ part = "registry" /\ PullNext
          /\ UNCHANGED <<vars, accessVars, tagsVars, logVars, schemaVars>>
       \/ /\ part = "schema" /\ SchemaNext
          /\ UNCHANGED <<vars, accessVars, tagsVars, logVars, pullVars>>

ServerSpec == ServerInit /\ [][ServerNext]_serverVars

\* Every part keeps its types.
ServerTypeOK ==
    /\ TypeOK /\ AccessTypeOK /\ TagsTypeOK
    /\ EventLogTypeOK /\ PullTypeOK /\ SchemaTypeOK
=============================================================================
