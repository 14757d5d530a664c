----------------------------- MODULE MCWorkflow -----------------------------
(* Small instances of Workflow.                                            *)
EXTENDS Workflow

CONSTANTS n1, n2, n3

ThreeNodes == <<n1, n2, n3>>
=============================================================================
