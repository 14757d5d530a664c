-------------------------- MODULE MCConnectorSync --------------------------
(* Small instances of ConnectorSync: two repositories, three event ids.    *)
EXTENDS ConnectorSync, TLC

CONSTANTS ra, rb, a1, b1

RepoOfDef == [e \in Events |-> IF e = a1 THEN ra ELSE rb]

SyncerSymmetry == Permutations(Syncers)
=============================================================================
