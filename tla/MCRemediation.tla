--------------------------- MODULE MCRemediation ----------------------------
(* Small instances of Remediation.                                         *)
EXTENDS Remediation, TLC

CallerSymmetry == Permutations(Callers)
=============================================================================
