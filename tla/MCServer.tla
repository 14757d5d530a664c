------------------------------ MODULE MCServer ------------------------------
(* Small instances of Server.                                              *)
EXTENDS Server, TLC

ServerSymmetry ==
    Permutations(Calls) \cup Permutations(Visits) \cup Permutations(Writers)
=============================================================================
