--------------------------- MODULE MCLakePipeline ---------------------------
(* Small instances of LakePipeline.                                        *)
EXTENDS LakePipeline, TLC

RunnerSymmetry == Permutations(Runners)
=============================================================================
