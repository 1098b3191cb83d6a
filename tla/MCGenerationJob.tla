--------------------------- MODULE MCGenerationJob ---------------------------
(* Instances of GenerationJob for TLC. *)
EXTENDS GenerationJob, TLC

CONSTANTS w1, w2

\* Worker processes are interchangeable.
Symmetry == Permutations(Workers)
=============================================================================
