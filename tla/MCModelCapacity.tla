--------------------------- MODULE MCModelCapacity ---------------------------
(* Instances of ModelCapacity for TLC.  No symmetry: the run checks liveness. *)
EXTENDS ModelCapacity

CONSTANTS w1, w2, t1, t2, t3
=============================================================================
