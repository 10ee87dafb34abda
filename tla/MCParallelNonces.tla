-------------------------- MODULE MCParallelNonces --------------------------
(* ParallelNonces for TLC. What is done on one key is done on any.         *)
EXTENDS ParallelNonces, TLC

KeySymmetry == Permutations(NonceKeys)
=============================================================================
