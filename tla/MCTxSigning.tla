---------------------------- MODULE MCTxSigning ----------------------------
(* TxSigning for TLC. Any key may take any role, so keys are symmetric.    *)
EXTENDS TxSigning, TLC

KeySymmetry == Permutations(Keys)
=============================================================================
