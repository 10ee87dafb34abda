------------------------- MODULE MCKeyRestrictions -------------------------
(* KeyRestrictions for TLC. No contract is special, and no function but    *)
(* the wildcard.                                                           *)
EXTENDS KeyRestrictions, TLC

Symmetry == Permutations(Targets) \cup Permutations(Selectors \ {SelectorWildcard})
=============================================================================
