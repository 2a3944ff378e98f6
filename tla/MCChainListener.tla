-------------------------- MODULE MCChainListener ---------------------------
(* Instances of ChainListener for TLC.  Listeners and event types are         *)
(* interchangeable.                                                           *)
EXTENDS ChainListener, TLC

Symmetry == Permutations(Listeners) \union Permutations(Types)
=============================================================================
