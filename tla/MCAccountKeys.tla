--------------------------- MODULE MCAccountKeys ---------------------------
(* Instances of AccountKeys for TLC.                                       *)
EXTENDS AccountKeys, TLC

\* Workers are interchangeable.
Symmetry == Permutations(Workers)
=============================================================================
