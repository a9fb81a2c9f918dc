------------------------------ MODULE MCKataNode ------------------------------
(***************************************************************************)
(* Instances of KataNode for TLC.                                          *)
(***************************************************************************)
EXTENDS KataNode, TLC

\* Versions are only compared for equality.
Symmetry == Permutations(Versions)
==============================================================================
