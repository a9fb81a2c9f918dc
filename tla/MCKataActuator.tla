---------------------------- MODULE MCKataActuator ----------------------------
(***************************************************************************)
(* Instances of KataActuator for TLC.                                      *)
(***************************************************************************)
EXTENDS KataActuator, TLC

\* The worker pools are only compared for equality.
Symmetry == Permutations(Kata)
==============================================================================
