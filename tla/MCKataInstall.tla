---------------------------- MODULE MCKataInstall ----------------------------
(***************************************************************************)
(* Instances of KataInstall for TLC.                                       *)
(***************************************************************************)
EXTENDS KataInstall, TLC

\* Versions are only compared for equality.
Symmetry == Permutations(Versions)
==============================================================================
