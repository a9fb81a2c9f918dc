---------------------------- MODULE MCPayloadBuild ----------------------------
(***************************************************************************)
(* Instances of PayloadBuild for TLC.                                      *)
(***************************************************************************)
EXTENDS PayloadBuild, TLC

\* Versions are only compared for equality.
Symmetry == Permutations(Versions)
==============================================================================
