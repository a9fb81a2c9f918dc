---------------------------- MODULE MCOSCAdmission ----------------------------
(***************************************************************************)
(* Instances of OSCAdmission for TLC.                                      *)
(***************************************************************************)
EXTENDS OSCAdmission, TLC

\* Pools, replicas and versions are only compared for equality.
Symmetry == Permutations(Pools) \cup Permutations(Replicas) \cup Permutations(Versions)
==============================================================================
