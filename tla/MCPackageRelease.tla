--------------------------- MODULE MCPackageRelease ---------------------------
(***************************************************************************)
(* Instances of PackageRelease for TLC.                                    *)
(***************************************************************************)
EXTENDS PackageRelease, TLC

\* Pull requests and patches are only compared for equality.
Symmetry == Permutations(PullRequests) \cup Permutations(Patches)
==============================================================================
