--------------------------- MODULE MCShootValidator ---------------------------
(***************************************************************************)
(* Instances of ShootValidator for TLC.                                    *)
(***************************************************************************)
EXTENDS ShootValidator

\* One required capability, and a value of it that will not do.
MCCapabilities == {<<"nestedVirtualization", "supported">>,
                   <<"nestedVirtualization", "unsupported">>}
MCRequired == {<<"nestedVirtualization", "supported">>}
==============================================================================
