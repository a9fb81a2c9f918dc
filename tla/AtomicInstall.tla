---------------------------- MODULE AtomicInstall ----------------------------
(***************************************************************************)
(* What the on-node installation promises, without staging directories,    *)
(* markers or crashes.                                                     *)
(*                                                                         *)
(*   content[v]  the intact parts of Kata version v that can be found      *)
(*               under /opt/kata/<v>                                       *)
(*   current     the version whose installation is at work or complete     *)
(*                                                                         *)
(* A version appears whole or not at all; parts of a version go away only  *)
(* while ANOTHER version is current and that one has been published; the   *)
(* shim of a published version never goes away.                            *)
(***************************************************************************)
CONSTANTS
    Versions,   \* Kata versions (tags of the installation image)
    NoVersion,  \* no installation at work
    Parts,      \* what a version consists of
    Shim        \* the part that running pods depend on

VARIABLES content, current

vars == <<content, current>>

Init ==
    /\ content = [v \in Versions |-> {}]
    /\ current = NoVersion

\* An installation begins (or restarts), or its process dies.
Select ==
    /\ current' \in Versions \cup {NoVersion}
    /\ UNCHANGED content

Publish ==
    /\ current \in Versions
    /\ content[current] = {}
    /\ content' = [content EXCEPT ![current] = Parts]
    /\ UNCHANGED current

Drop(v, part) ==
    /\ current \in Versions \ {v}
    /\ content[current] # {}
    /\ part \in content[v] \ {Shim}
    /\ content' = [content EXCEPT ![v] = @ \ {part}]
    /\ UNCHANGED current

Next ==
    \/ Select
    \/ Publish
    \/ \E v \in Versions, part \in Parts : Drop(v, part)

Spec == Init /\ [][Next]_vars
==============================================================================
