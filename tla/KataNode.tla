------------------------------- MODULE KataNode -------------------------------
(***************************************************************************)
(* A node of a kata worker pool as its pods see it: containerd with the    *)
(* handlers of the OperatingSystemConfig, over the installation script and *)
(* the file system of KataInstall.                                         *)
(*                                                                         *)
(*   rendered  the version in containerd's configuration file              *)
(*   handler   the version in the handlers of the containerd that runs,    *)
(*             NoVersion while it is down or has none                      *)
(*   pods      the version of each running pod's shim, else NoVersion      *)
(*                                                                         *)
(* The webhook writes handlers, script and tarball of one version into an  *)
(* OSC; node-agent brings each of them to the node in its own time.        *)
(***************************************************************************)
EXTENDS KataInstall

CONSTANT Pods   \* names of pods that use a kata RuntimeClass

VARIABLES rendered, handler, pods

containerdVars == <<rendered, handler, pods>>
nodeVars == <<vars, containerdVars>>

NodeTypeOK ==
    /\ TypeOK
    /\ rendered \in Versions \cup {NoVersion}
    /\ handler \in Versions \cup {NoVersion}
    /\ pods \in [Pods -> Versions \cup {NoVersion}]

NodeInit ==
    /\ Init
    /\ rendered = NoVersion
    /\ handler = NoVersion
    /\ pods = [p \in Pods |-> NoVersion]

\* The shim, its configuration and the hypervisor of a version are where its
\* handler says, and the configuration names files that are there.
Usable(v) ==
    /\ items[Dir(v)] = Payload
    /\ \A i \in Configs : seds[Dir(v)][i] = 1
-------------------------------------------------------------------------------
(* node-agent and containerd, as far as the handlers drive them.           *)

RenderHandlers ==
    /\ rendered # osc
    /\ rendered' = osc
    /\ UNCHANGED <<vars, handler, pods>>

\* node-agent restarts containerd when its configuration has changed; the pods
\* go on.
RestartContainerd ==
    /\ handler # NoVersion
    /\ handler # rendered
    /\ handler' = rendered
    /\ UNCHANGED <<vars, rendered, pods>>

\* Before=containerd.service: it does not start while the unit is starting,
\* but whether or not that succeeds.
StartContainerd ==
    /\ handler = NoVersion
    /\ rendered # NoVersion
    /\ script # NoVersion => pc \in {"done", "failed"}
    /\ handler' = rendered
    /\ UNCHANGED <<vars, rendered, pods>>

\* A pod whose handler leads nowhere is not started and tried again.
StartPod(p) ==
    /\ pods[p] = NoVersion
    /\ handler # NoVersion
    /\ Usable(handler)
    /\ pods' = [pods EXCEPT ![p] = handler]
    /\ UNCHANGED <<vars, rendered, handler>>

StopPod(p) ==
    /\ pods[p] # NoVersion
    /\ handler # NoVersion
    /\ pods' = [pods EXCEPT ![p] = NoVersion]
    /\ UNCHANGED <<vars, rendered, handler>>

\* The script's process is killed, or the whole node goes down.
KillScript == Crash /\ UNCHANGED containerdVars

NodeDown ==
    /\ Crash
    /\ handler' = NoVersion
    /\ pods' = [p \in Pods |-> NoVersion]
    /\ UNCHANGED rendered

\* Everything else that happens to script, unit and OSC.
InstallStep ==
    /\ \/ \E v \in Versions : ReleaseVersion(v)
       \/ DeliverScript \/ DeliverTarball \/ Boot \/ RestartUnit
       \/ Script \/ CommandFails
    /\ UNCHANGED containerdVars

NodeNext ==
    \/ InstallStep
    \/ RenderHandlers \/ RestartContainerd \/ StartContainerd
    \/ \E p \in Pods : StartPod(p) \/ StopPod(p)
    \/ KillScript \/ NodeDown

NodeSpec == NodeInit /\ [][NodeNext]_nodeVars

\* node-agent keeps reconciling what it has not applied, systemd runs what it
\* started; nobody has to release a version and nothing has to break.
NodeFairSpec ==
    /\ NodeSpec
    /\ WF_nodeVars(DeliverScript /\ UNCHANGED containerdVars)
    /\ WF_nodeVars(DeliverTarball /\ UNCHANGED containerdVars)
    /\ WF_nodeVars(RestartUnit /\ UNCHANGED containerdVars)
    /\ WF_nodeVars(Script /\ UNCHANGED containerdVars)
    /\ WF_nodeVars(RenderHandlers)
    /\ WF_nodeVars(RestartContainerd)
    /\ WF_nodeVars(StartContainerd)
-------------------------------------------------------------------------------
(* Properties.                                                             *)

\* containerd finds the shim of every running pod, whatever has been released
\* or died since the pod was started ("removing the shim binary would result
\* in a pod sandbox restart").
PodsKeepShim ==
    \A p \in Pods : pods[p] # NoVersion => Shim \in items[Dir(pods[p])]

\* "A running version's configuration is never overwritten in place": while a
\* pod runs the files of its version may go, but none comes or is rewritten.
PodsKeepConfig ==
    [][\A p \in Pods :
         LET d == Dir(pods[p]) IN
         pods[p] # NoVersion /\ pods'[p] = pods[p] =>
             /\ items'[d] \subseteq items[d]
             /\ \A i \in Configs \cap items'[d] : seds'[d][i] = seds[d][i]]_nodeVars

\* A node that could start pods of some version can: the old version is pruned
\* only behind a new one that is whole, in spite of crashes at any command.
NeverWithout ==
    [][(\E v \in Versions : Usable(v)) => (\E v \in Versions : Usable(v))']_nodeVars

\* Between releases nothing takes the version of the OSC away from a node that
\* has it: not a crash, not a reboot, and not a late run of an older script.
SettledServes ==
    [][Usable(osc) /\ osc' = osc => Usable(osc)']_nodeVars

\* Once releases and faults stop the unit is active for the version of the OSC,
\* and the handlers are of that version and can start pods.
PodsCanStart == <>[](pc = "done" /\ ver = osc /\ handler = osc /\ Usable(osc))

\* A handler that can start pods does so until containerd is given another one
\* ("this allows for atomic switches of the kata version").
HandlerStays ==
    [][handler # NoVersion /\ handler' = handler /\ Usable(handler)
         => Usable(handler)']_nodeVars
==============================================================================
