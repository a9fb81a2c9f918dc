---------------------------- MODULE KataNodeProofs ----------------------------
(***************************************************************************)
(* Proofs about KataNode. A node takes the steps of KataInstall and no     *)
(* other as far as the directory tree goes, so what KataInstallProofs has  *)
(* shown holds on it; what the pods find there follows.                    *)
(***************************************************************************)
EXTENDS KataNode, KataInstallProofs

-------------------------------------------------------------------------------
(* KataNode implements KataInstall.                                        *)

\* A step of the node is a step of the installation or leaves it alone.
LEMMA StepProjects == [NodeNext]_nodeVars => [Next]_vars
<1> SUFFICES ASSUME [NodeNext]_nodeVars PROVE [Next]_vars
  OBVIOUS
<1>1. CASE InstallStep
  BY <1>1 DEF InstallStep, Next
<1>2. CASE KillScript \/ NodeDown
  BY <1>2 DEF KillScript, NodeDown, Next
<1>3. CASE UNCHANGED vars
  BY <1>3
<1> QED
  BY <1>1, <1>2, <1>3
     DEF NodeNext, RenderHandlers, RestartContainerd, StartContainerd, StartPod, StopPod,
         nodeVars

\* Whatever containerd and pods do, script and OSC behave as in KataInstall:
\* its theorems are theorems about the node.
THEOREM ImplementsInstall == NodeSpec => Spec
<1>1. NodeInit => Init
  BY DEF NodeInit
<1> QED
  BY <1>1, StepProjects, PTL DEF NodeSpec, Spec

\* On a node, too, no version directory is ever seen half-built, and the unit is
\* active only over a complete installation.
THEOREM NodeInstallsSafely == NodeSpec => [](PublishedIntact /\ ActiveIsComplete)
BY ImplementsInstall, NeverHalfBuilt, ActiveOverComplete, PTL
-------------------------------------------------------------------------------
(* Types.                                                                  *)

LEMMA StepContainerdTypes ==
    ASSUME NodeTypeOK, TypeOK', [NodeNext]_nodeVars
    PROVE  NodeTypeOK'
<1> USE DEF NodeTypeOK
<1>1. CASE InstallStep \/ KillScript
  BY <1>1 DEF InstallStep, KillScript, containerdVars
<1>2. CASE NodeDown
  BY <1>2 DEF NodeDown
<1>3. CASE RenderHandlers
  BY <1>3 DEF RenderHandlers, TypeOK
<1>4. CASE RestartContainerd \/ StartContainerd
  BY <1>4 DEF RestartContainerd, StartContainerd
<1>5. ASSUME NEW p \in Pods, StartPod(p) \/ StopPod(p) PROVE NodeTypeOK'
  BY <1>5 DEF StartPod, StopPod
<1>6. CASE UNCHANGED nodeVars
  BY <1>6 DEF nodeVars, containerdVars
<1> QED
  BY <1>1, <1>2, <1>3, <1>4, <1>5, <1>6 DEF NodeNext

\* Configuration, containerd and pods keep their ranges.
THEOREM NodeTypeCorrect == NodeSpec => []NodeTypeOK
<1>1. NodeInit => NodeTypeOK
  <2> SUFFICES ASSUME NodeInit PROVE NodeTypeOK
    OBVIOUS
  <2>1. TypeOK
    BY InitIInv DEF NodeInit, IInv
  <2> QED
    BY <2>1 DEF NodeInit, NodeTypeOK
<1>2. NodeTypeOK /\ TypeOK' /\ [NodeNext]_nodeVars => NodeTypeOK'
  BY StepContainerdTypes
<1> QED
  BY <1>1, <1>2, ImplementsInstall, TypeCorrect, PTL DEF NodeSpec
-------------------------------------------------------------------------------
(* Pods.                                                                   *)

\* A running pod was started from a directory that had been published.
PodsPublished == \A p \in Pods : pods[p] # NoVersion => Dir(pods[p]) \in dirs

\* Directories of versions go only before the version has been published.
LEMMA PublishedStay ==
    ASSUME IInv, [Next]_vars, NEW v \in Versions, Dir(v) \in dirs
    PROVE  Dir(v) \in dirs'
<1> USE InstallAssumption, DirFacts DEF IInv, TypeOK, RunHasVersion
<1>1. CASE Clean
  BY <1>1 DEF Clean, BuildsUnseen
<1>2. CASE Publish
  BY <1>2 DEF Publish
<1>3. CASE UNCHANGED dirs
  BY <1>3
<1> QED
  BY <1>1, <1>2, <1>3
     DEF Next, Script, ReleaseVersion, DeliverScript, DeliverTarball, Boot, RestartUnit,
         StartScript, Crash, Test, Unpack, RewriteShare, RewriteBin, Rewrite, Touch, Prune,
         FinishGC, CheckHost, CommandFails, vars, tree

LEMMA StepPodsPublished ==
    ASSUME IInv, NodeTypeOK, PodsPublished, [NodeNext]_nodeVars
    PROVE  PodsPublished'
<1>1. [Next]_vars
  BY StepProjects
<1>2. ASSUME NEW p \in Pods, pods'[p] # NoVersion, pods'[p] = pods[p]
      PROVE  Dir(pods'[p]) \in dirs'
  BY <1>1, <1>2, PublishedStay DEF PodsPublished, NodeTypeOK
<1>3. ASSUME NEW p \in Pods, StartPod(p)
      PROVE  PodsPublished'
  <2>1. handler \in Versions /\ items[Dir(handler)] = Payload
    BY <1>3 DEF StartPod, Usable, NodeTypeOK
  <2>2. Dir(handler) \in dirs
    BY <2>1, DirFacts DEF IInv, AbsentIsEmpty, Payload
  <2>3. Dir(handler) \in dirs'
    BY <1>1, <2>1, <2>2, PublishedStay
  <2> QED
    BY <1>2, <1>3, <2>3 DEF StartPod, PodsPublished, NodeTypeOK
<1>4. CASE \A p \in Pods : pods'[p] \in {pods[p], NoVersion}
  BY <1>2, <1>4 DEF PodsPublished
<1> QED
  BY <1>3, <1>4
     DEF NodeNext, InstallStep, KillScript, NodeDown, RenderHandlers, RestartContainerd,
         StartContainerd, StopPod, nodeVars, containerdVars, NodeTypeOK

LEMMA InvPodsPublished == NodeSpec => []PodsPublished
<1>1. NodeInit => PodsPublished
  BY DEF NodeInit, PodsPublished
<1>2. IInv /\ NodeTypeOK /\ PodsPublished /\ [NodeNext]_nodeVars => PodsPublished'
  BY StepPodsPublished
<1> QED
  BY <1>1, <1>2, ImplementsInstall, InvIInv, NodeTypeCorrect, PTL DEF NodeSpec

\* containerd finds the shim of every running pod.
THEOREM PodsShimsStay == NodeSpec => []PodsKeepShim
<1>1. IInv /\ NodeTypeOK /\ PodsPublished => PodsKeepShim
  BY DEF IInv, NodeTypeOK, PodsPublished, PublishedIntact, PodsKeepShim
<1> QED
  BY <1>1, ImplementsInstall, InvIInv, NodeTypeCorrect, InvPodsPublished, PTL

\* No step adds to a published directory or rewrites a file in it.
LEMMA PublishedUntouched ==
    ASSUME IInv, [Next]_vars, NEW v \in Versions, Dir(v) \in dirs
    PROVE  /\ items'[Dir(v)] \subseteq items[Dir(v)]
           /\ seds'[Dir(v)] = seds[Dir(v)]
<1> USE InstallAssumption, DirFacts DEF IInv, TypeOK, RunHasVersion
<1>1. CASE Clean
  BY <1>1 DEF Clean
<1>2. CASE Unpack
  BY <1>2 DEF Unpack
<1>3. CASE RewriteShare \/ RewriteBin
  BY <1>3 DEF RewriteShare, RewriteBin, Rewrite
<1>4. CASE Publish
  BY <1>4 DEF Publish, BuildsUnseen
<1>5. CASE Prune
  BY <1>5 DEF Prune
<1>6. CASE UNCHANGED <<items, seds>>
  BY <1>6
<1> QED
  BY <1>1, <1>2, <1>3, <1>4, <1>5, <1>6
     DEF Next, Script, ReleaseVersion, DeliverScript, DeliverTarball, Boot, RestartUnit,
         StartScript, Crash, Test, Touch, FinishGC, CheckHost, CommandFails, vars, tree

\* While a pod runs, no file of its version is rewritten and none comes back.
THEOREM PodsConfigStays == NodeSpec => PodsKeepConfig
<1> DEFINE Kept ==
      \A p \in Pods :
         LET d == Dir(pods[p]) IN
         pods[p] # NoVersion /\ pods'[p] = pods[p] =>
             /\ items'[d] \subseteq items[d]
             /\ \A i \in Configs \cap items'[d] : seds'[d][i] = seds[d][i]
<1>1. IInv /\ NodeTypeOK /\ PodsPublished /\ [NodeNext]_nodeVars => [Kept]_nodeVars
  <2> SUFFICES ASSUME IInv, NodeTypeOK, PodsPublished, [NodeNext]_nodeVars,
                      NEW p \in Pods, pods[p] # NoVersion
               PROVE  /\ items'[Dir(pods[p])] \subseteq items[Dir(pods[p])]
                      /\ seds'[Dir(pods[p])] = seds[Dir(pods[p])]
    OBVIOUS
  <2> QED
    BY StepProjects, PublishedUntouched DEF NodeTypeOK, PodsPublished
<1> QED
  BY <1>1, ImplementsInstall, InvIInv, NodeTypeCorrect, InvPodsPublished, PTL
     DEF NodeSpec, PodsKeepConfig
-------------------------------------------------------------------------------
(* Versions that can start pods, as long as there are no rollbacks.        *)

LEMMA UsableFacts ==
    ASSUME IInv, NEW v \in Versions
    PROVE  /\ Usable(v) => Dir(v) \in dirs
           /\ Dir(v) \in dirs /\ items[Dir(v)] = Payload => Usable(v)
<1>1. items[Dir(v)] = Payload => Dir(v) \in dirs
  BY DirFacts DEF IInv, AbsentIsEmpty, Payload
<1>2. Dir(v) \in dirs => \A i \in Configs \cap items[Dir(v)] : seds[Dir(v)][i] = 1
  BY DEF IInv, PublishedIntact
<1>3. Configs \subseteq Payload
  BY DEF Configs, Payload
<1> QED
  BY <1>1, <1>2, <1>3 DEF Usable

\* Only pruning takes parts from a published directory, and only from those of
\* other versions than the process's.
LEMMA OnlyPruned ==
    ASSUME IInv, [Next]_vars, NEW v \in Versions, Usable(v), ~Usable(v)'
    PROVE  Prune /\ v # ver
<1>1. Dir(v) \in dirs
  BY UsableFacts
<1>2. seds'[Dir(v)] = seds[Dir(v)]
  BY <1>1, PublishedUntouched
<1>3. items'[Dir(v)] # items[Dir(v)]
  BY <1>2 DEF Usable
<1> USE InstallAssumption, DirFacts DEF IInv, TypeOK, RunHasVersion
<1>4. CASE Clean
  BY <1>1, <1>3, <1>4 DEF Clean, BuildsUnseen
<1>5. CASE Unpack
  BY <1>3, <1>5 DEF Unpack
<1>6. CASE Publish
  BY <1>1, <1>3, <1>6 DEF Publish, BuildsUnseen
<1>7. CASE Prune
  <2>1. PICK n \in Names : \E i \in Prunable(n) : items' = [items EXCEPT ![n] = @ \ {i}]
    BY <1>7 DEF Prune
  <2>2. n = Dir(v)
    BY <1>3, <2>1
  <2>3. n # Dir(ver)
    BY <2>1 DEF Prunable
  <2> QED
    BY <1>7, <2>2, <2>3
<1> QED
  BY <1>3, <1>4, <1>5, <1>6, <1>7
     DEF Next, Script, ReleaseVersion, DeliverScript, DeliverTarball, Boot, RestartUnit,
         StartScript, Crash, Test, RewriteShare, RewriteBin, Rewrite, Touch, FinishGC,
         CheckHost, CommandFails, vars, tree

\* A process that prunes has its own version whole.
LEMMA PrunerUsable ==
    ASSUME IInv, UpgradeOrder, Prune
    PROVE  ver \in Versions /\ Usable(ver) /\ ver' = ver
<1>1. ver \in Versions /\ Dir(ver) \in dirs /\ ver' = ver
  BY InstallAssumption DEF Prune, Goto, IInv, TypeOK, RunHasVersion, PublishedFirst
<1>2. items[Dir(ver)] = Payload
  BY <1>1, InstallAssumption DEF UpgradeOrder
<1> QED
  BY <1>1, <1>2, UsableFacts

\* A node that could start pods of some version can.
THEOREM NeverWithoutVersion ==
    ASSUME ~Rollback
    PROVE  NodeSpec => NeverWithout
<1> DEFINE Kept == (\E v \in Versions : Usable(v)) => (\E v \in Versions : Usable(v))'
<1>1. IInv /\ UpgradeOrder /\ [NodeNext]_nodeVars => [Kept]_nodeVars
  <2> SUFFICES ASSUME IInv, UpgradeOrder, [NodeNext]_nodeVars,
                      NEW v \in Versions, Usable(v)
               PROVE  \E w \in Versions : Usable(w)'
    OBVIOUS
  <2>1. [Next]_vars
    BY StepProjects
  <2>2. CASE Usable(v)'
    BY <2>2
  <2>3. CASE ~Usable(v)'
    <3>1. PICK w \in Versions : w = ver /\ Usable(w)
      BY <2>1, <2>3, OnlyPruned, PrunerUsable
    <3>2. Usable(w)'
      BY <2>1, <3>1, OnlyPruned
    <3> QED
      BY <3>1, <3>2
  <2> QED
    BY <2>2, <2>3
<1> QED
  BY <1>1, ImplementsInstall, InvIInv, InvUpgradeOrder, PTL DEF NodeSpec, NeverWithout

\* Between releases nothing takes the version of the OSC away.
THEOREM SettledStays ==
    ASSUME ~Rollback
    PROVE  NodeSpec => SettledServes
<1> DEFINE Kept == Usable(osc) /\ osc' = osc => Usable(osc)'
<1>1. IInv /\ UpgradeOrder /\ [NodeNext]_nodeVars => [Kept]_nodeVars
  <2> SUFFICES ASSUME IInv, UpgradeOrder, [NodeNext]_nodeVars, Usable(osc), osc' = osc
               PROVE  Usable(osc)'
    OBVIOUS
  <2>1. osc \in Versions /\ Dir(osc) \in dirs
    BY UsableFacts DEF IInv, TypeOK
  <2>2. Prune => ver = osc
    BY <2>1, PrunerUsable, InstallAssumption DEF UpgradeOrder
  <2> QED
    BY <2>1, <2>2, StepProjects, OnlyPruned
<1> QED
  BY <1>1, ImplementsInstall, InvIInv, InvUpgradeOrder, PTL DEF NodeSpec, SettledServes
==============================================================================
