-------------------------- MODULE KataInstallProofs --------------------------
(***************************************************************************)
(* Proofs about KataInstall, for any set of versions and any number of     *)
(* faults.                                                                 *)
(***************************************************************************)
EXTENDS KataInstall, TLAPS

-------------------------------------------------------------------------------
(* The inductive invariant.                                                *)

\* A directory that does not exist has nothing in it.
AbsentIsEmpty == \A n \in Names \ dirs : n \notin marked /\ items[n] = {}

\* The process, and only the process, has a version.
RunHasVersion == pc = "idle" <=> ver = NoVersion

\* Nobody sees the version while it is being built ...
BuildsUnseen ==
    pc \in {"clean", "unpack", "sedShare", "sedBin", "touch", "mv"} =>
        Dir(ver) \notin dirs

\* ... and what is in its staging directory follows from the next command:
\* the number of sed passes over each of the files ...
PassesSoFar ==
    /\ pc = "unpack" =>
          \A i \in Configs \cap items[Staging(ver)] : seds[Staging(ver)][i] = 0
    /\ pc \in {"sedShare", "sedBin"} => seds[Staging(ver)]["bin"] = 0
    /\ pc = "sedShare" => seds[Staging(ver)]["share"] = 0
    /\ pc \in {"sedBin", "touch", "mv"} => seds[Staging(ver)]["share"] = 1
    /\ pc \in {"touch", "mv"} => seds[Staging(ver)]["bin"] = 1

\* ... the unpacked payload, and the marker.
StagedSoFar ==
    /\ pc \in {"unpack", "sedShare", "sedBin", "touch", "mv"} => Staging(ver) \in dirs
    /\ pc \in {"sedShare", "sedBin", "touch", "mv"} => items[Staging(ver)] = Payload
    /\ pc = "mv" => Staging(ver) \in marked

\* Once collection has begun the version is there; once it has ended nothing
\* of the other versions is left but their shims.
PublishedFirst == pc \in {"gc", "check", "done"} => Dir(ver) \in dirs
Collected ==
    pc \in {"check", "done"} =>
        \A v \in Versions \ {ver} : items[Dir(v)] \subseteq {Shim}

IInv ==
    /\ TypeOK
    /\ AbsentIsEmpty
    /\ RunHasVersion
    /\ BuildsUnseen
    /\ PassesSoFar
    /\ StagedSoFar
    /\ PublishedFirst
    /\ Collected
    /\ PublishedIntact
    /\ ActiveIsComplete

-------------------------------------------------------------------------------
(* Types.                                                                  *)

LEMMA DirFacts ==
    /\ \A v \in Versions : Dir(v) \in Names /\ Staging(v) \in Names
    /\ \A v, w \in Versions : Dir(v) # Staging(w)
    /\ \A v, w \in Versions : Dir(v) = Dir(w) <=> v = w
    /\ \A v, w \in Versions : Staging(v) = Staging(w) <=> v = w
BY DEF Names, Dir, Staging

\* TypeOK is inductive together with the fact that a process has a version.
LEMMA TypeStep ==
    ASSUME TypeOK, RunHasVersion, [Next]_vars
    PROVE  TypeOK' /\ RunHasVersion'
<1> USE InstallAssumption, DirFacts
        DEF TypeOK, RunHasVersion, Steps, tree, agentVars, Goto
<1>1. ASSUME NEW v \in Versions, ReleaseVersion(v) PROVE TypeOK' /\ RunHasVersion'
  BY <1>1 DEF ReleaseVersion
<1>2. CASE DeliverScript
  BY <1>2 DEF DeliverScript
<1>3. CASE DeliverTarball
  BY <1>3 DEF DeliverTarball
<1>4. CASE Boot
  BY <1>4 DEF Boot, StartScript
<1>5. CASE RestartUnit
  BY <1>5 DEF RestartUnit, StartScript
<1>6. CASE Crash
  BY <1>6 DEF Crash
<1>7. CASE Test
  BY <1>7 DEF Test
<1>8. CASE Clean
  BY <1>8 DEF Clean
<1>9. CASE Unpack
  BY <1>9 DEF Unpack, Configs, Payload
<1>10. CASE RewriteShare
  BY <1>10 DEF RewriteShare, Rewrite, Configs
<1>11. CASE RewriteBin
  BY <1>11 DEF RewriteBin, Rewrite, Configs
<1>12. CASE Touch
  BY <1>12 DEF Touch
<1>13. CASE Publish
  BY <1>13 DEF Publish
<1>14. CASE Prune
  BY <1>14 DEF Prune
<1>15. CASE FinishGC
  BY <1>15 DEF FinishGC
<1>16. CASE CheckHost
  BY <1>16 DEF CheckHost
<1>17. CASE CommandFails
  BY <1>17 DEF CommandFails
<1>18. CASE UNCHANGED vars
  BY <1>18 DEF vars
<1> QED
  BY <1>1, <1>2, <1>3, <1>4, <1>5, <1>6, <1>7, <1>8, <1>9, <1>10, <1>11, <1>12,
     <1>13, <1>14, <1>15, <1>16, <1>17, <1>18 DEF Next, Script

-------------------------------------------------------------------------------
(* The invariant is inductive.                                             *)

LEMMA InitIInv == Init => IInv
BY InstallAssumption, DirFacts
   DEF Init, IInv, TypeOK, AbsentIsEmpty, RunHasVersion, BuildsUnseen, PassesSoFar,
       StagedSoFar, PublishedFirst, Collected, PublishedIntact, ActiveIsComplete, Steps

\* Every step keeps the invariant.
LEMMA StepIInv ==
    ASSUME IInv, [Next]_vars
    PROVE  IInv'
<1>0. TypeOK' /\ RunHasVersion'
  BY TypeStep DEF IInv
<1> USE <1>0, InstallAssumption, DirFacts
        DEF IInv, TypeOK, AbsentIsEmpty, RunHasVersion, BuildsUnseen, PassesSoFar,
            StagedSoFar, PublishedFirst, Collected, PublishedIntact, ActiveIsComplete,
            Complete, Steps, tree, agentVars, Goto, Payload, Configs
<1>1. ASSUME NEW v \in Versions, ReleaseVersion(v) PROVE IInv'
  BY <1>1 DEF ReleaseVersion
<1>2. CASE DeliverScript
  BY <1>2 DEF DeliverScript
<1>3. CASE DeliverTarball
  BY <1>3 DEF DeliverTarball
<1>4. CASE Boot
  BY <1>4 DEF Boot, StartScript
<1>5. CASE RestartUnit
  BY <1>5 DEF RestartUnit, StartScript
<1>6. CASE Crash
  BY <1>6 DEF Crash
<1>7. CASE Test
  BY <1>7 DEF Test
<1>8. CASE Clean
  BY <1>8 DEF Clean
<1>9. CASE Unpack
  BY <1>9 DEF Unpack
<1>10. CASE RewriteShare
  BY <1>10 DEF RewriteShare, Rewrite
<1>11. CASE RewriteBin
  BY <1>11 DEF RewriteBin, Rewrite
<1>12. CASE Touch
  BY <1>12 DEF Touch
<1>13. CASE Publish
  BY <1>13 DEF Publish
<1>14. CASE Prune
  BY <1>14 DEF Prune, Prunable
<1>15. CASE FinishGC
  BY <1>15 DEF FinishGC, Prunable
<1>16. CASE CheckHost
  BY <1>16 DEF CheckHost
<1>17. CASE CommandFails
  BY <1>17 DEF CommandFails
<1>18. CASE UNCHANGED vars
  BY <1>18 DEF vars
<1> QED
  BY <1>1, <1>2, <1>3, <1>4, <1>5, <1>6, <1>7, <1>8, <1>9, <1>10, <1>11, <1>12,
     <1>13, <1>14, <1>15, <1>16, <1>17, <1>18 DEF Next, Script

LEMMA InvIInv == Spec => []IInv
<1>1. IInv /\ [Next]_vars => IInv'
  BY StepIInv
<1> QED
  BY InitIInv, <1>1, PTL DEF Spec

-------------------------------------------------------------------------------
(* The theorems.                                                           *)

\* Types: the variables of the script and of node-agent keep their ranges.
THEOREM TypeCorrect == Spec => []TypeOK
BY InvIInv, PTL DEF IInv

\* A version directory is never seen half-built, wherever the script dies: the
\* staging directory holds what the next command expects, and only mv, once
\* every file was rewritten and the marker set, creates /opt/kata/<v>.
THEOREM NeverHalfBuilt == Spec => []PublishedIntact
BY InvIInv, PTL DEF IInv

\* systemd reports the unit active only over a complete installation: the
\* closing kata-runtime checks find both the binary and the configurations,
\* and the shim is never pruned.
THEOREM ActiveOverComplete == Spec => []ActiveIsComplete
BY InvIInv, PTL DEF IInv

\* The unit is active only when the other versions are down to their shims:
\* what a dead prune loop left over, the next one removes.
THEOREM OthersPruned == Spec => []OnlyShimsRemain
<1>1. IInv => OnlyShimsRemain
  BY DEF IInv, Collected, OnlyShimsRemain
<1> QED
  BY <1>1, InvIInv, PTL

\* No step takes the shim of a published version away: only rm -rf of an
\* unmarked directory and the prune loop remove parts, and a published
\* directory is marked.
THEOREM ShimsStay == Spec => ShimsKept
<1> DEFINE Kept == \A v \in Versions : Dir(v) \in dirs => Shim \in items'[Dir(v)]
<1>1. IInv /\ IInv' /\ [Next]_vars => [Kept]_vars
  <2> SUFFICES ASSUME IInv, [Next]_vars PROVE Kept
    OBVIOUS
  <2>1. \A v \in Versions : Dir(v) \in dirs => Shim \in items[Dir(v)]
    BY DEF IInv, PublishedIntact
  <2> USE <2>1, DirFacts, InstallAssumption DEF IInv, TypeOK, RunHasVersion
  <2>2. CASE Clean
    BY <2>2 DEF Clean, BuildsUnseen
  <2>3. CASE Unpack
    BY <2>3 DEF Unpack
  <2>4. CASE Publish
    BY <2>4 DEF Publish, BuildsUnseen
  <2>5. CASE Prune
    BY <2>5 DEF Prune, Prunable
  <2>6. CASE UNCHANGED items
    BY <2>6
  <2> QED
    BY <2>2, <2>3, <2>4, <2>5, <2>6
       DEF Next, Script, ReleaseVersion, DeliverScript, DeliverTarball, Boot, RestartUnit,
           StartScript, Crash, Test, RewriteShare, RewriteBin, Rewrite, Touch, FinishGC,
           CheckHost, CommandFails, vars, tree
<1> QED
  BY <1>1, InvIInv, PTL DEF Spec, ShimsKept

-------------------------------------------------------------------------------
(* KataInstall implements AtomicInstall.                                   *)

LEMMA InitAbstract == Init => Abstract!Init
BY DirFacts DEF Init, Abstract!Init, Names

\* Every step of node-agent, systemd or the script is a step of the abstract
\* installation or leaves it alone.
LEMMA StepAbstract ==
    ASSUME IInv, [Next]_vars
    PROVE  [Abstract!Next]_(Abstract!vars)
<1> DEFINE content == [v \in Versions |-> items[Dir(v)]]
<1> USE DirFacts, InstallAssumption DEF IInv, TypeOK, RunHasVersion
<1>1. CASE UNCHANGED <<items, ver>>
  BY <1>1 DEF Abstract!vars
<1>2. CASE UNCHANGED items /\ ver' \in Versions \cup {NoVersion}
  <2>1. Abstract!Select
    BY <1>2 DEF Abstract!Select
  <2> QED
    BY <2>1 DEF Abstract!Next
<1>3. CASE Clean
  <2>1. items[Dir(ver)] = {}
    BY <1>3 DEF Clean, BuildsUnseen, AbsentIsEmpty
  <2>2. \A v \in Versions : items'[Dir(v)] = items[Dir(v)]
    BY <1>3, <2>1 DEF Clean
  <2> QED
    BY <1>3, <2>2 DEF Clean, Goto, Abstract!vars
<1>4. CASE Unpack
  <2>1. \A v \in Versions : items'[Dir(v)] = items[Dir(v)]
    BY <1>4 DEF Unpack
  <2> QED
    BY <1>4, <2>1 DEF Unpack, Goto, Abstract!vars
<1>5. CASE Publish
  <2>1. items[Dir(ver)] = {} /\ items[Staging(ver)] = Payload
    BY <1>5 DEF Publish, BuildsUnseen, AbsentIsEmpty, StagedSoFar
  <2>a. ver \in Versions
    BY <1>5 DEF Publish
  <2>b. \A v \in Versions :
            items'[Dir(v)] = IF v = ver THEN Payload ELSE items[Dir(v)]
    BY <1>5, <2>1, <2>a DEF Publish
  <2>2. content' = [content EXCEPT ![ver] = Payload]
    BY <2>b
  <2>3. ver \in Versions /\ ver' = ver
    BY <1>5, <2>a DEF Publish, Goto
  <2>4. Abstract!Publish
    BY <2>1, <2>2, <2>3 DEF Abstract!Publish
  <2> QED
    BY <2>4 DEF Abstract!Next
<1>6. CASE Prune
  <2>1. ver \in Versions /\ ver' = ver /\ items[Dir(ver)] # {}
    BY <1>6 DEF Prune, Goto, PublishedFirst, PublishedIntact
  <2>a. PICK n \in Names :
            \E i \in Prunable(n) : items' = [items EXCEPT ![n] = items[n] \ {i}]
    BY <1>6 DEF Prune
  <2>2. PICK i \in Prunable(n) : items' = [items EXCEPT ![n] = items[n] \ {i}]
    BY <2>a
  <2>3. CASE \E v \in Versions : n = Dir(v)
    <3>1. PICK v \in Versions : n = Dir(v)
      BY <2>3
    <3>2. v # ver /\ i \in items[Dir(v)] \ {Shim} /\ i \in Payload
      BY <2>2, <3>1 DEF Prunable
    <3>3. content' = [content EXCEPT ![v] = content[v] \ {i}]
      BY <2>2, <3>1
    <3>4. Abstract!Drop(v, i)
      BY <2>1, <3>2, <3>3 DEF Abstract!Drop
    <3> QED
      BY <3>2, <3>4 DEF Abstract!Next
  <2>4. CASE \A v \in Versions : n # Dir(v)
    <3>1. content' = content
      BY <2>2, <2>4
    <3> QED
      BY <2>1, <3>1 DEF Abstract!vars
  <2> QED
    BY <2>3, <2>4
<1> QED
  BY <1>1, <1>2, <1>3, <1>4, <1>5, <1>6
     DEF Next, Script, ReleaseVersion, DeliverScript, DeliverTarball, Boot, RestartUnit,
         StartScript, Crash, Test, RewriteShare, RewriteBin, Rewrite, Touch, FinishGC,
         CheckHost, CommandFails, vars, tree, agentVars, Goto

\* The tree under /opt/kata, seen through its version directories, is an
\* atomic installation: whole versions appear, and only another version's
\* parts go, behind a published one.
THEOREM Implements == Spec => ImplementsAtomicInstall
<1>1. IInv /\ [Next]_vars => [Abstract!Next]_(Abstract!vars)
  BY StepAbstract
<1> QED
  BY <1>1, InitAbstract, InvIInv, PTL DEF Spec, ImplementsAtomicInstall, Abstract!Spec

-------------------------------------------------------------------------------
(* Without rollbacks the script installs what it says.                     *)

\* Versions come one after the other: the script of a new version is not there
\* yet, an older process does not know it, and nobody prunes the version of the
\* script or of the process.
UpgradeOrder ==
    /\ \A v \in Versions : Dir(v) \in dirs => v \in seen
    /\ {osc, script, ver} \subseteq seen \cup {NoVersion}
    /\ script # osc => Dir(osc) \notin dirs /\ ver # osc
    /\ script = NoVersion => ver = NoVersion
    /\ ver \notin {script, NoVersion} => Dir(script) \notin dirs
    /\ \A v \in {script, ver} \ {NoVersion} :
          Dir(v) \in dirs => items[Dir(v)] = Payload

LEMMA StepUpgradeOrder ==
    ASSUME ~Rollback, IInv, UpgradeOrder, [Next]_vars
    PROVE  UpgradeOrder'
<1> USE InstallAssumption, DirFacts
        DEF IInv, TypeOK, RunHasVersion, UpgradeOrder, tree, agentVars, Goto
<1>1. ASSUME NEW v \in Versions, ReleaseVersion(v) PROVE UpgradeOrder'
  BY <1>1 DEF ReleaseVersion
<1>2. CASE DeliverScript
  BY <1>2 DEF DeliverScript
<1>3. CASE DeliverTarball
  BY <1>3 DEF DeliverTarball
<1>4. CASE Boot
  BY <1>4 DEF Boot, StartScript
<1>5. CASE RestartUnit
  BY <1>5 DEF RestartUnit, StartScript
<1>6. CASE Crash
  BY <1>6 DEF Crash
<1>7. CASE Clean
  BY <1>7 DEF Clean, BuildsUnseen
<1>8. CASE Unpack
  BY <1>8 DEF Unpack
<1>9. CASE Publish
  BY <1>9 DEF Publish, StagedSoFar
<1>10. CASE Prune
  BY <1>10 DEF Prune, Prunable, AbsentIsEmpty, PublishedFirst
<1>11. CASE UNCHANGED <<dirs, items, osc, seen, script, ver>>
  BY <1>11
<1> QED
  BY <1>1, <1>2, <1>3, <1>4, <1>5, <1>6, <1>7, <1>8, <1>9, <1>10, <1>11
     DEF Next, Script, Test, RewriteShare, RewriteBin, Rewrite, Touch, FinishGC,
         CheckHost, CommandFails, vars

LEMMA InvUpgradeOrder ==
    ASSUME ~Rollback
    PROVE  Spec => []UpgradeOrder
<1>1. Init => UpgradeOrder
  BY InstallAssumption, DirFacts DEF Init, UpgradeOrder
<1>2. IInv /\ UpgradeOrder /\ [Next]_vars => UpgradeOrder'
  BY StepUpgradeOrder
<1> QED
  BY <1>1, <1>2, InvIInv, PTL DEF Spec

\* As long as the OSC never returns to a version it carried before, a run that
\* has installed and collected has its whole payload in place. With rollbacks
\* it does not: the marker survives pruning.
THEOREM UpgradesInstallPayload ==
    ASSUME ~Rollback
    PROVE  Spec => []RunInstallsPayload
<1>1. IInv /\ UpgradeOrder => RunInstallsPayload
  BY InstallAssumption
     DEF IInv, TypeOK, RunHasVersion, PublishedFirst, PublishedIntact, UpgradeOrder,
         RunInstallsPayload, Complete
<1> QED
  BY <1>1, InvIInv, InvUpgradeOrder, PTL
==============================================================================
