----------------------------- MODULE OSCAdmission -----------------------------
(***************************************************************************)
(* The OSCs of a shoot's worker pools on the seed, the writers they have,  *)
(* and the replicas of the webhook in front of them, while the extension   *)
(* is being rolled out.                                                    *)
(*                                                                         *)
(*   shoot     the container runtimes of every worker pool, as gardenlet   *)
(*             has written them to the Cluster                             *)
(*   cluster   the Cluster in the webhook's cache, NoCluster before it     *)
(*             has been seen                                               *)
(*   osc       the stored OSCs, NoOSC where there is none                  *)
(*   running   the version each replica finds in its image vector, or Down *)
(*   changes   changes of the shoot and of replicas so far                 *)
(***************************************************************************)
EXTENDS KataMutator

CONSTANTS
    Pools,          \* worker pools
    Replicas,       \* replicas of the webhook
    Down, NoCluster, NoOSC,
    FreshCluster,   \* does gardenlet's write of an OSC find the cache up to date?
    MaxChanges      \* bound on changes

ASSUME AdmissionAssumption ==
    /\ Down \notin Versions
    /\ FreshCluster \in BOOLEAN
    /\ MaxChanges \in Nat

VARIABLES shoot, cluster, osc, running, changes

vars == <<shoot, cluster, osc, running, changes>>
-------------------------------------------------------------------------------
OSCs == Pools \X {"provision", "reconcile"}
Runtimes == {Kata, "gvisor"}

\* What gardenlet and the other extensions put into an OSC.
Foreign(k) == [key |-> <<k>>, content |-> "foreign"]
Base(o, labelled, containerd) ==
    [pool |-> o[1], purpose |-> o[2], containerd |-> containerd,
     label |-> labelled, deleting |-> FALSE,
     plugins |-> <<[key |-> <<"runtimes", "runsc">>, values |-> "foreign"]>>,
     files |-> <<Foreign("ca"), Foreign("kubelet")>>,
     units |-> <<[key |-> <<"containerd.service">>, filePaths |-> <<>>]>>]

Keys == {<<"runtimes", "runsc">>, <<"ca">>, <<"kubelet">>, <<"containerd.service">>,
         ScriptPath, UnitName}
        \cup {kataHandlers[i].path : i \in DOMAIN kataHandlers}
        \cup {tarballPath(v) : v \in Versions}

KeyedBy(list) == \A i \in DOMAIN list : list[i].key \in Keys

TypeOK ==
    /\ shoot \in [Pools -> SUBSET Runtimes]
    /\ cluster \in [Pools -> SUBSET Runtimes] \cup {NoCluster}
    /\ \A o \in OSCs : osc[o] # NoOSC =>
          /\ osc[o].label \in BOOLEAN /\ osc[o].deleting \in BOOLEAN
          /\ KeyedBy(osc[o].plugins) /\ KeyedBy(osc[o].files) /\ KeyedBy(osc[o].units)
    /\ running \in [Replicas -> Versions \cup {Down}]
    /\ changes \in 0..MaxChanges

Init ==
    /\ shoot \in [Pools -> SUBSET Runtimes]
    /\ cluster = NoCluster
    /\ osc = [o \in OSCs |-> NoOSC]
    /\ \E v \in Versions : running = [r \in Replicas |-> v]
    /\ changes = 0
-------------------------------------------------------------------------------
(* The API server (external).                                              *)

\* NamespaceSelector and ObjectSelector: some pool, and this one, uses kata.
Selected(new) == new.label /\ \E p \in Pools : Kata \in shoot[p]

\* Mutant: FailurePolicy Ignore.
StoreAnyway(o, new) ==
    \/ /\ Selected(new)
       /\ \E r \in Replicas :
            osc' = [osc EXCEPT ![o] = IF running[r] = Down \/ cluster = NoCluster THEN new
                                      ELSE Mutate(new, cluster, running[r])]
    \/ ~Selected(new) /\ osc' = [osc EXCEPT ![o] = new]

\* FailurePolicy Fail: without a replica that answers, and without a Cluster it
\* can read, the write is refused.
Store(o, new) ==
    \/ /\ Selected(new)
       /\ cluster # NoCluster
       /\ \E r \in Replicas :
            /\ running[r] # Down
            /\ osc' = [osc EXCEPT ![o] = Mutate(new, cluster, running[r])]
    \/ /\ ~Selected(new)
       /\ osc' = [osc EXCEPT ![o] = new]
-------------------------------------------------------------------------------
\* gardenlet writes the OSC of a pool in full. The reconcile OSC carries the
\* containerd configuration; provision OSCs need not.
Apply(o) ==
    /\ osc[o] # NoOSC => ~osc[o].deleting
    /\ FreshCluster => cluster = shoot
    /\ \E containerd \in BOOLEAN :
        /\ o[2] = "reconcile" => containerd
        /\ Store(o, Base(o, Kata \in shoot[o[1]], containerd))
    /\ UNCHANGED <<shoot, cluster, running, changes>>

\* Somebody patches metadata: the webhook gets what it made earlier.
Patch(o) ==
    /\ osc[o] # NoOSC
    /\ Store(o, osc[o])
    /\ UNCHANGED <<shoot, cluster, running, changes>>

Delete(o) ==
    /\ osc[o] # NoOSC
    /\ osc' = [osc EXCEPT ![o] = IF @.deleting THEN NoOSC ELSE [@ EXCEPT !.deleting = TRUE]]
    /\ UNCHANGED <<shoot, cluster, running, changes>>

Change ==
    /\ changes < MaxChanges
    /\ changes' = changes + 1
    /\ UNCHANGED <<cluster, osc>>

\* A container runtime is added to or removed from a worker pool.
ChangeShoot(p, t) ==
    /\ shoot' = [shoot EXCEPT ![p] = IF t \in @ THEN @ \ {t} ELSE @ \cup {t}]
    /\ Change
    /\ UNCHANGED running

\* A replica stops or starts; or its overwrite, a volume that is read again on
\* every mutation, gets another version while it runs.
RollOut(r, v) ==
    /\ running[r] # v
    /\ running' = [running EXCEPT ![r] = v]
    /\ Change
    /\ UNCHANGED shoot

SyncCluster ==
    /\ cluster # shoot
    /\ cluster' = shoot
    /\ UNCHANGED <<shoot, osc, running, changes>>

Next ==
    \/ \E o \in OSCs : Apply(o) \/ Patch(o) \/ Delete(o)
    \/ \E p \in Pools, t \in Runtimes : ChangeShoot(p, t)
    \/ \E r \in Replicas, v \in Versions \cup {Down} : RollOut(r, v)
    \/ SyncCluster

Spec == Init /\ [][Next]_vars
-------------------------------------------------------------------------------
(* Properties.                                                             *)

Stored == {o \in OSCs : osc[o] # NoOSC}
Has(list, e) == \E i \in DOMAIN list : list[i].key = e.key /\ list[i] = e

\* Handlers, script, unit and tarball all speak of version v.
Installs(x, v) ==
    /\ \A i \in DOMAIN kataHandlers : Has(x.plugins, Plugin(kataHandlers[i], v))
    /\ Has(x.files, Script(v)) /\ Has(x.files, Tarball(v))
    /\ Has(x.units, InstallUnit(v))

\* A worker pool that asked for kata gets it, whole and of ONE version, however
\* many replicas of different versions have had the OSC, and not at all while
\* the webhook is down (the comments of Mutate and on FailurePolicy).
KataPoolsInstall ==
    \A o \in Stored :
        o[2] = "reconcile" /\ osc[o].label /\ ~osc[o].deleting =>
            \E v \in Versions : Installs(osc[o], v)

\* No list of an OSC has two entries of one key: a replica of another version
\* replaces what an earlier one added.
NoDuplicates ==
    \A o \in Stored : \A list \in {osc[o].plugins, osc[o].files, osc[o].units} :
        \A i, j \in DOMAIN list : list[i].key = list[j].key => i = j

\* The webhook only ever adds behind what the others wrote, in their order.
ForeignKept ==
    \A o \in Stored :
        LET base == Base(o, osc[o].label, osc[o].containerd)
            Begins(short, long) ==
                Len(short) <= Len(long) /\ \A i \in DOMAIN short : long[i] = short[i]
        IN /\ Begins(base.plugins, osc[o].plugins)
           /\ Begins(base.files, osc[o].files)
           /\ Begins(base.units, osc[o].units)

\* "Nodes that do not use Kata are not touched": OSCs of other pools and the
\* provision OSCs are stored as they were written.
OthersUntouched ==
    \A o \in Stored :
        o[2] = "provision" \/ ~osc[o].label =>
            osc[o] = [Base(o, osc[o].label, osc[o].containerd) EXCEPT !.deleting = osc[o].deleting]
==============================================================================
