---------------------------- MODULE ShootValidator ----------------------------
(***************************************************************************)
(* The admission webhook for Shoots, in front of one Shoot whose           *)
(* CloudProfile changes under it.                                          *)
(*                                                                         *)
(*   profile   the capabilities of the machine types in the CloudProfile   *)
(*   seen      the CloudProfile in the webhook's cache, NoProfile until it *)
(*             is there                                                    *)
(*   shoot     the Shoot on the API server, NoShoot before and after       *)
(*   changes   changes of the spec and of the CloudProfile so far          *)
(***************************************************************************)
EXTENDS Naturals

CONSTANTS
    Pools,        \* names of worker pools
    Machines,     \* names of machine types
    Capabilities, \* capabilities, <<name, value>>
    Required,     \* those the webhook was started with
    Rests,        \* what a spec has besides the workers, such as a version
    NoMachine,    \* the CloudProfile does not have the machine type
    NoWorker,     \* the Shoot does not have the pool
    NoProfile,    \* the cache does not have the CloudProfile
    NoShoot,
    MaxChanges    \* bound on changes

Profiles == [Machines -> SUBSET Capabilities \cup {NoMachine}]
Workers == [machine : Machines, kata : BOOLEAN]

Specs == [workers : [Pools -> Workers \cup {NoWorker}], rest : Rests]

\* deleting  the deletion timestamp
\* asked     an operation annotation that gardenlet has yet to take away
Shoot(spec, deleting, asked) == [spec |-> spec, deleting |-> deleting, asked |-> asked]
Shoots == [spec : Specs, deleting : BOOLEAN, asked : BOOLEAN]

\* Without a required capability the webhook does not start.
ASSUME ValidatorAssumption ==
    /\ Required # {}
    /\ Required \subseteq Capabilities
    /\ NoProfile \notin Profiles
    /\ NoShoot \notin Shoots
    /\ MaxChanges \in Nat

VARIABLES profile, seen, shoot, changes

vars == <<profile, seen, shoot, changes>>
-------------------------------------------------------------------------------
TypeOK ==
    /\ profile \in Profiles
    /\ seen \in Profiles \cup {NoProfile}
    /\ shoot \in Shoots \cup {NoShoot}
    /\ changes \in 0..MaxChanges

Init ==
    /\ profile \in Profiles
    /\ seen \in {profile, NoProfile}
    /\ shoot = NoShoot
    /\ changes = 0
-------------------------------------------------------------------------------
(* The validator.                                                          *)

workerUsesKata(w) == w # NoWorker /\ w.kata
KataWorkers(spec) == {p \in Pools : workerUsesKata(spec.workers[p])}

\* The CloudProfile is found, and in it the machine type of a kata pool, which has
\* what is required.
Supported(w, cloudProfile) ==
    /\ cloudProfile # NoProfile
    /\ cloudProfile[w.machine] # NoMachine
    /\ Required \subseteq cloudProfile[w.machine]

AllSupported(spec, cloudProfile) ==
    \A p \in KataWorkers(spec) : Supported(spec.workers[p], cloudProfile)

\* Mutant: only a change of the workers is validated.
ValidateWorkers(new, old, cloudProfile) ==
    \/ new.deleting
    \/ old # NoShoot /\ old.spec.workers = new.spec.workers
    \/ AllSupported(new.spec, cloudProfile)

\* Mutant: updates that leave the spec alone are validated, too.
ValidateAll(new, old, cloudProfile) ==
    new.deleting \/ AllSupported(new.spec, cloudProfile)

\* Mutant: neither deletions nor unchanged specs are let through.
ValidateAlways(new, old, cloudProfile) == AllSupported(new.spec, cloudProfile)

\* A Shoot without workers has no kata pool; neither needs the CloudProfile.
Validate(new, old, cloudProfile) ==
    \/ new.deleting
    \/ old # NoShoot /\ old.spec = new.spec
    \/ AllSupported(new.spec, cloudProfile)

\* The ObjectSelector: Gardener labels a Shoot with the types of its container
\* runtimes, and a request is sent if the old or the new object has the label.
Labelled(s) == s # NoShoot /\ KataWorkers(s.spec) # {}
Admitted(new, old) ==
    Labelled(new) \/ Labelled(old) => Validate(new, old, seen)
-------------------------------------------------------------------------------
(* The API server and those who write (external).                          *)

Change ==
    /\ changes < MaxChanges
    /\ changes' = changes + 1

Write(new) ==
    /\ Admitted(new, shoot)
    /\ shoot' = new
    /\ UNCHANGED <<profile, seen>>

Create ==
    /\ shoot = NoShoot
    /\ Change
    /\ \E spec \in Specs : Write(Shoot(spec, FALSE, TRUE))

\* A user or the maintenance changes one worker pool or the rest.
ChangeSpec ==
    /\ shoot # NoShoot
    /\ Change
    /\ \/ \E p \in Pools, w \in Workers \cup {NoWorker} :
            /\ w # shoot.spec.workers[p]
            /\ Write(Shoot([shoot.spec EXCEPT !.workers[p] = w], shoot.deleting, TRUE))
       \/ \E rest \in Rests \ {shoot.spec.rest} :
            Write(Shoot([shoot.spec EXCEPT !.rest = rest], shoot.deleting, TRUE))

\* gardenlet takes the annotation away when it has done the operation.
EndOperation ==
    /\ shoot # NoShoot
    /\ shoot.asked
    /\ Write(Shoot(shoot.spec, shoot.deleting, FALSE))
    /\ UNCHANGED changes

\* The deletion timestamp is set by DELETE, which the webhook does not see.
Delete ==
    /\ shoot # NoShoot
    /\ ~shoot.deleting
    /\ shoot' = Shoot(shoot.spec, TRUE, shoot.asked)
    /\ UNCHANGED <<profile, seen, changes>>

\* gardenlet removes the finalizer, an update; then the Shoot is gone.
RemoveFinalizer ==
    /\ shoot # NoShoot
    /\ shoot.deleting
    /\ Admitted(shoot, shoot)
    /\ shoot' = NoShoot
    /\ UNCHANGED <<profile, seen, changes>>

ChangeProfile ==
    /\ Change
    /\ \E m \in Machines, c \in SUBSET Capabilities \cup {NoMachine} :
        /\ c # profile[m]
        /\ profile' = [profile EXCEPT ![m] = c]
    /\ UNCHANGED <<seen, shoot>>

SyncProfile ==
    /\ seen # profile
    /\ seen' = profile
    /\ UNCHANGED <<profile, shoot, changes>>

Next ==
    \/ Create \/ ChangeSpec \/ EndOperation \/ Delete \/ RemoveFinalizer
    \/ ChangeProfile \/ SyncProfile

Spec == Init /\ [][Next]_vars

\* gardenlet goes on with what it was asked for.
FairSpec == Spec /\ WF_vars(EndOperation) /\ WF_vars(RemoveFinalizer) /\ WF_vars(SyncProfile)
-------------------------------------------------------------------------------
(* Properties.                                                             *)

\* A spec change never leaves a Shoot with a kata pool on machines that lack a
\* required capability, be it in the changed pool or in one that has lost its
\* capability since, though nothing but the version changes ("any spec change
\* re-runs this validation").
NewSpecSupported ==
    [][shoot' # NoShoot /\ ~shoot'.deleting
         /\ (shoot # NoShoot => shoot.spec # shoot'.spec)
       => \A p \in Pools :
            LET w == shoot'.spec.workers[p] IN
            w # NoWorker /\ w.kata =>
                /\ seen # NoProfile
                /\ seen[w.machine] # NoMachine /\ Required \subseteq seen[w.machine]]_vars

\* Operations on a Shoot are completed though its CloudProfile has lost the
\* capability in the meantime: updates of metadata are let through.
OperationsEnd ==
    (shoot # NoShoot /\ shoot.asked) ~> (shoot = NoShoot \/ ~shoot.asked)

\* So are deletions, also after a last change of the spec.
DeletionsEnd ==
    (shoot # NoShoot /\ shoot.deleting) ~> (shoot = NoShoot)
==============================================================================
