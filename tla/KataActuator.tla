----------------------------- MODULE KataActuator -----------------------------
(***************************************************************************)
(* The ContainerRuntime controller in one shoot namespace of the seed: it  *)
(* keeps the shoot-wide RuntimeClasses deployed, through one               *)
(* ManagedResource, as long as some worker pool requires kata.             *)
(*                                                                         *)
(*   api      the ContainerRuntimes on the API server                      *)
(*   watch    changes of them on their way to the informer                 *)
(*   cache    the ContainerRuntimes in the informer cache, which the       *)
(*            manager's client reads                                       *)
(*   job      what the worker of each ContainerRuntime does                *)
(*   step     its next call                                                *)
(*   mr, keep the ManagedResource and its spec.keepObjects                 *)
(*   classes  are the RuntimeClasses in the shoot?                         *)
(*   flow     what gardenlet does with the shoot                           *)
(*   changes, faults   so many of them so far                              *)
(*                                                                         *)
(* Jobs of different ContainerRuntimes run concurrently; one API call of a *)
(* job is one step.                                                        *)
(***************************************************************************)
EXTENDS Naturals, Sequences

CONSTANTS
    Kata,       \* ContainerRuntimes of type kata
    Foreign,    \* ContainerRuntimes of other types in the namespace
    Serialised, \* does gardenlet finish one kind of change before another?
    MaxChanges, \* bound on what gardenlet changes
    MaxFaults   \* bound on failing calls and restarts of the controller

ASSUME ActuatorAssumption ==
    /\ Kata \cap Foreign = {}
    /\ Serialised \in BOOLEAN
    /\ MaxChanges \in Nat
    /\ MaxFaults \in Nat

VARIABLES api, watch, cache, job, step, mr, keep, classes, flow, changes, faults

vars == <<api, watch, cache, job, step, mr, keep, classes, flow, changes, faults>>
objects == <<api, watch>>
workers == <<job, step>>
managed == <<mr, keep>>
-------------------------------------------------------------------------------
Names == Kata \cup Foreign

\* fin   does it carry the controller's finalizer?
\* todo  what the operation annotation or an unsuccessful last operation
\*       asks for; "migrated" when the last operation is a finished migration
Object(phase, fin, todo) == [phase |-> phase, fin |-> fin, todo |-> todo]
Objects == [phase : {"absent", "live", "deleting"}, fin : BOOLEAN,
            todo : {"none", "reconcile", "migrate", "migrated"}]
Absent == Object("absent", FALSE, "none")

Jobs == {"none", "reconcile", "delete", "forceDelete", "migrate"}
JobSteps == {"idle", "create", "list", "keep", "delete", "wait", "release"}

TypeOK ==
    /\ api \in [Names -> Objects]
    /\ watch \in Seq(Names \X Objects)
    /\ cache \in [Names -> Objects]
    /\ job \in [Kata -> Jobs]
    /\ step \in [Kata -> JobSteps]
    /\ mr \in {"absent", "live", "deleting"}
    /\ keep \in BOOLEAN
    /\ classes \in BOOLEAN
    /\ flow \in {"reconcile", "migrate", "forceDelete"}
    /\ changes \in 0..MaxChanges
    /\ faults \in 0..MaxFaults

Init ==
    /\ api = [c \in Names |-> Absent]
    /\ watch = <<>>
    /\ cache = api
    /\ job = [c \in Kata |-> "none"]
    /\ step = [c \in Kata |-> "idle"]
    /\ mr = "absent"
    /\ keep = FALSE
    /\ classes = FALSE
    /\ flow = "reconcile"
    /\ changes = 0
    /\ faults = 0

\* A write to the API server reaches the cache later.
Write(c, o) ==
    /\ api' = [api EXCEPT ![c] = o]
    /\ watch' = IF o = api[c] THEN watch ELSE Append(watch, <<c, o>>)

Sync ==
    /\ watch # <<>>
    /\ cache' = [cache EXCEPT ![Head(watch)[1]] = Head(watch)[2]]
    /\ watch' = Tail(watch)
    /\ UNCHANGED <<api, workers, managed, classes, flow, changes, faults>>
-------------------------------------------------------------------------------
(* gardenlet (external).                                                   *)

Settled == \A c \in Kata : api[c].phase = "live" => api[c].todo = "none"
Deleting == \E c \in Kata : api[c].phase = "deleting"

Change ==
    /\ changes < MaxChanges
    /\ changes' = changes + 1
    /\ UNCHANGED <<cache, workers, managed, classes, faults>>

\* A worker pool of the runtime's type joins the shoot; the control plane is
\* restored; every reconciliation of the shoot asks for one here.
Deploy(c) ==
    /\ flow = "reconcile"
    /\ Serialised => ~Deleting
    /\ \/ api[c] = Absent
       \/ api[c].phase = "live" /\ api[c].todo = "none"
    /\ Write(c, Object("live", api[c].fin, "reconcile"))
    /\ Change
    /\ UNCHANGED flow

\* The worker pool goes, or its control plane has been migrated away.
Remove(c) ==
    /\ api[c].phase = "live"
    /\ flow = "migrate" => api[c].todo = "migrated"
    /\ Serialised /\ flow = "reconcile" => Settled
    /\ Write(c, IF api[c].fin THEN Object("deleting", TRUE, api[c].todo) ELSE Absent)
    /\ Change
    /\ UNCHANGED flow

StartFlow(f) ==
    /\ flow = "reconcile"
    /\ f # "reconcile"
    /\ Serialised => Settled /\ ~Deleting
    /\ flow' = f
    /\ Change
    /\ UNCHANGED objects

Migrate(c) ==
    /\ flow = "migrate"
    /\ api[c].phase = "live"
    /\ api[c].todo \in {"none", "reconcile"}
    /\ Write(c, Object("live", api[c].fin, "migrate"))
    /\ UNCHANGED <<cache, workers, managed, classes, flow, changes, faults>>

\* The namespace is empty: the control plane can be restored.
EndMigration ==
    /\ flow = "migrate"
    /\ \A c \in Kata : api[c] = Absent
    /\ mr = "absent"
    /\ flow' = "reconcile"
    /\ UNCHANGED <<objects, cache, workers, managed, classes, changes, faults>>
-------------------------------------------------------------------------------
(* gardener-resource-manager (external).                                   *)

Apply ==
    /\ mr = "live"
    /\ ~classes
    /\ classes' = TRUE
    /\ UNCHANGED <<objects, cache, workers, managed, flow, changes, faults>>

Finalize ==
    /\ mr = "deleting"
    /\ mr' = "absent"
    /\ keep' = FALSE
    /\ classes' = (classes /\ keep)
    /\ UNCHANGED <<objects, cache, workers, flow, changes, faults>>
-------------------------------------------------------------------------------
(* The generic ContainerRuntime reconciler (external): it picks the         *)
(* operation from the cached object and owns the finalizer.                *)

Begin(c, j, s) ==
    /\ job' = [job EXCEPT ![c] = j]
    /\ step' = [step EXCEPT ![c] = s]
    /\ UNCHANGED <<cache, managed, classes, flow, changes, faults>>

Goto(c, s) ==
    /\ step' = [step EXCEPT ![c] = s]
    /\ UNCHANGED <<cache, job, classes, flow, changes, faults>>

\* Mutant: the operation counts as successful when it starts.
ForgetReconcile(c) ==
    /\ step[c] = "idle"
    /\ cache[c].phase = "live" /\ cache[c].todo = "reconcile"
    /\ api[c] = cache[c]
    /\ Write(c, Object("live", TRUE, "none"))
    /\ Begin(c, "reconcile", "create")

\* The finalizer is added under an optimistic lock.
BeginReconcile(c) ==
    /\ step[c] = "idle"
    /\ cache[c].phase = "live" /\ cache[c].todo = "reconcile"
    /\ api[c] = cache[c]
    /\ Write(c, Object("live", TRUE, "reconcile"))
    /\ Begin(c, "reconcile", "create")

\* Nothing to do without the finalizer.
BeginDelete(c) ==
    /\ step[c] = "idle"
    /\ cache[c].phase = "deleting" /\ cache[c].todo # "migrate"
    /\ cache[c].fin /\ api[c].fin
    /\ Begin(c, IF flow = "forceDelete" THEN "forceDelete" ELSE "delete", "list")
    /\ UNCHANGED objects

BeginMigrate(c) ==
    /\ step[c] = "idle"
    /\ cache[c].todo = "migrate" /\ api[c].todo = "migrate"
    /\ Begin(c, "migrate", "keep")
    /\ UNCHANGED objects

\* The actuator returned: the last operation succeeded, and what was deleted
\* or migrated loses the finalizer, and with it a deleted object goes.
Finish(c) ==
    /\ step[c] = "release"
    /\ Write(c, CASE job[c] = "reconcile" /\ api[c].todo = "reconcile" ->
                       Object(api[c].phase, api[c].fin, "none")
                  [] job[c] = "reconcile" /\ api[c].todo # "reconcile" -> api[c]
                  [] job[c] = "migrate" /\ api[c].phase = "live" ->
                       Object("live", FALSE, "migrated")
                  [] OTHER -> Absent)
    /\ Begin(c, "none", "idle")

\* A call fails, or the wait times out: the job is retried from its start.
Retry(c) ==
    /\ step[c] # "idle"
    /\ job' = [job EXCEPT ![c] = "none"]
    /\ step' = [step EXCEPT ![c] = "idle"]
    /\ \/ step[c] = "wait" /\ mr # "absent" /\ UNCHANGED faults
       \/ faults < MaxFaults /\ faults' = faults + 1
    /\ UNCHANGED <<objects, cache, managed, classes, flow, changes>>

\* The controller restarts and lists the ContainerRuntimes anew.
Restart ==
    /\ faults < MaxFaults
    /\ faults' = faults + 1
    /\ job' = [c \in Kata |-> "none"]
    /\ step' = [c \in Kata |-> "idle"]
    /\ cache' = api
    /\ watch' = <<>>
    /\ UNCHANGED <<api, managed, classes, flow, changes>>
-------------------------------------------------------------------------------
(* The actuator.                                                           *)

\* managedresources.CreateForShoot, keepObjects = false: creates or patches,
\* and a patch leaves a deletion timestamp as it is. It writes a Secret first, of
\* constant content, on which nothing here depends: failing after that is Retry.
Reconcile(c) ==
    /\ step[c] = "create"
    /\ mr' = IF mr = "absent" THEN "live" ELSE mr
    /\ keep' = FALSE
    /\ Goto(c, "release")
    /\ UNCHANGED objects

\* Mutant: a ContainerRuntime that is being deleted still counts.
RequiredByDeleted(c) ==
    \E d \in Names \ {c} : d \in Kata /\ cache[d].phase # "absent"

isKataStillRequired(c) ==
    \E d \in Names \ {c} : d \in Kata /\ cache[d].phase = "live"

\* Mutant: the job waits for the others to go instead of leaving it to them.
DeleteLast(c) ==
    /\ step[c] = "list"
    /\ Goto(c, IF isKataStillRequired(c) THEN "list" ELSE "delete")
    /\ UNCHANGED <<objects, managed>>

Delete(c) ==
    /\ step[c] = "list"
    /\ Goto(c, IF isKataStillRequired(c) THEN "release" ELSE "delete")
    /\ UNCHANGED <<objects, managed>>

\* Mutant: without a managed resource the migration fails.
KeepObjectsStrict(c) ==
    /\ step[c] = "keep"
    /\ keep' = (mr # "absent")
    /\ Goto(c, IF mr = "absent" THEN "failed" ELSE "delete")
    /\ UNCHANGED <<objects, mr>>

\* Mutant: objects are kept by the first of the migrating jobs only.
KeepObjectsOnce(c) ==
    /\ step[c] = "keep"
    /\ keep' = (mr # "absent" /\ ~keep)
    /\ Goto(c, "delete")
    /\ UNCHANGED <<objects, mr>>

\* SetKeepObjects does nothing without a managed resource.
KeepObjects(c) ==
    /\ step[c] = "keep"
    /\ keep' = (mr # "absent")
    /\ Goto(c, "delete")
    /\ UNCHANGED <<objects, mr>>

\* Mutant: nobody waits for the managed resource.
DeleteWithoutWait(c) ==
    /\ step[c] = "delete"
    /\ mr' = IF mr = "absent" THEN mr ELSE "deleting"
    /\ Goto(c, "release")
    /\ UNCHANGED <<objects, keep>>

deleteManagedResource(c) ==
    /\ step[c] = "delete"
    /\ mr' = IF mr = "absent" THEN mr ELSE "deleting"
    /\ Goto(c, IF job[c] = "forceDelete" THEN "release" ELSE "wait")
    /\ UNCHANGED <<objects, keep>>

\* WaitUntilDeleted; it may also time out, see Retry.
Deleted(c) ==
    /\ step[c] = "wait"
    /\ mr = "absent"
    /\ Goto(c, "release")
    /\ UNCHANGED <<objects, managed>>
-------------------------------------------------------------------------------
Gardenlet ==
    \/ \E c \in Names : Deploy(c) \/ Remove(c)
    \/ \E f \in {"migrate", "forceDelete"} : StartFlow(f)

Work(c) ==
    \/ BeginReconcile(c) \/ BeginDelete(c) \/ BeginMigrate(c) \/ Finish(c)
    \/ Reconcile(c) \/ Delete(c) \/ KeepObjects(c) \/ deleteManagedResource(c)
    \/ Deleted(c)

Next ==
    \/ Gardenlet \/ EndMigration \/ Sync \/ Apply \/ Finalize \/ Restart
    \/ \E c \in Kata : Migrate(c) \/ Work(c) \/ Retry(c)

Spec == Init /\ [][Next]_vars

\* The informer, every worker and the resource manager go on; so does a
\* migration once gardenlet has begun it.
FairSpec ==
    /\ Spec
    /\ WF_vars(Sync) /\ WF_vars(Apply) /\ WF_vars(Finalize)
    /\ \A c \in Kata : WF_vars(Work(c)) /\ WF_vars(Migrate(c))
-------------------------------------------------------------------------------
(* Properties.                                                             *)

Reconciled(c) == api[c].phase = "live" /\ api[c].fin /\ api[c].todo = "none"

\* The managed resource stays as long as a worker pool requires kata (the
\* comment in Delete): while some ContainerRuntime counts as reconciled it is
\* there and not being deleted.
ReconciledHasResource ==
    flow = "reconcile" /\ (\E c \in Kata : Reconciled(c)) => mr = "live"

\* When the last kata ContainerRuntime has gone so has, or will, the managed
\* resource: concurrent deletions never all leave it to the others.
NoResourceLeft ==
    (\A c \in Kata : api[c] = Absent) => mr # "live"

\* A migration never takes the RuntimeClasses from the shoot: no pool's job
\* undoes keepObjects of another's, and no retry or restart forgets it.
MigrationKeepsClasses ==
    [][flow = "migrate" /\ classes => classes']_vars

\* A ContainerRuntime that is being deleted goes, whatever times out or
\* restarts: the jobs never wait on each other for good.
DeletionFinishes ==
    \A c \in Kata : api[c].phase = "deleting" ~> api[c].phase # "deleting"

\* In the end a shoot with a kata worker pool has the RuntimeClasses.
ClassesSettle ==
    <>[](flow = "reconcile" /\ (\E c \in Kata : api[c].phase = "live") => classes)
==============================================================================
