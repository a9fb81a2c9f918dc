# Verification of gardener-extension-runtime-kata

TLA+ models of the Gardener extension that installs Kata Containers on the
nodes of a shoot, the TLC runs that check them on small instances, and TLAPS
proofs of the properties that hold for every instance.

Paths below are relative to `src/`.

## The system

| Part | Source | State it keeps | Operations |
| --- | --- | --- | --- |
| OSC webhook | `pkg/webhook/controlplane` | none of its own; reads `Cluster` from the manager's cache, writes the OperatingSystemConfig (OSC) | `Mutate`: early returns, containerd handlers, files, unit |
| Installation script and unit | the script in `mutator.go:185-252` | the tree under `/opt/kata` of a node, the unit's state | test, clean, unpack, sed, mark, publish, prune, check |
| ContainerRuntime actuator | `pkg/controller` | one ManagedResource per shoot namespace | `Reconcile`, `Delete`, `ForceDelete`, `Migrate`, `Restore` |
| Shoot validator | `pkg/admission/validator` | required capabilities; reads `CloudProfile` from a cache | `Validate` |
| Image vector | `imagevector` | the embedded vector, the `IMAGEVECTOR_OVERWRITE` file | `FindInstallationImage`, `VersionFromImage` |
| Admission options | `pkg/admission/cmd`, start of `cmd/...-admission-runtime-kata/app` | command line, completed config, `DefaultAddOptions` | `AddFlags`, `Complete`, `ApplyRequiredCapabilities` |
| Controller manager | `cmd/gardener-extension-runtime-kata/app` | manager, cache and controller options | start-up |
| RuntimeClass chart | `charts/internal/kata`, `pkg/charts` | none | render |
| Health check | `pkg/healthcheck` | none; registers no check | registration |
| Config API | `pkg/apis/config` | none | generated conversions |
| Installation image build | `hack/install-binaries.sh`, `Makefile`, `cmd/...-installation` | downloads in `/tmp`, `kodata`, sentinel and version file, registry | `install-binaries`, `installation-image`, `clean` |
| Package release check | `hack/check-package-release.sh`, `KATA_VERSION`, `imagevector/images.yaml` | the repository's commits | check of a pull request |
| Chart release | `hack/push-artifacts.sh`, `Makefile` | `*-images.txt`, `images.json`, `artifacts/`, registry | push images, patch values, package and push charts |
| Deployment charts | `charts/gardener-extension-*` | none | Helm templates |

How they interact:

1. A user writes a Shoot with a worker pool that lists the container runtime
   `kata`. The **Shoot validator** refuses it if the machine type of the pool
   lacks a required capability in the CloudProfile.
2. gardenlet creates one `ContainerRuntime` per kata pool on the seed. The
   **actuator** keeps ONE ManagedResource for all of them; the
   resource-manager applies the RuntimeClasses it holds to the shoot.
3. gardenlet writes a provision OSC and a reconcile OSC per pool. The **OSC
   webhook** adds the containerd handlers, the tarball, the script and the unit
   to the reconcile OSC. It takes the Kata version from the **image vector**.
   Which payload a version stands for was decided before: the **package release
   check** keeps packaging changes and tags in step, the **image build** pushes
   the payload under its tag, and the **chart release** writes that tag into an
   overwrite of the image vector.
4. gardener-node-agent applies the OSC on each node: it delivers script and
   tarball and restarts the unit, renders the handlers and restarts containerd.
   The **script** installs the version into a directory of its own and prunes
   the others down to the shim; containerd starts the shim that its handler names.

What is hard about it:

- the script may be killed between any two commands, or inside `rm`, `tar` and
  the prune loop, and has only the file system to remember by;
- files of the OSC arrive one at a time and the unit is enabled, so at a boot
  the script may run before its tarball is there;
- handlers and payload of a version reach a node separately, and pods of the
  version before it are still running;
- the actuators of several ContainerRuntimes work on one ManagedResource, five
  at a time, each from a listing of a cache that lags behind;
- deletions wait two minutes and are retried, migrations keep objects that a
  reconciliation would un-keep, and the controller may restart in between;
- replicas of different versions of the webhook answer during a rollout, on
  OSCs that may already carry another version's entries, reading a cached
  Cluster;
- the CloudProfile that a Shoot was validated against changes afterwards;
- the build of the image is interrupted or fails half-way, over files that earlier
  builds of other versions have left;
- pull requests cross, and a tag that is right on a branch is taken after the merge;
- a release ends between its pushes, and image references have ports, digests,
  and suffixes that each reader treats in its own way.

What makes each part correct: see the properties of its module below.

## The modules

### KataInstall (KataInstallProofs, AtomicInstall)

The script, the unit and the directory tree of a node. Every command of the
script is an action; `rm -rf`, `tar` and the prune loop take one step per entry
they touch. `dirs`, `marked` and `items` are the directories `/opt/kata/<v>`
and `/opt/kata/<v>.staging`, their `.installed` markers, and which of the
payload's parts (`bin`, `share`, `runtime-rs`) are intact in them; `seds`
counts the passes of `sed` over the files that it rewrites. `pc` is the unit:
`"done"` is active (exited), `"failed"` is failed, `"idle"` not started.
`DeliverScript`, `DeliverTarball`, `Boot`, `RestartUnit` and `Crash` are
gardener-node-agent, systemd and the node, modelled from the unit's text and
its `FilePaths`; node-agent restarts the unit once both files are there.
A crash is any loss of the process; what has reached the file system stays
(no reordering of writes by the disk). `osc` is the version in the OSC.
`Rollback` says whether it may go back to a version it has carried before.
`CommandFails` is `set -e`: any command of the script may fail, on a full disk or
a file system that is read-only, and the host may fail the closing checks.
`MaxFaults` bounds crashes and failing commands.

`AtomicInstall` is what the directory tree promises without staging
directories, markers, processes or crashes: a version shows up whole, parts go
only from other versions and only behind a published current one, the shim
never goes. `KataInstall` implements it (`ImplementsAtomicInstall`) with
`content[v]` the parts in `/opt/kata/<v>` and `current` the version of the
process. `Clean` is a stutter there: that it never removes a part of a
published directory is what the refinement shows (a published directory has
its marker, so the script does not get to `clean`).

### KataNode (KataNodeProofs)

The node as its pods see it: `KataInstall` with containerd on top, so every
action of the installation is one of the node's (`NodeSpec => Spec` is a
theorem). `rendered` is the version in containerd's configuration file,
`handler` that in the process that runs, `pods` the version of each pod's shim.
`RenderHandlers` and `RestartContainerd` are gardener-node-agent, at any time
after the OSC has changed, in no order with script and tarball. `Usable` says
what `values` (`mutator.go:269-294`) puts into a handler: paths into the
version's own directory, whose configuration was rewritten once. A pod starts
only with a usable handler and otherwise stays pending. `StartContainerd` obeys
`Before=containerd.service`: it waits for the unit to end, however that ends.
`NodeDown` is a crash that takes containerd and the pods along; `KillScript` one
that does not. External: containerd's and node-agent's steps as such. One `osc`
stands for the handlers, the script and the tarball of an OSC:
`KataPoolsInstall` of `OSCAdmission` shows that a stored OSC has them of one version.

### KataActuator (KataActuatorProofs)

One shoot namespace: the ContainerRuntimes on the API server (`api`), their
way to the informer (`watch`, in order) and the cache that `List` reads; the
job of the worker of each ContainerRuntime, one API call per step; the
ManagedResource (`mr`, `keep`) and whether the RuntimeClasses are in the shoot.
The actuator is `Reconcile` (its `CreateForShoot`, which writes a Secret and then the
ManagedResource; the content of the Secret is constant and no property depends on
it, so the two are one step, and a failure in between is one before the second),
`Delete` (list and decide),
`KeepObjects` and `deleteManagedResource` with `Deleted` for the end of the
wait; `Restore` calls `Reconcile`. External: gardenlet, the generic reconciler
(finalizer, last operation, retries) and gardener-resource-manager.
Wait timeouts are `Retry` in step `"wait"` and cost no fault; any other failing
call does.
`Serialised` says whether gardenlet finishes one kind of change (deploying or
removing ContainerRuntimes, a migration) before it begins another, which it
does within one shoot reconciliation but nothing in this repository makes it.

### KataMutator, OSCAdmission (OSCAdmissionProofs)

`KataMutator` is `Mutate` as a function of OSC, Cluster and version; the lists
of the OSC are sequences of records with a key (plugin path, file path, unit
name), so "upsert", order and duplicates are what they are in the code. A
file's or unit's text is represented by the version in it. `OSCAdmission` puts
replicas of it in front of the API server: gardenlet writes whole OSCs, others
patch metadata (the webhook then gets what it made earlier), the shoot changes
behind the cached Cluster, replicas stop and start with other versions, and a
running one changes its version when its overwrite does, since the image vector
is read again on every mutation (`imagevector.go:41-48`).
`FreshCluster` says whether gardenlet's write of an OSC finds the cache up to
date. The object and namespace selectors and `FailurePolicy: Fail` of `add.go`
are in `Selected` and `Store`. The image vector is taken to resolve: the other
case refuses the write, as a replica that is down does.

### ShootValidator (ShootValidatorProofs)

`Validate` in front of one Shoot, with a CloudProfile that changes and a cache
that lags, in the beginning without any CloudProfile (`NoProfile`, for which `Validate`
refuses). A spec is its worker pools and a `rest`, of which the code only asks whether
it has changed. `Admitted` is the webhook's object selector: Gardener's admission
labels a Shoot with the types of its container runtimes, and the request is sent if
the old or the new object has the label. Denial texts are left out. A Shoot without workers or without kata
pools is accepted before the CloudProfile is read; in the model it is accepted
because the quantifier over its kata pools is empty.

### ImageVersion, AdmissionOptions, PushArtifacts (Tokens, Configuration, ConfigurationProofs)

`Tokens` has Go's `strings.Cut`, `SplitN(_, 2)` and `s[LastIndex+1:]`, and the
shell's `${s%sep*}`, on sequences of tokens; a token is a separator or a run of
characters that the code does not tell apart. `ImageVersion` reads the version
off an image vector entry in either of its forms; `AdmissionOptions` takes the
command line to the requirements that the validator is built with.
`PushArtifacts` is `make artifacts` and its script: the operators with the names
of the script's functions take a reference apart, `Chart` puts it into values,
and `Rendered` is what the controller chart's template makes of it,
`RenderedRuntime` the runtime chart's, which knows no digest without a tag; the
virtual-garden chart deploys no image. For the tag `latest` ko prints the digest
alone, and the job then ends without a chart version. An installation image that the
registry has is used, or built again when the registry cannot be asked. A job may end before
any of its pushes (`Begin` does not wait for the job before), `helm push` replaces
a chart of the same name and version, and `Deploy` starts a controller from a
chart that is in the registry and reads the version with the operators of
`ImageVersion`. Without an admission image the admission charts are skipped.
`Configuration` composes the three: its `source` is one of the binaries over its
own texts or a release, so that one run covers them all. It also states what is
assumed of the texts: `Symbols` are the tokens that they consist of, `Texts` the
sequences of these; the assumptions are listed with the proofs.

### PayloadBuild (PayloadBuildProofs)

`make install-binaries` and `make installation-image` on one machine. `fresh` is
what make computes from modification times: the sentinel `.kata_installed` is
newer than the script, the version files and what is in `kodata`. `cache` is
what `/tmp` holds of each release, in the beginning anything at all. The
script's downloads, the begin and the end of `tar` (which writes into `kodata`
itself) and `touch` are steps; merging and trimming are part of packing, since
they work in a private directory. `Interrupt` ends everything at once, as a
signal does; `Fail` is any command of the script that ends it, after which make
does what its recipe says: `AfterBinaries`, also for a failure. `disturbed` is a
history variable: a command of a build has failed, or the tree was cleaned. Whether the
registry answers is the second disjunct of `Inspect`. External: signals; ko
pushes what `kodata` holds.

### PackageRelease (PackageReleaseProofs)

Pull requests as the commit they branched off and the commit they propose, a
three-way merge by line, and `Check`, in the two ways the script finds its
base: `PULL_BASE_SHA`, which a CI that tests the merged tree (Prow, whose `OWNERS`
files the repository has) sets to the head of main, or the merge base, on the branch
alone. `Merge` takes either. A packaging file's content is the set of
patches in it, so a revert is a change like any other. `Open` proposes any
commit, with the tag of `make generate` or without. `Publish` is
`installation-image`, at main or at the head of a pull request, since the recipe does
not ask where it runs and the tag has no postfix for a branch. `Backwards` says whether
a proposal may lower the version or the release. `lapses` is a history variable:
`"merge"` when a pull request was merged that only its branch was checked for,
`"push"` when an image was pushed from a tree other than main. `TagHasPayload` and
`PublishedStays` speak of behaviours without either; `TagInSync` of all.

## The runs

| Run | Question | Result |
| --- | --- | --- |
| `node_upgrade` | Upgrades over three versions, one fault: does every run install and prune the others, is the node ever left without a version that can start pods, does it settle on that of the OSC? | holds |
| `node_rollback` | Two versions back and forth, two faults, a pod that comes and goes: is a directory ever half-built, the unit active over nothing, a shim or a configuration taken from under a pod; is `AtomicInstall` implemented? | holds |
| `install_rollback_broken` | Does the script install the version when the OSC returns to one it had pruned? | **violated** |
| `actuator_serial` | Two kata pools and one other, changes serialised, timeouts, one failure or restart: is the ManagedResource there exactly while needed, do migrations keep the classes, do deletions finish? | holds |
| `actuator_race` | The same first question when changes overlap | **violated** |
| `actuator_leak` | Is the ManagedResource removed with the last ContainerRuntime when changes overlap? | **violated** |
| `osc_fresh` | Two pools, two replicas, two versions: is each stored OSC whole, of one version, free of duplicates, and are others left alone? | holds |
| `configuration` | Is what the admission component serves its command line, and never nothing? Is the controller's version a safe name and the tag of the image, in each form? After two releases that may end anywhere: do the charts name images that are there, does a controller read the tag that was pushed, do dev builds and releases stay apart? | holds |
| `payload_build` | Builds of two versions, interrupted twice, over any download cache, with a failing command or `make clean`: is only verified data packed, is every pushed image whole until the first failure, does the next build get there? | holds |
| `payload_failed` | Is a pushed image whole when a command fails? | **violated** |
| `package_release` | Pull requests that cross, versions that only grow, checks before or after the merge, images from any tree: does main always name the tag of its own image; and while merged trees were checked and images came from main, does a tag mean one payload, and stay? | holds |
| `shoot_validator` | Does each accepted spec change meet the requirements, and do operations and deletions end when the CloudProfile changes? | holds |

Six more configurations belong to questions that have an answer but no run of
their own; each ends in a counterexample when TLC is started by hand:
`KataNodeSwitch.cfg`, `OSCAdmissionStale.cfg`, `PayloadBuildCleaned.cfg`,
`PackageReleaseReturn.cfg`, `PackageReleaseRace.cfg` and `PackageReleaseBranch.cfg` (below).

Bounds. Three versions are the least at which a run finds two others to prune
of different histories (one pruned to its shim, one whole); two versions do for
the rollback. Two faults let the run that repairs a crash be hit as well; with
three versions there is one (a second one makes the liveness run too long), and
`KataNodeProofs` has the safety of that run for any number. One pod is enough for
properties that speak of each pod alone; where they do not speak of pods there
is none. Two
kata ContainerRuntimes are the least that can race, and five changes take them
through deploy, deploy, remove, remove and one more, or into a migration and
back. Two replicas and two versions give an OSC that both have had; two
changes allow a rollout and a change of the shoot to overlap, or one replica to
go while the other changes its version. Two versions let a
build find another's files, two interruptions let the build that repairs one be hit as well. Two pull requests are the least that cross;
three merges let a third meet what two have left. One patch is enough for two
payloads of a version, and for one that is reverted; `PackageReleaseProofs` is about any
number. Two releases are the least that can
replace each other's charts; their builds are a release, a dev build of the same
commit, one with local changes (`-dirty`), one with the tag `latest`, and one from
a registry without a port that has no admission image. Symmetry is used
only in runs without liveness properties, on sets whose members are only
compared.

Fairness. `node_upgrade`: node-agent delivers, renders and restarts (its
reconciler runs periodically until the OSC is applied), and what systemd has to
start or has started, containerd among it, goes on; releases and faults need not
happen, and there are finitely many. Pods need not start. `actuator_serial`: the informer, the workers and the resource-manager go
on, and a migration that gardenlet has begun; `Work(c)` is fair as a whole, so
a wait that always times out just before the resource goes is excluded by weak
fairness on `Finalize`. No fairness is put on `Retry` or `Restart`.
`payload_build`: make goes on with what it has started (weak fairness on
`Make`; interruptions are finitely many) and somebody asks for the image again
(strong fairness on `MakeImage`, as an interruption or another build takes its
turn in between), which is CI's retry and not the code's.
`shoot_validator`: gardenlet goes on with what was asked, the informer delivers.

### What the counterexamples show

- **A version that was pruned is not installed again** (`install_rollback_broken`,
  `mutator.go:214`). Pruning leaves `runtime-rs` and, as a dot file, the marker
  `.installed` (`"${d}"*` does not match it). When the OSC returns to that
  version the script skips the installation, prunes the version in use, and
  fails at the closing check: the node has no working version until another
  version is released. The same happens with webhook replicas of two versions
  answering in turn during a rollout. The comment at `mutator.go:203-204`
  promises an idempotent installation.
- **A handler may point nowhere until containerd is restarted**
  (`KataNodeSwitch.cfg`, `mutator.go:276-278`). Script and handlers come with one
  OSC but are applied separately: the script of the new version prunes the old
  one, configuration files and all, while the running containerd has the old
  version's handlers. New pods stay pending until node-agent has restarted
  containerd. The other way round, new handlers before the new payload, does the
  same on every upgrade. `PodsCanStart` shows that the gap ends, `PodsKeepShim`
  and `PodsKeepConfig` that running pods do not notice it.
- **The ManagedResource may go while a pool requires kata** (`actuator_race`,
  `actuator_delete.go:26-36`). `List` and `Delete` are separate calls, and the
  list is a cached one: a ContainerRuntime created in between reconciles onto
  the ManagedResource (or onto one that already has its deletion timestamp,
  which a patch does not take away) and counts as reconciled without it. Until
  its next reconciliation the shoot has no RuntimeClasses.
- **The ManagedResource may stay behind** (`actuator_leak`,
  `actuator_delete.go:41`). A pool's job leaves the deletion to another
  ContainerRuntime that it sees alive; if that one is removed before it has got
  the finalizer, no job runs for it and the ManagedResource stays.
- **A kata pool's OSC may be stored without Kata** (`OSCAdmissionStale.cfg`,
  `mutator.go:98`). The object is labelled, so gardenlet knows the pool uses
  kata, but the webhook decides by the cached Cluster and returns without error
  if that is older. `FailurePolicy: Fail` does not help. It is repaired by
  gardenlet's next write of the OSC.
- **An image may be pushed without its payload** (`payload_failed`,
  `Makefile:121`). `$(MAKE) install-binaries; \` drops the exit status: the
  recipe's shell has `pipefail`, not `-e`. ko then pushes an image of whatever
  `kodata` holds, under the version's tag, where the next run finds and uses it.
- **The same after `make clean`** (`PayloadBuildCleaned.cfg`, `Makefile:160`): the tarball
  goes and the sentinel stays, and a file that is missing is not among the
  sentinel's prerequisites (`$(wildcard ...)`, line 73).
- **A tag may be taken** (`PackageReleaseReturn.cfg`, `check-package-release.sh:111`;
  `PackageReleaseRace.cfg`, line 30; `PackageReleaseBranch.cfg`, `Makefile:106-128`). A
  version that differs from the base's passes even if it was published before; two
  branches may raise the release to the same number, each right against its own base; and
  an image may be pushed from a branch. Each time the image in the registry is used
  (`Makefile:111`) and the packaging change is not in it. `package_release` shows that
  testing merged trees, pushing from main and never going back exclude all three.

Both actuator findings need gardenlet to overlap changes of one shoot;
`actuator_serial` shows that it is enough if it does not.

One divergence is not a run: `test/integration/container-runtime/container_runtime.go:87-89`
looks for a shim `containerd-shim-kata-clh-v2`, while `mutator.go:272-278` has
one shim for both handlers.

## The proofs

For every value of the constants, from the named assumptions of the modules:

| Theorem | Says | Argument |
| --- | --- | --- |
| `KataInstallProofs!TypeCorrect` | `TypeOK` | inductive as it stands |
| `NeverHalfBuilt`, `ActiveOverComplete`, `OthersPruned` | `PublishedIntact`, `ActiveIsComplete`, `OnlyShimsRemain` | from `IInv` |
| `ShimsStay` | `ShimsKept`, an action property: no step takes the shim of a published version | `IInv`, one case per action |
| `Implements` | `ImplementsAtomicInstall` | `IInv`; each step a step or a stutter of `AtomicInstall` |
| `UpgradesInstallPayload` | `RunInstallsPayload` if there is no `Rollback` | `IInv` and a further invariant on the order of the versions |
| `KataNodeProofs!ImplementsInstall`, `NodeInstallsSafely` | `NodeSpec => Spec`, and with it the safety of `KataInstall` on the node | each step of the node is one of `KataInstall` or leaves its variables alone |
| `NodeTypeCorrect` | `NodeTypeOK` | the same, and the steps of containerd |
| `PodsShimsStay`, `PodsConfigStays` | `PodsKeepShim`, `PodsKeepConfig` | invariant: the version of each pod is published; the script writes only into staging directories |
| `NeverWithoutVersion`, `SettledStays` | `NeverWithout`, `SettledServes`, if there is no `Rollback` | a step that makes a version unusable is one of the prune loop, on another version than the script's own, which is usable then |
| `KataActuatorProofs!TypeCorrect` | `TypeOK` | inductive as it stands |
| `WorkIsSound` | `IInv` if `Serialised`: what the jobs, the objects and the changes in flight have to do with each other | inductive; one lemma per action |
| `ResourceOwned` | `ResourceSound` if `Serialised`: a live ManagedResource has somebody who still will delete it, nothing that counts as reconciled is without it, a migration deletes it only with its objects kept | inductive relative to `IInv` |
| `ResourceWhileReconciled`, `NothingLeft` | `ReconciledHasResource`, `NoResourceLeft`, if `Serialised` | from `ResourceSound` |
| `MigrationKeeps` | `MigrationKeepsClasses`, an action property, if `Serialised` | from `ResourceSound`; only `Finalize` takes the classes |
| `NobodyWaitsInVain`, `AlwaysGoesOn` | `WaitSound`, `GoesOn`, if `Serialised`: no job waits for a ManagedResource that nobody deletes; whatever is to be done for a ContainerRuntime has a next step | inductive relative to `IInv` and `ResourceSound` |
| `ConfigurationProofs!AdmissionCorrect`, `NothingUnchecked`, `CommandLineServed` | `NeverServesUnchecked`, `ServesCommandLine` | invariant on each phase of the start-up; `CutConcat` |
| `VersionIsRead`, `SafeName`, `TagIsRead`, `DigestHasVersion` | `VersionIsName`, `VersionIsTag`, `DigestFallsBack` | invariant: the version is that of the image; the rest is about `VersionFromImage` |
| `ReleaseCorrect`, `ChartsAlwaysResolve`, `ReleasedReadsTag`, `ControllerFirst`, `DevApart` | `ChartsResolve`, `DeployedReadsTag`, `AdmissionBehindController`; `DevReplacesDev` if `PlainTags` | `ReleaseSound`: what a job has pushed before each of its steps, and what each chart rests on |
| `OSCAdmissionProofs!TypeCorrect`, `KeysUnique`, `ForeignStays`, `OthersStay` | `TypeOK`, `NoDuplicates`, `ForeignKept`, `OthersUntouched` | `IInv`: each stored OSC is `Sound`; `MutateSound` from `UpsertFacts` |
| `OSCAdmissionProofs!KataPoolsInstalled` | `KataPoolsInstall` if `FreshCluster` | `StoreKeeps`: what is stored was asked of a webhook that it concerns, or was whole before |
| `ShootValidatorProofs!TypeCorrect`, `SpecChangesSupported` | `TypeOK`, `NewSpecSupported` | action by action |
| `PayloadBuildProofs!TypeCorrect`, `NothingUnverified` | `TypeOK`, `PackedIsVerified` | `IInv`: what was extracted is still the verified download when it is packed |
| `PayloadBuildProofs!PushedWhole` | `UndisturbedIsPayload` | `Whole`: until something fails, an up-to-date sentinel, and a step before the push, mean a whole tarball of this version |
| `PackageReleaseProofs!TagsInSync` | `TagInSync`, however pull requests were checked, crossed or went backwards | `SyncInv`: main and the base of every pull request are in sync; `MergeInSync` |
| `PackageReleaseProofs!TagsHavePayload`, `PublishedStay` | `TagHasPayload`, `PublishedStays`, if not `Backwards`; the properties themselves say: without `lapses` | `IInv`: no image has a tag beyond main's, and that of main's tag has main's payload; `MergeGrows` |

Both lemmas about merges rest on the conflict in the tag's line. `MergeInSync` is about
a branch that was checked alone: version and release may come from different sides of
the merge, so the merged tree could name a tag that neither side has. If the branch
has its base's tag it has its base's version and release as well, and main's stay; if it
has another, main has the base's tag or the branch's, hence the version and
release that belong to it, and the merge takes the branch's. Main's image vector is
therefore in sync after every merge, though nobody has looked at the merged tree.
`MergeGrows` is about trees that were checked merged: they do not fall below main. If
the tag is main's, the check's comparison with it leaves version, release and
packaging as they were; if it is the branch's, main's tag is that of the branch's base,
hence so are its version and release, and the branch only raised those.

`UpsertFacts` is about one list: if its keys are unique, replacing the first entry
of a key or appending leaves them unique, leaves entries of other keys, and
leaves a prefix without that key. With duplicates the second entry of a key would
survive, so uniqueness is part of what makes every other part true: `Sound` has
it next to the prefix that gardenlet wrote, and for OSCs that do not concern Kata
that there is nothing behind the prefix.

None of the safety properties of `KataInstall` is inductive: what a directory
holds depends on how far the script has got. `IInv` says for each `pc` what the
staging directory of `ver` holds (nothing, a part of the payload, the whole of
it rewritten so often) and that a version directory which exists is intact, in
the sense of `PublishedIntact`, whatever the process does. That is enough
because `Clean` is only reached without a marker, so never over a published
directory. `UpgradesInstallPayload` needs more: without rollback the versions
that the OSC carried before the current one are never the script's again, so
what is pruned is never `ver`'s.

`KataActuator` needs two layers. The actuator decides by a listing from the cache,
so `IInv` first has to bound what the cache may show (`WatchSound`): an object's
deletion is its last change in flight, because it cannot go before its finalizer
does and that takes a job which has seen the deletion (`DeletionIsLast`); nothing
comes alive behind a deletion, since gardenlet finishes deletions before it creates
(`NoneRevived`). It follows (`CacheShowsLive`) that a job which deletes lists
every ContainerRuntime that is live. That is the heart of the matter: none that
is needed is overlooked, and of several that are being deleted none counts the
other. The second layer, `ResourceSound`, counts as responsible for the ManagedResource
whoever is live, or is being deleted and has not come to its release (`Owned`);
the last of them finds nobody live in its listing and deletes the resource
before it is released. `Kept` is the same argument for migrations: each job sets
keepObjects before it deletes, and none sets it back, because a reconciliation does
not run while a migration does. `Serialised` is about gardenlet, not about this
code, so it is a hypothesis of each of these theorems and not an assumption of the
module; `actuator_race` and `actuator_leak` show that two of them are false
without it. `GoesOn` is what can be proved of `DeletionFinishes`: it names the guards of the
next steps, so that fairness is all that is missing; `WaitSound` is false without
`Serialised` as well (TLC finds a reconciliation beside a migration, which creates the
resource while the migrating job waits for it to go), and then it is the wait's timeout
and its retry that go on. Both layers were checked with TLC, on three ContainerRuntimes as well,
before they were proved.

`ConfigurationProofs` is about texts of any length. Its lemmas say that a text with
a separator is the two parts that `Cut`, or `AfterLast` and `BeforeLast`, make of
it, put together again, and that cutting what was put together gives the
parts back; that a text has a first and a last separator comes from the order on
the naturals. A reference is then the repository, a colon and the tag, with
a digest behind or not, and each of the code's ways to take it apart (`cut -d@`,
`${s##*/}`, Go's `LastIndex`) finds the same tag, because a port's colon is
before a slash. `ReleaseSound` says, for each step of a job (`AtStep`), which images and
charts are there already; charts outlive their job, so it also says for every
chart in the registry that its images are pushed references, that a controller
reads the tag from its overwrite, and that an admission chart has the controller's
beside it, also after another job replaced either of them.

Assumptions of `Configuration`, which TLC evaluates for the values of the run.
`TextsAssumption`: texts are made of the symbols, the tokens that have a meaning are no
letters or digits, and `Nil` and `NoConfig` are no texts. `GrammarAssumption`: an image
reference has "@" only before its digest, and a port's colon before a slash; digests
are SHA-256. `BuildsAssumption` is what make gives the script
(`Makefile:9-24`, `85-105`): controller and admission have one organisation, one postfix
and one tag; a reference has an organisation, a name and a tag, neither of the latter two
with a separator in it; and the installation image's tag is a version that the controller
accepts, and not `latest`, as ko would not print that one. `KATA_VERSION` is such a
version; `INSTALLATION_TAG` can be set to another from outside. None of these
assumptions uses the script's operators for taking a reference apart. `DevApart` has a hypothesis of its
own, `PlainTags`: no commit's tag, as `git describe` gives it, ends in "-dev". Nothing
in the repository prevents such a tag; its release would be kept in the place of dev
builds.

Model-checked only: what is temporal under fairness (`PodsCanStart`,
`DeletionFinishes`, `ClassesSettle`, `OperationsEnd`, `DeletionsEnd`, `ImageIsPushed`), which
is out of the prover's reach. Every safety invariant and every action property
of the passing runs is a theorem.

## Not modelled

- **Generated code, API types, charts, health check registration**: no state and
  no control of their own (`pkg/healthcheck` registers no check at all).
- **Controller start-up** (`cmd/gardener-extension-runtime-kata`): wiring; its cache
  and concurrency settings are what `OSCAdmission` and `KataActuator` assume.
- **`make artifacts-only` on its own**, and `SKIP_INSTALLATION_IMAGE_BUILD`: they
  package whatever references earlier builds have left, or the caller asserts.
  After a build that ended between its images the first mixes two builds.
- **What is merged and trimmed into the payload** (`hack/install-binaries.sh:113-237`):
  commands in a private directory without states in between that anybody sees.
- **The fallbacks of the release check** for a repository without a base commit or
  a file without a version: it then skips or refuses.
- **Rendering of the RuntimeClasses**: the content of the ManagedResource is
  constant. Its handlers' names are those of `kataHandlers`.
- **containerd and the shim inside**: a pod is the version of its shim; a
  shim that is running needs no more than its path and what is left of its
  configuration.
- **Admission start-up** beyond its options (`cmd/...-admission-runtime-kata/app`): the
  choice of kubeconfigs and the readiness checks are wiring of controller-runtime.

## Plan

Done, in this order: `AtomicInstall`, `KataInstall` and its proofs,
`KataActuator`, `KataMutator` and `OSCAdmission`, `ShootValidator` and its
proofs, `ImageVersion`, `AdmissionOptions`, `PayloadBuild` and `PackageRelease`
with their proofs, `KataNode` with its proofs, `PushArtifacts`, the proofs of
`OSCAdmission`.

Then the proofs of `KataActuator` beyond types and of `Configuration` with the three
modules it composes.

Next:

1. What `GoesOn` is for `KataActuator`, for the other liveness properties: that a state
   which has not arrived always has a step to take (`ImageIsPushed`, `PodsCanStart`,
   `OperationsEnd`), as an invariant over guards rather than ENABLED.
2. What the violated properties keep: for each run that expects a violation, the
   weakest named hypothesis under which the property is a theorem
   (`Serialised` for `actuator_race` and `actuator_leak` is done).
