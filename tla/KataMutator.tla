------------------------------ MODULE KataMutator ------------------------------
(***************************************************************************)
(* The mutating webhook for OperatingSystemConfigs (OSCs) as a function:   *)
(* what it makes of an OSC, given the Cluster it reads and the version of  *)
(* the installation image that it finds.                                   *)
(*                                                                         *)
(* The lists of an OSC are sequences of records with a key: the path of a  *)
(* containerd plugin, the path of a file, the name of a unit, as tuples.   *)
(***************************************************************************)
EXTENDS Naturals, Sequences

CONSTANT Versions   \* Kata versions (tags of the installation image)

Kata == "kata"
ScriptPath == <<"install-kata.sh">>
UnitName == <<"kata-installation.service">>

\* The handlers and the configuration file that selects their hypervisor.
kataHandlers == <<[path |-> <<"runtimes", "kata-qemu">>, configFile |-> "qemu"],
                  [path |-> <<"runtimes", "kata-clh">>, configFile |-> "clh"]>>
-------------------------------------------------------------------------------
\* Mutant: appends without looking.
AppendAlways(s, e) == Append(s, e)

\* The first entry with the key of e becomes e, or e goes to the end.
Upsert(s, e) ==
    LET same == {i \in DOMAIN s : s[i].key = e.key} IN
    IF same = {} THEN Append(s, e)
    ELSE [s EXCEPT ![CHOOSE i \in same : \A j \in same : i <= j] = e]

upsertFile(files, file) == Upsert(files, file)
upsertUnit(units, unit) == Upsert(units, unit)
upsertPlugin(plugins, plugin) == Upsert(plugins, plugin)
-------------------------------------------------------------------------------
tarballPath(version) == <<"kata-static", version>>

\* The paths of a handler: shim and configuration of one version.
values(handler, version) ==
    [runtimePath |-> version, configPath |-> <<version, handler.configFile>>]

Plugin(handler, version) ==
    [key |-> handler.path, values |-> values(handler, version)]

ensureCRIConfig(plugins, version) ==
    upsertPlugin(upsertPlugin(plugins, Plugin(kataHandlers[1], version)),
                 Plugin(kataHandlers[2], version))

\* Mutant: the download path has no version.
UnversionedTarball(version) == [key |-> <<"kata-static">>, content |-> version]

Tarball(version) == [key |-> tarballPath(version), content |-> version]
Script(version) == [key |-> ScriptPath, content |-> version]

\* Mutant: the files of Kata replace those of the others.
OnlyKataFiles(files, version) == <<Tarball(version), Script(version)>>

ensureFiles(files, version) ==
    upsertFile(upsertFile(files, Tarball(version)), Script(version))

InstallUnit(version) ==
    [key |-> UnitName, filePaths |-> <<tarballPath(version), ScriptPath>>]

\* Mutant: an existing unit is left alone.
AddUnitOnce(units, version) ==
    IF \E i \in DOMAIN units : units[i].key = UnitName THEN units
    ELSE Append(units, InstallUnit(version))

ensureUnits(units, version) == upsertUnit(units, InstallUnit(version))
-------------------------------------------------------------------------------
\* shoot[p] are the container runtimes of worker pool p.
workerPoolUsesKata(shoot, pool) == pool \in DOMAIN shoot /\ Kata \in shoot[pool]

\* Mutant: provision OSCs are not told from reconcile OSCs.
ConcernsAnyPurpose(osc, shoot) ==
    /\ ~osc.deleting
    /\ osc.containerd
    /\ workerPoolUsesKata(shoot, osc.pool)

\* The early returns of Mutate. An OSC without a pool label has a pool that no
\* shoot has.
Concerns(osc, shoot) ==
    /\ ~osc.deleting
    /\ osc.purpose = "reconcile"
    /\ osc.containerd
    /\ workerPoolUsesKata(shoot, osc.pool)

Mutate(osc, shoot, version) ==
    IF Concerns(osc, shoot)
    THEN [osc EXCEPT !.plugins = ensureCRIConfig(@, version),
                     !.files = ensureFiles(@, version),
                     !.units = ensureUnits(@, version)]
    ELSE osc
==============================================================================
