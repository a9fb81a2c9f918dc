----------------------------- MODULE KataInstall -----------------------------
(***************************************************************************)
(* The installation script that the OperatingSystemConfig (OSC) puts on a  *)
(* node of a kata worker pool, run by the oneshot unit                     *)
(* kata-installation.service, and the file system it works on.             *)
(*                                                                         *)
(*   dirs      the directories that exist, of /opt/kata/<v> (kind "dir")   *)
(*             and /opt/kata/<v>.staging (kind "staging") of every version *)
(*   marked    the directories with an .installed marker                   *)
(*   items     the intact parts of the payload in each directory           *)
(*   seds      how often sed went over the files of each part of it        *)
(*   osc       the version in the OSC of the worker pool                   *)
(*   seen      the versions the OSC has carried so far                     *)
(*   script    the version of the script file on the node                  *)
(*   tarball   the version of the payload file on the node                 *)
(*   pc, ver   the next command of the unit's process and its VERSION      *)
(*   faults    crashes and failing commands so far                         *)
(*                                                                         *)
(* Every command of the script is a step, and rm, tar and the prune loop   *)
(* take one step per part they touch, so the process can die anywhere.     *)
(***************************************************************************)
EXTENDS Naturals

CONSTANTS
    Versions,   \* Kata versions (tags of the installation image)
    NoVersion,  \* no file delivered, no process running
    Rollback,   \* may the OSC return to a version it carried before?
    MaxFaults   \* bound on faults

ASSUME InstallAssumption ==
    /\ NoVersion \notin Versions
    /\ Rollback \in BOOLEAN
    /\ MaxFaults \in Nat

VARIABLES dirs, marked, items, seds, osc, seen, script, tarball, pc, ver, faults

vars == <<dirs, marked, items, seds, osc, seen, script, tarball, pc, ver, faults>>
tree == <<dirs, marked, items, seds>>
agentVars == <<osc, seen, script, tarball>>

-------------------------------------------------------------------------------
\* The top-level directories of the kata-static payload. A part counts as
\* present while it is intact.
Shim == "runtime-rs"
Payload == {"bin", "share", Shim}

\* The parts whose files name /opt/kata and are rewritten by sed: the qemu
\* wrapper in bin, the runtime configurations in share.
Configs == {"bin", "share"}

Names == Versions \X {"dir", "staging"}
Dir(v) == <<v, "dir">>

\* Mutant: the payload is built in place.
StagingInPlace(v) == <<v, "dir">>

Staging(v) == <<v, "staging">>

Complete(v) == Dir(v) \in marked /\ items[Dir(v)] = Payload

Steps == {"idle", "test", "clean", "unpack", "sedShare", "sedBin", "touch",
          "mv", "gc", "check", "done", "failed"}

TypeOK ==
    /\ dirs \in SUBSET Names
    /\ marked \in SUBSET Names
    /\ items \in [Names -> SUBSET Payload]
    /\ seds \in [Names -> [Configs -> 0..2]]
    /\ osc \in Versions
    /\ seen \in SUBSET Versions
    /\ script \in Versions \cup {NoVersion}
    /\ tarball \in Versions \cup {NoVersion}
    /\ pc \in Steps
    /\ ver \in Versions \cup {NoVersion}
    /\ faults \in 0..MaxFaults

Init ==
    /\ dirs = {}
    /\ marked = {}
    /\ items = [n \in Names |-> {}]
    /\ seds = [n \in Names |-> [i \in Configs |-> 0]]
    /\ osc \in Versions
    /\ seen = {osc}
    /\ script = NoVersion
    /\ tarball = NoVersion
    /\ pc = "idle"
    /\ ver = NoVersion
    /\ faults = 0

-------------------------------------------------------------------------------
(* gardener-node-agent and systemd, as far as the OSC drives them.         *)

\* The webhook writes another version into the OSC.
ReleaseVersion(v) ==
    /\ v # osc
    /\ Rollback \/ v \notin seen
    /\ osc' = v
    /\ seen' = seen \cup {v}
    /\ UNCHANGED <<tree, script, tarball, pc, ver, faults>>

DeliverScript ==
    /\ script # osc
    /\ script' = osc
    /\ UNCHANGED <<tree, osc, seen, tarball, pc, ver, faults>>

DeliverTarball ==
    /\ tarball # osc
    /\ tarball' = osc
    /\ UNCHANGED <<tree, osc, seen, script, pc, ver, faults>>

StartScript ==
    /\ pc' = "test"
    /\ ver' = script
    /\ UNCHANGED <<tree, agentVars, faults>>

\* The unit is enabled: it starts at boot, whatever has been delivered.
Boot ==
    /\ pc = "idle"
    /\ script # NoVersion
    /\ StartScript

\* Both of the unit's FilePaths are up to date: node-agent restarts the unit,
\* which kills a run of another version, and retries a failed one.
RestartUnit ==
    /\ script = osc /\ tarball = osc
    /\ pc \in {"idle", "failed"} \/ ver # osc
    /\ StartScript

\* The node goes down, or the process is killed.
Crash ==
    /\ pc # "idle"
    /\ faults < MaxFaults
    /\ faults' = faults + 1
    /\ pc' = "idle"
    /\ ver' = NoVersion
    /\ UNCHANGED <<tree, agentVars>>
-------------------------------------------------------------------------------
(* The script.                                                             *)

Goto(step) == pc' = step /\ UNCHANGED <<agentVars, ver>>

\* Mutant: the marker counts only with the binaries.
TestBinaries ==
    /\ pc = "test"
    /\ Goto(IF Dir(ver) \in marked /\ "bin" \in items[Dir(ver)] THEN "gc" ELSE "clean")
    /\ UNCHANGED <<tree, faults>>

\* if [ ! -f "${INSTALL_DIR}/.installed" ]
Test ==
    /\ pc = "test"
    /\ Goto(IF Dir(ver) \in marked THEN "gc" ELSE "clean")
    /\ UNCHANGED <<tree, faults>>

\* Mutant: mkdir without -p and no rm: a staging directory is in the way.
CleanUnlessStaged ==
    /\ pc = "clean"
    /\ dirs' = dirs \cup {Staging(ver)}
    /\ Goto(IF Staging(ver) \in dirs THEN "failed" ELSE "unpack")
    /\ UNCHANGED <<marked, items, seds, faults>>

\* Mutant: mkdir -p and no rm: tar continues what an earlier run left.
CleanNothing ==
    /\ pc = "clean"
    /\ dirs' = dirs \cup {Staging(ver)}
    /\ Goto("unpack")
    /\ UNCHANGED <<marked, items, seds, faults>>

\* Mutant: rm -rf "${INSTALL_ROOT}"/*
CleanRoot ==
    /\ pc = "clean"
    /\ dirs' = {Staging(ver)}
    /\ marked' = {}
    /\ items' = [n \in Names |-> {}]
    /\ Goto("unpack")
    /\ UNCHANGED <<seds, faults>>

\* rm -rf "${staging}" "${INSTALL_DIR}", one entry at a time, then mkdir -p
Clean ==
    /\ pc = "clean"
    /\ UNCHANGED <<seds, faults>>
    /\ LET own == {Staging(ver), Dir(ver)} IN
       \/ \E n \in own : \E i \in items[n] :
            /\ items' = [items EXCEPT ![n] = @ \ {i}]
            /\ Goto("clean")
            /\ UNCHANGED <<dirs, marked>>
       \/ \E n \in own \cap marked :
            /\ marked' = marked \ {n}
            /\ Goto("clean")
            /\ UNCHANGED <<dirs, items>>
       \/ /\ \A n \in own : items[n] = {} /\ n \notin marked
          /\ dirs' = (dirs \ {Dir(ver)}) \cup {Staging(ver)}
          /\ Goto("unpack")
          /\ UNCHANGED <<marked, items>>

\* tar -xzf: opens the tarball first, which may be missing.
Unpack ==
    /\ pc = "unpack"
    /\ UNCHANGED <<dirs, marked, faults>>
    /\ LET s == Staging(ver)
           opened == items[s] # {} \/ tarball = ver IN
       \/ \E i \in Payload \ items[s] :
            /\ opened
            /\ items' = [items EXCEPT ![s] = @ \cup {i}]
            /\ seds' = [seds EXCEPT ![s] = [j \in Configs |-> IF j = i THEN 0 ELSE @[j]]]
            /\ Goto("unpack")
       \/ /\ items[s] = Payload
          /\ Goto("sedShare")
          /\ UNCHANGED <<items, seds>>
       \/ /\ ~opened
          /\ Goto("failed")
          /\ UNCHANGED <<items, seds>>

\* sed -i "s#/opt/kata/#${INSTALL_DIR}/#g": a second pass would match its own
\* output, so the passes are counted.
Rewrite(part, next) ==
    /\ seds' = [seds EXCEPT ![Staging(ver)] =
                    [j \in Configs |-> IF j # part THEN @[j]
                                       ELSE IF @[j] = 0 THEN 1 ELSE 2]]
    /\ Goto(next)
    /\ UNCHANGED <<dirs, marked, items, faults>>

RewriteShare == pc = "sedShare" /\ Rewrite("share", "sedBin")
RewriteBin == pc = "sedBin" /\ Rewrite("bin", "touch")

\* Mutant: the marker is not a dot file.
TouchPlain ==
    /\ pc = "touch"
    /\ items' = [items EXCEPT ![Staging(ver)] = @ \cup {"installed"}]
    /\ Goto("mv")
    /\ UNCHANGED <<dirs, marked, seds, faults>>

Touch ==
    /\ pc = "touch"
    /\ marked' = marked \cup {Staging(ver)}
    /\ Goto("mv")
    /\ UNCHANGED <<dirs, items, seds, faults>>

\* Mutant: cp -r instead of mv.
PublishByCopy ==
    /\ pc = "mv"
    /\ UNCHANGED <<seds, faults>>
    /\ dirs' = dirs \cup {Dir(ver)}
    /\ \/ \E i \in items[Staging(ver)] \ items[Dir(ver)] :
            /\ items' = [items EXCEPT ![Dir(ver)] = @ \cup {i}]
            /\ Goto("mv")
            /\ UNCHANGED marked
       \/ /\ items[Staging(ver)] = items[Dir(ver)]
          /\ marked' = marked \cup {Dir(ver)}
          /\ Goto("gc")
          /\ UNCHANGED items

\* mv "${staging}" "${INSTALL_DIR}": a rename.
Publish ==
    /\ pc = "mv"
    /\ LET s == Staging(ver)
           d == Dir(ver) IN
       /\ dirs' = (dirs \ {s}) \cup {d}
       /\ marked' = (marked \ {s}) \cup (IF s \in marked THEN {d} ELSE {})
       /\ items' = [items EXCEPT ![d] = items[s], ![s] = {}]
       /\ seds' = [seds EXCEPT ![d] = seds[s]]
    /\ Goto("gc")
    /\ UNCHANGED faults

\* Mutant: no `[ "${name}" = "${VERSION}" ] && continue`.
PrunableOwn(n) ==
    IF n \in marked THEN items[n] \ {Shim} ELSE {}

\* Mutant: the shim is pruned like everything else.
PrunableShim(n) ==
    IF n # Dir(ver) /\ n \in marked THEN items[n] ELSE {}

\* Mutant: a version without its binaries counts as pruned.
PrunableOnce(n) ==
    IF n # Dir(ver) /\ n \in marked /\ "bin" \in items[n]
    THEN items[n] \ {Shim} ELSE {}

\* What the loop over "${INSTALL_ROOT}"/*/ removes from directory n: nothing
\* from ${VERSION} or without a marker, never runtime-rs. The marker is a dot
\* file: "${d}"* does not match it.
Prunable(n) ==
    IF n # Dir(ver) /\ n \in marked THEN items[n] \ {Shim} ELSE {}

Prune ==
    /\ pc = "gc"
    /\ \E n \in Names : \E i \in Prunable(n) :
        items' = [items EXCEPT ![n] = @ \ {i}]
    /\ Goto("gc")
    /\ UNCHANGED <<dirs, marked, seds, faults>>

FinishGC ==
    /\ pc = "gc"
    /\ \A n \in Names : Prunable(n) = {}
    /\ Goto("check")
    /\ UNCHANGED <<tree, faults>>

\* Mutant: the closing checks are missing.
SkipCheck ==
    /\ pc = "check"
    /\ Goto("done")
    /\ UNCHANGED <<tree, faults>>

\* kata-runtime check, for both configurations: the binary and the
\* configurations must be there.
CheckHost ==
    /\ pc = "check"
    /\ Goto(IF Configs \subseteq items[Dir(ver)] THEN "done" ELSE "failed")
    /\ UNCHANGED <<tree, faults>>

\* set -e: a command fails, on a full disk or a file system that is read-only,
\* or the check finds the host incapable; what was done so far stays.
CommandFails ==
    /\ pc \in {"clean", "unpack", "sedShare", "sedBin", "touch", "mv", "gc", "check"}
    /\ faults < MaxFaults
    /\ faults' = faults + 1
    /\ Goto("failed")
    /\ UNCHANGED tree

Script ==
    \/ Test \/ Clean \/ Unpack \/ RewriteShare \/ RewriteBin \/ Touch
    \/ Publish \/ Prune \/ FinishGC \/ CheckHost

Next ==
    \/ \E v \in Versions : ReleaseVersion(v)
    \/ DeliverScript \/ DeliverTarball \/ Boot \/ RestartUnit \/ Crash
    \/ Script \/ CommandFails

Spec == Init /\ [][Next]_vars
-------------------------------------------------------------------------------
(* Properties.                                                             *)

\* A version directory is never seen half-built, whatever dies when: as soon
\* as /opt/kata/<v> exists it carries the marker and the shim, and each file
\* left in it was rewritten exactly once (staging, touch and mv of the script).
PublishedIntact ==
    \A v \in Versions :
        Dir(v) \in dirs =>
            /\ Dir(v) \in marked
            /\ Shim \in items[Dir(v)]
            /\ \A i \in Configs \cap items[Dir(v)] : seds[Dir(v)][i] = 1

\* When a run has installed and collected, the payload of its own version is
\* there ("unpacks the tarball to the version-stamped directory", idempotent).
RunInstallsPayload == pc = "check" => Complete(ver)

\* The unit is active only over a complete installation: systemctl never
\* reports success on a node without the version (the closing checks).
ActiveIsComplete == pc = "done" => Complete(ver)

\* When the unit is active every other published version is down to its shim,
\* however many earlier runs died inside the prune loop.
OnlyShimsRemain ==
    pc = "done" =>
        \A v \in Versions \ {ver} : items[Dir(v)] \subseteq {Shim}

\* No step takes the shim of a published version away: containerd finds the
\* shim-binary-path of running pods across upgrades, rollbacks and crashes.
ShimsKept ==
    [][\A v \in Versions : Dir(v) \in dirs => Shim \in items'[Dir(v)]]_vars

\* The directory tree implements the abstract installation: a version shows up
\* as a whole, and a run drops parts of the others only behind its own.
Abstract == INSTANCE AtomicInstall WITH
    Parts <- Payload,
    Shim <- Shim,
    content <- [v \in Versions |-> items[Dir(v)]],
    current <- ver

ImplementsAtomicInstall == Abstract!Spec
==============================================================================
