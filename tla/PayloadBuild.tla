----------------------------- MODULE PayloadBuild -----------------------------
(***************************************************************************)
(* The build of the installation image on one machine: `make               *)
(* install-binaries' (hack/install-binaries.sh behind a sentinel file) and *)
(* `make installation-image', which runs it and pushes the image that ko   *)
(* builds from the kodata directory.                                       *)
(*                                                                         *)
(*   version   the Kata version of the working tree                        *)
(*   cache     the downloads in /tmp, of each release and asset            *)
(*   tarball   kata-static.tar.gz in kodata                                *)
(*   fresh     is the sentinel newer than all it depends on?               *)
(*   registry  the content of the image of each version                    *)
(*   pc, goal  the next step of make and what it was asked for             *)
(*   fetched   the assets that this run of the script has extracted        *)
(*   disturbed has a command of a build failed, or was the tree cleaned?   *)
(*             (history, read by properties only)                          *)
(*   failures, interrupts   so many of them so far                         *)
(***************************************************************************)
EXTENDS Naturals

CONSTANTS
    Versions,       \* releases of Kata Containers
    MayClean,       \* does anybody run `make clean'?
    MaxFailures,    \* bound on failing commands
    MaxInterrupts   \* bound on interrupted runs

ASSUME BuildAssumption ==
    /\ MayClean \in BOOLEAN
    /\ MaxFailures \in Nat
    /\ MaxInterrupts \in Nat

VARIABLES version, cache, tarball, fresh, registry, pc, goal, fetched,
          disturbed, failures, interrupts

vars == <<version, cache, tarball, fresh, registry, pc, goal, fetched,
          disturbed, failures, interrupts>>
counters == <<disturbed, failures, interrupts>>
files == <<version, cache, tarball, fresh>>
-------------------------------------------------------------------------------
Assets == {"static", "go"}

\* No image in the registry, no tarball in kodata, a tarball that is cut off.
Absent == [kind |-> "absent"]
Missing == [kind |-> "missing"]
Truncated == [kind |-> "truncated"]
\* The payload of version v, from the downloads d.
Packed(v, d) == [kind |-> "packed", version |-> v, downloads |-> d]
Payload(v) == Packed(v, {"verified"})

\* A file in /tmp, against the checksum of its release.
Statuses == {"absent", "verified", "corrupt"}

Init ==
    /\ version \in Versions
    /\ cache \in [Versions \X Assets -> Statuses]
    /\ tarball = Missing
    /\ fresh = FALSE
    /\ registry = [v \in Versions |-> Absent]
    /\ pc = "idle"
    /\ goal = "binaries"
    /\ fetched = {}
    /\ disturbed = FALSE
    /\ failures = 0
    /\ interrupts = 0

\* Mutant: the sentinel depends on the script only.
ChangeVersionUnnoticed(v) ==
    /\ pc = "idle"
    /\ v # version
    /\ version' = v
    /\ UNCHANGED <<cache, tarball, fresh, registry, pc, goal, fetched, counters>>

\* KATA_VERSION, as a file or a variable of make, is one of the prerequisites.
ChangeVersion(v) ==
    /\ pc = "idle"
    /\ v # version
    /\ version' = v
    /\ fresh' = FALSE
    /\ UNCHANGED <<cache, tarball, registry, pc, goal, fetched, counters>>

\* `make clean': the tarball goes, the sentinel stays.
MakeClean ==
    /\ MayClean
    /\ pc = "idle"
    /\ tarball' = Missing
    /\ disturbed' = TRUE
    /\ UNCHANGED <<version, cache, fresh, registry, pc, goal, fetched, failures,
                   interrupts>>
-------------------------------------------------------------------------------
(* make.                                                                   *)

Goto(s) == pc' = s /\ UNCHANGED <<version, goal, interrupts>>

MakeBinaries ==
    /\ pc = "idle"
    /\ pc' = "sentinel"
    /\ goal' = "binaries"
    /\ UNCHANGED <<files, registry, fetched, counters>>

MakeImage ==
    /\ pc = "idle"
    /\ pc' = "inspect"
    /\ goal' = "image"
    /\ UNCHANGED <<files, registry, fetched, counters>>

\* crane digest: an image that is there is used as it is; any other answer, an
\* error included, has it built.
Inspect ==
    /\ pc = "inspect"
    /\ \/ Goto(IF registry[version] # Absent THEN "idle" ELSE "sentinel")
          /\ UNCHANGED failures
       \/ /\ failures < MaxFailures
          /\ failures' = failures + 1
          /\ Goto("sentinel")
    /\ UNCHANGED <<cache, tarball, fresh, registry, fetched, disturbed>>

\* What follows install-binaries: `;' and ko, whatever its exit status was.
AfterBinaries == IF goal = "image" THEN "push" ELSE "idle"

Sentinel ==
    /\ pc = "sentinel"
    /\ fetched' = {}
    /\ Goto(IF fresh THEN AfterBinaries ELSE "fetch")
    /\ UNCHANGED <<cache, tarball, fresh, registry, disturbed, failures>>

\* ko build: what is in kodata is in the image.
Push ==
    /\ pc = "push"
    /\ registry' = [registry EXCEPT ![version] = tarball]
    /\ Goto("idle")
    /\ UNCHANGED <<cache, tarball, fresh, fetched, disturbed, failures>>

\* Ctrl-C, a killed CI job: make and all it started end.
Interrupt ==
    /\ pc # "idle"
    /\ interrupts < MaxInterrupts
    /\ interrupts' = interrupts + 1
    /\ pc' = "idle"
    /\ UNCHANGED <<files, registry, goal, fetched, disturbed,
                   failures>>
-------------------------------------------------------------------------------
(* install-binaries.sh, with set -e.                                       *)

\* The static release is fetched before the Go release.
NextAsset == IF "static" \in fetched THEN "go" ELSE "static"
Download == <<version, NextAsset>>

Extract == fetched' = fetched \cup {NextAsset}

\* Mutant: a download that exists is taken.
FetchUnchecked ==
    /\ pc = "fetch" /\ fetched # Assets
    /\ cache' = [cache EXCEPT ![Download] = IF @ = "absent" THEN "verified" ELSE @]
    /\ Extract
    /\ Goto("fetch")
    /\ UNCHANGED <<tarball, fresh, registry, disturbed, failures>>

\* Mutant: a download that does not verify ends the script and stays.
FetchOrGiveUp ==
    /\ pc = "fetch" /\ fetched # Assets
    /\ IF cache[Download] = "corrupt"
       THEN Goto(AfterBinaries) /\ UNCHANGED <<cache, fetched>>
       ELSE /\ cache' = [cache EXCEPT ![Download] = "verified"]
            /\ Extract
            /\ Goto("fetch")
    /\ UNCHANGED <<tarball, fresh, registry, disturbed, failures>>

\* fetch_and_verify_asset: an existing file that verifies is used, one that
\* does not is removed; a download is verified before it moves to /tmp.
Fetch ==
    /\ pc = "fetch" /\ fetched # Assets
    /\ \/ /\ cache[Download] = "corrupt"
          /\ cache' = [cache EXCEPT ![Download] = "absent"]
          /\ UNCHANGED fetched
       \/ /\ cache[Download] # "corrupt"
          /\ cache' = [cache EXCEPT ![Download] = "verified"]
          /\ Extract
    /\ Goto("fetch")
    /\ UNCHANGED <<tarball, fresh, registry, disturbed, failures>>

\* tar opens kata-static.tar.gz in kodata itself.
BeginPack ==
    /\ pc = "fetch" /\ fetched = Assets
    /\ tarball' = Truncated
    /\ fresh' = FALSE
    /\ Goto("pack")
    /\ UNCHANGED <<cache, registry, fetched, disturbed, failures>>

EndPack ==
    /\ pc = "pack"
    /\ tarball' = Packed(version, {cache[<<version, a>>] : a \in Assets})
    /\ Goto("touch")
    /\ UNCHANGED <<cache, fresh, registry, fetched, disturbed, failures>>

Touch ==
    /\ pc = "touch"
    /\ fresh' = TRUE
    /\ Goto(AfterBinaries)
    /\ UNCHANGED <<cache, tarball, registry, fetched, disturbed, failures>>

\* A tool is missing, the release cannot be read, a checksum is wrong, the
\* merge is refused, the disk is full, the tarball is too large: exit 1.
Fail ==
    /\ pc \in {"fetch", "pack", "touch"}
    /\ failures < MaxFailures
    /\ failures' = failures + 1
    /\ disturbed' = TRUE
    /\ Goto(AfterBinaries)
    /\ UNCHANGED <<cache, tarball, fresh, registry, fetched>>

Make == Inspect \/ Sentinel \/ Push \/ Fetch \/ BeginPack \/ EndPack \/ Touch

Next ==
    \/ \E v \in Versions : ChangeVersion(v)
    \/ MakeClean \/ MakeBinaries \/ MakeImage \/ Make \/ Interrupt \/ Fail

Spec == Init /\ [][Next]_vars

\* make runs on; CI asks for the image again until it is there.
FairSpec == Spec /\ WF_vars(Make) /\ SF_vars(MakeImage)
-------------------------------------------------------------------------------
(* Properties.                                                             *)

AnyPacked == {Packed(v, d) : v \in Versions, d \in SUBSET Statuses}

TypeOK ==
    /\ version \in Versions
    /\ cache \in [Versions \X Assets -> Statuses]
    /\ tarball \in {Missing, Truncated} \cup AnyPacked
    /\ fresh \in BOOLEAN
    /\ registry \in [Versions -> {Absent, Missing, Truncated} \cup AnyPacked]
    /\ pc \in {"idle", "inspect", "sentinel", "fetch", "pack", "touch", "push"}
    /\ goal \in {"binaries", "image"}
    /\ fetched \subseteq Assets
    /\ disturbed \in BOOLEAN
    /\ failures \in 0..MaxFailures
    /\ interrupts \in 0..MaxInterrupts

\* "The image contains the tarball built using `make install-binaries`": an
\* image that is pushed holds the whole payload of its own version.
PushedIsPayload == \A v \in Versions : registry[v] \in {Absent, Payload(v)}

\* Interrupted builds, builds of other versions before this one and a registry
\* that cannot be asked never lead to an image without the payload of its
\* version, up to the first failing command or `make clean'.
UndisturbedIsPayload == ~disturbed => PushedIsPayload

\* Nothing gets into the tarball that was not verified against the release,
\* though downloads are kept in /tmp and may be of any origin.
PackedIsVerified ==
    tarball.kind = "packed" => tarball.downloads = {"verified"}

\* When the version stays, its image is pushed in the end: no state that an
\* interrupted run or a broken download left behind blocks the next.
ImageIsPushed ==
    \A v \in Versions :
        <>[](version = v /\ ~disturbed) => <>(registry[v] = Payload(v))
==============================================================================
