---------------------------- MODULE Configuration ----------------------------
(***************************************************************************)
(* The texts that the binaries are configured with: the command line of    *)
(* the admission component (AdmissionOptions), the image vector of the     *)
(* controller (ImageVersion), and the charts that a release makes of image *)
(* references, one of which overwrites that vector (PushArtifacts).        *)
(***************************************************************************)
EXTENDS Tokens

CONSTANTS
    Values, NoConfig, NoWebhook, MaxFlags,       \* see AdmissionOptions
    Repositories, Tags, Digest, Alphanumeric, Nil, Invalid,    \* see ImageVersion
    Builds, Digests, MaxJobs,                    \* see PushArtifacts
    Symbols                                      \* the tokens of all these texts

VARIABLES
    source,   \* what is started: a binary over its own texts, or a release
    raw, config, target, required, phase,   \* see AdmissionOptions
    image, version,                         \* see ImageVersion
    images, charts, job, todo, jobs         \* see PushArtifacts

Admission == INSTANCE AdmissionOptions
Controller == INSTANCE ImageVersion
Release == INSTANCE PushArtifacts

Texts == Seq(Symbols)

\* What stands for nothing is no text and no configuration.
ASSUME TextsAssumption ==
    /\ {"=", "/", ":", "@", "-dev"} \subseteq Symbols
    /\ Values \cup Repositories \cup Tags \cup Digests \cup {Digest} \subseteq Texts
    /\ Alphanumeric \subseteq Symbols \ {"=", "/", ":", "@", "!", "-dots", "-dirty", "-dev"}
    /\ Nil \notin Texts
    /\ NoConfig \notin Seq([name : Texts, value : Texts])

\* The grammar of image references: the colon of a port stands before a slash, an "@"
\* only before a digest, and a digest is an algorithm, a colon and a hash.
ASSUME GrammarAssumption ==
    /\ \A repo \in Repositories :
          At(repo, "@") = {} /\ At(AfterLast(repo, "/"), ":") = {}
    /\ \A tag \in Tags : tag # <<>> /\ At(tag, "@") = {}
    /\ \A digest \in Digests \cup {Digest} :
          At(digest, "@") = {} /\ Controller!IsDigest(digest)

\* What a build is to be pushed as: a repository below an organisation, and a tag.
Path(ref) == AfterLast(ref, "/")
NameIn(ref) == BeforeLast(Path(ref), ":")
TagIn(ref) == AfterLast(Path(ref), ":")
References ==
    {ref \in Texts :
        /\ At(ref, "@") = {} /\ At(ref, "/") # {}
        /\ At(Path(ref), ":") # {} /\ At(NameIn(ref), ":") = {}
        /\ <<>> \notin {NameIn(ref), TagIn(ref)}}

\* Makefile and ko give controller and admission one organisation, one postfix and one
\* tag; INSTALLATION_TAG is a version, as KATA_VERSION is.
ASSUME BuildsAssumption ==
    /\ Builds \subseteq [controller : References, installation : References,
                          admission : References \cup {Nil}]
    /\ \A build \in Builds :
        /\ Controller!validVersion(TagIn(build.installation))
        /\ TagIn(build.installation) # <<"latest">>
        /\ build.admission # Nil =>
              /\ BeforeLast(build.admission, "/") = BeforeLast(build.controller, "/")
              /\ TagIn(build.admission) = TagIn(build.controller)
              /\ Release!EndsIn(NameIn(build.admission), "-dev")
                    = Release!EndsIn(NameIn(build.controller), "-dev")

admissionVars == <<raw, config, target, required, phase>>
controllerVars == <<image, version>>
releaseVars == <<images, charts, job, todo, jobs>>
vars == <<source, admissionVars, controllerVars, releaseVars>>

Init ==
    /\ source \in {"admission", "controller", "release"}
    /\ Admission!Init
    /\ Controller!Init
    /\ Release!Init

Next ==
    /\ UNCHANGED source
    /\ \/ /\ source = "admission"
          /\ Admission!Next
          /\ UNCHANGED <<controllerVars, releaseVars>>
       \/ /\ source = "controller"
          /\ Controller!Next
          /\ UNCHANGED <<admissionVars, releaseVars>>
       \/ /\ source = "release"
          /\ Release!Next
          /\ UNCHANGED admissionVars

Spec == Init /\ [][Next]_vars
-------------------------------------------------------------------------------
(* Properties.                                                             *)

\* A validator that requires nothing is never served, whatever flags are given
\* or left out.
NeverServesUnchecked == Admission!NeverServesUnchecked

\* The requirements that are served are the flags, one by one.
ServesCommandLine == Admission!ServesCommandLine

\* The version is a name that stays in its directory and in its string.
VersionIsName == Controller!VersionIsName

\* The version is the image's tag, in either form of an image.
VersionIsTag == Controller!VersionIsTag

\* An image that only a digest names has the version of its entry.
DigestFallsBack == Controller!DigestFallsBack

\* Every chart in the registry names images that are there.
ChartsResolve == Release!ChartsResolve

\* A released controller reads the tag that its installation image has.
DeployedReadsTag == source = "release" => Release!DeployedReadsTag

\* Dev builds never replace released charts, nor releases those of dev builds.
DevReplacesDev == Release!DevReplacesDev

\* No version has admission charts without the controller's.
AdmissionBehindController == Release!AdmissionBehindController
==============================================================================
