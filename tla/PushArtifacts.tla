---------------------------- MODULE PushArtifacts ----------------------------
(***************************************************************************)
(* make artifacts: the images of a build are pushed, then the charts that  *)
(* name them, each of which may fail; and the controller that is deployed  *)
(* from such a chart reads the Kata version off the overwrite in it.       *)
(*                                                                         *)
(*   images   the references in the registry                               *)
(*   charts   the charts in the registry                                   *)
(*   job      the references in images.json as far as they are known       *)
(*   todo     what is left to do                                           *)
(*   image, version   what the controller reads (ImageVersion)             *)
(***************************************************************************)
EXTENDS Tokens

CONSTANTS
    Builds,     \* builds: repositories and tags of their images
    Digests,    \* digests that ko may give an image
    MaxJobs,    \* bound on the number of jobs
    Repositories, Tags, Digest, Alphanumeric, Nil, Invalid   \* see ImageVersion

VARIABLES images, charts, job, todo, jobs, image, version

Vector == INSTANCE ImageVersion

releaseVars == <<images, charts, job, todo, jobs>>
vars == <<releaseVars, image, version>>
-------------------------------------------------------------------------------
(* References.                                                             *)

no_digest(ref) == BeforeLast(ref, "@")
last_segment(ref) == AfterLast(no_digest(ref), "/")

\* Mutant: the first colon is the tag's.
TagAfterFirstColon(ref) == Cut(no_digest(ref), ":").after

image_tag_pushed(ref) == Cut(last_segment(ref), ":").after

image_repo(ref) ==
    LET tag_part == Len(last_segment(ref)) - Len(Cut(last_segment(ref), ":").before)
    IN SubSeq(no_digest(ref), 1, Len(no_digest(ref)) - tag_part)

image_tag_with_digest(ref) ==
    LET digest == IF At(ref, "@") = {} THEN <<>> ELSE AfterLast(ref, "@")
        tag == image_tag_pushed(ref) IN
    IF tag = <<>> /\ digest = <<>> THEN <<"latest">>
    ELSE IF tag = <<>> THEN digest
    ELSE IF digest = <<>> THEN tag
    ELSE tag \o <<"@">> \o digest

EndsIn(s, token) == s # <<>> /\ s[Len(s)] = token

image_tag(ref) ==
    LET tag == image_tag_pushed(ref)
    IN IF EndsIn(tag, "-dirty") THEN SubSeq(tag, 1, Len(tag) - 1) ELSE tag

oci_repo(ref) == BeforeLast(image_repo(ref), "/")

\* Mutant: dev builds have no version of their own.
UnmarkedVersion(ref) == image_tag(ref)

chart_version(ref) ==
    image_tag(ref) \o (IF EndsIn(image_repo(ref), "-dev") THEN <<"-dev">> ELSE <<>>)

\* The template "image" of the controller's chart and of the vector's overwrite;
\* the runtime chart's knows no digest without a tag.
Rendered(values) ==
    values.repository \o (IF Vector!IsDigest(values.tag) THEN <<"@">> ELSE <<":">>) \o values.tag
RenderedRuntime(values) == values.repository \o <<":">> \o values.tag
-------------------------------------------------------------------------------
Kinds == <<"controller", "admission", "installation">>
ImageSteps == {"controller", "admission", "installation"}
AdmissionCharts == <<"runtime", "virtual-garden">>

Init ==
    /\ images = {}
    /\ charts = {}
    /\ job = Nil
    /\ todo = <<>>
    /\ jobs = 0
    /\ image = Vector!Unset
    /\ version = Invalid

\* Mutant: the charts come first.
ChartsFirst(build) == <<"runtime-kata">> \o AdmissionCharts \o Kinds

\* Mutant: the admission charts come before the controller's.
AdmissionFirst(build) ==
    Kinds \o (IF build.admission = Nil THEN <<>> ELSE AdmissionCharts) \o <<"runtime-kata">>

\* artifacts: images artifacts-only. The script pushes the admission charts
\* last, and only if images.json has an admission image.
Steps(build) ==
    Kinds \o <<"runtime-kata">> \o (IF build.admission = Nil THEN <<>> ELSE AdmissionCharts)

\* A job begins; an earlier one has ended or is given up, wherever it was.
Begin(build) ==
    /\ jobs < MaxJobs
    /\ jobs' = jobs + 1
    /\ job' = build
    /\ todo' = Steps(build)
    /\ UNCHANGED <<images, charts, image, version>>

Latest(ref) == AfterLast(ref, ":") = <<"latest">>

\* ko pushes under tag and digest and prints both, but the digest alone if the
\* tag is "latest".
KoBuild(kind) ==
    \E digest \in Digests :
        LET repo == IF Latest(job[kind]) THEN image_repo(job[kind]) ELSE job[kind]
            ref == repo \o <<"@">> \o digest IN
        /\ images' = images \cup {job[kind], ref}
        /\ job' = [job EXCEPT ![kind] = ref]

\* The installation image is not built if the registry says that it has it. When the
\* registry cannot be asked it is built again.
PushImage ==
    /\ todo # <<>> /\ Head(todo) \in ImageSteps
    /\ \/ /\ \/ job[Head(todo)] = Nil
             \/ Head(todo) = "installation" /\ job.installation \in images
          /\ UNCHANGED <<images, job>>
       \/ job[Head(todo)] # Nil /\ KoBuild(Head(todo))
    /\ todo' = Tail(todo)
    /\ UNCHANGED <<charts, jobs, image, version>>

\* A chart and the key that a registry keeps it under.
Key(chart) == <<chart.name, chart.at, chart.version>>

\* Mutant: the version of the overwrite is cleaned as the chart's is.
CleanedOverwrite(ref) == [repository |-> image_repo(ref), tag |-> image_tag(ref)]

Overwrite(ref) == [repository |-> image_repo(ref), tag |-> image_tag_pushed(ref)]

\* The values of a chart get the image it deploys, if it deploys one.
Chart(name, ref) ==
    [name |-> name, at |-> oci_repo(ref), version |-> chart_version(job.controller),
     image |-> IF name = "virtual-garden" THEN Nil
               ELSE [repository |-> image_repo(ref), tag |-> image_tag_with_digest(ref)],
     overwrite |-> IF name = "runtime-kata" THEN Overwrite(job.installation) ELSE Nil]

\* helm push replaces what has the same name and version. Without a tag helm finds
\* no version, or packages under a name that the script does not find.
PushChart ==
    /\ todo # <<>> /\ Head(todo) \notin ImageSteps
    /\ LET chart == Chart(Head(todo), IF Head(todo) = "runtime-kata" THEN job.controller
                                                               ELSE job.admission)
       IN \/ /\ image_tag(job.controller) # <<>>
             /\ charts' = {c \in charts : Key(c) # Key(chart)} \cup {chart}
             /\ todo' = Tail(todo)
          \/ /\ image_tag(job.controller) = <<>>
             /\ todo' = <<>>
             /\ UNCHANGED charts
    /\ UNCHANGED <<images, job, jobs, image, version>>

\* The controller of a chart finds the installation image.
Deploy(chart) ==
    /\ chart.overwrite # Nil
    /\ image' = [Vector!Unset EXCEPT !.tag = chart.overwrite.tag]
    /\ version' = Vector!VersionFromImage(image')
    /\ UNCHANGED releaseVars

Next ==
    \/ \E build \in Builds : Begin(build)
    \/ PushImage \/ PushChart
    \/ \E chart \in charts : Deploy(chart)

Spec == Init /\ [][Next]_vars
-------------------------------------------------------------------------------
(* Properties.                                                             *)

\* Every chart in the registry names images that are there, put together again
\* by its templates or by the image vector, however many jobs have failed.
ChartsResolve ==
    \A c \in charts :
        /\ c.name = "runtime" => RenderedRuntime(c.image) \in images
        /\ c.name = "runtime-kata" =>
              Rendered(c.image) \in images /\ Rendered(c.overwrite) \in images

\* A controller takes the version from the tag that its installation image was
\* pushed with ("the exact tag the image was pushed with"): it never fails to
\* find one, and the image it names has the payload of that version.
DeployedReadsTag ==
    image # Vector!Unset =>
        \E b \in Builds :
            /\ version = image_tag_pushed(b.installation)
            /\ b.installation \in images

\* Dev builds share the charts' repository with releases and never replace
\* them, nor the other way round.
DevReplacesDev ==
    [][\A c \in charts \ charts', d \in charts' \ charts :
         Nil \notin {c.image, d.image} =>
         EndsIn(c.image.repository, "-dev") = EndsIn(d.image.repository, "-dev")]_vars

\* The admission charts of a version are not released without the controller's:
\* an interrupted job leaves a controller without admission, never the reverse.
AdmissionBehindController ==
    \A c \in charts :
        \E d \in charts : d.name = "runtime-kata" /\ d.at = c.at /\ d.version = c.version
==============================================================================
