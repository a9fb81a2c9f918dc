---------------------------- MODULE PackageRelease ----------------------------
(***************************************************************************)
(* Pull requests that change what the installation image holds, and the    *)
(* check (hack/check-package-release.sh) that is to keep every payload     *)
(* under a tag of its own.                                                 *)
(*                                                                         *)
(*   main      the commit at the head of main                              *)
(*   prs       of each open pull request the commit it branched off and    *)
(*             the one it proposes                                         *)
(*   registry  the payload of the image of each tag                        *)
(*   merges    merges so far                                               *)
(*   lapses    what has been done without regard to main: "merge", a check  *)
(*             of a branch alone; "push", an image of a branch (history,    *)
(*             read by properties only)                                    *)
(***************************************************************************)
EXTENDS Integers

CONSTANTS
    PullRequests,   \* concurrent pull requests
    Patches,        \* changes of packaging files, each of which may be reverted
    MaxVersion,     \* bound on versions of Kata Containers, from 1 on
    MaxRelease,     \* bound on package releases, from 0 on
    MaxMerges,      \* bound on merges
    Backwards,      \* may a pull request lower the version or the release?
    Nil             \* no pull request, no image

ASSUME ReleaseAssumption ==
    /\ MaxVersion \in Nat \ {0} /\ MaxRelease \in Nat /\ MaxMerges \in Nat
    /\ Backwards \in BOOLEAN

VARIABLES main, prs, registry, merges, lapses

vars == <<main, prs, registry, merges, lapses>>
-------------------------------------------------------------------------------
\* Of a commit: KATA_VERSION, KATA_PACKAGE_RELEASE, the patches in the packaging
\* files, and the tag in imagevector/images.yaml.
Names == (1..MaxVersion) \X (0..MaxRelease)
Commits == [version : 1..MaxVersion, release : 0..MaxRelease,
            packaging : SUBSET Patches, tag : Names]

Tag(c) == <<c.version, c.release>>
Payload(c) == [version |-> c.version, packaging |-> c.packaging]

First == [version |-> 1, release |-> 0, packaging |-> {}, tag |-> <<1, 0>>]

Init ==
    /\ main = First
    /\ prs = [p \in PullRequests |-> Nil]
    /\ registry = [t \in Names |-> Nil]
    /\ merges = 0
    /\ lapses = {}

NoLower(c, d) ==
    \/ c.version < d.version
    \/ c.version = d.version /\ c.release <= d.release

\* A branch off main with any change, with `make generate' or without it.
\* Opening it again drops an earlier attempt.
Open(p) ==
    \E c \in Commits :
        /\ Backwards \/ NoLower(main, c)
        /\ c.tag \in {Tag(c), main.tag}
        /\ prs' = [prs EXCEPT ![p] = [base |-> main, head |-> c]]
        /\ UNCHANGED <<main, registry, merges, lapses>>
-------------------------------------------------------------------------------
(* git's three-way merge, by line.                                         *)

Conflict(base, ours, theirs) == ours # base /\ theirs # base /\ ours # theirs
Pick(base, ours, theirs) == IF theirs = base THEN ours ELSE theirs

Mergeable(pr) ==
    \A f \in {"version", "release", "tag"} :
        ~Conflict(pr.base[f], main[f], pr.head[f])

Merged(pr) ==
    [version |-> Pick(pr.base.version, main.version, pr.head.version),
     release |-> Pick(pr.base.release, main.release, pr.head.release),
     tag |-> Pick(pr.base.tag, main.tag, pr.head.tag),
     packaging |-> {e \in Patches : Pick(e \in pr.base.packaging,
                                         e \in main.packaging,
                                         e \in pr.head.packaging)}]
-------------------------------------------------------------------------------
(* check-package-release.sh, of the tree c against the commit base.        *)

InSync(c) == c.tag = Tag(c)

\* Mutant: the same release passes.
CheckNotLowered(base, c) ==
    /\ InSync(c)
    /\ \/ c.packaging = base.packaging
       \/ c.version # base.version
       \/ c.release >= base.release

\* Mutant: without a change in packaging files the script ends before it looks at
\* the tag.
CheckSyncLast(base, c) ==
    \/ c.packaging = base.packaging
    \/ InSync(c) /\ (c.version # base.version \/ c.release > base.release)

\* Mutant: the packaging file that changed is not among PACKAGING_TARGETS.
CheckUnwatched(base, c) == InSync(c)

\* The tag follows KATA_VERSION, and where packaging files differ from the base
\* either the version does, too, or the release is greater.
Check(base, c) ==
    /\ InSync(c)
    /\ \/ c.packaging = base.packaging
       \/ c.version # base.version
       \/ c.release > base.release

\* Checked is the merged tree against the head of main (PULL_BASE_SHA), or the
\* branch against the commit that it branched off (merge-base).
Merge(p) ==
    /\ prs[p] # Nil
    /\ merges < MaxMerges
    /\ Mergeable(prs[p])
    /\ \/ Check(main, Merged(prs[p])) /\ UNCHANGED lapses
       \/ Check(prs[p].base, prs[p].head) /\ lapses' = lapses \cup {"merge"}
    /\ main' = Merged(prs[p])
    /\ prs' = [prs EXCEPT ![p] = Nil]
    /\ merges' = merges + 1
    /\ UNCHANGED registry
-------------------------------------------------------------------------------
\* make installation-image PUSH=true in the tree c: an image that the registry
\* knows is used; when it cannot tell, the image is built and pushed all the same.
Publish(c) ==
    /\ \/ registry[Tag(c)] # Nil /\ UNCHANGED <<registry, lapses>>
       \/ /\ registry' = [registry EXCEPT ![Tag(c)] = Payload(c)]
          /\ lapses' = IF c = main THEN lapses ELSE lapses \cup {"push"}
    /\ UNCHANGED <<main, prs, merges>>

Next ==
    \/ \E p \in PullRequests : Open(p) \/ Merge(p)
    \/ Publish(main)
    \/ \E p \in PullRequests : prs[p] # Nil /\ Publish(prs[p].head)

Spec == Init /\ [][Next]_vars
-------------------------------------------------------------------------------
(* Properties.                                                             *)

TypeOK ==
    /\ main \in Commits
    /\ prs \in [PullRequests -> [base : Commits, head : Commits] \cup {Nil}]
    /\ registry \in [Names -> [version : 1..MaxVersion,
                               packaging : SUBSET Patches] \cup {Nil}]
    /\ merges \in 0..MaxMerges
    /\ lapses \in SUBSET {"merge", "push"}

\* The image in the registry is the one that the head of main would build.
TagIsPayload == registry[Tag(main)] \in {Nil, Payload(main)}

\* An image that is used because its tag is in the registry has the payload of
\* main, however pull requests crossed each other, as long as each was checked on
\* the merged tree and images come from main.
TagHasPayload == lapses = {} => TagIsPayload

\* Neither of the two is enough.
MainImagesSuffice == "push" \notin lapses => TagIsPayload
MergedChecksSuffice == "merge" \notin lapses => TagIsPayload

\* The controller that is built from main asks for the image that is built from
\* main, also when version, release and tag come from different merges, of which
\* each was in sync on its branch only: where branches differ the tag conflicts.
TagInSync == main.tag = Tag(main)

\* What is published under a tag stays: nodes that have installed it do not
\* look at it again.
PublishedStays ==
    [][lapses' = {} =>
         \A t \in Names : registry[t] # Nil => registry'[t] = registry[t]]_vars
==============================================================================
