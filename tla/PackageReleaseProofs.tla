------------------------- MODULE PackageReleaseProofs -------------------------
(***************************************************************************)
(* Proofs about PackageRelease, for any number of pull requests, patches,  *)
(* versions and merges.                                                    *)
(***************************************************************************)
EXTENDS PackageRelease, TLAPS

-------------------------------------------------------------------------------
(* Types and merges.                                                       *)

LEMMA CommitParts ==
    ASSUME NEW c \in Commits
    PROVE  /\ c.version \in 1..MaxVersion /\ c.release \in 0..MaxRelease
           /\ c.packaging \in SUBSET Patches /\ c.tag \in Names
           /\ Tag(c) \in Names
           /\ Payload(c) \in [version : 1..MaxVersion, packaging : SUBSET Patches]
BY DEF Commits, Tag, Names, Payload

\* A three-way merge takes each line from one of the two sides.
LEMMA MergedType ==
    ASSUME TypeOK, NEW p \in PullRequests, prs[p] # Nil
    PROVE  /\ prs[p].base \in Commits /\ prs[p].head \in Commits
           /\ Merged(prs[p]) \in Commits
<1>1. prs[p].base \in Commits /\ prs[p].head \in Commits /\ main \in Commits
  BY DEF TypeOK
<1> DEFINE pr == prs[p]
           m == Merged(pr)
<1>2. /\ Pick(pr.base.version, main.version, pr.head.version) \in 1..MaxVersion
      /\ Pick(pr.base.release, main.release, pr.head.release) \in 0..MaxRelease
      /\ Pick(pr.base.tag, main.tag, pr.head.tag) \in Names
  BY <1>1, CommitParts DEF Pick
<1>3. {e \in Patches : Pick(e \in pr.base.packaging, e \in main.packaging,
                            e \in pr.head.packaging)} \in SUBSET Patches
  OBVIOUS
<1> QED
  BY <1>1, <1>2, <1>3 DEF Merged, Commits

\* Whatever crossed, a merge of a branch that is in sync into main that is in sync
\* is: where both have changed the version or the release, so they have the tag,
\* which conflicts unless they agree on all three.
LEMMA MergeInSync ==
    ASSUME NEW p \in PullRequests, Mergeable(prs[p]),
           InSync(main), InSync(prs[p].base), InSync(prs[p].head)
    PROVE  InSync(Merged(prs[p]))
<1> DEFINE b == prs[p].base
           h == prs[p].head
           m == Merged(prs[p])
<1>1. /\ m.version = Pick(b.version, main.version, h.version)
      /\ m.release = Pick(b.release, main.release, h.release)
      /\ m.tag = Pick(b.tag, main.tag, h.tag)
  BY DEF Merged
<1>2. /\ b.tag = <<b.version, b.release>> /\ h.tag = <<h.version, h.release>>
      /\ main.tag = <<main.version, main.release>>
  BY DEF InSync, Tag
<1>3. CASE h.tag = b.tag
  <2>1. h.version = b.version /\ h.release = b.release
    BY <1>2, <1>3
  <2> QED
    BY <1>1, <1>2, <1>3, <2>1 DEF Pick, InSync, Tag
<1>4. CASE h.tag # b.tag
  <2>1. main.tag = b.tag \/ main.tag = h.tag
    BY <1>4 DEF Mergeable, Conflict
  <2>2. \/ main.version = b.version /\ main.release = b.release
        \/ main.version = h.version /\ main.release = h.release
    BY <1>2, <2>1
  <2>3. m.version = h.version /\ m.release = h.release /\ m.tag = h.tag
    BY <1>1, <1>4, <2>2 DEF Pick
  <2> QED
    BY <1>2, <2>3 DEF InSync, Tag
<1> QED
  BY <1>3, <1>4

\* A merge that the check passes does not lower the version or the release, and
\* it keeps the payload where it keeps both.
LEMMA MergeGrows ==
    ASSUME ReleaseAssumption, TypeOK, InSync(main),
           NEW p \in PullRequests, prs[p] # Nil,
           InSync(prs[p].base), NoLower(prs[p].base, prs[p].head),
           Mergeable(prs[p]), Check(main, Merged(prs[p]))
    PROVE  /\ NoLower(main, Merged(prs[p]))
           /\ Tag(Merged(prs[p])) = Tag(main) => Payload(Merged(prs[p])) = Payload(main)
<1> DEFINE b == prs[p].base
           h == prs[p].head
           m == Merged(prs[p])
<1>1. b \in Commits /\ h \in Commits /\ m \in Commits /\ main \in Commits
  BY MergedType DEF TypeOK
<1>2. /\ \A c \in {b, h, m, main} : c.version \in Int /\ c.release \in Int
  BY <1>1, CommitParts, ReleaseAssumption
<1>3. /\ m.version = Pick(b.version, main.version, h.version)
      /\ m.release = Pick(b.release, main.release, h.release)
      /\ m.tag = Pick(b.tag, main.tag, h.tag)
  BY DEF Merged
<1>4. m.tag = <<m.version, m.release>> /\ b.tag = <<b.version, b.release>>
      /\ main.tag = <<main.version, main.release>>
  BY DEF Check, InSync, Tag
<1>5. CASE m.tag = main.tag
  <2>1. m.version = main.version /\ m.release = main.release
    BY <1>4, <1>5
  <2>2. m.packaging = main.packaging
    BY <2>1, <1>2 DEF Check
  <2> QED
    BY <2>1, <2>2, <1>2 DEF NoLower, Payload
<1>6. CASE m.tag # main.tag
  <2>1. h.tag # b.tag /\ m.tag = h.tag
    BY <1>6, <1>3 DEF Pick
  <2>2. main.tag = b.tag
    BY <2>1, <1>6 DEF Mergeable, Conflict
  <2>3. main.version = b.version /\ main.release = b.release
    BY <2>2, <1>4
  <2>4. m.version = h.version /\ m.release = h.release
    BY <2>3, <1>3 DEF Pick
  <2>5. NoLower(main, m)
    BY <2>3, <2>4 DEF NoLower
  <2>6. Tag(m) # Tag(main)
    BY <1>6, <1>4 DEF Tag
  <2> QED
    BY <2>5, <2>6
<1> QED
  BY <1>5, <1>6

-------------------------------------------------------------------------------
(* Main is in sync, however pull requests were checked.                    *)

\* Pull requests branch off commits that main has had, which were in sync.
SyncInv ==
    /\ TypeOK
    /\ InSync(main)
    /\ \A p \in PullRequests : prs[p] # Nil => InSync(prs[p].base)

LEMMA InitSync == ASSUME ReleaseAssumption, Init PROVE SyncInv
BY DEF Init, SyncInv, TypeOK, Commits, Names, First, InSync, Tag

LEMMA PublishKeepsType ==
    ASSUME TypeOK, NEW c \in Commits, Publish(c)
    PROVE  TypeOK'
<1>1. Tag(c) \in Names
      /\ Payload(c) \in [version : 1..MaxVersion, packaging : SUBSET Patches]
  BY CommitParts
<1>2. lapses' \in SUBSET {"merge", "push"}
  BY DEF Publish, TypeOK
<1>3. registry' \in {registry, [registry EXCEPT ![Tag(c)] = Payload(c)]}
  BY DEF Publish
<1> QED
  BY <1>1, <1>2, <1>3 DEF Publish, TypeOK

\* Every step keeps main and the bases of the pull requests in sync.
LEMMA StepSync ==
    ASSUME ReleaseAssumption, SyncInv, [Next]_vars
    PROVE  SyncInv'
<1> USE ReleaseAssumption
<1>1. ASSUME NEW p \in PullRequests, Open(p) PROVE SyncInv'
  <2>1. PICK c \in Commits :
            /\ prs' = [prs EXCEPT ![p] = [base |-> main, head |-> c]]
            /\ UNCHANGED <<main, registry, merges, lapses>>
    BY <1>1 DEF Open
  <2>2. TypeOK'
    BY <2>1 DEF SyncInv, TypeOK
  <2>3. \A q \in PullRequests : prs'[q] # Nil => InSync(prs'[q].base)
    BY <2>1 DEF SyncInv, TypeOK
  <2> QED
    BY <2>1, <2>2, <2>3 DEF SyncInv, InSync, Tag
<1>2. ASSUME NEW p \in PullRequests, Merge(p) PROVE SyncInv'
  <2> DEFINE m == Merged(prs[p])
  <2>1. /\ prs[p] # Nil /\ Mergeable(prs[p])
        /\ main' = m /\ prs' = [prs EXCEPT ![p] = Nil]
        /\ merges < MaxMerges /\ merges' = merges + 1 /\ registry' = registry
        /\ lapses' \in SUBSET {"merge", "push"}
    BY <1>2 DEF Merge, SyncInv, TypeOK
  <2>2. m \in Commits
    BY <2>1, MergedType DEF SyncInv
  <2>3. InSync(m)
    <3>1. CASE Check(main, m)
      BY <3>1 DEF Check
    <3>2. CASE Check(prs[p].base, prs[p].head)
      BY <2>1, <3>2, MergeInSync DEF Check, SyncInv
    <3> QED
      BY <1>2, <3>1, <3>2 DEF Merge
  <2> HIDE DEF m
  <2>4. TypeOK'
    BY <2>1, <2>2 DEF SyncInv, TypeOK
  <2>5. \A q \in PullRequests : prs'[q] # Nil => InSync(prs'[q].base)
    BY <2>1 DEF SyncInv, TypeOK
  <2> QED
    BY <2>1, <2>3, <2>4, <2>5 DEF SyncInv, InSync, Tag
<1>3. ASSUME NEW c \in Commits, Publish(c) PROVE SyncInv'
  BY <1>3, PublishKeepsType DEF SyncInv, Publish, InSync, Tag
<1>4. CASE UNCHANGED vars
  BY <1>4 DEF vars, SyncInv, TypeOK, InSync, Tag
<1>5. main \in Commits /\ \A p \in PullRequests : prs[p] # Nil => prs[p].head \in Commits
  BY DEF SyncInv, TypeOK
<1> QED
  BY <1>1, <1>2, <1>3, <1>4, <1>5 DEF Next

LEMMA AlwaysInSync == Spec => []SyncInv
<1>1. Init => SyncInv
  BY ReleaseAssumption, InitSync
<1>2. SyncInv /\ [Next]_vars => SyncInv'
  BY ReleaseAssumption, StepSync
<1> QED
  BY <1>1, <1>2, PTL DEF Spec

\* The image vector of main names the tag that main builds, though branches were
\* checked alone, crossed, or took version or release back.
THEOREM TagsInSync == Spec => []TagInSync
<1>1. SyncInv => TagInSync
  BY DEF SyncInv, InSync, TagInSync
<1> QED
  BY <1>1, AlwaysInSync, PTL
-------------------------------------------------------------------------------
(* Tags and payloads, as long as versions grow and nothing has lapsed.     *)

\* Pull requests do not lower what they branched off, and no image has a tag
\* beyond that of main.
Growing == \A p \in PullRequests : prs[p] # Nil => NoLower(prs[p].base, prs[p].head)
Reached(t) == t[1] < main.version \/ (t[1] = main.version /\ t[2] <= main.release)

IInv ==
    /\ Growing
    /\ lapses = {} => /\ \A t \in Names : registry[t] # Nil => Reached(t)
                      /\ TagIsPayload

\* Every step keeps tags behind main, and that of main with main's payload.
LEMMA StepInv ==
    ASSUME ReleaseAssumption, ~Backwards, SyncInv, IInv, [Next]_vars
    PROVE  IInv'
<1> USE ReleaseAssumption
<1>1. ASSUME NEW p \in PullRequests, Open(p) PROVE IInv'
  <2>1. PICK c \in Commits :
            /\ NoLower(main, c)
            /\ prs' = [prs EXCEPT ![p] = [base |-> main, head |-> c]]
            /\ UNCHANGED <<main, registry, merges, lapses>>
    BY <1>1 DEF Open
  <2>2. Growing'
    BY <2>1 DEF IInv, Growing, SyncInv, TypeOK
  <2> QED
    BY <2>1, <2>2 DEF IInv, Reached, TagIsPayload, Tag, Payload
<1>2. ASSUME NEW p \in PullRequests, Merge(p) PROVE IInv'
  <2> DEFINE m == Merged(prs[p])
  <2>1. /\ prs[p] # Nil /\ Mergeable(prs[p])
        /\ main' = m /\ prs' = [prs EXCEPT ![p] = Nil] /\ registry' = registry
    BY <1>2 DEF Merge
  <2>2. Growing'
    BY <2>1 DEF IInv, Growing, SyncInv, TypeOK
  <2>3. SUFFICES ASSUME lapses' = {}
                 PROVE  /\ \A t \in Names : registry'[t] # Nil => Reached(t)'
                        /\ TagIsPayload'
    BY <2>2 DEF IInv
  <2>4. Check(main, m) /\ lapses = {}
    BY <1>2, <2>3 DEF Merge
  <2>5. m \in Commits /\ main \in Commits
    BY <2>1, MergedType DEF SyncInv, TypeOK
  <2>6. /\ NoLower(main, m)
        /\ Tag(m) = Tag(main) => Payload(m) = Payload(main)
    BY <2>1, <2>4, MergeGrows DEF SyncInv, IInv, Growing
  <2> HIDE DEF m
  <2>7. /\ main.version \in Int /\ main.release \in Int
        /\ m.version \in Int /\ m.release \in Int
        /\ \A t \in Names : t[1] \in Int /\ t[2] \in Int
    BY <2>5, CommitParts DEF Names
  <2>8. \A t \in Names : registry'[t] # Nil => Reached(t)'
    BY <2>1, <2>4, <2>6, <2>7 DEF IInv, Reached, NoLower
  <2>9. TagIsPayload'
    <3>1. CASE Tag(m) = Tag(main)
      BY <3>1, <2>1, <2>4, <2>6 DEF IInv, TagIsPayload
    <3>2. CASE Tag(m) # Tag(main)
      <4>1. Tag(m) \in Names
        BY <2>5, CommitParts
      <4>2. ~Reached(Tag(m))
        BY <3>2, <2>6, <2>7 DEF Reached, NoLower, Tag
      <4> QED
        BY <4>1, <4>2, <2>1, <2>4 DEF IInv, TagIsPayload
    <3> QED
      BY <3>1, <3>2
  <2> QED
    BY <2>8, <2>9
<1>3. ASSUME NEW c \in Commits, Publish(c) PROVE IInv'
  <2>1. main' = main /\ prs' = prs
    BY <1>3 DEF Publish
  <2>2. Growing'
    BY <2>1 DEF IInv, Growing
  <2>3. SUFFICES ASSUME lapses' = {}
                 PROVE  /\ \A t \in Names : registry'[t] # Nil => Reached(t)
                        /\ TagIsPayload'
    BY <2>1, <2>2 DEF IInv, Reached
  <2>4. /\ lapses = {}
        /\ registry' \in {registry, [registry EXCEPT ![Tag(main)] = Payload(main)]}
    BY <1>3, <2>3 DEF Publish
  <2>5. main \in Commits /\ Tag(main) \in Names
    BY CommitParts DEF SyncInv, TypeOK
  <2>6. Reached(Tag(main))
    BY <2>5, CommitParts DEF Reached, Tag
  <2>7. \A t \in Names : registry'[t] # Nil => Reached(t)
    BY <2>4, <2>5, <2>6 DEF IInv, SyncInv, TypeOK
  <2>8. registry'[Tag(main)] \in {Nil, Payload(main)}
    BY <2>4, <2>5 DEF IInv, SyncInv, TypeOK, TagIsPayload
  <2> QED
    BY <2>1, <2>7, <2>8 DEF TagIsPayload, Tag, Payload
<1>4. CASE UNCHANGED vars
  BY <1>4 DEF vars, IInv, Growing, Reached, TagIsPayload, Tag, Payload
<1>5. main \in Commits /\ \A p \in PullRequests : prs[p] # Nil => prs[p].head \in Commits
  BY DEF SyncInv, TypeOK
<1> QED
  BY <1>1, <1>2, <1>3, <1>4, <1>5 DEF Next

LEMMA Invariant == ASSUME ~Backwards PROVE Spec => []IInv
<1>1. Init => IInv
  <2> SUFFICES ASSUME Init PROVE IInv
    OBVIOUS
  <2>1. Growing
    BY DEF Init, Growing
  <2>2. \A t \in Names : registry[t] = Nil
    BY DEF Init
  <2>3. Tag(main) \in Names
    BY ReleaseAssumption DEF Init, First, Tag, Names
  <2> QED
    BY <2>1, <2>2, <2>3 DEF IInv, TagIsPayload
<1>2. SyncInv /\ IInv /\ [Next]_vars => IInv'
  BY ReleaseAssumption, StepInv
<1> QED
  BY <1>1, <1>2, AlwaysInSync, PTL DEF Spec

\* Where merged trees are checked, images come from main and versions only grow,
\* an image in the registry holds what the commit that finds it there would build.
THEOREM TagsHavePayload == ASSUME ~Backwards PROVE Spec => []TagHasPayload
<1>1. IInv => TagHasPayload
  BY DEF IInv, TagHasPayload
<1> QED
  BY <1>1, Invariant, PTL

\* No image changes under its tag then, though a registry that cannot be asked
\* has it pushed again.
THEOREM PublishedStay == ASSUME ~Backwards PROVE Spec => PublishedStays
<1> DEFINE Stays == lapses' = {} =>
        \A t \in Names : registry[t] # Nil => registry'[t] = registry[t]
<1>1. SyncInv /\ IInv /\ [Next]_vars => [Stays]_vars
  <2> SUFFICES ASSUME SyncInv, IInv, Next, lapses' = {},
                      NEW t \in Names, registry[t] # Nil
               PROVE  registry'[t] = registry[t]
    BY DEF vars
  <2>1. CASE \E p \in PullRequests : Open(p) \/ Merge(p)
    BY <2>1 DEF Open, Merge
  <2>2. ASSUME NEW c \in Commits, Publish(c) PROVE registry'[t] = registry[t]
    <3>1. lapses = {}
          /\ registry' \in {registry, [registry EXCEPT ![Tag(main)] = Payload(main)]}
      BY <2>2 DEF Publish
    <3> QED
      BY <3>1 DEF SyncInv, TypeOK, IInv, TagIsPayload
  <2>3. main \in Commits /\ \A p \in PullRequests : prs[p] # Nil => prs[p].head \in Commits
    BY DEF SyncInv, TypeOK
  <2> QED
    BY <2>1, <2>2, <2>3 DEF Next
<1> QED
  BY <1>1, AlwaysInSync, Invariant, PTL DEF Spec, PublishedStays
==============================================================================
