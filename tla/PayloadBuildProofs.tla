-------------------------- MODULE PayloadBuildProofs --------------------------
(***************************************************************************)
(* Proofs about PayloadBuild, for any versions of Kata Containers, any     *)
(* number of interruptions and any content of the download cache.          *)
(***************************************************************************)
EXTENDS PayloadBuild, TLAPS

\* What the script has extracted is still the verified download when it packs.
Verified ==
    /\ pc \in {"fetch", "pack"} => \A a \in fetched : cache[<<version, a>>] = "verified"
    /\ pc = "pack" => fetched = Assets

IInv == TypeOK /\ Verified /\ PackedIsVerified

\* What is up to date, and what is about to be pushed, is the payload.
Whole ==
    ~disturbed =>
        /\ fresh \/ pc \in {"touch", "push"} => tarball = Payload(version)
        /\ PushedIsPayload

LEMMA Kinds ==
    /\ Missing.kind = "missing" /\ Truncated.kind = "truncated"
    /\ \A v, d : Packed(v, d).kind = "packed" /\ Packed(v, d).downloads = d
BY DEF Missing, Truncated, Packed

LEMMA DownloadType ==
    ASSUME TypeOK
    PROVE  NextAsset \in Assets /\ Download \in Versions \X Assets
BY DEF TypeOK, NextAsset, Download, Assets

LEMMA InitInv == ASSUME BuildAssumption, Init PROVE IInv /\ Whole
<1>1. TypeOK
  <2>1. 0 \in 0..MaxFailures /\ 0 \in 0..MaxInterrupts
    BY DEF BuildAssumption
  <2>2. [v \in Versions |-> Absent]
            \in [Versions -> {Absent, Missing, Truncated} \cup AnyPacked]
    OBVIOUS
  <2> QED
    BY <2>1, <2>2 DEF Init, TypeOK
<1>2. Verified /\ PackedIsVerified /\ Whole
  BY DEF Init, Verified, PackedIsVerified, Whole, PushedIsPayload, Missing
<1> QED
  BY <1>1, <1>2 DEF IInv

\* What the script packs.
LEMMA Contents ==
    ASSUME Verified, pc = "pack"
    PROVE  {cache[<<version, a>>] : a \in Assets} = {"verified"}
BY DEF Verified, Assets

LEMMA StepInv == ASSUME BuildAssumption, IInv, [Next]_vars PROVE IInv'
<1> USE DEF IInv, TypeOK, Statuses
<1>1. ASSUME NEW v \in Versions, ChangeVersion(v) PROVE IInv'
  BY <1>1 DEF ChangeVersion, Verified, PackedIsVerified, counters
<1>2. CASE MakeClean
  BY <1>2, Kinds DEF MakeClean, Verified, PackedIsVerified, counters
<1>3. CASE MakeBinaries
  BY <1>3 DEF MakeBinaries, Verified, PackedIsVerified, files, counters
<1>4. CASE MakeImage
  BY <1>4 DEF MakeImage, Verified, PackedIsVerified, files, counters
<1>5. CASE Inspect
  BY <1>5 DEF Inspect, Goto, Verified, PackedIsVerified
<1>6. CASE Sentinel
  BY <1>6 DEF Sentinel, Goto, AfterBinaries, Verified, PackedIsVerified, Assets
<1>7. CASE Push
  BY <1>7 DEF Push, Goto, Verified, PackedIsVerified
<1>8. CASE Fetch
  <2>1. /\ UNCHANGED <<version, tarball, fresh, registry, goal, counters>>
        /\ pc = "fetch" /\ pc' = "fetch"
        /\ \/ /\ cache[Download] = "corrupt"
              /\ cache' = [cache EXCEPT ![Download] = "absent"]
              /\ fetched' = fetched
           \/ /\ cache' = [cache EXCEPT ![Download] = "verified"]
              /\ fetched' = fetched \cup {NextAsset}
    BY <1>8 DEF Fetch, Goto, Extract, counters
  <2>2. Download = <<version, NextAsset>> /\ NextAsset \in Assets
    BY DownloadType DEF Download
  <2>3. TypeOK'
    BY <2>1, <2>2 DEF counters
  <2>4. Verified'
    BY <2>1, <2>2 DEF Verified
  <2> QED
    BY <2>1, <2>3, <2>4 DEF PackedIsVerified
<1>9. CASE BeginPack
  BY <1>9, Kinds DEF BeginPack, Goto, Verified, PackedIsVerified
<1>10. CASE EndPack
  <2> DEFINE d == {cache[<<version, a>>] : a \in Assets}
  <2>1. pc = "pack" /\ Verified
    BY <1>10 DEF EndPack
  <2>2. d = {"verified"}
    BY ONLY <2>1, Contents
  <2>3. /\ tarball' = Packed(version, d) /\ version' = version /\ pc' = "touch"
        /\ UNCHANGED <<cache, fresh, registry, goal, fetched, counters>>
    BY <1>10 DEF EndPack, Goto, counters
  <2> HIDE DEF d
  <2>4. tarball' \in AnyPacked
    BY <2>2, <2>3 DEF AnyPacked
  <2>5. PackedIsVerified'
    BY <2>2, <2>3, Kinds DEF PackedIsVerified
  <2> QED
    BY <2>3, <2>4, <2>5 DEF Verified, counters
<1>11. CASE Touch
  BY <1>11 DEF Touch, Goto, AfterBinaries, Verified, PackedIsVerified
<1>12. CASE Interrupt
  BY <1>12 DEF Interrupt, files, Verified, PackedIsVerified
<1>13. CASE Fail
  BY <1>13 DEF Fail, Goto, AfterBinaries, Verified, PackedIsVerified
<1>14. CASE UNCHANGED vars
  BY <1>14 DEF vars, counters, Verified, PackedIsVerified
<1> QED
  BY <1>1, <1>2, <1>3, <1>4, <1>5, <1>6, <1>7, <1>8, <1>9, <1>10, <1>11, <1>12,
     <1>13, <1>14 DEF Next, Make

LEMMA Invariant == Spec => []IInv
<1>1. Init => IInv
  BY InitInv, BuildAssumption
<1>2. IInv /\ [Next]_vars => IInv'
  BY StepInv, BuildAssumption
<1> QED
  BY <1>1, <1>2, PTL DEF Spec

\* Files, registry and the state of make keep their ranges.
THEOREM TypeCorrect == Spec => []TypeOK
<1>1. IInv => TypeOK
  BY DEF IInv
<1> QED
  BY <1>1, Invariant, PTL

\* Every download in the tarball was verified by the run that packed it,
\* whatever was in /tmp, failed or was interrupted.
THEOREM NothingUnverified == Spec => []PackedIsVerified
<1>1. IInv => PackedIsVerified
  BY DEF IInv
<1> QED
  BY <1>1, Invariant, PTL

LEMMA StepWhole ==
    ASSUME IInv, Whole, [Next]_vars
    PROVE  Whole'
<1> USE DEF Whole, PushedIsPayload
<1>1. ASSUME NEW v \in Versions, ChangeVersion(v) PROVE Whole'
  BY <1>1 DEF ChangeVersion, counters
<1>2. CASE MakeBinaries \/ MakeImage \/ Interrupt
  BY <1>2 DEF MakeBinaries, MakeImage, Interrupt, files, counters
<1>3. CASE Inspect
  BY <1>3 DEF Inspect, Goto
<1>4. CASE Sentinel
  BY <1>4 DEF Sentinel, Goto
<1>5. CASE Push
  <2>1. /\ registry' = [registry EXCEPT ![version] = tarball] /\ pc' = "idle"
        /\ UNCHANGED <<version, tarball, fresh, disturbed>>
        /\ pc = "push"
    BY <1>5 DEF Push, Goto
  <2>2. CASE disturbed
    BY <2>1, <2>2
  <2>3. CASE ~disturbed
    <3>1. registry' = [registry EXCEPT ![version] = Payload(version)]
      BY <2>1, <2>3
    <3> QED
      BY <2>1, <2>3, <3>1 DEF IInv, TypeOK
  <2> QED
    BY <2>2, <2>3
<1>6. CASE Fetch
  BY <1>6 DEF Fetch, Goto
<1>7. CASE BeginPack
  BY <1>7 DEF BeginPack, Goto
<1>8. CASE EndPack
  <2> DEFINE d == {cache[<<version, a>>] : a \in Assets}
  <2>1. d = {"verified"}
    BY <1>8, Contents DEF EndPack, IInv
  <2>2. /\ tarball' = Packed(version, d) /\ version' = version
        /\ registry' = registry /\ disturbed' = disturbed
    BY <1>8 DEF EndPack, Goto
  <2> HIDE DEF d
  <2>3. tarball' = Payload(version')
    BY <2>1, <2>2 DEF Payload
  <2> QED
    BY <2>2, <2>3
<1>9. CASE Touch
  BY <1>9 DEF Touch, Goto
<1>10. CASE UNCHANGED vars
  BY <1>10 DEF vars
<1>11. CASE MakeClean \/ Fail
  BY <1>11 DEF MakeClean, Fail
<1> QED
  BY <1>1, <1>2, <1>3, <1>4, <1>5, <1>6, <1>7, <1>8, <1>9, <1>10, <1>11
     DEF Next, Make

\* Up to the first failing command or `make clean' an image holds the whole
\* payload of its version, however often its build was interrupted and whatever
\* version the kodata directory was built for before.
THEOREM PushedWhole == Spec => []UndisturbedIsPayload
<1>1. Init => Whole
  BY InitInv, BuildAssumption
<1>2. IInv /\ Whole /\ [Next]_vars => Whole'
  BY StepWhole
<1>3. Whole => UndisturbedIsPayload
  BY DEF Whole, UndisturbedIsPayload
<1> QED
  BY <1>1, <1>2, <1>3, Invariant, PTL DEF Spec
==============================================================================
