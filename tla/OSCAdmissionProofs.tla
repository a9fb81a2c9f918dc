-------------------------- MODULE OSCAdmissionProofs --------------------------
(***************************************************************************)
(* Proofs about OSCAdmission. What the webhook relies on is one fact about *)
(* keyed lists: Upsert neither repeats a key nor touches the other ones.   *)
(***************************************************************************)
EXTENDS OSCAdmission, SequenceTheorems, TLAPS

IsList(s) == s \in Seq({s[i] : i \in DOMAIN s})
Unique(s) == \A i, j \in DOMAIN s : s[i].key = s[j].key => i = j
Begins(short, long) ==
    Len(short) <= Len(long) /\ \A i \in DOMAIN short : long[i] = short[i]
KeyOf(s, k) == \E i \in DOMAIN s : s[i].key = k

\* What an Upsert does to every list of unique keys: it stays one, the entry is
\* there, entries of other keys stay, and a prefix without the key stays where
\* it is.
LEMMA UpsertFacts ==
    ASSUME NEW s, NEW e, IsList(s), Unique(s)
    PROVE  /\ IsList(Upsert(s, e))
           /\ Unique(Upsert(s, e))
           /\ Has(Upsert(s, e), e)
           /\ \A f : Has(s, f) /\ f.key # e.key => Has(Upsert(s, e), f)
           /\ \A p : IsList(p) /\ Begins(p, s) /\ ~KeyOf(p, e.key) => Begins(p, Upsert(s, e))
           /\ KeyedBy(s) /\ e.key \in Keys => KeyedBy(Upsert(s, e))
<1> DEFINE same == {i \in DOMAIN s : s[i].key = e.key}
           u == Upsert(s, e)
<1>0. DOMAIN s = 1..Len(s) /\ Len(s) \in Nat
  BY DEF IsList
<1>1. CASE same = {}
  <2>1. u = Append(s, e)
    BY <1>1 DEF Upsert
  <2>2. /\ DOMAIN u = 1..Len(s) + 1
        /\ Len(u) = Len(s) + 1
        /\ \A i \in 1..Len(s) : u[i] = s[i]
        /\ u[Len(s) + 1] = e
    BY <2>1, <1>0 DEF IsList
  <2>3. IsList(u)
    BY <2>1, <2>2, <1>0 DEF IsList
  <2>4. \A i \in 1..Len(s) : s[i].key # e.key
    BY <1>1, <1>0
  <2>5. Unique(u)
    BY <2>2, <2>4, <1>0 DEF Unique
  <2>6. Has(u, e)
    BY <2>2, <1>0 DEF Has
  <2>7. \A f : Has(s, f) => Has(u, f)
    BY <2>2, <1>0 DEF Has
  <2>8. \A p : IsList(p) /\ Begins(p, s) => Begins(p, u)
    BY <2>2, <1>0 DEF IsList, Begins
  <2>9. KeyedBy(s) /\ e.key \in Keys => KeyedBy(u)
    BY <2>2, <1>0 DEF KeyedBy
  <2> QED
    BY <2>3, <2>5, <2>6, <2>7, <2>8, <2>9
<1>2. CASE same # {}
  <2>1. PICK k \in 1..Len(s) : s[k].key = e.key
    BY <1>2, <1>0
  <2>2. \A j \in same : j = k
    BY <2>1, <1>0 DEF Unique
  <2>3. u = [s EXCEPT ![k] = e]
    <3>1. (CHOOSE i \in same : \A j \in same : i <= j) = k
      BY <2>1, <2>2, <1>0
    <3> QED
      BY <3>1, <1>2 DEF Upsert
  <2>4. /\ DOMAIN u = 1..Len(s)
        /\ Len(u) = Len(s)
        /\ \A i \in 1..Len(s) : i # k => u[i] = s[i]
        /\ u[k] = e
    BY <2>1, <2>3, <1>0 DEF IsList
  <2>5. IsList(u)
    <3> DEFINE range == {u[i] : i \in DOMAIN u}
    <3>1. u = [i \in 1..Len(s) |-> u[i]]
      BY <2>3, <2>4, <1>0 DEF IsList
    <3>2. u \in [1..Len(s) -> range]
      BY <3>1, <2>4
    <3>3. u \in Seq(range)
      BY <3>2, <1>0, SeqDef
    <3> QED
      BY <3>3 DEF IsList
  <2>6. Unique(u)
    BY <2>4, <2>1, <1>0 DEF Unique
  <2>7. Has(u, e)
    BY <2>4, <2>1 DEF Has
  <2>8. \A f : Has(s, f) /\ f.key # e.key => Has(u, f)
    BY <2>4, <2>1, <1>0 DEF Has
  <2>9. \A p : IsList(p) /\ Begins(p, s) /\ ~KeyOf(p, e.key) => Begins(p, u)
    <3> SUFFICES ASSUME NEW p, IsList(p), Begins(p, s), ~KeyOf(p, e.key)
                 PROVE  Begins(p, u)
      OBVIOUS
    <3>1. DOMAIN p = 1..Len(p) /\ Len(p) \in Nat
      BY DEF IsList
    <3>2. \A i \in DOMAIN p : i # k
      BY <2>1, <3>1 DEF Begins, KeyOf
    <3> QED
      BY <3>1, <3>2, <2>4, <1>0 DEF Begins
  <2>10. KeyedBy(s) /\ e.key \in Keys => KeyedBy(u)
    BY <2>4, <2>1, <1>0 DEF KeyedBy
  <2> QED
    BY <2>5, <2>6, <2>7, <2>8, <2>9, <2>10
<1> QED
  BY <1>1, <1>2
-------------------------------------------------------------------------------
Listed(s) == IsList(s) /\ Unique(s) /\ KeyedBy(s)

\* Two entries of different keys, one after the other.
LEMMA TwoUpserts ==
    ASSUME NEW s, NEW e, NEW f, Listed(s), e.key \in Keys, f.key \in Keys, e.key # f.key
    PROVE  LET t == Upsert(Upsert(s, e), f) IN
           /\ Listed(t) /\ Has(t, e) /\ Has(t, f)
           /\ \A p : IsList(p) /\ Begins(p, s) /\ ~KeyOf(p, e.key) /\ ~KeyOf(p, f.key) => Begins(p, t)
<1>1. /\ Listed(Upsert(s, e)) /\ Has(Upsert(s, e), e)
      /\ \A p : IsList(p) /\ Begins(p, s) /\ ~KeyOf(p, e.key) => Begins(p, Upsert(s, e))
  BY UpsertFacts DEF Listed
<1> QED
  BY <1>1, UpsertFacts DEF Listed

\* The keys of Kata are no others', and differ.
LEMMA KataKeys ==
    ASSUME NEW v \in Versions
    PROVE  /\ Plugin(kataHandlers[1], v).key = <<"runtimes", "kata-qemu">>
           /\ Plugin(kataHandlers[2], v).key = <<"runtimes", "kata-clh">>
           /\ Tarball(v).key = tarballPath(v) /\ Script(v).key = ScriptPath
           /\ InstallUnit(v).key = UnitName
           /\ {<<"runtimes", "kata-qemu">>, <<"runtimes", "kata-clh">>, tarballPath(v),
               ScriptPath, UnitName} \subseteq Keys
           /\ <<"runtimes", "kata-qemu">> # <<"runtimes", "kata-clh">>
           /\ tarballPath(v) # ScriptPath
<1>1. DOMAIN kataHandlers = {1, 2}
  BY DEF kataHandlers
<1>2. /\ kataHandlers[1].path = <<"runtimes", "kata-qemu">>
      /\ kataHandlers[2].path = <<"runtimes", "kata-clh">>
  BY DEF kataHandlers
<1>3. tarballPath(v) # ScriptPath
  BY DEF tarballPath, ScriptPath
<1>4. {<<"runtimes", "kata-qemu">>, <<"runtimes", "kata-clh">>} \subseteq Keys
  BY <1>1, <1>2 DEF Keys
<1>5. {tarballPath(v), ScriptPath, UnitName} \subseteq Keys
  BY DEF Keys
<1> QED
  BY <1>2, <1>3, <1>4, <1>5 DEF Plugin, Tarball, Script, InstallUnit
-------------------------------------------------------------------------------
\* The lists that gardenlet writes.
BasePlugins == <<[key |-> <<"runtimes", "runsc">>, values |-> "foreign"]>>
BaseFiles == <<Foreign("ca"), Foreign("kubelet")>>
BaseUnits == <<[key |-> <<"containerd.service">>, filePaths |-> <<>>]>>

\* An OSC of o as everybody leaves it: a record of its own pool and purpose,
\* whose lists have no key twice and begin as gardenlet wrote them; one that
\* does not concern Kata has no more than that.
Sound(o, x) ==
    /\ x = [pool |-> o[1], purpose |-> o[2], containerd |-> x.containerd,
            label |-> x.label, deleting |-> x.deleting,
            plugins |-> x.plugins, files |-> x.files, units |-> x.units]
    /\ {x.containerd, x.label, x.deleting} \subseteq BOOLEAN
    /\ o[2] = "reconcile" => x.containerd
    /\ Listed(x.plugins) /\ Begins(BasePlugins, x.plugins)
    /\ Listed(x.files) /\ Begins(BaseFiles, x.files)
    /\ Listed(x.units) /\ Begins(BaseUnits, x.units)
    /\ o[2] = "provision" \/ ~x.label =>
          x.plugins = BasePlugins /\ x.files = BaseFiles /\ x.units = BaseUnits

LEMMA BaseLists ==
    /\ Listed(BasePlugins) /\ Listed(BaseFiles) /\ Listed(BaseUnits)
    /\ \A v \in Versions :
          /\ ~KeyOf(BasePlugins, <<"runtimes", "kata-qemu">>)
          /\ ~KeyOf(BasePlugins, <<"runtimes", "kata-clh">>)
          /\ ~KeyOf(BaseFiles, tarballPath(v)) /\ ~KeyOf(BaseFiles, ScriptPath)
          /\ ~KeyOf(BaseUnits, UnitName)
<1>1. Listed(BasePlugins) /\ Listed(BaseUnits)
  BY DEF Listed, IsList, Unique, KeyedBy, BasePlugins, BaseUnits, Keys
<1>2. Listed(BaseFiles)
  BY DEF Listed, IsList, Unique, KeyedBy, BaseFiles, Foreign, Keys
<1>3. /\ ~KeyOf(BasePlugins, <<"runtimes", "kata-qemu">>)
      /\ ~KeyOf(BasePlugins, <<"runtimes", "kata-clh">>)
  BY DEF KeyOf, BasePlugins
<1>4. ~KeyOf(BaseUnits, UnitName) /\ ~KeyOf(BaseFiles, ScriptPath)
  BY DEF KeyOf, BaseUnits, BaseFiles, Foreign, UnitName, ScriptPath
<1>5. \A v \in Versions : ~KeyOf(BaseFiles, tarballPath(v))
  BY DEF KeyOf, BaseFiles, Foreign, tarballPath
<1> QED
  BY <1>1, <1>2, <1>3, <1>4, <1>5

\* What gardenlet writes is sound.
LEMMA BaseSound ==
    ASSUME NEW o \in OSCs, NEW l \in BOOLEAN, NEW c \in BOOLEAN, o[2] = "reconcile" => c
    PROVE  Sound(o, Base(o, l, c))
<1>1. \A s \in {BasePlugins, BaseFiles, BaseUnits} : Begins(s, s)
  BY DEF Begins, BasePlugins, BaseFiles, BaseUnits
<1> DEFINE b == Base(o, l, c)
<1>2. /\ b.containerd = c /\ b.label = l /\ b.deleting = FALSE
      /\ b.plugins = BasePlugins /\ b.files = BaseFiles /\ b.units = BaseUnits
      /\ b = [pool |-> o[1], purpose |-> o[2], containerd |-> c, label |-> l, deleting |-> FALSE,
              plugins |-> BasePlugins, files |-> BaseFiles, units |-> BaseUnits]
  BY DEF Base, BasePlugins, BaseFiles, BaseUnits
<1> HIDE DEF b
<1>3. Sound(o, b)
  BY <1>1, <1>2, BaseLists DEF Sound
<1> QED
  BY <1>3 DEF b

\* Where it does not return early, Mutate replaces three fields and no other
\* (one after the other for the provers).
LEMMA MutateIs ==
    ASSUME NEW o, NEW x, NEW c, NEW v, Concerns(x, c),
           x = [pool |-> o[1], purpose |-> o[2], containerd |-> x.containerd,
                label |-> x.label, deleting |-> x.deleting,
                plugins |-> x.plugins, files |-> x.files, units |-> x.units]
    PROVE  Mutate(x, c, v) =
              [pool |-> o[1], purpose |-> o[2], containerd |-> x.containerd,
               label |-> x.label, deleting |-> x.deleting,
               plugins |-> ensureCRIConfig(x.plugins, v),
               files |-> ensureFiles(x.files, v),
               units |-> ensureUnits(x.units, v)]
<1> DEFINE ps == ensureCRIConfig(x.plugins, v)
           fs == ensureFiles(x.files, v)
           us == ensureUnits(x.units, v)
           OSC(pp, ff, uu) ==
             [pool |-> o[1], purpose |-> o[2], containerd |-> x.containerd,
              label |-> x.label, deleting |-> x.deleting,
              plugins |-> pp, files |-> ff, units |-> uu]
           x1 == [x EXCEPT !.plugins = ps]
           x2 == [x1 EXCEPT !.files = fs]
           x3 == [x2 EXCEPT !.units = us]
<1>0. Mutate(x, c, v) = [x EXCEPT !.plugins = ps, !.files = fs, !.units = us]
  BY DEF Mutate
<1> HIDE DEF ps, fs, us
<1>1. x1 = OSC(ps, x.files, x.units)
  OBVIOUS
<1> HIDE DEF x1
<1>2. x2 = OSC(ps, fs, x.units)
  BY <1>1
<1> HIDE DEF x2
<1>3. x3 = OSC(ps, fs, us)
  BY <1>2
<1>4. x3 = [x EXCEPT !.plugins = ps, !.files = fs, !.units = us]
  BY Zenon DEF x1, x2
<1>5. Mutate(x, c, v) = OSC(ps, fs, us)
  BY <1>0, <1>3, <1>4
<1> QED
  BY <1>5 DEF ps, fs, us

\* The webhook makes of a sound OSC of a kata pool a sound one; if it concerns
\* Kata, with everything that version v needs, and else the same one.
LEMMA MutateSound ==
    ASSUME NEW o \in OSCs, NEW x, NEW c, NEW v \in Versions, Sound(o, x), x.label
    PROVE  /\ Sound(o, Mutate(x, c, v))
           /\ Mutate(x, c, v).label = x.label
           /\ Mutate(x, c, v).deleting = x.deleting
           /\ Concerns(x, c) => Installs(Mutate(x, c, v), v)
           /\ ~Concerns(x, c) => Mutate(x, c, v) = x
<1>1. CASE ~Concerns(x, c)
  BY <1>1 DEF Mutate
<1>2. CASE Concerns(x, c)
  <2> DEFINE ps == ensureCRIConfig(x.plugins, v)
             fs == ensureFiles(x.files, v)
             us == ensureUnits(x.units, v)
             y == Mutate(x, c, v)
  <2>1. /\ Listed(ps) /\ Begins(BasePlugins, ps)
        /\ Has(ps, Plugin(kataHandlers[1], v)) /\ Has(ps, Plugin(kataHandlers[2], v))
    <3>1. Listed(x.plugins) /\ Begins(BasePlugins, x.plugins) /\ IsList(BasePlugins)
      BY BaseLists DEF Sound, Listed
    <3> QED
      BY <3>1, BaseLists, KataKeys, TwoUpserts DEF ensureCRIConfig, upsertPlugin
  <2>2. /\ Listed(fs) /\ Begins(BaseFiles, fs)
        /\ Has(fs, Tarball(v)) /\ Has(fs, Script(v))
    <3>1. Listed(x.files) /\ Begins(BaseFiles, x.files) /\ IsList(BaseFiles)
      BY BaseLists DEF Sound, Listed
    <3> QED
      BY <3>1, BaseLists, KataKeys, TwoUpserts DEF ensureFiles, upsertFile
  <2>3. /\ Listed(us) /\ Begins(BaseUnits, us)
        /\ Has(us, InstallUnit(v))
    <3>1. Listed(x.units) /\ Begins(BaseUnits, x.units) /\ IsList(BaseUnits)
      BY BaseLists DEF Sound, Listed
    <3> QED
      BY <3>1, BaseLists, KataKeys, UpsertFacts DEF ensureUnits, upsertUnit, Listed
  <2>4. y = [pool |-> o[1], purpose |-> o[2], containerd |-> x.containerd,
             label |-> x.label, deleting |-> x.deleting,
             plugins |-> ps, files |-> fs, units |-> us]
    BY <1>2, MutateIs DEF Sound
  <2>5. o[2] = "reconcile"
    BY <1>2 DEF Concerns, Sound
  <2> HIDE DEF ps, fs, us, y
  <2>6. Sound(o, y) /\ y.label = x.label /\ y.deleting = x.deleting
    BY <2>1, <2>2, <2>3, <2>4, <2>5 DEF Sound
  <2>7. Installs(y, v)
    <3>1. DOMAIN kataHandlers = {1, 2}
      BY DEF kataHandlers
    <3> QED
      BY <2>1, <2>2, <2>3, <2>4, <3>1 DEF Installs
  <2> QED
    BY <2>6, <2>7, <1>2 DEF y
<1> QED
  BY <1>1, <1>2
-------------------------------------------------------------------------------
\* Who has had an OSC leaves it sound, and with a fresh cache whole.
IInv ==
    /\ shoot \in [Pools -> SUBSET Runtimes]
    /\ cluster \in [Pools -> SUBSET Runtimes] \cup {NoCluster}
    /\ running \in [Replicas -> Versions \cup {Down}]
    /\ changes \in 0..MaxChanges
    /\ DOMAIN osc = OSCs
    /\ \A o \in Stored :
          /\ Sound(o, osc[o])
          /\ FreshCluster /\ o[2] = "reconcile" /\ osc[o].label /\ ~osc[o].deleting =>
                \E v \in Versions : Installs(osc[o], v)

Kept(o, x) ==
    /\ Sound(o, x)
    /\ FreshCluster /\ o[2] = "reconcile" /\ x.label /\ ~x.deleting =>
          \E v \in Versions : Installs(x, v)

\* The API server stores what is sound and whole if it was given that, or if
\* the webhook, asked, finds that it concerns Kata.
LEMMA StoreKeeps ==
    ASSUME IInv, NEW o \in OSCs, NEW new, Store(o, new), Sound(o, new),
           \/ Kept(o, new)
           \/ /\ o[2] = "reconcile" /\ new.label
              /\ ~new.deleting
              /\ FreshCluster => cluster = shoot /\ Kata \in shoot[o[1]]
    PROVE  \E x : Kept(o, x) /\ osc' = [osc EXCEPT ![o] = x]
<1>1. CASE Selected(new)
  <2>1. PICK r \in Replicas :
           running[r] # Down /\ osc' = [osc EXCEPT ![o] = Mutate(new, cluster, running[r])]
    BY <1>1 DEF Store
  <2>2. PICK v \in Versions : v = running[r]
    BY <2>1 DEF IInv
  <2>3. new.label
    BY <1>1 DEF Selected
  <2> DEFINE x == Mutate(new, cluster, v)
  <2>4. /\ Sound(o, x) /\ x.label = new.label /\ x.deleting = new.deleting
        /\ Concerns(new, cluster) => Installs(x, v)
        /\ ~Concerns(new, cluster) => x = new
    BY <2>3, MutateSound
  <2>5. Kept(o, new) => Kept(o, x)
    BY <2>4 DEF Kept
  <2>6. ASSUME o[2] = "reconcile", ~new.deleting, FreshCluster => cluster = shoot /\ Kata \in shoot[o[1]]
        PROVE  Kept(o, x)
    <3>1. o[1] \in Pools
      BY DEF OSCs
    <3>2. FreshCluster => Concerns(new, cluster)
      BY <2>6, <3>1 DEF Concerns, workerPoolUsesKata, IInv, Sound
    <3> QED
      BY <2>4, <3>2 DEF Kept
  <2> QED
    BY <2>1, <2>2, <2>5, <2>6
<1>2. CASE ~Selected(new)
  <2>1. osc' = [osc EXCEPT ![o] = new]
    BY <1>2 DEF Store
  <2>2. Kept(o, new)
    <3> SUFFICES ASSUME o[2] = "reconcile", new.label, FreshCluster => Kata \in shoot[o[1]]
                 PROVE  Kept(o, new)
      OBVIOUS
    <3>1. CASE FreshCluster
      BY <3>1, <1>2 DEF Selected, OSCs
    <3>2. CASE ~FreshCluster
      BY <3>2 DEF Kept
    <3> QED
      BY <3>1, <3>2
  <2> QED
    BY <2>1, <2>2
<1> QED
  BY <1>1, <1>2

LEMMA InitIInv == Init => IInv
<1> SUFFICES ASSUME Init PROVE IInv
  OBVIOUS
<1>1. running \in [Replicas -> Versions \cup {Down}]
  <2>1. PICK v \in Versions : running = [r \in Replicas |-> v]
    BY DEF Init
  <2> QED
    BY <2>1
<1>2. DOMAIN osc = OSCs /\ Stored = {}
  BY DEF Init, Stored
<1> QED
  BY <1>1, <1>2, AdmissionAssumption DEF Init, IInv

\* A deletion timestamp is no change to anything else.
LEMMA DeletingSound ==
    ASSUME NEW o, NEW x, Sound(o, x)
    PROVE  /\ Sound(o, [x EXCEPT !.deleting = TRUE])
           /\ [x EXCEPT !.deleting = TRUE].deleting = TRUE
<1>1. x = [pool |-> o[1], purpose |-> o[2], containerd |-> x.containerd,
           label |-> x.label, deleting |-> x.deleting,
           plugins |-> x.plugins, files |-> x.files, units |-> x.units]
  BY DEF Sound
<1>2. \A d : [x EXCEPT !.deleting = d] =
         [pool |-> o[1], purpose |-> o[2], containerd |-> x.containerd,
          label |-> x.label, deleting |-> d,
          plugins |-> x.plugins, files |-> x.files, units |-> x.units]
  BY ONLY <1>1
<1> DEFINE y == [x EXCEPT !.deleting = TRUE]
<1> HIDE DEF y
<1>3. Sound(o, y) /\ y.deleting = TRUE
  BY <1>2 DEF Sound, y
<1> QED
  BY <1>3 DEF y

\* What a write of one OSC leaves of the invariant.
LEMMA KeptIInv ==
    ASSUME IInv, NEW o \in OSCs, NEW x, Kept(o, x), osc' = [osc EXCEPT ![o] = x],
           UNCHANGED <<shoot, cluster, running, changes>>
    PROVE  IInv'
  BY DEF IInv, Kept, Stored

LEMMA StepIInv == IInv /\ [Next]_vars => IInv'
<1> SUFFICES ASSUME IInv, [Next]_vars PROVE IInv'
  OBVIOUS
<1>1. ASSUME NEW o \in OSCs, Apply(o) PROVE IInv'
  <2>1. PICK containerd \in BOOLEAN :
           /\ o[2] = "reconcile" => containerd
           /\ Store(o, Base(o, Kata \in shoot[o[1]], containerd))
    BY <1>1 DEF Apply
  <2> DEFINE new == Base(o, Kata \in shoot[o[1]], containerd)
  <2>2. Sound(o, new)
    <3>1. (Kata \in shoot[o[1]]) \in BOOLEAN
      OBVIOUS
    <3> QED
      BY <2>1, <3>1, BaseSound, Zenon
  <2>3. /\ FreshCluster => cluster = shoot
        /\ UNCHANGED <<shoot, cluster, running, changes>>
    BY <1>1 DEF Apply
  <2>4. new.label = (Kata \in shoot[o[1]]) /\ new.deleting = FALSE
    BY DEF Base
  <2> HIDE DEF new
  <2>5. Kept(o, new) \/ (o[2] = "reconcile" /\ new.label /\ ~new.deleting)
    BY <2>2, <2>4 DEF Kept
  <2>6. \E x : Kept(o, x) /\ osc' = [osc EXCEPT ![o] = x]
    BY <2>1, <2>2, <2>3, <2>4, <2>5, StoreKeeps DEF new
  <2> QED
    BY <2>3, <2>6, KeptIInv
<1>2. ASSUME NEW o \in OSCs, Patch(o) PROVE IInv'
  <2>1. Kept(o, osc[o])
    BY <1>2 DEF Patch, IInv, Stored, Kept
  <2>2. \E x : Kept(o, x) /\ osc' = [osc EXCEPT ![o] = x]
    BY <1>2, <2>1, StoreKeeps DEF Patch, Kept
  <2> QED
    BY <1>2, <2>2, KeptIInv DEF Patch
<1>3. ASSUME NEW o \in OSCs, Delete(o) PROVE IInv'
  <2>1. Kept(o, osc[o])
    BY <1>3 DEF Delete, IInv, Stored, Kept
  <2>2. CASE osc[o].deleting
    BY <1>3, <2>2 DEF Delete, IInv, Stored
  <2>3. CASE ~osc[o].deleting
    <3> DEFINE y == [osc[o] EXCEPT !.deleting = TRUE]
    <3>1. osc' = [osc EXCEPT ![o] = y]
      BY <1>3, <2>3 DEF Delete
    <3>2. Sound(o, y) /\ y.deleting = TRUE
      BY <2>1, DeletingSound DEF Kept
    <3>3. Kept(o, y)
      BY <3>2 DEF Kept
    <3> QED
      BY <1>3, <3>1, <3>3, KeptIInv DEF Delete
  <2> QED
    BY <2>2, <2>3
<1>4. ASSUME NEW p \in Pools, NEW t \in Runtimes, ChangeShoot(p, t) PROVE IInv'
  BY <1>4, AdmissionAssumption DEF ChangeShoot, Change, IInv, Stored
<1>5. ASSUME NEW r \in Replicas, NEW v \in Versions \cup {Down}, RollOut(r, v) PROVE IInv'
  BY <1>5, AdmissionAssumption DEF RollOut, Change, IInv, Stored
<1>6. CASE SyncCluster
  BY <1>6 DEF SyncCluster, IInv, Stored
<1>7. CASE UNCHANGED vars
  BY <1>7 DEF vars, IInv, Stored
<1> QED
  BY <1>1, <1>2, <1>3, <1>4, <1>5, <1>6, <1>7 DEF Next

LEMMA InvIInv == Spec => []IInv
  BY InitIInv, StepIInv, PTL DEF Spec
-------------------------------------------------------------------------------
\* Shoot, Cluster, OSCs and replicas keep their ranges.
THEOREM TypeCorrect == Spec => []TypeOK
<1>1. IInv => TypeOK
  BY DEF IInv, TypeOK, Stored, Sound, Listed
<1> QED
  BY <1>1, InvIInv, PTL

\* If the cache is up to date when gardenlet writes, no OSC of a kata pool is
\* stored without Kata or with two versions of it, whatever replicas answer.
THEOREM KataPoolsInstalled == ASSUME FreshCluster PROVE Spec => []KataPoolsInstall
<1>1. IInv => KataPoolsInstall
  BY DEF IInv, KataPoolsInstall
<1> QED
  BY <1>1, InvIInv, PTL

\* No list has a key twice, for any number of replicas and versions.
THEOREM KeysUnique == Spec => []NoDuplicates
<1>1. ASSUME IInv, NEW o \in Stored
      PROVE  Unique(osc[o].plugins) /\ Unique(osc[o].files) /\ Unique(osc[o].units)
  BY <1>1 DEF IInv, Sound, Listed
<1>2. IInv => NoDuplicates
  BY <1>1 DEF NoDuplicates, Unique
<1> QED
  BY <1>2, InvIInv, PTL

\* What gardenlet wrote stays in front, in its order.
THEOREM ForeignStays == Spec => []ForeignKept
<1>1. ASSUME IInv, NEW o \in Stored
      PROVE  /\ Begins(BasePlugins, osc[o].plugins)
             /\ Begins(BaseFiles, osc[o].files)
             /\ Begins(BaseUnits, osc[o].units)
  BY <1>1 DEF IInv, Sound
<1>2. \A o, l, c : LET b == Base(o, l, c) IN
         b.plugins = BasePlugins /\ b.files = BaseFiles /\ b.units = BaseUnits
  BY DEF Base, BasePlugins, BaseFiles, BaseUnits
<1>3. IInv => ForeignKept
  BY <1>1, <1>2 DEF ForeignKept, Begins
<1> QED
  BY <1>3, InvIInv, PTL

\* Provision OSCs and those of other pools are stored as they were written.
THEOREM OthersStay == Spec => []OthersUntouched
<1>1. ASSUME IInv, NEW o \in Stored, o[2] = "provision" \/ ~osc[o].label
      PROVE  osc[o] = [Base(o, osc[o].label, osc[o].containerd) EXCEPT !.deleting = osc[o].deleting]
  <2> DEFINE x == osc[o]
  <2>1. Sound(o, x)
    BY <1>1 DEF IInv
  <2>2. /\ x = [pool |-> o[1], purpose |-> o[2], containerd |-> x.containerd,
                label |-> x.label, deleting |-> x.deleting,
                plugins |-> x.plugins, files |-> x.files, units |-> x.units]
        /\ x.plugins = BasePlugins /\ x.files = BaseFiles /\ x.units = BaseUnits
    BY <2>1, <1>1 DEF Sound
  <2> HIDE DEF x
  <2>3. PICK l, c, d :
           /\ x.label = l /\ x.containerd = c /\ x.deleting = d
           /\ x = [pool |-> o[1], purpose |-> o[2], containerd |-> c,
                   label |-> l, deleting |-> d,
                   plugins |-> BasePlugins, files |-> BaseFiles, units |-> BaseUnits]
    BY ONLY <2>2, Zenon
  <2>4. Base(o, l, c) = [pool |-> o[1], purpose |-> o[2], containerd |-> c,
                         label |-> l, deleting |-> FALSE,
                         plugins |-> BasePlugins, files |-> BaseFiles, units |-> BaseUnits]
    BY DEF Base, BasePlugins, BaseFiles, BaseUnits
  <2>5. [Base(o, l, c) EXCEPT !.deleting = d] =
           [pool |-> o[1], purpose |-> o[2], containerd |-> c, label |-> l, deleting |-> d,
            plugins |-> BasePlugins, files |-> BaseFiles, units |-> BaseUnits]
    BY ONLY <2>4
  <2>6. x = [Base(o, x.label, x.containerd) EXCEPT !.deleting = x.deleting]
    BY ONLY <2>3, <2>5, Zenon
  <2> QED
    BY <2>6 DEF x
<1>2. IInv => OthersUntouched
  BY <1>1 DEF OthersUntouched
<1> QED
  BY <1>2, InvIInv, PTL
==============================================================================
