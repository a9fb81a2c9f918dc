-------------------------- MODULE KataActuatorProofs --------------------------
(***************************************************************************)
(* Proofs about KataActuator, for any ContainerRuntimes and bounds.        *)
(***************************************************************************)
EXTENDS KataActuator, TLAPS

\* The shapes of an object.
LEMMA ObjectType ==
    ASSUME NEW p \in {"absent", "live", "deleting"}, NEW f \in BOOLEAN,
           NEW t \in {"none", "reconcile", "migrate", "migrated"}
    PROVE  Object(p, f, t) \in Objects
BY DEF Object, Objects

\* No object is an object that has gone.
LEMMA AbsentType == Absent \in Objects
BY DEF Absent, Object, Objects

\* The parts of an object.
LEMMA ObjectParts ==
    ASSUME NEW o \in Objects
    PROVE  /\ o.phase \in {"absent", "live", "deleting"}
           /\ o.fin \in BOOLEAN
           /\ o.todo \in {"none", "reconcile", "migrate", "migrated"}
BY DEF Objects

\* A write of an object keeps the types of the API server and of the watch.
LEMMA WriteType ==
    ASSUME api \in [Names -> Objects], watch \in Seq(Names \X Objects),
           NEW c \in Names, NEW o \in Objects, Write(c, o)
    PROVE  api' \in [Names -> Objects] /\ watch' \in Seq(Names \X Objects)
BY DEF Write

\* The types of everything the controller and its surroundings write.
THEOREM TypeCorrect == Spec => []TypeOK
<1>1. ASSUME Init PROVE TypeOK
  <2>1. <<>> \in Seq(Names \X Objects)
    OBVIOUS
  <2>2. api \in [Names -> Objects] /\ cache = api
    BY <1>1, AbsentType DEF Init
  <2>3. job \in [Kata -> Jobs] /\ step \in [Kata -> JobSteps]
    BY <1>1 DEF Init, Jobs, JobSteps
  <2>4. changes \in 0..MaxChanges /\ faults \in 0..MaxFaults
    BY <1>1, ActuatorAssumption DEF Init
  <2> QED
    BY <1>1, <2>1, <2>2, <2>3, <2>4 DEF Init, TypeOK
<1>2. ASSUME TypeOK, [Next]_vars PROVE TypeOK'
  <2> USE <1>2, ActuatorAssumption
          DEF TypeOK, Jobs, JobSteps, objects, workers, managed, Change, Begin, Goto
  <2>0. Kata \subseteq Names
    BY DEF Names
  <2>1. ASSUME NEW c \in Names, Deploy(c) PROVE TypeOK'
    <3>1. Object("live", api[c].fin, "reconcile") \in Objects
      BY ObjectParts, ObjectType
    <3> QED
      BY <2>1, <3>1, WriteType DEF Deploy
  <2>2. ASSUME NEW c \in Names, Remove(c) PROVE TypeOK'
    <3>1. PICK o \in Objects : Write(c, o)
      BY <2>2, ObjectParts, ObjectType, AbsentType DEF Remove
    <3> QED
      BY <2>2, <3>1, WriteType DEF Remove
  <2>3. ASSUME NEW f \in {"migrate", "forceDelete"}, StartFlow(f) PROVE TypeOK'
    BY <2>3 DEF StartFlow
  <2>4. CASE EndMigration
    BY <2>4 DEF EndMigration
  <2>5. CASE Sync
    <3>1. watch # <<>> /\ Head(watch) \in Names \X Objects /\ Tail(watch) \in Seq(Names \X Objects)
      BY <2>5 DEF Sync
    <3> QED
      BY <2>5, <3>1 DEF Sync
  <2>6. CASE Apply
    BY <2>6 DEF Apply
  <2>7. CASE Finalize
    BY <2>7 DEF Finalize
  <2>8. CASE Restart
    BY <2>8 DEF Restart
  <2>9. ASSUME NEW c \in Kata, Migrate(c) PROVE TypeOK'
    <3>1. Object("live", api[c].fin, "migrate") \in Objects
      BY <2>0, ObjectParts, ObjectType
    <3> QED
      BY <2>9, <2>0, <3>1, WriteType DEF Migrate
  <2>10. ASSUME NEW c \in Kata, Work(c) PROVE TypeOK'
    <3>1. CASE BeginReconcile(c)
      <4>1. Object("live", TRUE, "reconcile") \in Objects
        BY ObjectType
      <4> QED
        BY <2>0, <3>1, <4>1, WriteType DEF BeginReconcile
    <3>2. CASE BeginDelete(c)
      BY <3>2 DEF BeginDelete
    <3>3. CASE BeginMigrate(c)
      BY <3>3 DEF BeginMigrate
    <3>4. CASE Finish(c)
      <4>1. PICK o \in Objects : Write(c, o)
        BY <2>0, <3>4, ObjectParts, ObjectType, AbsentType DEF Finish
      <4> QED
        BY <2>0, <3>4, <4>1, WriteType DEF Finish
    <3>5. CASE Reconcile(c)
      BY <3>5 DEF Reconcile
    <3>6. CASE Delete(c)
      BY <3>6 DEF Delete
    <3>7. CASE KeepObjects(c)
      BY <3>7 DEF KeepObjects
    <3>8. CASE deleteManagedResource(c)
      BY <3>8 DEF deleteManagedResource
    <3>9. CASE Deleted(c)
      BY <3>9 DEF Deleted
    <3> QED
      BY <2>10, <3>1, <3>2, <3>3, <3>4, <3>5, <3>6, <3>7, <3>8, <3>9 DEF Work
  <2>11. ASSUME NEW c \in Kata, Retry(c) PROVE TypeOK'
    BY <2>11 DEF Retry
  <2>12. CASE UNCHANGED vars
    BY <2>12 DEF vars
  <2> QED
    BY <2>1, <2>2, <2>3, <2>4, <2>5, <2>6, <2>7, <2>8, <2>9, <2>10, <2>11, <2>12
       DEF Next, Gardenlet
<1> QED
  BY <1>1, <1>2, PTL DEF Spec
-------------------------------------------------------------------------------
(* The inductive invariant, for a gardenlet that serialises its changes.    *)

\* What gardenlet's order of changes makes of the objects: nothing is deleted
\* while another waits for its reconciliation, and a migration begins and goes on
\* without either.
Lifecycle ==
    /\ \A c \in Kata :
        /\ api[c].phase = "absent" => api[c] = Absent
        /\ api[c].phase = "deleting" => api[c].fin /\ api[c].todo = "none"
        /\ api[c].phase = "live" /\ api[c].todo = "none" => api[c].fin
        /\ api[c].todo = "migrated" => ~api[c].fin
        /\ api[c].todo \in {"migrate", "migrated"} => flow = "migrate"
    /\ Deleting => Settled
    /\ flow = "migrate" => ~Deleting /\ \A c \in Kata : api[c].todo # "reconcile"
    /\ flow = "forceDelete" => Settled

\* A job runs only while the API server has what it was started for.
JobSound(c) ==
    /\ job[c] = "none" <=> step[c] = "idle"
    /\ job[c] = "reconcile" =>
          step[c] \in {"create", "release"} /\ api[c] = Object("live", TRUE, "reconcile")
    /\ job[c] \in {"delete", "forceDelete"} =>
        /\ step[c] \in {"list", "delete", "wait", "release"}
        /\ api[c].phase = "deleting" /\ cache[c].phase = "deleting"
        /\ flow = "forceDelete" <=> job[c] = "forceDelete"
    /\ job[c] = "migrate" =>
        /\ step[c] \in {"keep", "delete", "wait", "release"}
        /\ api[c].phase = "live" /\ api[c].todo = "migrate"

JobsSound == \A c \in Kata : JobSound(c)

\* A change on its way, and the last one of an object.
Subject(i) == watch[i][1]
State(i) == watch[i][2]
Pending(c) == \E i \in DOMAIN watch : Subject(i) = c
Last(c, i) == Subject(i) = c /\ \A j \in DOMAIN watch : i < j => Subject(j) # c

\* When all changes have arrived, the cache is what the API server has.
CacheFollows ==
    \A c \in Kata :
        IF Pending(c) THEN \E i \in DOMAIN watch : Last(c, i) /\ State(i) = api[c]
        ELSE cache[c] = api[c]

\* An object does not go while the cache has not seen its deletion, and does not
\* get a finalizer again while the cache has not seen it come back.
DeletionIsLast ==
    \A c \in Kata :
        /\ cache[c].phase = "deleting" /\ api[c].fin =>
              api[c].phase = "deleting" /\ ~Pending(c)
        /\ \A i \in DOMAIN watch :
              Subject(i) = c /\ State(i).phase = "deleting" =>
                  api[c].phase = "deleting" /\ Last(c, i)

\* Nothing comes alive behind a deletion, and what goes behind it was seen
\* being deleted.
NoRevival(j) ==
    Subject(j) \in Kata =>
        /\ State(j).phase # "live"
        /\ State(j).phase = "absent" =>
            /\ cache[Subject(j)].phase # "live"
            /\ \A k \in DOMAIN watch : k < j => Subject(k) # Subject(j)

DeletionSeen == \E d \in Kata : cache[d].phase = "deleting" /\ api[d].phase = "deleting"

NoneRevived ==
    /\ \A i, j \in DOMAIN watch :
          i < j /\ Subject(i) \in Kata /\ State(i).phase = "deleting" => NoRevival(j)
    /\ DeletionSeen => \A j \in DOMAIN watch : NoRevival(j)

WatchSound == CacheFollows /\ DeletionIsLast /\ NoneRevived

IInv == TypeOK /\ Lifecycle /\ JobsSound /\ WatchSound

\* Somebody is still to delete the managed resource.
Responsible(c) ==
    \/ api[c].phase = "live"
    \/ api[c].phase = "deleting" /\ step[c] # "release"

NoneLive == \A c \in Kata : api[c].phase # "live"

\* What the managed resource has to do with the objects and the jobs.
Owned ==
    mr # "absent" /\ (mr = "live" \/ flow # "forceDelete") => \E c \in Kata : Responsible(c)

Needed ==
    /\ flow = "reconcile" /\ mr = "deleting" => NoneLive
    /\ \A c \in Kata : job[c] = "delete" /\ step[c] = "delete" => NoneLive
    /\ flow = "reconcile" /\ mr = "absent" =>
          \A c \in Kata : api[c].phase = "live" =>
              api[c].todo # "none" /\ ~(job[c] = "reconcile" /\ step[c] = "release")

Kept ==
    flow = "migrate" =>
        /\ mr = "deleting" => keep
        /\ \A c \in Kata :
            /\ job[c] = "migrate" /\ step[c] = "delete" => mr = "absent" \/ keep
            /\ api[c].todo = "migrated" \/ (job[c] = "migrate" /\ step[c] = "release")
               => mr = "absent"

ResourceSound == Owned /\ Needed /\ Kept
-------------------------------------------------------------------------------
(* The watch and the cache.                                                 *)

\* What may be written without surprising the cache.
Legal(c, o) ==
    c \in Kata =>
        /\ o.phase = "deleting" => o.fin /\ api[c].phase = "live" /\ api[c].fin
        /\ o.phase = "live" =>
            /\ ~Deleting
            /\ o.fin => api[c].phase = "live" /\ (api[c].fin \/ cache[c].phase # "deleting")
        /\ o.phase = "absent" =>
            /\ ~o.fin
            /\ ~Deleting \/ (api[c].phase = "deleting" /\ cache[c].phase = "deleting")

\* A write is the new last change, or changes nothing.
LEMMA WriteAppends ==
    ASSUME api \in [Names -> Objects], watch \in Seq(Names \X Objects),
           NEW c \in Names, NEW o \in Objects, Write(c, o)
    PROVE  /\ api' = [api EXCEPT ![c] = o]
           /\ \/ o = api[c] /\ api' = api /\ watch' = watch
              \/ /\ DOMAIN watch' = 1..(Len(watch) + 1)
                 /\ DOMAIN watch = 1..Len(watch)
                 /\ Len(watch) \in Nat
                 /\ \A i \in DOMAIN watch : watch'[i] = watch[i]
                 /\ watch'[Len(watch) + 1] = <<c, o>>
BY DEF Write

\* Sync takes the first change.
LEMMA SyncShifts ==
    ASSUME watch \in Seq(Names \X Objects), Sync
    PROVE  /\ Len(watch) \in Nat \ {0}
           /\ DOMAIN watch = 1..Len(watch)
           /\ DOMAIN watch' = 1..(Len(watch) - 1)
           /\ \A i \in DOMAIN watch' : watch'[i] = watch[i + 1]
           /\ watch[1] \in Names \X Objects
           /\ cache' = [cache EXCEPT ![Subject(1)] = State(1)]
           /\ api' = api
<1>1. /\ watch # <<>> /\ watch' = Tail(watch)
      /\ cache' = [cache EXCEPT ![Head(watch)[1]] = Head(watch)[2]]
      /\ api' = api
  BY DEF Sync, objects
<1>2. /\ Len(watch) \in Nat \ {0}
      /\ DOMAIN watch = 1..Len(watch)
      /\ Head(watch) = watch[1] /\ watch[1] \in Names \X Objects
  BY <1>1
<1>3. /\ Tail(watch) \in Seq(Names \X Objects)
      /\ Len(Tail(watch)) = Len(watch) - 1
  BY <1>1, <1>2
<1>4. \A i \in 1..(Len(watch) - 1) : Tail(watch)[i] = watch[i + 1]
  BY <1>1, <1>2
<1>5. DOMAIN watch' = 1..(Len(watch) - 1)
  BY <1>1, <1>2, <1>3
<1>6. cache' = [cache EXCEPT ![Subject(1)] = State(1)]
  BY <1>1, <1>2 DEF Subject, State
<1>7. \A i \in DOMAIN watch' : watch'[i] = watch[i + 1]
  BY <1>1, <1>4, <1>5
<1> QED
  BY <1>1, <1>2, <1>5, <1>6, <1>7

\* A write that the life of an object allows leaves the changes in flight in an order
\* that the cache can follow: a deletion is an object's last change, and nothing that
\* a deletion waited for is live again behind it.
LEMMA WriteKeepsWatch ==
    ASSUME TypeOK, WatchSound, \A d \in Kata : api[d].phase = "deleting" => api[d].fin,
           NEW c \in Names, NEW o \in Objects, Legal(c, o), Write(c, o), cache' = cache
    PROVE  WatchSound'
<1>n. PICK n : n = Len(watch) + 1
  OBVIOUS
<1>0. Kata \subseteq Names
  BY DEF Names
<1>1. CASE o = api[c] /\ api' = api /\ watch' = watch
  BY <1>1 DEF WatchSound, CacheFollows, DeletionIsLast, NoneRevived, NoRevival, DeletionSeen,
              Pending, Last, Subject, State
<1>2. CASE /\ DOMAIN watch' = 1..n
           /\ DOMAIN watch = 1..Len(watch)
           /\ Len(watch) \in Nat
           /\ \A i \in DOMAIN watch : watch'[i] = watch[i]
           /\ watch'[n] = <<c, o>>
  <2>1. api' = [api EXCEPT ![c] = o] /\ api'[c] = o /\ \A d \in Names \ {c} : api'[d] = api[d]
    BY WriteAppends DEF TypeOK
  <2>2. n \in DOMAIN watch' /\ \A i \in DOMAIN watch : i \in DOMAIN watch' /\ i < n
    BY <1>2, <1>n
  <2>3. /\ Subject(n)' = c /\ State(n)' = o
        /\ \A i \in DOMAIN watch : Subject(i)' = Subject(i) /\ State(i)' = State(i)
    BY <1>2 DEF Subject, State
  <2>4. \A i \in DOMAIN watch' : i = n \/ i \in DOMAIN watch
    BY <1>2, <1>n
  <2>5. \A d, i : d # c /\ i \in DOMAIN watch => (Last(d, i)' <=> Last(d, i))
    BY <2>2, <2>3, <2>4 DEF Last
  <2>6. Last(c, n)'
    BY <2>2, <2>3, <2>4, <1>2 DEF Last
  <2>7. CacheFollows'
    <3> SUFFICES ASSUME NEW d \in Kata
                 PROVE  IF Pending(d)' THEN \E i \in DOMAIN watch' : Last(d, i)' /\ State(i)' = api'[d]
                        ELSE cache'[d] = api'[d]
      BY DEF CacheFollows
    <3>1. CASE d = c
      BY <3>1, <2>1, <2>2, <2>3, <2>6 DEF Pending
    <3>2. CASE d # c
      <4>1. Pending(d)' <=> Pending(d)
        BY <3>2, <2>2, <2>3, <2>4 DEF Pending
      <4>2. api'[d] = api[d]
        BY <3>2, <2>1, <1>0
      <4> QED
        BY <3>2, <4>1, <4>2, <2>2, <2>3, <2>5 DEF WatchSound, CacheFollows
    <3> QED
      BY <3>1, <3>2
  <2>8. DeletionIsLast'
    <3> SUFFICES ASSUME NEW d \in Kata
                 PROVE  /\ cache'[d].phase = "deleting" /\ api'[d].fin =>
                             api'[d].phase = "deleting" /\ ~Pending(d)'
                        /\ \A i \in DOMAIN watch' :
                             Subject(i)' = d /\ State(i)'.phase = "deleting" =>
                                 api'[d].phase = "deleting" /\ Last(d, i)'
      BY DEF DeletionIsLast
    <3>1. CASE d = c
      <4>1. o.phase \in {"absent", "live", "deleting"} /\ o.fin \in BOOLEAN
        BY ObjectParts
      <4>2. ~(cache[c].phase = "deleting" /\ o.fin)
        BY <3>1, <4>1 DEF Legal, WatchSound, DeletionIsLast
      <4>3. \A i \in DOMAIN watch : Subject(i) = c => State(i).phase # "deleting"
        <5>1. SUFFICES ASSUME NEW i \in DOMAIN watch, Subject(i) = c, State(i).phase = "deleting"
                       PROVE  FALSE
          OBVIOUS
        <5>2. api[c].phase = "deleting" /\ api[c].fin
          BY <3>1, <5>1 DEF WatchSound, DeletionIsLast
        <5>3. Deleting /\ cache[c].phase = "deleting"
          BY <3>1, <4>1, <5>2 DEF Legal, Deleting
        <5> QED
          BY <3>1, <5>1, <5>2, <5>3 DEF WatchSound, DeletionIsLast, Pending
      <4> QED
        BY <3>1, <4>2, <4>3, <2>1, <2>3, <2>4, <2>6
    <3>2. CASE d # c
      <4>1. Pending(d)' <=> Pending(d)
        BY <3>2, <2>2, <2>3, <2>4 DEF Pending
      <4>2. api'[d] = api[d]
        BY <3>2, <2>1, <1>0
      <4> QED
        BY <3>2, <4>1, <4>2, <2>3, <2>4, <2>5 DEF WatchSound, DeletionIsLast
    <3> QED
      BY <3>1, <3>2
  <2>9. \A j \in DOMAIN watch : NoRevival(j) => NoRevival(j)'
    BY <2>3, <2>4, <1>2 DEF NoRevival
  <2>10. ASSUME c \in Kata, Deleting, o.phase # "deleting" PROVE NoRevival(n)'
    <3>1. /\ o.phase = "absent"
          /\ api[c].phase = "deleting" /\ cache[c].phase = "deleting" /\ api[c].fin
      BY <2>10, ObjectParts DEF Legal
    <3>2. ~Pending(c)
      BY <2>10, <3>1 DEF WatchSound, DeletionIsLast
    <3> QED
      BY <3>1, <3>2, <2>3, <2>4, <1>2 DEF NoRevival, Pending
  <2>11. ASSUME c \notin Kata \/ o.phase = "deleting" PROVE NoRevival(n)'
    BY <2>11, <2>3 DEF NoRevival
  <2>12. NoneRevived'
    <3>1. ASSUME NEW i \in DOMAIN watch', NEW j \in DOMAIN watch', i < j,
                 Subject(i)' \in Kata, State(i)'.phase = "deleting"
          PROVE  NoRevival(j)'
      <4>1. i \in DOMAIN watch
        BY <3>1, <1>2, <1>n
      <4>2. Subject(i) \in Kata /\ State(i).phase = "deleting"
        BY <3>1, <4>1, <2>3
      <4>3. Deleting
        BY <4>1, <4>2 DEF WatchSound, DeletionIsLast, Deleting
      <4>4. CASE j \in DOMAIN watch
        BY <3>1, <4>1, <4>2, <4>4, <2>9 DEF WatchSound, NoneRevived
      <4>5. CASE j = n
        BY <4>3, <4>5, <2>10, <2>11
      <4> QED
        BY <4>4, <4>5, <2>4
    <3>2. ASSUME DeletionSeen', NEW j \in DOMAIN watch' PROVE NoRevival(j)'
      <4>1. PICK d \in Kata : cache[d].phase = "deleting" /\ api'[d].phase = "deleting"
        BY <3>2 DEF DeletionSeen
      <4>2. api[d].phase = "deleting"
        <5>1. CASE d = c
          BY <5>1, <4>1, <2>1 DEF Legal, WatchSound, DeletionIsLast
        <5>2. CASE d # c
          BY <5>2, <4>1, <2>1, <1>0
        <5> QED
          BY <5>1, <5>2
      <4>3. DeletionSeen /\ Deleting
        BY <4>1, <4>2 DEF DeletionSeen, Deleting
      <4>4. CASE j \in DOMAIN watch
        BY <4>3, <4>4, <2>9 DEF WatchSound, NoneRevived
      <4>5. CASE j = n
        BY <4>3, <4>5, <2>10, <2>11
      <4> QED
        BY <4>4, <4>5, <2>4
    <3> QED
      BY <3>1, <3>2 DEF NoneRevived
  <2> QED
    BY <2>7, <2>8, <2>12 DEF WatchSound
<1> QED
  BY <1>1, <1>2, <1>n, WriteAppends DEF TypeOK

\* So does the first change in flight when it reaches the cache.
LEMMA SyncKeepsWatch ==
    ASSUME TypeOK, WatchSound, Sync
    PROVE  WatchSound'
<1>0. /\ Len(watch) \in Nat \ {0}
      /\ DOMAIN watch = 1..Len(watch)
      /\ DOMAIN watch' = 1..(Len(watch) - 1)
  BY SyncShifts DEF TypeOK
<1>1. \A i \in DOMAIN watch' :
          i + 1 \in DOMAIN watch /\ Subject(i)' = Subject(i + 1) /\ State(i)' = State(i + 1)
  BY <1>0, SyncShifts DEF TypeOK, Subject, State
<1>2. \A i \in DOMAIN watch : i = 1 \/ (i - 1 \in DOMAIN watch' /\ (i - 1) + 1 = i)
  BY <1>0
<1>3. /\ api' = api /\ 1 \in DOMAIN watch /\ Subject(1) \in Names /\ State(1) \in Objects
      /\ cache'[Subject(1)] = State(1)
      /\ \A d \in Names \ {Subject(1)} : cache'[d] = cache[d]
  BY <1>0, SyncShifts DEF TypeOK, Subject, State
<1>4. Kata \subseteq Names
  BY DEF Names
<1>5. \A d : \A i \in DOMAIN watch' : Last(d, i + 1) => Last(d, i)'
  <2>1. SUFFICES ASSUME NEW d, NEW i \in DOMAIN watch', Last(d, i + 1) PROVE Last(d, i)'
    OBVIOUS
  <2>2. Subject(i)' = d
    BY <2>1, <1>1 DEF Last
  <2>3. ASSUME NEW j \in DOMAIN watch', i < j PROVE Subject(j)' # d
    <3>1. j + 1 \in DOMAIN watch /\ i + 1 < j + 1
      BY <2>1, <2>3, <1>0
    <3> QED
      BY <2>1, <2>3, <3>1, <1>1 DEF Last
  <2> QED
    BY <2>2, <2>3 DEF Last
<1>6. CacheFollows'
  <2> SUFFICES ASSUME NEW d \in Kata
               PROVE  IF Pending(d)' THEN \E i \in DOMAIN watch' : Last(d, i)' /\ State(i)' = api'[d]
                      ELSE cache'[d] = api'[d]
    BY DEF CacheFollows
  <2>1. CASE Pending(d)
    <3>1. PICK i \in DOMAIN watch : Last(d, i) /\ State(i) = api[d]
      BY <2>1 DEF WatchSound, CacheFollows
    <3>2. CASE i = 1
      <4>1. ~Pending(d)'
        <5>1. SUFFICES ASSUME NEW j \in DOMAIN watch', Subject(j)' = d PROVE FALSE
          BY DEF Pending
        <5>2. j + 1 \in DOMAIN watch /\ 1 < j + 1 /\ Subject(j + 1) = d
          BY <5>1, <1>0, <1>1
        <5> QED
          BY <3>1, <3>2, <5>2 DEF Last
      <4> QED
        BY <3>1, <3>2, <4>1, <1>3 DEF Last
    <3>3. CASE i # 1
      <4>1. i - 1 \in DOMAIN watch' /\ (i - 1) + 1 = i
        BY <3>3, <1>2
      <4>2. Last(d, i - 1)' /\ State(i - 1)' = api'[d]
        BY <3>1, <4>1, <1>1, <1>3, <1>5
      <4>3. PICK k \in DOMAIN watch' : Last(d, k)' /\ State(k)' = api'[d]
        BY <4>1, <4>2
      <4> QED
        BY <4>3 DEF Pending, Last
    <3> QED
      BY <3>2, <3>3
  <2>2. CASE ~Pending(d)
    BY <2>2, <1>1, <1>3, <1>4 DEF Pending, WatchSound, CacheFollows
  <2> QED
    BY <2>1, <2>2
<1>7. DeletionIsLast'
  <2> SUFFICES ASSUME NEW d \in Kata
               PROVE  /\ cache'[d].phase = "deleting" /\ api'[d].fin =>
                           api'[d].phase = "deleting" /\ ~Pending(d)'
                      /\ \A i \in DOMAIN watch' :
                           Subject(i)' = d /\ State(i)'.phase = "deleting" =>
                               api'[d].phase = "deleting" /\ Last(d, i)'
    BY DEF DeletionIsLast
  <2>1. ASSUME cache'[d].phase = "deleting", api'[d].fin
        PROVE  api'[d].phase = "deleting" /\ ~Pending(d)'
    <3>1. CASE Subject(1) = d
      <4>1. api[d].phase = "deleting" /\ Last(d, 1)
        BY <2>1, <3>1, <1>3 DEF WatchSound, DeletionIsLast
      <4>2. ASSUME NEW j \in DOMAIN watch', Subject(j)' = d PROVE FALSE
        <5>1. j + 1 \in DOMAIN watch /\ 1 < j + 1 /\ Subject(j + 1) = d
          BY <4>2, <1>0, <1>1
        <5> QED
          BY <4>1, <5>1 DEF Last
      <4> QED
        BY <4>1, <4>2, <1>3 DEF Pending
    <3>2. CASE Subject(1) # d
      BY <2>1, <3>2, <1>1, <1>3, <1>4 DEF WatchSound, DeletionIsLast, Pending
    <3> QED
      BY <3>1, <3>2
  <2>2. ASSUME NEW i \in DOMAIN watch', Subject(i)' = d, State(i)'.phase = "deleting"
        PROVE  api'[d].phase = "deleting" /\ Last(d, i)'
    BY <2>2, <1>1, <1>3, <1>5 DEF WatchSound, DeletionIsLast
  <2> QED
    BY <2>1, <2>2
<1>8. \A j \in DOMAIN watch' : NoRevival(j + 1) => NoRevival(j)'
  <2>1. SUFFICES ASSUME NEW j \in DOMAIN watch', NoRevival(j + 1), Subject(j)' \in Kata
                 PROVE  /\ State(j)'.phase # "live"
                        /\ State(j)'.phase = "absent" =>
                            /\ cache'[Subject(j)'].phase # "live"
                            /\ \A k \in DOMAIN watch' : k < j => Subject(k)' # Subject(j)'
    BY DEF NoRevival
  <2>2. j + 1 \in DOMAIN watch /\ 1 < j + 1 /\ Subject(j)' = Subject(j + 1)
        /\ State(j)' = State(j + 1)
    BY <2>1, <1>0, <1>1
  <2>3. ASSUME State(j)'.phase = "absent" PROVE cache'[Subject(j)'].phase # "live"
    BY <2>1, <2>2, <2>3, <1>3, <1>4 DEF NoRevival
  <2>4. ASSUME State(j)'.phase = "absent", NEW k \in DOMAIN watch', k < j
        PROVE  Subject(k)' # Subject(j)'
    <3>1. k + 1 \in DOMAIN watch /\ k + 1 < j + 1
      BY <2>1, <2>4, <1>0
    <3> QED
      BY <2>1, <2>2, <2>4, <3>1, <1>1 DEF NoRevival
  <2> QED
    BY <2>1, <2>2, <2>3, <2>4 DEF NoRevival
<1>9. NoneRevived'
  <2>1. ASSUME NEW i \in DOMAIN watch', NEW j \in DOMAIN watch', i < j,
               Subject(i)' \in Kata, State(i)'.phase = "deleting"
        PROVE  NoRevival(j)'
    <3>1. i + 1 \in DOMAIN watch /\ j + 1 \in DOMAIN watch /\ i + 1 < j + 1
      BY <2>1, <1>0
    <3> QED
      BY <2>1, <3>1, <1>1, <1>8 DEF WatchSound, NoneRevived
  <2>2. ASSUME DeletionSeen', NEW j \in DOMAIN watch' PROVE NoRevival(j)'
    <3>1. PICK d \in Kata : cache'[d].phase = "deleting" /\ api[d].phase = "deleting"
      BY <2>2, <1>3 DEF DeletionSeen
    <3>2. j + 1 \in DOMAIN watch /\ 1 < j + 1
      BY <1>0
    <3>3. CASE Subject(1) = d
      BY <3>1, <3>2, <3>3, <1>3, <1>8 DEF WatchSound, NoneRevived
    <3>4. CASE Subject(1) # d
      BY <3>1, <3>2, <3>4, <1>3, <1>4, <1>8 DEF WatchSound, NoneRevived, DeletionSeen
    <3> QED
      BY <3>3, <3>4
  <2> QED
    BY <2>1, <2>2 DEF NoneRevived
<1> QED
  BY <1>6, <1>7, <1>9 DEF WatchSound

\* And a restart, which lists every object anew.
LEMMA RestartKeepsWatch ==
    ASSUME TypeOK, Restart
    PROVE  WatchSound'
<1>1. watch' = <<>> /\ cache' = api /\ api' = api
  BY DEF Restart
<1>2. DOMAIN watch' = {}
  BY <1>1
<1> QED
  BY <1>1, <1>2 DEF WatchSound, CacheFollows, DeletionIsLast, NoneRevived, Pending

\* When the cache shows a deletion that is under way, it shows every object that
\* is live, and no object that has gone as live.
LEMMA CacheShowsLive ==
    ASSUME IInv, NEW d \in Kata, api[d].phase = "deleting", cache[d].phase = "deleting",
           NEW c \in Kata
    PROVE  /\ api[c].phase = "live" => cache[c].phase = "live"
           /\ cache[c].phase = "live" => api[c].phase # "absent"
<1>1. CASE ~Pending(c)
  BY <1>1 DEF IInv, WatchSound, CacheFollows
<1>2. CASE Pending(c)
  <2>1. PICK i \in DOMAIN watch : Last(c, i) /\ State(i) = api[c]
    BY <1>2 DEF IInv, WatchSound, CacheFollows
  <2>2. NoRevival(i)
    BY <2>1 DEF IInv, WatchSound, NoneRevived, DeletionSeen
  <2> QED
    BY <2>1, <2>2 DEF NoRevival, Last
<1> QED
  BY <1>1, <1>2
-------------------------------------------------------------------------------
(* Objects and jobs, action by action.                                      *)

Sound == Lifecycle /\ JobsSound /\ WatchSound

\* What the invariant says of one ContainerRuntime.
LEMMA KataFacts ==
    ASSUME IInv, NEW c \in Kata
    PROVE  /\ c \in Names
           /\ api[c] \in Objects /\ cache[c] \in Objects
           /\ job[c] \in Jobs /\ step[c] \in JobSteps
           /\ api[c].phase = "absent" => api[c] = Absent
           /\ api[c].phase = "deleting" => api[c].fin /\ api[c].todo = "none"
           /\ api[c].phase = "live" /\ api[c].todo = "none" => api[c].fin
           /\ api[c].todo = "migrated" => ~api[c].fin
           /\ api[c].todo \in {"migrate", "migrated"} => flow = "migrate"
           /\ JobSound(c)
BY DEF IInv, TypeOK, Lifecycle, JobsSound, Names

\* The deletion of one ContainerRuntime and the work on another exclude each other.
LEMMA NoneDeleting ==
    ASSUME IInv, NEW c \in Kata, api[c].phase = "live", api[c].todo # "none"
    PROVE  ~Deleting
BY DEF IInv, Lifecycle, Settled

\* A write changes one object.
LEMMA WriteAt ==
    ASSUME TypeOK, NEW c \in Names, NEW o \in Objects, Write(c, o)
    PROVE  api'[c] = o /\ \A d \in Names \ {c} : api'[d] = api[d]
BY DEF Write, TypeOK

\* gardenlet creates a ContainerRuntime, or asks for a reconciliation of it.
LEMMA DeployKeeps ==
    ASSUME IInv, Serialised, NEW c \in Names, Deploy(c)
    PROVE  Sound'
<1> DEFINE o == Object("live", api[c].fin, "reconcile")
<1>1. /\ flow = "reconcile" /\ ~Deleting
      /\ api[c] = Absent \/ (api[c].phase = "live" /\ api[c].todo = "none")
      /\ Write(c, o) /\ UNCHANGED <<cache, job, step, flow>>
  BY DEF Deploy, Change, workers
<1>2. o \in Objects /\ o.phase = "live" /\ o.fin = api[c].fin /\ o.todo = "reconcile"
  BY ObjectParts, ObjectType DEF IInv, TypeOK, Object
<1> HIDE DEF o
<1>3. Absent.phase = "absent" /\ ~Absent.fin
  BY DEF Absent, Object
<1>4. api'[c] = o /\ \A d \in Names \ {c} : api'[d] = api[d]
  BY <1>1, <1>2, WriteAt DEF IInv
<1>5. Kata \subseteq Names
  BY DEF Names
<1>6. ~Deleting'
  BY <1>1, <1>2, <1>4, <1>5 DEF Deleting
<1>7. WatchSound'
  <2>1. Legal(c, o)
    BY <1>1, <1>2, <1>3 DEF Legal
  <2> QED
    BY <2>1, <1>1, <1>2, KataFacts, WriteKeepsWatch DEF IInv
<1>8. Lifecycle'
  BY <1>1, <1>2, <1>4, <1>5, <1>6 DEF IInv, Lifecycle
<1>9. JobsSound'
  <2> SUFFICES ASSUME NEW d \in Kata PROVE JobSound(d)'
    BY DEF JobsSound
  <2>1. CASE d = c
    <3>1. job[d] = "none"
      BY <2>1, <1>1, <1>3, KataFacts DEF JobSound, Jobs, Object
    <3> QED
      BY <3>1, <1>1, KataFacts DEF JobSound
  <2>2. CASE d # c
    BY <2>2, <1>1, <1>4, <1>5, KataFacts DEF JobSound
  <2> QED
    BY <2>1, <2>2
<1> QED
  BY <1>7, <1>8, <1>9 DEF Sound

\* gardenlet deletes a ContainerRuntime, which goes at once without the finalizer.
LEMMA RemoveKeeps ==
    ASSUME IInv, Serialised, NEW c \in Names, Remove(c)
    PROVE  Sound'
<1> DEFINE o == IF api[c].fin THEN Object("deleting", TRUE, api[c].todo) ELSE Absent
<1>1. /\ api[c].phase = "live"
      /\ flow = "migrate" => api[c].todo = "migrated"
      /\ flow = "reconcile" => Settled
      /\ Write(c, o) /\ UNCHANGED <<cache, job, step, flow>>
  BY DEF Remove, Change, workers
<1>2. /\ o \in Objects
      /\ api[c].fin => o.phase = "deleting" /\ o.fin /\ o.todo = api[c].todo
      /\ ~api[c].fin => o = Absent
      /\ Absent.phase = "absent" /\ ~Absent.fin /\ Absent.todo = "none"
  BY ObjectParts, ObjectType, AbsentType DEF IInv, TypeOK, Object, Absent
<1> HIDE DEF o
<1>3. api'[c] = o /\ \A d \in Names \ {c} : api'[d] = api[d]
  BY <1>1, <1>2, WriteAt DEF IInv
<1>4. Kata \subseteq Names /\ flow \in {"reconcile", "migrate", "forceDelete"}
  BY DEF Names, IInv, TypeOK
<1>5. CASE c \in Kata /\ flow = "migrate"
  <2>1. ~api[c].fin /\ o = Absent /\ ~Deleting
    BY <1>1, <1>2, <1>5, KataFacts DEF IInv, Lifecycle
  <2>2. ~Deleting'
    BY <1>2, <1>3, <1>4, <2>1 DEF Deleting
  <2>3. Lifecycle'
    BY <1>1, <1>2, <1>3, <1>4, <1>5, <2>1, <2>2 DEF IInv, Lifecycle
  <2>4. job[c] = "none"
    BY <1>1, <1>5, KataFacts DEF JobSound, Jobs, Object
  <2>5. JobsSound'
    <3> SUFFICES ASSUME NEW d \in Kata PROVE JobSound(d)'
      BY DEF JobsSound
    <3> QED
      BY <2>4, <1>1, <1>3, <1>4, KataFacts DEF JobSound
  <2>6. Legal(c, o)
    BY <1>2, <2>1 DEF Legal
  <2> QED
    BY <1>1, <1>2, <2>3, <2>5, <2>6, KataFacts, WriteKeepsWatch DEF IInv, Sound
<1>6. CASE c \in Kata /\ flow # "migrate"
  <2>1. Settled /\ api[c].todo = "none" /\ api[c].fin
    BY <1>1, <1>4, <1>6, KataFacts DEF IInv, Lifecycle, Settled
  <2>2. o.phase = "deleting" /\ o.fin /\ o.todo = "none"
    BY <1>2, <2>1
  <2>3. Settled'
    BY <1>3, <1>4, <2>1, <2>2 DEF Settled
  <2>4. Lifecycle'
    BY <1>1, <1>2, <1>3, <1>4, <1>6, <2>2, <2>3 DEF IInv, Lifecycle
  <2>5. job[c] = "none"
    BY <1>1, <1>6, <2>1, KataFacts DEF JobSound, Jobs, Object
  <2>6. JobsSound'
    <3> SUFFICES ASSUME NEW d \in Kata PROVE JobSound(d)'
      BY DEF JobsSound
    <3> QED
      BY <2>5, <1>1, <1>3, <1>4, KataFacts DEF JobSound
  <2>7. Legal(c, o)
    BY <1>1, <2>1, <2>2 DEF Legal
  <2> QED
    BY <1>1, <1>2, <2>4, <2>6, <2>7, KataFacts, WriteKeepsWatch DEF IInv, Sound
<1>7. CASE c \notin Kata
  <2>1. \A d \in Kata : api'[d] = api[d]
    BY <1>3, <1>4, <1>7
  <2>2. Lifecycle'
    BY <1>1, <2>1 DEF IInv, Lifecycle, Deleting, Settled
  <2>3. JobsSound'
    BY <1>1, <2>1 DEF IInv, JobsSound, JobSound
  <2>4. Legal(c, o)
    BY <1>7 DEF Legal
  <2> QED
    BY <1>1, <1>2, <2>2, <2>3, <2>4, KataFacts, WriteKeepsWatch DEF IInv, Sound
<1> QED
  BY <1>5, <1>6, <1>7

\* gardenlet marks a ContainerRuntime for migration.
LEMMA MigrateKeeps ==
    ASSUME IInv, NEW c \in Kata, Migrate(c)
    PROVE  Sound'
<1> DEFINE o == Object("live", api[c].fin, "migrate")
<1>1. /\ flow = "migrate" /\ api[c].phase = "live"
      /\ Write(c, o) /\ UNCHANGED <<cache, job, step, flow>>
  BY DEF Migrate, workers
<1>2. o \in Objects /\ o.phase = "live" /\ o.fin = api[c].fin /\ o.todo = "migrate"
  BY KataFacts, ObjectParts, ObjectType DEF Object
<1> HIDE DEF o
<1>3. ~Deleting /\ api[c].todo \in {"none", "migrate", "migrated"}
  BY <1>1, KataFacts, ObjectParts DEF IInv, Lifecycle
<1>4. api'[c] = o /\ \A d \in Names \ {c} : api'[d] = api[d]
  BY <1>1, <1>2, KataFacts, WriteAt DEF IInv
<1>5. Kata \subseteq Names
  BY DEF Names
<1>6. ~Deleting'
  BY <1>2, <1>3, <1>4, <1>5 DEF Deleting
<1>7. Lifecycle'
  BY <1>1, <1>2, <1>4, <1>5, <1>6 DEF IInv, Lifecycle
<1>8. JobsSound'
  <2> SUFFICES ASSUME NEW d \in Kata PROVE JobSound(d)'
    BY DEF JobsSound
  <2>1. CASE d = c
    <3>1. job[d] \in {"none", "migrate"}
      BY <2>1, <1>1, <1>3, KataFacts DEF JobSound, Jobs, Object
    <3> QED
      BY <2>1, <3>1, <1>1, <1>2, <1>4, KataFacts DEF JobSound
  <2>2. CASE d # c
    BY <2>2, <1>1, <1>4, <1>5, KataFacts DEF JobSound
  <2> QED
    BY <2>1, <2>2
<1>9. Legal(c, o)
  BY <1>1, <1>2, <1>3 DEF Legal
<1> QED
  BY <1>1, <1>2, <1>7, <1>8, <1>9, KataFacts, WriteKeepsWatch DEF IInv, Sound

\* The controller begins a reconciliation and adds its finalizer.
LEMMA BeginReconcileKeeps ==
    ASSUME IInv, NEW c \in Kata, BeginReconcile(c)
    PROVE  Sound'
<1> DEFINE o == Object("live", TRUE, "reconcile")
<1>1. /\ step[c] = "idle" /\ cache[c].phase = "live"
      /\ api[c].phase = "live" /\ api[c].todo = "reconcile"
      /\ Write(c, o) /\ UNCHANGED <<cache, flow>>
      /\ job' = [job EXCEPT ![c] = "reconcile"] /\ step' = [step EXCEPT ![c] = "create"]
  BY DEF BeginReconcile, Begin
<1>2. o \in Objects /\ o.phase = "live" /\ o.fin /\ o.todo = "reconcile"
  BY ObjectType DEF Object
<1>3. ~Deleting /\ flow = "reconcile"
  BY <1>1, NoneDeleting DEF IInv, TypeOK, Lifecycle, Settled
<1>4. api'[c] = o /\ \A d \in Names \ {c} : api'[d] = api[d]
  BY <1>1, <1>2, KataFacts, WriteAt DEF IInv
<1>5. Kata \subseteq Names
  BY DEF Names
<1>6. ~Deleting'
  BY <1>2, <1>3, <1>4, <1>5 DEF Deleting
<1>7. Lifecycle'
  BY <1>1, <1>2, <1>3, <1>4, <1>5, <1>6 DEF IInv, Lifecycle
<1>8. JobsSound'
  <2> SUFFICES ASSUME NEW d \in Kata PROVE JobSound(d)'
    BY DEF JobsSound
  <2>1. CASE d = c
    BY <2>1, <1>1, <1>4 DEF JobSound, IInv, TypeOK
  <2>2. CASE d # c
    BY <2>2, <1>1, <1>4, <1>5, KataFacts DEF JobSound, IInv, TypeOK
  <2> QED
    BY <2>1, <2>2
<1>9. Legal(c, o)
  BY <1>1, <1>2, <1>3 DEF Legal
<1> QED
  BY <1>1, <1>2, <1>7, <1>8, <1>9, KataFacts, WriteKeepsWatch DEF IInv, Sound

\* The actuator returned: the operation succeeded, or what it was about is released.
LEMMA FinishKeeps ==
    ASSUME IInv, NEW c \in Kata, Finish(c)
    PROVE  Sound'
<1>1. /\ step[c] = "release" /\ UNCHANGED <<cache, flow>>
      /\ job' = [job EXCEPT ![c] = "none"] /\ step' = [step EXCEPT ![c] = "idle"]
  BY DEF Finish, Begin
<1>2. job[c] \in {"reconcile", "delete", "forceDelete", "migrate"} /\ JobSound(c)
  BY <1>1, KataFacts DEF JobSound, Jobs
<1>3. Kata \subseteq Names
  BY DEF Names
<1>4. ASSUME NEW o \in Objects, Write(c, o), Legal(c, o), Lifecycle'
      PROVE  Sound'
  <2>1. \A d \in Names \ {c} : api'[d] = api[d]
    BY <1>4, <1>3, WriteAt DEF IInv
  <2>2. JobsSound'
    <3> SUFFICES ASSUME NEW d \in Kata PROVE JobSound(d)'
      BY DEF JobsSound
    <3>1. CASE d = c
      BY <3>1, <1>1 DEF JobSound, IInv, TypeOK
    <3>2. CASE d # c
      BY <3>2, <1>1, <1>3, <2>1, KataFacts DEF JobSound, IInv, TypeOK
    <3> QED
      BY <3>1, <3>2
  <2> QED
    BY <1>1, <1>3, <1>4, <2>2, KataFacts, WriteKeepsWatch DEF IInv, Sound
<1>5. CASE job[c] = "reconcile"
  <2> DEFINE o == Object("live", TRUE, "none")
  <2>1. api[c].phase = "live" /\ api[c].fin = TRUE /\ api[c].todo = "reconcile"
    BY <1>2, <1>5 DEF JobSound, Object
  <2>2. o \in Objects /\ o.phase = "live" /\ o.fin /\ o.todo = "none"
    BY ObjectType DEF Object
  <2>3. Write(c, o)
    <3>1. Write(c, Object(api[c].phase, api[c].fin, "none"))
      BY <1>5, <2>1 DEF Finish
    <3> QED
      BY <2>1, <3>1
  <2>4. ~Deleting /\ flow = "reconcile"
    BY <2>1, NoneDeleting DEF IInv, TypeOK, Lifecycle, Settled
  <2>5. Legal(c, o)
    BY <2>1, <2>2, <2>4 DEF Legal
  <2>6. api'[c] = o /\ \A d \in Names \ {c} : api'[d] = api[d]
    BY <2>2, <2>3, <1>3, WriteAt DEF IInv
  <2>7. ~Deleting'
    BY <2>2, <2>4, <2>6, <1>3 DEF Deleting
  <2>8. Lifecycle'
    BY <1>1, <1>3, <2>2, <2>4, <2>6, <2>7 DEF IInv, Lifecycle
  <2> QED
    BY <1>4, <2>2, <2>3, <2>5, <2>8
<1>6. CASE job[c] \in {"delete", "forceDelete"}
  <2>1. api[c].phase = "deleting" /\ cache[c].phase = "deleting"
    BY <1>2, <1>6 DEF JobSound
  <2>2. Absent \in Objects /\ Absent.phase = "absent" /\ ~Absent.fin /\ Absent.todo = "none"
    BY AbsentType DEF Absent, Object
  <2>3. Write(c, Absent)
    BY <1>6, <2>1 DEF Finish
  <2>4. Legal(c, Absent)
    BY <2>1, <2>2 DEF Legal
  <2>5. api'[c] = Absent /\ \A d \in Names \ {c} : api'[d] = api[d]
    BY <2>2, <2>3, <1>3, WriteAt DEF IInv
  <2>6. Settled /\ flow # "migrate"
    BY <2>1 DEF IInv, Lifecycle, Deleting
  <2>7. Settled'
    BY <2>2, <2>5, <2>6, <1>3 DEF Settled
  <2>8. Lifecycle'
    BY <1>1, <1>3, <2>2, <2>5, <2>6, <2>7 DEF IInv, Lifecycle
  <2> QED
    BY <1>4, <2>2, <2>3, <2>4, <2>8
<1>7. CASE job[c] = "migrate"
  <2> DEFINE o == Object("live", FALSE, "migrated")
  <2>1. api[c].phase = "live" /\ api[c].todo = "migrate" /\ flow = "migrate"
    BY <1>2, <1>7, KataFacts DEF JobSound
  <2>2. o \in Objects /\ o.phase = "live" /\ ~o.fin /\ o.todo = "migrated"
    BY ObjectType DEF Object
  <2>3. Write(c, o)
    BY <1>7, <2>1 DEF Finish
  <2>4. ~Deleting
    BY <2>1 DEF IInv, Lifecycle
  <2>5. Legal(c, o)
    BY <2>1, <2>2, <2>4 DEF Legal
  <2>6. api'[c] = o /\ \A d \in Names \ {c} : api'[d] = api[d]
    BY <2>2, <2>3, <1>3, WriteAt DEF IInv
  <2>7. ~Deleting'
    BY <2>2, <2>4, <2>6, <1>3 DEF Deleting
  <2>8. Lifecycle'
    BY <1>1, <1>3, <2>1, <2>2, <2>6, <2>7 DEF IInv, Lifecycle
  <2> QED
    BY <1>4, <2>2, <2>3, <2>5, <2>8
<1> QED
  BY <1>2, <1>5, <1>6, <1>7

\* gardenlet starts a migration or a forced deletion, or ends a migration.
LEMMA FlowKeeps ==
    ASSUME IInv, Serialised, EndMigration \/ \E f \in {"migrate", "forceDelete"} : StartFlow(f)
    PROVE  Sound'
<1>1. UNCHANGED <<api, watch, cache, job, step>>
  BY DEF EndMigration, StartFlow, Change, objects, workers
<1>2. WatchSound'
  BY <1>1 DEF IInv, WatchSound, CacheFollows, DeletionIsLast, NoneRevived, NoRevival,
              DeletionSeen, Pending, Last, Subject, State
<1>3. CASE EndMigration
  <2>1. flow' = "reconcile" /\ \A c \in Kata : api[c] = Absent
    BY <1>3 DEF EndMigration
  <2>2. Absent.phase = "absent" /\ ~Absent.fin /\ Absent.todo = "none"
    BY DEF Absent, Object
  <2>3. Lifecycle'
    BY <1>1, <2>1, <2>2 DEF Lifecycle, Deleting
  <2>4. JobsSound'
    BY <1>1, <2>1, <2>2, KataFacts DEF JobsSound, JobSound, Object
  <2> QED
    BY <1>2, <2>3, <2>4 DEF Sound
<1>4. ASSUME NEW f \in {"migrate", "forceDelete"}, StartFlow(f)
      PROVE  Sound'
  <2>1. flow = "reconcile" /\ flow' = f /\ Settled /\ ~Deleting
    BY <1>4 DEF StartFlow
  <2>2. \A c \in Kata : /\ api[c].todo = "none" /\ api[c].phase # "deleting"
                        /\ job[c] = "none" /\ step[c] = "idle"
    <3> SUFFICES ASSUME NEW c \in Kata
                 PROVE  /\ api[c].todo = "none" /\ api[c].phase # "deleting"
                        /\ job[c] = "none" /\ step[c] = "idle"
      OBVIOUS
    <3>1. api[c].phase # "deleting"
      BY <2>1 DEF Deleting
    <3>2. api[c].todo = "none"
      BY <2>1, <3>1, KataFacts, ObjectParts DEF Settled, Absent, Object
    <3> QED
      BY <3>1, <3>2, KataFacts DEF JobSound, Jobs, Object
  <2>3. Lifecycle'
    BY <1>1, <2>1, <2>2 DEF IInv, Lifecycle, Deleting, Settled
  <2>4. JobsSound'
    BY <1>1, <2>2 DEF JobsSound, JobSound
  <2> QED
    BY <1>2, <2>3, <2>4 DEF Sound
<1> QED
  BY <1>3, <1>4

\* The cache takes a change.
LEMMA SyncKeeps ==
    ASSUME IInv, Sync
    PROVE  Sound'
<1>1. UNCHANGED <<api, job, step, flow>>
  BY DEF Sync, workers
<1>2. Lifecycle'
  BY <1>1 DEF IInv, Lifecycle, Deleting, Settled
<1>3. JobsSound'
  <2> SUFFICES ASSUME NEW c \in Kata PROVE JobSound(c)'
    BY DEF JobsSound
  <2>1. ASSUME job[c] \in {"delete", "forceDelete"} PROVE cache'[c].phase = "deleting"
    <3>1. ~Pending(c) /\ cache[c].phase = "deleting"
      BY <2>1, KataFacts DEF JobSound, IInv, WatchSound, DeletionIsLast
    <3>2. 1 \in DOMAIN watch /\ cache' = [cache EXCEPT ![Subject(1)] = State(1)]
      BY SyncShifts DEF IInv, TypeOK
    <3>3. Subject(1) # c
      BY <3>1, <3>2 DEF Pending
    <3> QED
      BY <3>1, <3>2, <3>3, KataFacts DEF IInv, TypeOK
  <2> QED
    BY <1>1, <2>1, KataFacts DEF JobSound
<1> QED
  BY <1>2, <1>3, SyncKeepsWatch DEF IInv, Sound

\* The controller restarts.
LEMMA RestartKeeps ==
    ASSUME IInv, Restart
    PROVE  Sound'
<1>1. /\ api' = api /\ flow' = flow
      /\ \A c \in Kata : job'[c] = "none" /\ step'[c] = "idle"
  BY DEF Restart
<1>2. Lifecycle'
  BY <1>1 DEF IInv, Lifecycle, Deleting, Settled
<1>3. JobsSound'
  BY <1>1 DEF JobsSound, JobSound
<1> QED
  BY <1>2, <1>3, RestartKeepsWatch DEF IInv, Sound

\* A step of a job that does not write its object.
LEMMA StepKeeps ==
    ASSUME IInv, NEW c \in Kata, NEW j \in Jobs, NEW s \in JobSteps,
           UNCHANGED <<api, watch, cache, flow>>,
           job' = [job EXCEPT ![c] = j], step' = [step EXCEPT ![c] = s],
           JobSound(c)'
    PROVE  Sound'
<1>1. WatchSound'
  BY DEF IInv, WatchSound, CacheFollows, DeletionIsLast, NoneRevived, NoRevival,
         DeletionSeen, Pending, Last, Subject, State
<1>2. Lifecycle'
  BY DEF IInv, Lifecycle, Deleting, Settled
<1>3. JobsSound'
  <2> SUFFICES ASSUME NEW d \in Kata, d # c PROVE JobSound(d)'
    BY DEF JobsSound
  <2> QED
    BY KataFacts DEF JobSound, IInv, TypeOK
<1> QED
  BY <1>1, <1>2, <1>3 DEF Sound

\* A step of the controller's work on one ContainerRuntime.
LEMMA WorkKeeps ==
    ASSUME IInv, NEW c \in Kata, Work(c) \/ Retry(c)
    PROVE  Sound'
<1>0. JobSound(c) /\ job \in [Kata -> Jobs] /\ step \in [Kata -> JobSteps]
  BY KataFacts DEF IInv, TypeOK
<1> USE DEF Jobs, JobSteps, objects, workers, managed, Begin, Goto
<1>1. CASE BeginReconcile(c)
  BY <1>1, BeginReconcileKeeps
<1>2. CASE BeginDelete(c)
  <2>1. api[c].phase = "deleting" /\ cache[c].phase = "deleting"
    BY <1>2 DEF BeginDelete, IInv, WatchSound, DeletionIsLast
  <2> DEFINE j == IF flow = "forceDelete" THEN "forceDelete" ELSE "delete"
  <2>2. /\ j \in Jobs /\ "list" \in JobSteps /\ UNCHANGED <<api, watch, cache, flow>>
        /\ job' = [job EXCEPT ![c] = j] /\ step' = [step EXCEPT ![c] = "list"]
    BY <1>2 DEF BeginDelete
  <2>3. JobSound(c)'
    BY <1>0, <2>1, <2>2 DEF JobSound
  <2> QED
    BY <2>2, <2>3, StepKeeps
<1>3. CASE BeginMigrate(c)
  <2>1. api[c].todo = "migrate" /\ flow = "migrate"
    BY <1>3, KataFacts DEF BeginMigrate
  <2>2. api[c].phase = "live"
    BY <2>1, KataFacts, ObjectParts DEF Absent, Object
  <2>3. /\ "migrate" \in Jobs /\ "keep" \in JobSteps /\ UNCHANGED <<api, watch, cache, flow>>
        /\ job' = [job EXCEPT ![c] = "migrate"] /\ step' = [step EXCEPT ![c] = "keep"]
    BY <1>3 DEF BeginMigrate
  <2>4. JobSound(c)'
    BY <1>0, <2>1, <2>2, <2>3 DEF JobSound
  <2> QED
    BY <2>3, <2>4, StepKeeps
<1>4. CASE Finish(c)
  BY <1>4, FinishKeeps
<1>5. CASE Retry(c)
  <2>1. /\ "none" \in Jobs /\ "idle" \in JobSteps /\ UNCHANGED <<api, watch, cache, flow>>
        /\ job' = [job EXCEPT ![c] = "none"] /\ step' = [step EXCEPT ![c] = "idle"]
    BY <1>5 DEF Retry
  <2>2. JobSound(c)'
    BY <1>0, <2>1 DEF JobSound
  <2> QED
    BY <2>1, <2>2, StepKeeps
<1>6. ASSUME NEW s \in JobSteps \ {"idle"}, UNCHANGED <<api, watch, cache, flow, job>>,
             step' = [step EXCEPT ![c] = s], step[c] # "idle",
             job[c] = "reconcile" => s = "release",
             job[c] \in {"delete", "forceDelete"} => s \in {"delete", "wait", "release"},
             job[c] = "migrate" => s \in {"delete", "wait", "release"}
      PROVE  Sound'
  <2>1. job' = [job EXCEPT ![c] = job[c]] /\ job[c] \in Jobs
    BY <1>0, <1>6
  <2>2. JobSound(c)'
    BY <1>0, <1>6 DEF JobSound
  <2> QED
    BY <1>6, <2>1, <2>2, StepKeeps
<1>7. CASE Reconcile(c)
  BY <1>0, <1>6, <1>7 DEF Reconcile, JobSound
<1>8. CASE Delete(c)
  BY <1>0, <1>6, <1>8 DEF Delete, JobSound
<1>9. CASE KeepObjects(c)
  BY <1>0, <1>6, <1>9 DEF KeepObjects, JobSound
<1>10. CASE deleteManagedResource(c)
  BY <1>0, <1>6, <1>10 DEF deleteManagedResource, JobSound
<1>11. CASE Deleted(c)
  BY <1>0, <1>6, <1>11 DEF Deleted, JobSound
<1> QED
  BY <1>1, <1>2, <1>3, <1>4, <1>5, <1>7, <1>8, <1>9, <1>10, <1>11 DEF Work

\* Nothing happens to what the invariant is about.
LEMMA StutterKeeps ==
    ASSUME IInv, UNCHANGED <<api, watch, cache, job, step, flow>>
    PROVE  Sound'
<1>1. WatchSound'
  BY DEF IInv, WatchSound, CacheFollows, DeletionIsLast, NoneRevived, NoRevival,
         DeletionSeen, Pending, Last, Subject, State
<1>2. Lifecycle'
  BY DEF IInv, Lifecycle, Deleting, Settled
<1>3. JobsSound'
  BY DEF IInv, JobsSound, JobSound
<1> QED
  BY <1>1, <1>2, <1>3 DEF Sound

\* The invariant that the theorems about the managed resource rest on.
THEOREM WorkIsSound ==
    ASSUME Serialised
    PROVE  Spec => []IInv
<1>1. ASSUME Init PROVE Sound
  <2>1. /\ \A c \in Names : api[c] = Absent /\ cache[c] = Absent
        /\ \A c \in Kata : job[c] = "none" /\ step[c] = "idle"
        /\ watch = <<>> /\ DOMAIN watch = {} /\ flow = "reconcile"
    BY <1>1 DEF Init
  <2>2. Absent.phase = "absent" /\ ~Absent.fin /\ Absent.todo = "none"
    BY DEF Absent, Object
  <2>3. Kata \subseteq Names
    BY DEF Names
  <2>4. Lifecycle
    BY <2>1, <2>2, <2>3 DEF Lifecycle, Deleting
  <2>5. JobsSound
    BY <2>1 DEF JobsSound, JobSound
  <2>6. WatchSound
    BY <2>1, <2>2, <2>3 DEF WatchSound, CacheFollows, DeletionIsLast, NoneRevived,
                            DeletionSeen, Pending
  <2> QED
    BY <2>4, <2>5, <2>6 DEF Sound
<1>2. ASSUME IInv, [Next]_vars PROVE Sound'
  <2>1. ASSUME NEW c \in Names, Deploy(c) \/ Remove(c) PROVE Sound'
    BY <1>2, <2>1, DeployKeeps, RemoveKeeps
  <2>2. ASSUME NEW f \in {"migrate", "forceDelete"}, StartFlow(f) PROVE Sound'
    BY <1>2, <2>2, FlowKeeps
  <2>3. CASE EndMigration
    BY <1>2, <2>3, FlowKeeps
  <2>4. CASE Sync
    BY <1>2, <2>4, SyncKeeps
  <2>5. CASE Apply \/ Finalize \/ UNCHANGED vars
    BY <1>2, <2>5, StutterKeeps DEF Apply, Finalize, vars, objects, workers
  <2>6. CASE Restart
    BY <1>2, <2>6, RestartKeeps
  <2>7. ASSUME NEW c \in Kata, Migrate(c) PROVE Sound'
    BY <1>2, <2>7, MigrateKeeps
  <2>8. ASSUME NEW c \in Kata, Work(c) \/ Retry(c) PROVE Sound'
    BY <1>2, <2>8, WorkKeeps
  <2> QED
    BY <1>2, <2>1, <2>2, <2>3, <2>4, <2>5, <2>6, <2>7, <2>8 DEF Next, Gardenlet
<1>3. IInv <=> TypeOK /\ Sound
  BY DEF IInv, Sound
<1>4. IInv' <=> TypeOK' /\ Sound'
  BY DEF IInv, Sound
<1> QED
  BY <1>1, <1>2, <1>3, <1>4, TypeCorrect, PTL DEF Spec
-------------------------------------------------------------------------------
(* The managed resource.                                                    *)

\* What the invariants say of the job that works on a ContainerRuntime.
LEMMA JobFacts ==
    ASSUME IInv, NEW c \in Kata
    PROVE  /\ c \in Names /\ job[c] \in Jobs /\ flow \in {"reconcile", "migrate", "forceDelete"}
           /\ job[c] = "none" <=> step[c] = "idle"
           /\ job[c] = "reconcile" =>
                /\ step[c] \in {"create", "release"}
                /\ api[c].phase = "live" /\ api[c].todo = "reconcile" /\ flow = "reconcile"
           /\ job[c] \in {"delete", "forceDelete"} =>
                /\ step[c] \in {"list", "delete", "wait", "release"}
                /\ api[c].phase = "deleting" /\ cache[c].phase = "deleting"
                /\ flow # "migrate"
                /\ flow = "forceDelete" <=> job[c] = "forceDelete"
           /\ job[c] = "migrate" =>
                /\ step[c] \in {"keep", "delete", "wait", "release"}
                /\ api[c].phase = "live" /\ api[c].todo = "migrate" /\ flow = "migrate"
           /\ api[c].phase = "live" /\ api[c].todo = "reconcile" => flow = "reconcile"
           /\ api[c].phase = "deleting" => Deleting /\ flow # "migrate"
           /\ api[c].todo \in {"migrate", "migrated"} => flow = "migrate"
<1>1. /\ c \in Names /\ job[c] \in Jobs /\ flow \in {"reconcile", "migrate", "forceDelete"}
      /\ JobSound(c)
  BY KataFacts DEF IInv, TypeOK
<1>2. job[c] = "reconcile" => api[c].phase = "live" /\ api[c].todo = "reconcile"
  BY <1>1 DEF JobSound, Object
<1>3. api[c].phase = "live" /\ api[c].todo = "reconcile" => flow = "reconcile"
  BY <1>1 DEF IInv, Lifecycle, Settled
<1>4. api[c].phase = "deleting" => Deleting /\ flow # "migrate"
  BY DEF IInv, Lifecycle, Deleting
<1> QED
  BY <1>1, <1>2, <1>3, <1>4, KataFacts DEF JobSound

\* While the managed resource is being deleted nothing is live, so gardenlet is
\* still waiting for a deletion.
LEMMA DeletedUnderDeletion ==
    ASSUME IInv, ResourceSound, flow = "reconcile", mr = "deleting"
    PROVE  NoneLive /\ Deleting
BY DEF ResourceSound, Owned, Needed, NoneLive, Responsible, Deleting

\* A step that leaves the resource and the flow alone, and takes nobody's
\* responsibility.
LEMMA SameResource ==
    ASSUME ResourceSound, UNCHANGED <<mr, keep, flow>>,
           \A d \in Kata : Responsible(d) => Responsible(d)',
           \A d \in Kata : api'[d].phase = "live" =>
               /\ api[d].phase = "live"
               /\ api'[d].todo = "none" => api[d].todo = "none"
               /\ job'[d] = "reconcile" /\ step'[d] = "release" =>
                      job[d] = "reconcile" /\ step[d] = "release",
           \A d \in Kata :
               /\ job'[d] = "delete" /\ step'[d] = "delete" =>
                      job[d] = "delete" /\ step[d] = "delete"
               /\ job'[d] = "migrate" /\ step'[d] = "delete" =>
                      job[d] = "migrate" /\ step[d] = "delete"
               /\ job'[d] = "migrate" /\ step'[d] = "release" =>
                      mr = "absent" \/ (job[d] = "migrate" /\ step[d] = "release")
               /\ api'[d].todo = "migrated" => mr = "absent" \/ api[d].todo = "migrated"
    PROVE  ResourceSound'
<1>1. Owned'
  BY DEF ResourceSound, Owned
<1>2. Needed'
  BY DEF ResourceSound, Needed, NoneLive
<1>3. Kept'
  BY DEF ResourceSound, Kept
<1> QED
  BY <1>1, <1>2, <1>3 DEF ResourceSound

\* So do the steps of gardenlet.
LEMMA GardenletResource ==
    ASSUME IInv, ResourceSound, Serialised, Gardenlet \/ EndMigration \/ \E c \in Kata : Migrate(c)
    PROVE  ResourceSound'
<1> USE DEF objects, workers, managed, Change
<1>0. Kata \subseteq Names
  BY DEF Names
<1>1. ASSUME NEW c \in Names, Deploy(c) PROVE ResourceSound'
  <2>1. /\ flow = "reconcile" /\ ~Deleting /\ UNCHANGED <<job, step, mr, keep, flow>>
        /\ api[c] = Absent \/ (api[c].phase = "live" /\ api[c].todo = "none")
    BY <1>1 DEF Deploy
  <2>2. api'[c].phase = "live" /\ api'[c].todo = "reconcile"
        /\ \A d \in Names \ {c} : api'[d] = api[d]
    <3>1. Object("live", api[c].fin, "reconcile") \in Objects
      BY ObjectParts, ObjectType DEF IInv, TypeOK
    <3> QED
      BY <1>1, <3>1, WriteAt DEF Deploy, IInv, Object
  <2>3. mr # "deleting"
    BY <2>1, DeletedUnderDeletion
  <2>4. Owned'
    BY <2>1, <2>2, <1>0 DEF ResourceSound, Owned, Responsible
  <2>5. \A d \in Kata : job[d] \notin {"delete", "forceDelete"}
    BY <2>1, JobFacts
  <2>6. c \in Kata => job[c] # "reconcile"
    BY <2>1, JobFacts DEF Absent, Object
  <2>7. Needed'
    BY <2>1, <2>2, <2>3, <2>5, <2>6, <1>0 DEF ResourceSound, Needed
  <2> QED
    BY <2>1, <2>4, <2>7 DEF ResourceSound, Kept
<1>2. ASSUME NEW c \in Names, Remove(c) PROVE ResourceSound'
  <2>1. /\ api[c].phase = "live"
        /\ flow = "migrate" => api[c].todo = "migrated"
        /\ UNCHANGED <<job, step, mr, keep, flow>>
    BY <1>2 DEF Remove
  <2>2. api'[c].phase # "live" /\ (api[c].fin => api'[c].phase = "deleting")
        /\ api'[c].todo \in {"none", api[c].todo}
        /\ \A d \in Names \ {c} : api'[d] = api[d]
    <3>1. CASE api[c].fin
      <4>1. Object("deleting", TRUE, api[c].todo) \in Objects
        BY ObjectParts, ObjectType DEF IInv, TypeOK
      <4> QED
        BY <1>2, <3>1, <4>1, WriteAt DEF Remove, IInv, Object
    <3>2. CASE ~api[c].fin
      BY <1>2, <3>2, AbsentType, WriteAt DEF Remove, IInv, Absent, Object
    <3> QED
      BY <3>1, <3>2
  <2>3. CASE c \in Kata /\ flow = "migrate"
    <3>1. mr = "absent"
      BY <2>1, <2>3 DEF ResourceSound, Kept
    <3>2. Owned' /\ Kept'
      BY <2>1, <3>1 DEF Owned, Kept
    <3>3. Needed'
      BY <2>1, <2>3, JobFacts DEF Needed
    <3> QED
      BY <3>2, <3>3 DEF ResourceSound
  <2>4. CASE c \in Kata /\ flow # "migrate"
    <3>1. api[c].todo = "none" /\ api[c].fin
      <4>1. Settled
        BY <1>2, <2>4, JobFacts DEF Remove, IInv, Lifecycle
      <4> QED
        BY <2>1, <2>4, <4>1, KataFacts DEF Settled
    <3>2. job[c] = "none" /\ step[c] = "idle"
      BY <2>1, <2>4, <3>1, JobFacts DEF Jobs
    <3>3. \A d \in Kata : Responsible(d) => Responsible(d)'
      BY <2>1, <2>2, <3>1, <3>2, <1>0 DEF Responsible
    <3> QED
      BY <2>1, <2>2, <3>1, <3>3, <1>0, SameResource
  <2>5. CASE c \notin Kata
    <3>1. \A d \in Kata : api'[d] = api[d]
      BY <2>2, <2>5, <1>0
    <3> QED
      BY <2>1, <3>1, SameResource DEF Responsible
  <2> QED
    BY <2>3, <2>4, <2>5
<1>3. ASSUME NEW f \in {"migrate", "forceDelete"}, StartFlow(f) PROVE ResourceSound'
  <2>1. /\ flow = "reconcile" /\ flow' = f /\ ~Deleting
        /\ UNCHANGED <<api, job, step, mr, keep>>
    BY <1>3 DEF StartFlow
  <2>2. mr # "deleting"
    BY <2>1, DeletedUnderDeletion
  <2>3. Owned'
    BY <2>1 DEF ResourceSound, Owned, Responsible
  <2>4. Needed'
    BY <2>1 DEF ResourceSound, Needed, NoneLive
  <2>5. Kept'
    BY <2>1, <2>2, JobFacts DEF Kept
  <2> QED
    BY <2>3, <2>4, <2>5 DEF ResourceSound
<1>4. CASE EndMigration
  <2>1. /\ flow' = "reconcile" /\ mr' = "absent" /\ \A c \in Kata : api'[c].phase = "absent"
        /\ UNCHANGED <<api, job, step>>
    BY <1>4 DEF EndMigration, Absent, Object
  <2>2. Owned' /\ Kept'
    BY <2>1 DEF Owned, Kept
  <2>3. Needed'
    BY <2>1 DEF Needed, NoneLive
  <2> QED
    BY <2>2, <2>3 DEF ResourceSound
<1>5. ASSUME NEW c \in Kata, Migrate(c) PROVE ResourceSound'
  <2>1. /\ flow = "migrate" /\ api[c].phase = "live" /\ api[c].todo \in {"none", "reconcile"}
        /\ UNCHANGED <<job, step, mr, keep, flow>>
    BY <1>5 DEF Migrate
  <2>2. api'[c].phase = "live" /\ api'[c].todo = "migrate"
        /\ \A d \in Names \ {c} : api'[d] = api[d]
    <3>1. Object("live", api[c].fin, "migrate") \in Objects
      BY KataFacts, ObjectParts, ObjectType
    <3> QED
      BY <1>5, <1>0, <3>1, WriteAt DEF Migrate, IInv, Object
  <2>3. \A d \in Kata : Responsible(d) => Responsible(d)'
    BY <2>1, <2>2, <1>0 DEF Responsible
  <2> QED
    BY <2>1, <2>2, <2>3, <1>0, SameResource
<1> QED
  BY <1>1, <1>2, <1>3, <1>4, <1>5 DEF Gardenlet

\* The cache, the resource manager and a restart leave the managed resource to somebody.
LEMMA ManagerResource ==
    ASSUME IInv, ResourceSound, Sync \/ Apply \/ Finalize \/ Restart \/ UNCHANGED vars
    PROVE  ResourceSound'
<1> USE DEF objects, workers, managed
<1>1. CASE Sync \/ Apply \/ UNCHANGED vars
  <2>1. UNCHANGED <<api, job, step, mr, keep, flow>>
    BY <1>1 DEF Sync, Apply, vars
  <2> QED
    BY <2>1, SameResource DEF Responsible
<1>2. CASE Finalize
  <2>1. mr = "deleting" /\ mr' = "absent" /\ UNCHANGED <<api, job, step, flow>>
    BY <1>2 DEF Finalize
  <2>2. flow = "reconcile" => NoneLive
    BY <2>1 DEF ResourceSound, Needed
  <2>3. Owned' /\ Kept'
    BY <2>1 DEF Owned, Kept
  <2>4. Needed'
    BY <2>1, <2>2 DEF ResourceSound, Needed, NoneLive
  <2> QED
    BY <2>3, <2>4 DEF ResourceSound
<1>3. CASE Restart
  <2>1. /\ UNCHANGED <<api, mr, keep, flow>>
        /\ \A c \in Kata : job'[c] = "none" /\ step'[c] = "idle"
    BY <1>3 DEF Restart
  <2> QED
    BY <2>1, SameResource DEF Responsible
<1> QED
  BY <1>1, <1>2, <1>3

\* A write that the controller does to an object: its finalizer or its operation.
LEMMA WriteResource ==
    ASSUME IInv, ResourceSound, NEW c \in Kata, BeginReconcile(c) \/ Finish(c)
    PROVE  ResourceSound'
<1> USE DEF managed, Begin
<1>0. Kata \subseteq Names /\ job \in [Kata -> Jobs] /\ step \in [Kata -> JobSteps]
  BY DEF Names, IInv, TypeOK
<1>1. CASE BeginReconcile(c)
  <2>1. /\ api[c].phase = "live" /\ api[c].todo = "reconcile"
        /\ UNCHANGED <<mr, keep, flow>>
        /\ job' = [job EXCEPT ![c] = "reconcile"] /\ step' = [step EXCEPT ![c] = "create"]
    BY <1>1 DEF BeginReconcile
  <2>2. api'[c].phase = "live" /\ api'[c].todo = "reconcile"
        /\ \A d \in Names \ {c} : api'[d] = api[d]
    <3>1. Object("live", TRUE, "reconcile") \in Objects
      BY ObjectType
    <3> QED
      BY <1>0, <1>1, <3>1, WriteAt DEF BeginReconcile, IInv, Object
  <2>3. \A d \in Kata : Responsible(d) => Responsible(d)'
    BY <2>1, <2>2, <1>0 DEF Responsible
  <2> QED
    BY <2>1, <2>2, <2>3, <1>0, SameResource
<1>2. CASE Finish(c)
  <2>1. /\ step[c] = "release" /\ UNCHANGED <<mr, keep, flow>>
        /\ job' = [job EXCEPT ![c] = "none"] /\ step' = [step EXCEPT ![c] = "idle"]
    BY <1>2 DEF Finish
  <2>2. job[c] \in {"reconcile", "delete", "forceDelete", "migrate"}
    BY <2>1, JobFacts DEF Jobs
  <2>3. CASE job[c] = "reconcile"
    <3>1. api[c].phase = "live" /\ flow = "reconcile" /\ api[c].todo = "reconcile"
      BY <2>3, JobFacts
    <3>2. mr = "live"
      BY <2>1, <2>3, <3>1, DeletedUnderDeletion
         DEF ResourceSound, Needed, NoneLive, IInv, TypeOK
    <3>3. api'[c].phase = "live" /\ \A d \in Names \ {c} : api'[d] = api[d]
      <4>1. Object(api[c].phase, api[c].fin, "none") \in Objects
        BY KataFacts, ObjectParts, ObjectType
      <4>2. Write(c, Object(api[c].phase, api[c].fin, "none"))
        BY <1>2, <2>3, <3>1 DEF Finish
      <4> QED
        BY <1>0, <3>1, <4>1, <4>2, WriteAt DEF IInv, Object
    <3>4. \A d \in Kata : ~(job[d] = "delete" /\ step[d] = "delete")
      BY <3>1 DEF ResourceSound, Needed, NoneLive
    <3>5. Owned'
      BY <3>3 DEF Owned, Responsible
    <3>6. Needed'
      BY <2>1, <3>2, <3>4, <1>0 DEF Needed
    <3> QED
      BY <2>1, <3>1, <3>5, <3>6 DEF ResourceSound, Kept
  <2>4. CASE job[c] \in {"delete", "forceDelete"}
    <3>1. api[c].phase = "deleting"
      BY <2>4, JobFacts
    <3>2. api'[c] = Absent /\ \A d \in Names \ {c} : api'[d] = api[d]
      <4>1. Write(c, Absent)
        BY <1>2, <2>4 DEF Finish
      <4> QED
        BY <1>0, <4>1, AbsentType, WriteAt DEF IInv
    <3>3. Absent.phase = "absent" /\ Absent.todo = "none"
      BY DEF Absent, Object
    <3>4. \A d \in Kata : Responsible(d) => Responsible(d)'
      BY <2>1, <3>1, <3>2, <1>0 DEF Responsible
    <3> QED
      BY <2>1, <3>2, <3>3, <3>4, <1>0, SameResource
  <2>5. CASE job[c] = "migrate"
    <3>1. flow = "migrate"
      BY <2>5, JobFacts
    <3>2. mr = "absent"
      BY <2>1, <2>5, <3>1 DEF ResourceSound, Kept
    <3>3. \A d \in Kata : job'[d] # "delete"
      BY <2>1, <3>1, <1>0, JobFacts
    <3> QED
      BY <2>1, <3>1, <3>2, <3>3 DEF ResourceSound, Owned, Needed, Kept
  <2> QED
    BY <2>2, <2>3, <2>4, <2>5
<1> QED
  BY <1>1, <1>2

\* A step of a job that leaves the managed resource alone: it begins, is retried, or lists.
LEMMA JobResource ==
    ASSUME IInv, ResourceSound, NEW c \in Kata,
           BeginDelete(c) \/ BeginMigrate(c) \/ Retry(c) \/ Delete(c) \/ Deleted(c)
    PROVE  ResourceSound'
<1> USE DEF objects, managed, Begin, Goto
<1>0. /\ job \in [Kata -> Jobs] /\ step \in [Kata -> JobSteps]
      /\ UNCHANGED <<api, mr, keep, flow>>
  BY DEF IInv, TypeOK, BeginDelete, BeginMigrate, Retry, Delete, Deleted
<1>1. CASE BeginDelete(c) \/ BeginMigrate(c) \/ Retry(c)
  <2>1. PICK j, s : /\ job' = [job EXCEPT ![c] = j] /\ step' = [step EXCEPT ![c] = s]
                    /\ s \notin {"release", "delete"}
    BY <1>1 DEF BeginDelete, BeginMigrate, Retry
  <2>2. \A d \in Kata : Responsible(d) => Responsible(d)'
    BY <1>0, <2>1 DEF Responsible
  <2> QED
    BY <1>0, <2>1, <2>2, SameResource
<1>2. CASE Delete(c)
  <2>1. /\ step[c] = "list" /\ job' = job
        /\ step' = [step EXCEPT ![c] = IF isKataStillRequired(c) THEN "release" ELSE "delete"]
    BY <1>2 DEF Delete
  <2>2. /\ job[c] \in {"delete", "forceDelete"} /\ flow # "migrate"
        /\ api[c].phase = "deleting" /\ cache[c].phase = "deleting"
    BY <2>1, JobFacts DEF Jobs
  <2>3. CASE isKataStillRequired(c)
    <3>1. PICK d \in Kata : d # c /\ cache[d].phase = "live"
      BY <2>3 DEF isKataStillRequired
    <3>2. api[d].phase \in {"live", "deleting"}
      BY <2>2, <3>1, CacheShowsLive, KataFacts, ObjectParts
    <3>3. api[d].phase = "deleting" => step[d] = "idle"
      BY <3>1, JobFacts DEF Jobs
    <3>4. Responsible(d)'
      BY <1>0, <2>1, <3>1, <3>2, <3>3 DEF Responsible
    <3>5. Owned'
      BY <3>4 DEF Owned
    <3>6. Needed'
      BY <1>0, <2>1, <2>2, <2>3 DEF ResourceSound, Needed, NoneLive
    <3> QED
      BY <1>0, <2>2, <3>5, <3>6 DEF ResourceSound, Kept
  <2>4. CASE ~isKataStillRequired(c)
    <3>1. NoneLive
      <4> SUFFICES ASSUME NEW d \in Kata, api[d].phase = "live" PROVE FALSE
        BY DEF NoneLive
      <4>1. cache[d].phase = "live" /\ d # c /\ d \in Names
        BY <2>2, CacheShowsLive, KataFacts
      <4> QED
        BY <2>4, <4>1 DEF isKataStillRequired
    <3>2. \A d \in Kata : Responsible(d) => Responsible(d)'
      BY <1>0, <2>1, <2>4 DEF Responsible
    <3>3. Owned'
      BY <1>0, <3>2 DEF ResourceSound, Owned
    <3>4. Needed'
      BY <1>0, <3>1 DEF Needed, NoneLive
    <3> QED
      BY <1>0, <2>2, <3>3, <3>4 DEF ResourceSound, Kept
  <2> QED
    BY <2>3, <2>4
<1>3. CASE Deleted(c)
  <2>1. /\ step[c] = "wait" /\ mr = "absent" /\ job' = job
        /\ step' = [step EXCEPT ![c] = "release"]
    BY <1>3 DEF Deleted
  <2>2. job[c] # "reconcile"
    BY <2>1, JobFacts
  <2>3. Owned' /\ Kept'
    BY <1>0, <2>1 DEF Owned, Kept
  <2>4. Needed'
    BY <1>0, <2>1, <2>2 DEF ResourceSound, Needed, NoneLive
  <2> QED
    BY <2>3, <2>4 DEF ResourceSound
<1> QED
  BY <1>1, <1>2, <1>3

\* The controller creates the managed resource or has it deleted.
LEMMA CallResource ==
    ASSUME IInv, ResourceSound, NEW c \in Kata,
           Reconcile(c) \/ KeepObjects(c) \/ deleteManagedResource(c)
    PROVE  ResourceSound'
<1> USE DEF objects, Goto
<1>0. /\ job \in [Kata -> Jobs] /\ step \in [Kata -> JobSteps]
      /\ mr \in {"absent", "live", "deleting"}
      /\ UNCHANGED <<api, job, flow>>
  BY DEF IInv, TypeOK, Reconcile, KeepObjects, deleteManagedResource
<1>1. CASE Reconcile(c)
  <2>1. /\ step[c] = "create" /\ step' = [step EXCEPT ![c] = "release"]
        /\ mr' = IF mr = "absent" THEN "live" ELSE mr
    BY <1>1 DEF Reconcile
  <2>2. api[c].phase = "live" /\ flow = "reconcile" /\ job[c] = "reconcile"
    BY <2>1, JobFacts DEF Jobs
  <2>3. mr' = "live"
    BY <1>0, <2>1, <2>2, DeletedUnderDeletion DEF NoneLive
  <2>4. \A d \in Kata : ~(job[d] = "delete" /\ step[d] = "delete")
    BY <2>2 DEF ResourceSound, Needed, NoneLive
  <2>5. Owned'
    BY <1>0, <2>2 DEF Owned, Responsible
  <2>6. Needed'
    BY <1>0, <2>1, <2>2, <2>3, <2>4 DEF Needed
  <2> QED
    BY <1>0, <2>2, <2>5, <2>6 DEF ResourceSound, Kept
<1>2. CASE KeepObjects(c)
  <2>1. /\ step[c] = "keep" /\ step' = [step EXCEPT ![c] = "delete"]
        /\ mr' = mr /\ keep' = (mr # "absent")
    BY <1>2 DEF KeepObjects
  <2>2. job[c] = "migrate" /\ flow = "migrate"
    BY <2>1, JobFacts DEF Jobs
  <2>3. \A d \in Kata : Responsible(d) => Responsible(d)'
    BY <1>0, <2>1 DEF Responsible
  <2>4. Owned'
    BY <1>0, <2>1, <2>3 DEF ResourceSound, Owned
  <2>5. Needed'
    BY <1>0, <2>1, <2>2, JobFacts DEF Needed
  <2>6. Kept'
    BY <1>0, <2>1, <2>2 DEF ResourceSound, Kept
  <2> QED
    BY <2>4, <2>5, <2>6 DEF ResourceSound
<1>3. CASE deleteManagedResource(c)
  <2>1. /\ step[c] = "delete" /\ keep' = keep
        /\ step' = [step EXCEPT ![c] = IF job[c] = "forceDelete" THEN "release" ELSE "wait"]
        /\ mr' = IF mr = "absent" THEN mr ELSE "deleting"
    BY <1>3 DEF deleteManagedResource, managed
  <2>2. job[c] \in {"delete", "forceDelete", "migrate"}
    BY <2>1, JobFacts DEF Jobs
  <2>3. CASE job[c] = "forceDelete"
    <3>1. flow = "forceDelete"
      BY <2>3, JobFacts
    <3>2. Owned' /\ Kept'
      BY <1>0, <2>1, <3>1 DEF Owned, Kept
    <3>3. Needed'
      BY <1>0, <2>1, <3>1, JobFacts DEF Needed
    <3> QED
      BY <3>2, <3>3 DEF ResourceSound
  <2>4. CASE job[c] \in {"delete", "migrate"}
    <3>1. flow # "forceDelete" /\ (job[c] = "delete" => flow # "migrate")
      BY <2>4, JobFacts
    <3>2. \A d \in Kata : Responsible(d) => Responsible(d)'
      BY <1>0, <2>1, <2>4 DEF Responsible
    <3>3. Owned'
      BY <1>0, <2>1, <3>1, <3>2 DEF ResourceSound, Owned
    <3>4. job[c] = "delete" => NoneLive
      BY <2>1 DEF ResourceSound, Needed
    <3>5. job[c] = "migrate" => flow = "migrate"
      BY JobFacts
    <3>6. Needed'
      BY <1>0, <2>1, <2>4, <3>4, <3>5 DEF ResourceSound, Needed, NoneLive
    <3>7. Kept'
      BY <1>0, <2>1, <2>4, <3>1 DEF ResourceSound, Kept
    <3> QED
      BY <3>3, <3>6, <3>7 DEF ResourceSound
  <2> QED
    BY <2>2, <2>3, <2>4
<1> QED
  BY <1>1, <1>2, <1>3

\* The managed resource has somebody to delete it, is there for whom it is
\* needed, and is not deleted in a migration without keeping its objects.
THEOREM ResourceOwned ==
    ASSUME Serialised
    PROVE  Spec => []ResourceSound
<1>1. ASSUME Init PROVE ResourceSound
  <2>1. /\ mr = "absent" /\ flow = "reconcile" /\ \A c \in Kata : api[c] = Absent
        /\ \A c \in Kata : job[c] = "none"
    BY <1>1 DEF Init, Names
  <2>2. Absent.phase = "absent"
    BY DEF Absent, Object
  <2> QED
    BY <2>1, <2>2 DEF ResourceSound, Owned, Needed, Kept
<1>2. ASSUME IInv, ResourceSound, [Next]_vars PROVE ResourceSound'
  <2>1. CASE Gardenlet \/ EndMigration \/ \E c \in Kata : Migrate(c)
    BY <1>2, <2>1, GardenletResource
  <2>2. CASE Sync \/ Apply \/ Finalize \/ Restart \/ UNCHANGED vars
    BY <1>2, <2>2, ManagerResource
  <2>3. ASSUME NEW c \in Kata, Work(c) \/ Retry(c) PROVE ResourceSound'
    BY <1>2, <2>3, WriteResource, JobResource, CallResource DEF Work
  <2> QED
    BY <1>2, <2>1, <2>2, <2>3 DEF Next
<1> QED
  BY <1>1, <1>2, WorkIsSound, PTL DEF Spec

\* While a ContainerRuntime counts as reconciled the managed resource is there
\* and is not being deleted, if gardenlet finishes one change before the next.
THEOREM ResourceWhileReconciled ==
    ASSUME Serialised
    PROVE  Spec => []ReconciledHasResource
<1>1. ASSUME IInv, ResourceSound PROVE ReconciledHasResource
  <2> SUFFICES ASSUME flow = "reconcile", NEW c \in Kata, Reconciled(c) PROVE mr = "live"
    BY DEF ReconciledHasResource
  <2>1. mr # "absent"
    BY <1>1 DEF ResourceSound, Needed, Reconciled
  <2>2. mr # "deleting"
    BY <1>1, DeletedUnderDeletion DEF NoneLive, Reconciled
  <2> QED
    BY <1>1, <2>1, <2>2 DEF IInv, TypeOK
<1> QED
  BY <1>1, WorkIsSound, ResourceOwned, PTL

\* Concurrent deletions never all leave the managed resource to the others,
\* however the cache lags, whatever fails or restarts.
THEOREM NothingLeft ==
    ASSUME Serialised
    PROVE  Spec => []NoResourceLeft
<1>1. ASSUME ResourceSound PROVE NoResourceLeft
  BY <1>1 DEF NoResourceLeft, ResourceSound, Owned, Responsible, Absent, Object
<1> QED
  BY <1>1, ResourceOwned, PTL

\* A migration never takes the RuntimeClasses from the shoot.
THEOREM MigrationKeeps ==
    ASSUME Serialised
    PROVE  Spec => MigrationKeepsClasses
<1>1. ASSUME IInv, ResourceSound, [Next]_vars, flow = "migrate", classes PROVE classes'
  <2>1. CASE Finalize
    BY <1>1, <2>1 DEF Finalize, ResourceSound, Kept
  <2>2. CASE Apply
    BY <2>2 DEF Apply
  <2>3. CASE ~Finalize /\ ~Apply
    BY <1>1, <2>3 DEF Next, Gardenlet, Deploy, Remove, StartFlow, Change, EndMigration, Sync,
       Restart, Migrate, Retry, Work, BeginReconcile, BeginDelete, BeginMigrate, Finish,
       Begin, Reconcile, Delete, KeepObjects, deleteManagedResource, Deleted, Goto, vars
  <2> QED
    BY <2>1, <2>2, <2>3
<1>2. ASSUME IInv, ResourceSound, [Next]_vars
      PROVE  [flow = "migrate" /\ classes => classes']_vars
  BY <1>1, <1>2
<1> QED
  BY <1>2, WorkIsSound, ResourceOwned, PTL DEF Spec, MigrationKeepsClasses
-------------------------------------------------------------------------------
(* The jobs do not wait for good.                                           *)

\* Who waits for the managed resource to go waits for one that is being deleted,
\* and nothing is live that would have it created again.
WaitSound ==
    \A c \in Kata : step[c] = "wait" =>
        mr # "live" /\ (job[c] = "delete" => NoneLive)

\* What ContainerRuntimes and jobs do apart from calls about the resource.
LEMMA OthersKeepWait ==
    ASSUME IInv, WaitSound, mr' = "live" => mr = "live",
           \A d \in Kata : step'[d] = "wait" => step[d] = "wait" /\ job'[d] = job[d],
           NoneLive => NoneLive'
    PROVE  WaitSound'
BY DEF WaitSound

\* A step of the controller's work keeps it.
LEMMA WorkKeepsWait ==
    ASSUME IInv, ResourceSound, WaitSound, NEW c \in Kata, Work(c) \/ Retry(c)
    PROVE  WaitSound'
<1> USE DEF managed, Begin, Goto
<1>0. /\ Kata \subseteq Names /\ job \in [Kata -> Jobs] /\ step \in [Kata -> JobSteps]
      /\ api \in [Names -> Objects] /\ mr \in {"absent", "live", "deleting"}
  BY DEF Names, IInv, TypeOK
<1>1. CASE BeginReconcile(c)
  <2>1. /\ api[c].phase = "live" /\ mr' = mr
        /\ job' = [job EXCEPT ![c] = "reconcile"] /\ step' = [step EXCEPT ![c] = "create"]
    BY <1>1 DEF BeginReconcile
  <2>2. ~NoneLive
    BY <2>1 DEF NoneLive
  <2> QED
    BY <1>0, <2>1, <2>2, OthersKeepWait
<1>2. CASE Finish(c)
  <2>1. /\ step[c] = "release" /\ mr' = mr
        /\ job' = [job EXCEPT ![c] = "none"] /\ step' = [step EXCEPT ![c] = "idle"]
    BY <1>2 DEF Finish
  <2>2. \A d \in Names \ {c} : api'[d] = api[d]
    BY <1>2 DEF Finish, Write
  <2>3. NoneLive => NoneLive'
    <3>1. CASE job[c] \in {"reconcile", "migrate"}
      BY <3>1, JobFacts DEF NoneLive
    <3>2. CASE job[c] \notin {"reconcile", "migrate"}
      <4>1. Write(c, Absent)
        BY <1>2, <3>2 DEF Finish
      <4>2. api'[c] = Absent
        BY <4>1, <1>0, AbsentType, WriteAt DEF IInv
      <4> QED
        BY <2>2, <4>2, <1>0 DEF NoneLive, Absent, Object
    <3> QED
      BY <3>1, <3>2
  <2> QED
    BY <1>0, <2>1, <2>3, OthersKeepWait
<1>3. CASE BeginDelete(c) \/ BeginMigrate(c) \/ Retry(c) \/ Delete(c) \/ KeepObjects(c) \/ Deleted(c)
  <2>1. UNCHANGED <<api, mr>>
    BY <1>3 DEF BeginDelete, BeginMigrate, Retry, Delete, KeepObjects, Deleted, objects
  <2>2. PICK j, s : /\ job' = [job EXCEPT ![c] = j] /\ step' = [step EXCEPT ![c] = s]
                    /\ s # "wait"
    <3>1. CASE BeginDelete(c) \/ BeginMigrate(c) \/ Retry(c)
      BY <3>1 DEF BeginDelete, BeginMigrate, Retry
    <3>2. CASE Delete(c) \/ KeepObjects(c) \/ Deleted(c)
      <4>1. job' = [job EXCEPT ![c] = job[c]]
        BY <1>0, <3>2 DEF Delete, KeepObjects, Deleted
      <4>2. PICK s : step' = [step EXCEPT ![c] = s] /\ s # "wait"
        BY <3>2 DEF Delete, KeepObjects, Deleted
      <4> QED
        BY <4>1, <4>2
    <3> QED
      BY <1>3, <3>1, <3>2
  <2> QED
    BY <1>0, <2>1, <2>2, OthersKeepWait DEF NoneLive
<1>4. CASE Reconcile(c)
  <2>1. step[c] = "create" /\ step' = [step EXCEPT ![c] = "release"] /\ job' = job
    BY <1>4 DEF Reconcile
  <2>2. api[c].phase = "live" /\ flow = "reconcile"
    BY <2>1, JobFacts DEF Jobs
  <2>3. \A d \in Kata : step[d] # "wait"
    <3> SUFFICES ASSUME NEW d \in Kata, step[d] = "wait" PROVE FALSE
      OBVIOUS
    <3>1. job[d] = "delete"
      BY <2>2, JobFacts DEF Jobs
    <3> QED
      BY <2>2, <3>1 DEF WaitSound, NoneLive
  <2> QED
    BY <1>0, <2>1, <2>3 DEF WaitSound
<1>5. CASE deleteManagedResource(c)
  <2>1. /\ step[c] = "delete" /\ UNCHANGED <<api, job>>
        /\ step' = [step EXCEPT ![c] = IF job[c] = "forceDelete" THEN "release" ELSE "wait"]
        /\ mr' = IF mr = "absent" THEN mr ELSE "deleting"
    BY <1>5 DEF deleteManagedResource, objects
  <2>2. job[c] = "delete" => NoneLive
    BY <2>1 DEF ResourceSound, Needed
  <2> QED
    BY <1>0, <2>1, <2>2 DEF WaitSound, NoneLive
<1> QED
  BY <1>1, <1>2, <1>3, <1>4, <1>5 DEF Work

\* So does everything around the controller.
LEMMA SurroundingsKeepWait ==
    ASSUME IInv, WaitSound, Serialised,
           \/ Gardenlet \/ EndMigration \/ \E c \in Kata : Migrate(c)
           \/ Sync \/ Apply \/ Finalize \/ Restart \/ UNCHANGED vars
    PROVE  WaitSound'
<1> USE DEF objects, workers, managed, Change
<1>0. Kata \subseteq Names /\ api \in [Names -> Objects] /\ step \in [Kata -> JobSteps]
  BY DEF Names, IInv, TypeOK
<1>1. ASSUME NEW c \in Names, Deploy(c) PROVE WaitSound'
  <2>1. ~Deleting /\ UNCHANGED <<job, step, mr>>
    BY <1>1 DEF Deploy
  <2>2. \A d \in Kata : ~(job[d] = "delete")
    BY <2>1, JobFacts DEF Deleting
  <2> QED
    BY <2>1, <2>2 DEF WaitSound
<1>2. ASSUME NEW c \in Names, Remove(c) PROVE WaitSound'
  <2>1. /\ UNCHANGED <<job, step, mr>> /\ \A d \in Names \ {c} : api'[d] = api[d]
        /\ api[c].phase = "live"
    BY <1>2 DEF Remove, Write
  <2>2. NoneLive => NoneLive'
    <3>1. CASE c \in Kata
      BY <2>1, <3>1 DEF NoneLive
    <3>2. CASE c \notin Kata
      BY <1>0, <2>1, <3>2 DEF NoneLive
    <3> QED
      BY <3>1, <3>2
  <2> QED
    BY <2>1, <2>2 DEF WaitSound
<1>3. ASSUME NEW c \in Kata, Migrate(c) PROVE WaitSound'
  <2>1. UNCHANGED <<job, step, mr>> /\ ~NoneLive
    BY <1>3 DEF Migrate, NoneLive
  <2> QED
    BY <2>1 DEF WaitSound
<1>4. CASE EndMigration \/ \E f \in {"migrate", "forceDelete"} : StartFlow(f)
  BY <1>4 DEF EndMigration, StartFlow, WaitSound, NoneLive
<1>5. CASE Sync \/ Apply \/ Finalize \/ UNCHANGED vars
  BY <1>5 DEF Sync, Apply, Finalize, vars, WaitSound, NoneLive
<1>6. CASE Restart
  BY <1>6 DEF Restart, WaitSound
<1> QED
  BY <1>1, <1>2, <1>3, <1>4, <1>5, <1>6 DEF Gardenlet

\* No job waits for a managed resource that nobody deletes, or that somebody will
\* create again, if gardenlet finishes one change before the next.
THEOREM NobodyWaitsInVain ==
    ASSUME Serialised
    PROVE  Spec => []WaitSound
<1>1. ASSUME Init PROVE WaitSound
  BY <1>1 DEF Init, WaitSound
<1>2. ASSUME IInv, ResourceSound, WaitSound, [Next]_vars PROVE WaitSound'
  <2>1. ASSUME NEW c \in Kata, Work(c) \/ Retry(c) PROVE WaitSound'
    BY <1>2, <2>1, WorkKeepsWait
  <2> QED
    BY <1>2, <2>1, SurroundingsKeepWait DEF Next
<1> QED
  BY <1>1, <1>2, WorkIsSound, ResourceOwned, PTL DEF Spec

\* What the reconciler may begin with.
CanBegin(c) ==
    \/ cache[c].phase = "live" /\ cache[c].todo = "reconcile" /\ api[c] = cache[c]
    \/ cache[c].phase = "deleting" /\ cache[c].todo # "migrate" /\ cache[c].fin /\ api[c].fin
    \/ cache[c].todo = "migrate" /\ api[c].todo = "migrate"

\* Something is left to do for a ContainerRuntime only while there is somebody to do it:
\* the informer is behind, the reconciler may begin, a job has a call to make, or waits
\* for a managed resource that goes or has gone.
GoesOn ==
    \A c \in Kata : api[c].phase = "deleting" \/ api[c].todo \in {"reconcile", "migrate"} =>
        \/ watch # <<>>
        \/ step[c] = "idle" /\ CanBegin(c)
        \/ step[c] \in {"create", "list", "keep", "delete", "release"}
        \/ step[c] = "wait" /\ mr \in {"absent", "deleting"}

\* The controller never leaves a deletion, a migration or a reconciliation without a
\* next step, whatever failed or restarted: the safety half of DeletionFinishes.
THEOREM AlwaysGoesOn ==
    ASSUME Serialised
    PROVE  Spec => []GoesOn
<1>1. ASSUME IInv, WaitSound PROVE GoesOn
  <2> SUFFICES ASSUME NEW c \in Kata,
                      api[c].phase = "deleting" \/ api[c].todo \in {"reconcile", "migrate"},
                      watch = <<>>
               PROVE  \/ step[c] = "idle" /\ CanBegin(c)
                      \/ step[c] \in {"create", "list", "keep", "delete", "release"}
                      \/ step[c] = "wait" /\ mr \in {"absent", "deleting"}
    BY DEF GoesOn
  <2>1. cache[c] = api[c]
    BY <1>1 DEF IInv, WatchSound, CacheFollows, Pending
  <2>2. /\ api[c] \in Objects /\ (api[c].phase = "absent" => api[c] = Absent)
        /\ api[c].phase = "deleting" => api[c].fin /\ api[c].todo = "none"
    BY <1>1, KataFacts
  <2>3. CanBegin(c)
    <3>1. CASE api[c].phase = "deleting"
      BY <2>1, <2>2, <3>1 DEF CanBegin
    <3>2. CASE api[c].phase # "deleting"
      <4>1. api[c].phase = "live"
        BY <2>2, <3>2 DEF Objects, Absent, Object
      <4> QED
        BY <2>1, <3>2, <4>1 DEF CanBegin
    <3> QED
      BY <3>1, <3>2
  <2>4. step[c] = "wait" => mr \in {"absent", "deleting"}
    BY <1>1 DEF WaitSound, IInv, TypeOK
  <2>5. step[c] \in JobSteps
    BY <1>1 DEF IInv, TypeOK
  <2> QED
    BY <2>3, <2>4, <2>5 DEF JobSteps
<1> QED
  BY <1>1, WorkIsSound, NobodyWaitsInVain, PTL
==============================================================================
