------------------------- MODULE ShootValidatorProofs -------------------------
(***************************************************************************)
(* Proofs about ShootValidator, for any pools, machine types, capabilities *)
(* and requirements.                                                       *)
(***************************************************************************)
EXTENDS ShootValidator, TLAPS

LEMMA ShootType ==
    ASSUME NEW s \in Specs, NEW d \in BOOLEAN, NEW a \in BOOLEAN
    PROVE  /\ Shoot(s, d, a) \in Shoots
           /\ Shoot(s, d, a).spec = s
           /\ Shoot(s, d, a).deleting = d
BY DEF Shoot, Shoots

LEMMA ShootParts ==
    ASSUME shoot \in Shoots
    PROVE  /\ shoot.spec \in Specs
           /\ shoot.deleting \in BOOLEAN
           /\ shoot.asked \in BOOLEAN
BY DEF Shoots

\* A spec with one pool changed is a spec.
LEMMA SpecType ==
    ASSUME NEW s \in Specs, NEW p \in Pools, NEW w \in Workers \cup {NoWorker}
    PROVE  [s EXCEPT !.workers[p] = w] \in Specs
BY DEF Specs

\* The Shoot and both copies of its CloudProfile keep their shape.
THEOREM TypeCorrect == Spec => []TypeOK
<1>1. Init => TypeOK
  BY ValidatorAssumption DEF Init, TypeOK
<1>2. ASSUME TypeOK, [Next]_vars PROVE TypeOK'
  <2> USE <1>2, ValidatorAssumption DEF TypeOK, Write, Change
  <2>1. CASE Create
    <3>1. PICK s \in Specs : Write(Shoot(s, FALSE, TRUE))
      BY <2>1 DEF Create
    <3>2. Shoot(s, FALSE, TRUE) \in Shoots
      BY ShootType
    <3>3. changes' \in 0..MaxChanges
      BY <2>1 DEF Create
    <3> QED
      BY <3>1, <3>2, <3>3
  <2>2. CASE ChangeSpec
    <3>1. /\ shoot.spec \in Specs /\ shoot.deleting \in BOOLEAN
          /\ changes' \in 0..MaxChanges
      BY <2>2, ShootParts DEF ChangeSpec
    <3>2. PICK s \in Specs : Write(Shoot(s, shoot.deleting, TRUE))
      <4>1. ASSUME NEW p \in Pools, NEW w \in Workers \cup {NoWorker},
                   Write(Shoot([shoot.spec EXCEPT !.workers[p] = w], shoot.deleting, TRUE))
            PROVE  \E s \in Specs : Write(Shoot(s, shoot.deleting, TRUE))
        <5>1. [shoot.spec EXCEPT !.workers[p] = w] \in Specs
          BY <3>1, SpecType
        <5> QED
          BY <4>1, <5>1
      <4>2. ASSUME NEW rest \in Rests,
                   Write(Shoot([shoot.spec EXCEPT !.rest = rest], shoot.deleting, TRUE))
            PROVE  \E s \in Specs : Write(Shoot(s, shoot.deleting, TRUE))
        <5>1. [shoot.spec EXCEPT !.rest = rest] \in Specs
          BY <3>1 DEF Specs
        <5> QED
          BY <4>2, <5>1
      <4> QED
        BY <2>2, <4>1, <4>2 DEF ChangeSpec
    <3>3. Shoot(s, shoot.deleting, TRUE) \in Shoots
      BY <3>1, ShootType
    <3> QED
      BY <3>1, <3>2, <3>3
  <2>3. CASE EndOperation
    BY <2>3, ShootType, ShootParts DEF EndOperation
  <2>4. CASE Delete
    BY <2>4, ShootType, ShootParts DEF Delete
  <2>5. CASE RemoveFinalizer
    BY <2>5 DEF RemoveFinalizer
  <2>6. CASE ChangeProfile
    BY <2>6 DEF ChangeProfile, Profiles
  <2>7. CASE SyncProfile
    BY <2>7 DEF SyncProfile
  <2>8. CASE UNCHANGED vars
    BY <2>8 DEF vars
  <2> QED
    BY <1>2, <2>1, <2>2, <2>3, <2>4, <2>5, <2>6, <2>7, <2>8 DEF Next
<1> QED
  BY <1>1, <1>2, PTL DEF Spec

\* Whatever the pools and however the CloudProfile changes, no spec change ends
\* in a kata pool on machines without a required capability.
THEOREM SpecChangesSupported == Spec => NewSpecSupported
<1> DEFINE Checked ==
        shoot' # NoShoot /\ ~shoot'.deleting
          /\ (shoot # NoShoot => shoot.spec # shoot'.spec)
        => \A p \in Pools :
             LET w == shoot'.spec.workers[p] IN
             w # NoWorker /\ w.kata =>
                 /\ seen # NoProfile
                 /\ seen[w.machine] # NoMachine /\ Required \subseteq seen[w.machine]
<1>1. ASSUME TypeOK, [Next]_vars PROVE [Checked]_vars
  <2>1. ASSUME NEW new, Write(new) PROVE Checked
    <3> SUFFICES ASSUME shoot' # NoShoot, ~shoot'.deleting,
                        shoot # NoShoot => shoot.spec # shoot'.spec,
                        NEW p \in Pools,
                        shoot'.spec.workers[p] # NoWorker, shoot'.spec.workers[p].kata
                 PROVE  Supported(shoot'.spec.workers[p], seen)
      BY DEF Supported
    <3>1. shoot' = new /\ Admitted(new, shoot)
      BY <2>1 DEF Write
    <3>2. p \in KataWorkers(new.spec)
      BY <3>1 DEF KataWorkers, workerUsesKata
    <3>3. Validate(new, shoot, seen)
      BY <3>1, <3>2 DEF Admitted, Labelled
    <3> QED
      BY <3>1, <3>2, <3>3 DEF Validate, AllSupported
  <2>2. CASE Delete
    <3>1. shoot'.deleting
      BY <1>1, <2>2, ShootParts, ShootType DEF Delete, TypeOK
    <3> QED
      BY <3>1
  <2>3. CASE RemoveFinalizer
    BY <2>3 DEF RemoveFinalizer
  <2>4. CASE UNCHANGED shoot
    BY <2>4
  <2> QED
    BY <1>1, <2>1, <2>2, <2>3, <2>4
       DEF Next, Create, ChangeSpec, EndOperation, ChangeProfile, SyncProfile, vars
<1> QED
  BY <1>1, TypeCorrect, PTL DEF Spec, NewSpecSupported
==============================================================================
