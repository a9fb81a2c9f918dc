------------------------- MODULE ConfigurationProofs -------------------------
(***************************************************************************)
(* What is proved about the texts that the binaries are configured with,   *)
(* for all texts of the grammar and any number of builds, flags and jobs.  *)
(***************************************************************************)
EXTENDS Configuration, SequenceTheorems, WellFoundedInduction, TLAPS
-------------------------------------------------------------------------------
(* Texts and separators.                                                   *)

Below == {p \in Nat \X Nat : p[1] < p[2]}

\* A non-empty set of positions has a first one.
LEMMA Least ==
    ASSUME NEW T \in SUBSET Nat, T # {}
    PROVE  \E i \in T : \A j \in T : i <= j
<1>1. IsWellFoundedOn(Below, Nat)
  BY NatLessThanWellFounded DEF OpToRel, Below
<1>2. PICK i \in T : \A j \in T : ~(<<j, i>> \in Below)
  BY <1>1, WFMin
<1>3. ASSUME NEW j \in T PROVE i <= j
  <2>1. i \in Nat /\ j \in Nat
    OBVIOUS
  <2>2. <<j, i>> \in Below <=> j < i
    BY <2>1 DEF Below
  <2> QED
    BY <1>2, <2>1, <2>2
<1> QED
  BY <1>3

\* And, in a sequence, a last one.
LEMMA Greatest ==
    ASSUME NEW n \in Nat, NEW T \in SUBSET (1..n), T # {}
    PROVE  \E i \in T : \A j \in T : j <= i
<1> DEFINE D == {n - i : i \in T}
<1>1. D \in SUBSET Nat
  <2>1. \A i \in T : i \in 1..n /\ n - i \in Nat
    OBVIOUS
  <2> QED
    BY <2>1
<1>2. D # {}
  OBVIOUS
<1>3. PICK k \in D : \A m \in D : k <= m
  <2> HIDE DEF D
  <2> QED
    BY <1>1, <1>2, Least
<1>4. PICK i \in T : k = n - i
  OBVIOUS
<1>5. ASSUME NEW j \in T PROVE j <= i
  <2>1. n - j \in D
    OBVIOUS
  <2>2. n - i <= n - j
    BY <2>1, <1>3, <1>4
  <2>3. i \in 1..n /\ j \in 1..n
    OBVIOUS
  <2> QED
    BY <2>2, <2>3
<1> QED
  BY <1>5

\* A separator is in neither part of a text or in one of them.
LEMMA AtConcat ==
    ASSUME NEW S, NEW s \in Seq(S), NEW t \in Seq(S), NEW sep
    PROVE  At(s \o t, sep) = {} <=> At(s, sep) = {} /\ At(t, sep) = {}
<1>1. /\ s \o t \in Seq(S) /\ Len(s \o t) = Len(s) + Len(t)
      /\ \A i \in 1 .. Len(s) + Len(t) :
            (s \o t)[i] = IF i <= Len(s) THEN s[i] ELSE t[i - Len(s)]
  BY ConcatProperties, Zenon
<1>2. /\ Len(s) \in Nat /\ Len(t) \in Nat /\ DOMAIN s = 1..Len(s) /\ DOMAIN t = 1..Len(t)
      /\ DOMAIN (s \o t) = 1..(Len(s) + Len(t))
  BY <1>1, LenProperties
<1>3. ASSUME NEW i \in At(s \o t, sep), At(s, sep) = {} PROVE At(t, sep) # {}
  <2>1. i \in 1..(Len(s) + Len(t)) /\ (s \o t)[i] = sep
    BY <1>2 DEF At
  <2>2. ~(i <= Len(s))
    BY <2>1, <1>1, <1>2, <1>3 DEF At
  <2> QED
    BY <2>1, <2>2, <1>1, <1>2 DEF At
<1>4. ASSUME NEW i \in At(s, sep) PROVE At(s \o t, sep) # {}
  BY <1>1, <1>2 DEF At
<1>5. ASSUME NEW i \in At(t, sep) PROVE At(s \o t, sep) # {}
  <2>1. i \in 1..Len(t) /\ t[i] = sep
    BY <1>2 DEF At
  <2>2. /\ Len(s) + i \in 1..(Len(s) + Len(t)) /\ ~(Len(s) + i <= Len(s))
        /\ Len(s) + i - Len(s) = i
    BY <2>1, <1>2
  <2>3. (s \o t)[Len(s) + i] = sep
    BY <2>1, <2>2, <1>1
  <2> QED
    BY <2>2, <2>3, <1>2 DEF At
<1> QED
  BY <1>3, <1>4, <1>5

\* A separator alone.
LEMMA AtSelf ==
    \A x, sep : At(<<x>>, sep) = {} <=> x # sep
BY DEF At

\* Joined texts may be read in either order.
Regroups(s, t, u) == (s \o t) \o u = s \o (t \o u)

LEMMA Regroup ==
    \A S : \A s, t, u \in Seq(S) : Regroups(s, t, u)
BY ConcatAssociative, Zenon DEF Regroups

\* The two sides of a position.
LEMMA SplitAt ==
    ASSUME NEW S, NEW s \in Seq(S), NEW i \in 1..Len(s)
    PROVE  /\ SubSeq(s, 1, i - 1) \in Seq(S) /\ Len(SubSeq(s, 1, i - 1)) = i - 1
           /\ \A k \in 1..(i - 1) : SubSeq(s, 1, i - 1)[k] = s[k]
           /\ SubSeq(s, i + 1, Len(s)) \in Seq(S)
           /\ Len(SubSeq(s, i + 1, Len(s))) = Len(s) - i
           /\ \A k \in 1..(Len(s) - i) : SubSeq(s, i + 1, Len(s))[k] = s[i + k]
           /\ s = SubSeq(s, 1, i - 1) \o <<s[i]>> \o SubSeq(s, i + 1, Len(s))
<1>1. Len(s) \in Nat /\ \A k \in 1..Len(s) : s[k] \in S
  BY LenProperties
<1>2. /\ SubSeq(s, 1, i - 1) \in Seq(S) /\ Len(SubSeq(s, 1, i - 1)) = i - 1
      /\ \A k \in 1..(i - 1) : SubSeq(s, 1, i - 1)[k] = s[k]
  <2>1. \A k \in 1..(i - 1) : s[k] \in S
    BY <1>1
  <2> QED
    BY <1>1, <2>1, SubSeqProperties
<1>3. /\ SubSeq(s, i + 1, Len(s)) \in Seq(S)
      /\ Len(SubSeq(s, i + 1, Len(s))) = Len(s) - i
      /\ \A k \in 1..(Len(s) - i) : SubSeq(s, i + 1, Len(s))[k] = s[i + k]
  <2>1. \A k \in (i + 1)..Len(s) : s[k] \in S
    BY <1>1
  <2>2. i + 1 \in Int /\ Len(s) \in Int /\ Len(s) - (i + 1) + 1 = Len(s) - i
    BY <1>1
  <2>3. /\ SubSeq(s, i + 1, Len(s)) \in Seq(S)
        /\ Len(SubSeq(s, i + 1, Len(s))) = IF i + 1 <= Len(s) THEN Len(s) - (i + 1) + 1 ELSE 0
        /\ \A k \in 1..(Len(s) - (i + 1) + 1) : SubSeq(s, i + 1, Len(s))[k] = s[i + 1 + k - 1]
    BY <2>1, <2>2, SubSeqProperties
  <2> QED
    BY <2>3, <1>1
<1>4. SubSeq(s, 1, i - 1) \o SubSeq(s, i, Len(s)) = s
  <2>1. SubSeq(s, 1, i - 1) \o SubSeq(s, i - 1 + 1, Len(s)) = SubSeq(s, 1, Len(s))
    <3>1. 1 \in 1..(Len(s) + 1) /\ i - 1 \in (1 - 1)..Len(s) /\ Len(s) \in (i - 1)..Len(s)
      BY <1>1
    <3> QED
      BY <3>1, ConcatAdjacentSubSeq
  <2> QED
    BY <2>1, SubSeqFull, <1>1
<1>5. SubSeq(s, i, Len(s)) = <<s[i]>> \o SubSeq(s, i + 1, Len(s))
  BY <1>1, SubSeqRecursiveFirst
<1>6. s[i] \in S /\ <<s[i]>> \in Seq(S)
  BY <1>1
<1>7. (SubSeq(s, 1, i - 1) \o <<s[i]>>) \o SubSeq(s, i + 1, Len(s))
        = SubSeq(s, 1, i - 1) \o (<<s[i]>> \o SubSeq(s, i + 1, Len(s)))
  <2> DEFINE l == SubSeq(s, 1, i - 1)
             r == SubSeq(s, i + 1, Len(s))
             x == <<s[i]>>
  <2>1. l \in Seq(S) /\ r \in Seq(S) /\ x \in Seq(S)
    BY <1>2, <1>3, <1>6
  <2> HIDE DEF l, r, x
  <2>2. Regroups(l, x, r)
    BY <2>1, Regroup, Zenon
  <2> QED
    BY <2>2 DEF Regroups, l, r, x
<1> QED
  BY <1>2, <1>3, <1>4, <1>5, <1>7

\* The other way round: w is s, the separator x and t.
Splits(S, w, s, x, t) ==
    /\ w \in Seq(S) /\ Len(w) = Len(s) + 1 + Len(t)
    /\ \A i \in 1..Len(s) : w[i] = s[i]
    /\ w[Len(s) + 1] = x
    /\ \A i \in 1..Len(t) : w[Len(s) + 1 + i] = t[i]
    /\ SubSeq(w, 1, Len(s)) = s
    /\ SubSeq(w, Len(s) + 2, Len(s) + 1 + Len(t)) = t

LEMMA SplitConcat ==
    ASSUME NEW S, NEW s \in Seq(S), NEW t \in Seq(S), NEW x \in S
    PROVE  Splits(S, s \o <<x>> \o t, s, x, t)
<1> DEFINE m == <<x>>
           u == s \o m
           w == u \o t
<1>1. m \in Seq(S) /\ Len(m) = 1 /\ m[1] = x
  OBVIOUS
<1> HIDE DEF m
<1>2. Len(s) \in Nat /\ Len(t) \in Nat
  OBVIOUS
<1>3. /\ u \in Seq(S) /\ Len(u) = Len(s) + 1
      /\ \A i \in 1..(Len(s) + 1) : u[i] = IF i <= Len(s) THEN s[i] ELSE m[i - Len(s)]
  BY <1>1, ConcatProperties
<1>4. /\ w \in Seq(S) /\ Len(w) = Len(u) + Len(t)
      /\ \A i \in 1..(Len(u) + Len(t)) : w[i] = IF i <= Len(u) THEN u[i] ELSE t[i - Len(u)]
  <2>1. u \in Seq(S)
    BY <1>3
  <2> HIDE DEF u
  <2> QED
    BY <2>1, ConcatProperties, Zenon
<1> HIDE DEF u, w
<1>5. /\ \A i \in 1..Len(s) : w[i] = s[i]
      /\ w[Len(s) + 1] = x
      /\ \A i \in 1..Len(t) : w[Len(s) + 1 + i] = t[i]
  <2>1. \A i \in 1..Len(s) : w[i] = s[i]
    BY <1>2, <1>3, <1>4
  <2>2. w[Len(s) + 1] = x
    <3>1. w[Len(s) + 1] = u[Len(s) + 1]
      BY <1>2, <1>3, <1>4
    <3>2. u[Len(s) + 1] = m[Len(s) + 1 - Len(s)]
      BY <1>2, <1>3
    <3>3. Len(s) + 1 - Len(s) = 1
      BY <1>2
    <3> QED
      BY <3>1, <3>2, <3>3, <1>1
  <2>3. ASSUME NEW i \in 1..Len(t) PROVE w[Len(s) + 1 + i] = t[i]
    <3>1. /\ Len(s) + 1 + i \in 1..(Len(u) + Len(t)) /\ ~(Len(s) + 1 + i <= Len(u))
          /\ Len(s) + 1 + i - Len(u) = i
      BY <1>2, <1>3
    <3>2. w[Len(s) + 1 + i] = t[Len(s) + 1 + i - Len(u)]
      BY <3>1, <1>4
    <3> QED
      BY <3>1, <3>2
  <2> QED
    BY <2>1, <2>2, <2>3
<1>6. SubSeq(w, 1, Len(s)) = s
  <2>1. \A i \in 1..Len(s) : w[i] \in S
    BY <1>5, <1>2
  <2>2. /\ SubSeq(w, 1, Len(s)) \in Seq(S)
        /\ Len(SubSeq(w, 1, Len(s))) = IF 1 <= Len(s) THEN Len(s) - 1 + 1 ELSE 0
        /\ \A i \in 1..(Len(s) - 1 + 1) : SubSeq(w, 1, Len(s))[i] = w[1 + i - 1]
    BY <2>1, <1>2, SubSeqProperties
  <2>3. Len(SubSeq(w, 1, Len(s))) = Len(s)
    BY <2>2, <1>2
  <2>4. \A i \in 1..Len(s) : SubSeq(w, 1, Len(s))[i] = s[i]
    BY <2>2, <1>2, <1>5
  <2> QED
    BY <2>2, <2>3, <2>4, SeqEqual
<1>7. SubSeq(w, Len(s) + 2, Len(s) + 1 + Len(t)) = t
  <2> DEFINE v == SubSeq(w, Len(s) + 2, Len(s) + 1 + Len(t))
  <2>1. ASSUME NEW i \in (Len(s) + 2)..(Len(s) + 1 + Len(t)) PROVE w[i] \in S
    <3>1. i \in 1..Len(w)
      BY <1>2, <1>3, <1>4
    <3> QED
      BY <3>1, <1>4, LenProperties
  <2>2. /\ v \in Seq(S)
        /\ Len(v) = IF Len(s) + 2 <= Len(s) + 1 + Len(t)
                    THEN Len(s) + 1 + Len(t) - (Len(s) + 2) + 1 ELSE 0
        /\ \A i \in 1..(Len(s) + 1 + Len(t) - (Len(s) + 2) + 1) : v[i] = w[Len(s) + 2 + i - 1]
    <3>1. Len(s) + 2 \in Int /\ Len(s) + 1 + Len(t) \in Int
      BY <1>2
    <3> QED
      BY <2>1, <3>1, SubSeqProperties
  <2> HIDE DEF v
  <2>3. Len(v) = Len(t)
    BY <2>2, <1>2
  <2>4. ASSUME NEW i \in 1..Len(t) PROVE v[i] = t[i]
    <3>1. v[i] = w[Len(s) + 2 + i - 1]
      BY <2>2, <1>2
    <3>2. Len(s) + 2 + i - 1 = Len(s) + 1 + i
      BY <1>2
    <3> QED
      BY <3>1, <3>2, <1>5
  <2>5. v = t
    BY <2>2, <2>3, <2>4, SeqEqual
  <2> QED
    BY <2>5 DEF v
<1> QED
  <2>1. Splits(S, w, s, x, t)
    BY <1>2, <1>3, <1>4, <1>5, <1>6, <1>7 DEF Splits
  <2> QED
    BY <2>1 DEF m, u, w

\* A text has no separator or a first one.
LEMMA FirstAt ==
    ASSUME NEW S, NEW s \in Seq(S), NEW sep, At(s, sep) # {}
    PROVE  \E i \in 1..Len(s) : s[i] = sep /\ \A j \in 1..(i - 1) : s[j] # sep
<1>1. At(s, sep) \in SUBSET Nat /\ DOMAIN s = 1..Len(s) /\ Len(s) \in Nat
  BY LenProperties DEF At
<1>2. PICK i \in At(s, sep) : \A j \in At(s, sep) : i <= j
  BY <1>1, Least
<1>3. i \in 1..Len(s) /\ s[i] = sep
  BY <1>1 DEF At
<1>4. ASSUME NEW j \in 1..(i - 1) PROVE s[j] # sep
  BY <1>1, <1>2, <1>3 DEF At
<1> QED
  BY <1>3, <1>4

\* What Cut gives is what is before and after the first separator.
LEMMA CutConcat ==
    ASSUME NEW S, NEW s \in Seq(S), NEW t \in Seq(S), NEW sep \in S, At(s, sep) = {}
    PROVE  Cut(s \o <<sep>> \o t, sep) = [found |-> TRUE, before |-> s, after |-> t]
<1> DEFINE w == s \o <<sep>> \o t
           n == Len(s) + 1
<1>1. /\ w \in Seq(S) /\ Len(w) = Len(s) + 1 + Len(t)
      /\ \A i \in 1..Len(s) : w[i] = s[i]
      /\ w[Len(s) + 1] = sep
      /\ SubSeq(w, 1, Len(s)) = s
      /\ SubSeq(w, Len(s) + 2, Len(s) + 1 + Len(t)) = t
  <2>1. Splits(S, w, s, sep, t)
    BY SplitConcat, Zenon
  <2> HIDE DEF w
  <2> QED
    BY <2>1 DEF Splits
<1> HIDE DEF w
<1>2. /\ Len(s) \in Nat /\ Len(t) \in Nat /\ DOMAIN s = 1..Len(s)
      /\ DOMAIN w = 1..Len(w)
  BY <1>1, LenProperties
<1>3. n \in At(w, sep) /\ At(w, sep) \subseteq Nat
  BY <1>1, <1>2 DEF At
<1>4. ASSUME NEW j \in At(w, sep) PROVE n <= j
  <2>1. j \in 1..Len(w) /\ w[j] = sep
    BY <1>2 DEF At
  <2>2. CASE j < n
    <3>1. j \in 1..Len(s)
      BY <2>1, <2>2, <1>1, <1>2
    <3>2. s[j] = sep
      BY <2>1, <3>1, <1>1
    <3> QED
      BY <3>1, <3>2, <1>2 DEF At
  <2> QED
    BY <2>1, <2>2, <1>1, <1>2
<1>5. (CHOOSE i \in At(w, sep) : \A j \in At(w, sep) : i <= j) = n
  <2>1. \A i \in At(w, sep) : (\A j \in At(w, sep) : i <= j) => i = n
    BY <1>3, <1>4
  <2> HIDE DEF n
  <2> QED
    BY <1>3, <1>4, <2>1
<1>6. n - 1 = Len(s) /\ n + 1 = Len(s) + 2
  BY <1>2
<1>7. Cut(w, sep) = [found |-> TRUE, before |-> SubSeq(w, 1, n - 1),
                     after |-> SubSeq(w, n + 1, Len(w))]
  <2> HIDE DEF n
  <2> QED
    BY <1>3, <1>5 DEF Cut
<1>8. SubSeq(w, 1, n - 1) = s /\ SubSeq(w, n + 1, Len(w)) = t
  BY <1>1, <1>6
<1>9. Cut(w, sep) = [found |-> TRUE, before |-> s, after |-> t]
  BY <1>7, <1>8
<1> QED
  BY <1>9 DEF w

\* A text with a separator is what Cut makes of it, put together again.
LEMMA CutParts ==
    ASSUME NEW S, NEW s \in Seq(S), NEW sep, At(s, sep) # {}
    PROVE  /\ Cut(s, sep).before \in Seq(S) /\ Cut(s, sep).after \in Seq(S)
           /\ s = Cut(s, sep).before \o <<sep>> \o Cut(s, sep).after
           /\ At(Cut(s, sep).before, sep) = {}
<1>1. PICK i \in 1..Len(s) : s[i] = sep /\ \A j \in 1..(i - 1) : s[j] # sep
  BY FirstAt
<1> DEFINE l == SubSeq(s, 1, i - 1)
           r == SubSeq(s, i + 1, Len(s))
<1>2. /\ l \in Seq(S) /\ Len(l) = i - 1 /\ \A k \in 1..(i - 1) : l[k] = s[k]
      /\ r \in Seq(S)
      /\ s = l \o <<sep>> \o r
  BY <1>1, SplitAt
<1>3. sep \in S
  BY <1>1, LenProperties
<1> HIDE DEF l, r
<1>4. At(l, sep) = {}
  <2>1. DOMAIN l = 1..(i - 1)
    BY <1>2, LenProperties
  <2> QED
    BY <1>1, <1>2, <2>1 DEF At
<1>5. Cut(s, sep) = [found |-> TRUE, before |-> l, after |-> r]
  <2>1. Cut(l \o <<sep>> \o r, sep) = [found |-> TRUE, before |-> l, after |-> r]
    BY <1>2, <1>3, <1>4, CutConcat
  <2> QED
    BY <2>1, <1>2
<1>6. Cut(s, sep).before = l /\ Cut(s, sep).after = r
  BY <1>5
<1> QED
  BY <1>2, <1>4, <1>6

\* What AfterLast and BeforeLast give is what is after and before the last separator.
LEMMA LastConcat ==
    ASSUME NEW S, NEW s \in Seq(S), NEW t \in Seq(S), NEW sep \in S, At(t, sep) = {}
    PROVE  /\ AfterLast(s \o <<sep>> \o t, sep) = t
           /\ BeforeLast(s \o <<sep>> \o t, sep) = s
<1> DEFINE w == s \o <<sep>> \o t
           n == Len(s) + 1
<1>1. /\ w \in Seq(S) /\ Len(w) = Len(s) + 1 + Len(t)
      /\ w[Len(s) + 1] = sep
      /\ \A i \in 1..Len(t) : w[Len(s) + 1 + i] = t[i]
      /\ SubSeq(w, 1, Len(s)) = s
      /\ SubSeq(w, Len(s) + 2, Len(s) + 1 + Len(t)) = t
  <2>1. Splits(S, w, s, sep, t)
    BY SplitConcat, Zenon
  <2> HIDE DEF w
  <2> QED
    BY <2>1 DEF Splits
<1> HIDE DEF w
<1>2. /\ Len(s) \in Nat /\ Len(t) \in Nat /\ DOMAIN t = 1..Len(t)
      /\ DOMAIN w = 1..Len(w)
  BY <1>1, LenProperties
<1>3. n \in At(w, sep) /\ At(w, sep) \subseteq Nat
  BY <1>1, <1>2 DEF At
<1>4. ASSUME NEW j \in At(w, sep) PROVE j <= n
  <2>1. j \in 1..Len(w) /\ w[j] = sep
    BY <1>2 DEF At
  <2>2. CASE n < j
    <3>1. j - n \in 1..Len(t) /\ Len(s) + 1 + (j - n) = j
      BY <2>1, <2>2, <1>1, <1>2
    <3>2. t[j - n] = sep
      BY <2>1, <3>1, <1>1
    <3> QED
      BY <3>1, <3>2, <1>2 DEF At
  <2> QED
    BY <2>1, <2>2, <1>1, <1>2
<1>5. (CHOOSE i \in At(w, sep) : \A j \in At(w, sep) : j <= i) = n
  <2>1. \A i \in At(w, sep) : (\A j \in At(w, sep) : j <= i) => i = n
    BY <1>3, <1>4
  <2> HIDE DEF n
  <2> QED
    BY <1>3, <1>4, <2>1
<1>6. n - 1 = Len(s) /\ n + 1 = Len(s) + 2
  BY <1>2
<1>7. AfterLast(w, sep) = SubSeq(w, n + 1, Len(w)) /\ BeforeLast(w, sep) = SubSeq(w, 1, n - 1)
  <2> HIDE DEF n
  <2> QED
    BY <1>3, <1>5 DEF AfterLast, BeforeLast
<1>8. AfterLast(w, sep) = t /\ BeforeLast(w, sep) = s
  BY <1>1, <1>6, <1>7
<1> QED
  BY <1>8 DEF w

\* A text with a separator is what AfterLast and BeforeLast make of it.
LEMMA LastParts ==
    ASSUME NEW S, NEW s \in Seq(S), NEW sep, At(s, sep) # {}
    PROVE  /\ BeforeLast(s, sep) \in Seq(S) /\ AfterLast(s, sep) \in Seq(S)
           /\ s = BeforeLast(s, sep) \o <<sep>> \o AfterLast(s, sep)
           /\ At(AfterLast(s, sep), sep) = {}
<1>1. At(s, sep) \in SUBSET (1..Len(s)) /\ DOMAIN s = 1..Len(s) /\ Len(s) \in Nat
  BY LenProperties DEF At
<1>2. PICK i \in At(s, sep) : \A j \in At(s, sep) : j <= i
  BY <1>1, Greatest
<1>3. i \in 1..Len(s) /\ s[i] = sep
  BY <1>1 DEF At
<1> DEFINE l == SubSeq(s, 1, i - 1)
           r == SubSeq(s, i + 1, Len(s))
<1>4. /\ l \in Seq(S) /\ r \in Seq(S)
      /\ Len(r) = Len(s) - i /\ \A k \in 1..(Len(s) - i) : r[k] = s[i + k]
      /\ s = l \o <<sep>> \o r
  BY <1>3, SplitAt
<1>5. sep \in S
  BY <1>3, LenProperties
<1> HIDE DEF l, r
<1>6. At(r, sep) = {}
  <2>1. DOMAIN r = 1..(Len(s) - i)
    BY <1>4, LenProperties
  <2>2. ASSUME NEW k \in 1..(Len(s) - i) PROVE s[i + k] # sep
    <3>1. i + k \in 1..Len(s) /\ ~(i + k <= i)
      BY <1>1, <1>3
    <3> QED
      BY <3>1, <1>1, <1>2 DEF At
  <2> QED
    BY <1>4, <2>1, <2>2 DEF At
<1>7. AfterLast(s, sep) = r /\ BeforeLast(s, sep) = l
  BY <1>4, <1>5, <1>6, LastConcat
<1> QED
  BY <1>4, <1>6, <1>7

\* Only what follows the last separator grows.
LEMMA LastGrows ==
    ASSUME NEW S, NEW s \in Seq(S), NEW t \in Seq(S), NEW sep, At(t, sep) = {}
    PROVE  AfterLast(s \o t, sep) = AfterLast(s, sep) \o t
<1>1. CASE At(s, sep) = {}
  BY <1>1, AtConcat DEF AfterLast
<1>2. CASE At(s, sep) # {}
  <2> DEFINE l == BeforeLast(s, sep)
             r == AfterLast(s, sep)
             m == <<sep>>
  <2>1. /\ l \in Seq(S) /\ r \in Seq(S) /\ s = l \o m \o r /\ At(r, sep) = {}
    BY <1>2, LastParts
  <2>2. sep \in S
    BY <1>2, LenProperties DEF At
  <2>3. m \in Seq(S)
    BY <2>2
  <2> HIDE DEF l, r
  <2>4. r \o t \in Seq(S) /\ At(r \o t, sep) = {}
    BY <2>1, AtConcat, ConcatProperties, Zenon
  <2>5. AfterLast(l \o m \o (r \o t), sep) = r \o t
    BY <2>1, <2>2, <2>4, LastConcat
  <2>6. s \o t = (l \o m) \o (r \o t)
    <3> DEFINE lm == l \o m
    <3>1. lm \in Seq(S)
      BY <2>1, <2>3, ConcatProperties, Zenon
    <3> HIDE DEF m, lm
    <3>2. Regroups(lm, r, t)
      BY <3>1, <2>1, Regroup, Zenon
    <3> QED
      BY <3>2, <2>1 DEF Regroups, lm
  <2>7. AfterLast(s \o t, sep) = r \o t
    BY <2>5, <2>6
  <2> QED
    BY <2>7 DEF r
<1> QED
  BY <1>1, <1>2
-------------------------------------------------------------------------------
(* The same operators in every component.                                  *)

\* AdmissionOptions, ImageVersion and PushArtifacts cut texts in the same way.
LEMMA SameTokens ==
    \A s, sep :
        /\ Admission!At(s, sep) = At(s, sep) /\ Admission!Cut(s, sep) = Cut(s, sep)
        /\ Controller!At(s, sep) = At(s, sep) /\ Controller!Cut(s, sep) = Cut(s, sep)
        /\ Controller!AfterLast(s, sep) = AfterLast(s, sep)
        /\ Release!At(s, sep) = At(s, sep) /\ Release!Cut(s, sep) = Cut(s, sep)
        /\ Release!AfterLast(s, sep) = AfterLast(s, sep)
        /\ Release!BeforeLast(s, sep) = BeforeLast(s, sep)
        /\ Release!Vector!Cut(s, sep) = Cut(s, sep)
        /\ Release!Vector!AfterLast(s, sep) = AfterLast(s, sep)
BY DEF At, Cut, AfterLast, BeforeLast, Admission!At, Admission!Cut, Controller!At,
       Controller!Cut, Controller!AfterLast, Release!At, Release!Cut, Release!AfterLast,
       Release!BeforeLast, Release!Vector!At, Release!Vector!Cut, Release!Vector!AfterLast

\* The controller of a release reads the version as every controller does.
LEMMA SameVersion ==
    \A img : Release!Vector!VersionFromImage(img) = Controller!VersionFromImage(img)
<1>1. \A s : /\ Release!Vector!Usable(s) = Controller!Usable(s)
             /\ Release!Vector!validVersion(s) = Controller!validVersion(s)
  BY DEF Release!Vector!Usable, Controller!Usable, Release!Vector!IsDigest,
         Controller!IsDigest, Release!Vector!validVersion, Controller!validVersion
<1>2. \A s : /\ Release!Vector!FromTag(s) = Controller!FromTag(s)
             /\ Release!Vector!FromRef(s) = Controller!FromRef(s)
             /\ Release!Vector!FromVersion(s) = Controller!FromVersion(s)
  BY <1>1, SameTokens
     DEF Release!Vector!FromTag, Controller!FromTag, Release!Vector!FromRef,
         Controller!FromRef, Release!Vector!FromVersion, Controller!FromVersion
<1>3. \A img : Release!Vector!FirstUsable(img) = Controller!FirstUsable(img)
  BY <1>2 DEF Release!Vector!FirstUsable, Controller!FirstUsable
<1> QED
  BY <1>1, <1>3 DEF Release!Vector!VersionFromImage, Controller!VersionFromImage
-------------------------------------------------------------------------------
(* The command line of the admission component.                            *)

Configured ==
    [i \in DOMAIN raw |->
        Admission!Capability(Cut(raw[i], "=").before, Cut(raw[i], "=").after)]

\* From the check of the flags on, what the next step takes is what they say.
AdmissionSound ==
    /\ raw \in Seq(Values)
    /\ phase \in {"apply", "register", "serve"} =>
          raw # <<>> /\ \A i \in DOMAIN raw : Admission!WellFormed(raw[i])
    /\ phase = "apply" => config = Configured
    /\ phase = "register" => target = Configured
    /\ phase = "serve" => required = Configured

\* A well-formed flag is its name, the separator and its value.
LEMMA FlagParts ==
    ASSUME NEW v \in Values, Admission!WellFormed(v)
    PROVE  /\ Cut(v, "=").before \in Texts /\ Cut(v, "=").after \in Texts
           /\ v = Cut(v, "=").before \o <<"=">> \o Cut(v, "=").after
           /\ At(Cut(v, "=").before, "=") = {}
<1>1. v \in Seq(Symbols)
  BY TextsAssumption DEF Texts
<1>2. At(v, "=") # {}
  BY SameTokens DEF Admission!WellFormed, Cut
<1> QED
  BY <1>1, <1>2, CutParts DEF Texts

\* A configuration that was checked is not the absence of one.
LEMMA ConfiguredIsConfig ==
    ASSUME raw \in Seq(Values), \A i \in DOMAIN raw : Admission!WellFormed(raw[i])
    PROVE  Configured # NoConfig
<1>1. DOMAIN raw = 1..Len(raw) /\ Len(raw) \in Nat /\ \A i \in DOMAIN raw : raw[i] \in Values
  BY LenProperties
<1>2. ASSUME NEW i \in DOMAIN raw
      PROVE  Configured[i] \in [name : Texts, value : Texts]
  BY <1>1, FlagParts DEF Configured, Admission!Capability
<1>3. Configured \in [1..Len(raw) -> [name : Texts, value : Texts]]
  BY <1>1, <1>2 DEF Configured
<1>4. Configured \in Seq([name : Texts, value : Texts])
  <2> DEFINE R == [name : Texts, value : Texts]
  <2> HIDE DEF R
  <2>1. Len(raw) \in Nat /\ Configured \in [1..Len(raw) -> R]
    BY <1>1, <1>3 DEF R
  <2>2. Configured \in Seq(R)
    BY <2>1
  <2> QED
    BY <2>2 DEF R
<1> QED
  BY <1>4, TextsAssumption

\* The steps of the admission component keep the invariant, the others do not
\* concern it.
THEOREM AdmissionCorrect == Spec => []AdmissionSound
<1>1. Init => AdmissionSound
  BY DEF Init, Admission!Init, AdmissionSound
<1>2. AdmissionSound /\ [Next]_vars => AdmissionSound'
  <2> SUFFICES ASSUME AdmissionSound, [Next]_vars PROVE AdmissionSound'
    OBVIOUS
  <2>1. CASE Admission!AddFlag
    <3>1. PICK v \in Values : raw' = Append(raw, v)
      BY <2>1 DEF Admission!AddFlag
    <3>2. raw' \in Seq(Values)
      BY <3>1 DEF AdmissionSound
    <3>3. phase' = "parse"
      BY <2>1 DEF Admission!AddFlag
    <3> QED
      BY <3>2, <3>3 DEF AdmissionSound
  <2>2. CASE Admission!Parsed
    BY <2>2 DEF Admission!Parsed, AdmissionSound
  <2>3. CASE Admission!Complete
    <3>1. raw' = raw /\ phase' \in {"apply", "exit"} /\ Configured' = Configured
      BY <2>3 DEF Admission!Complete, Configured
    <3>2. phase' = "apply" =>
             /\ raw # <<>> /\ \A i \in DOMAIN raw : Admission!WellFormed(raw[i])
             /\ config' = Configured
      BY <2>3, SameTokens DEF Admission!Complete, Configured
    <3> QED
      BY <3>1, <3>2 DEF AdmissionSound
  <2>4. CASE Admission!ApplyRequiredCapabilities
    <3>1. /\ raw' = raw /\ phase = "apply" /\ phase' = "register" /\ Configured' = Configured
          /\ target' = IF config # NoConfig THEN config ELSE target
      BY <2>4 DEF Admission!ApplyRequiredCapabilities, Configured
    <3>2. target' = Configured
      BY <3>1, ConfiguredIsConfig DEF AdmissionSound
    <3> QED
      BY <3>1, <3>2 DEF AdmissionSound
  <2>5. CASE Admission!New
    <3>1. /\ raw' = raw /\ phase = "register" /\ phase' = "serve" /\ Configured' = Configured
          /\ required' = target
      BY <2>5 DEF Admission!New, Configured
    <3> QED
      BY <3>1 DEF AdmissionSound
  <2>6. CASE UNCHANGED admissionVars
    BY <2>6 DEF admissionVars, AdmissionSound, Configured
  <2>7. \/ Admission!AddFlag \/ Admission!Parsed \/ Admission!Complete
        \/ Admission!ApplyRequiredCapabilities \/ Admission!New \/ UNCHANGED admissionVars
    BY DEF Next, vars, Admission!Next
  <2> QED
    BY <2>1, <2>2, <2>3, <2>4, <2>5, <2>6, <2>7
<1> QED
  BY <1>1, <1>2, PTL DEF Spec

\* A validator that requires nothing is never served.
THEOREM NothingUnchecked == Spec => []NeverServesUnchecked
<1>1. AdmissionSound => NeverServesUnchecked
  <2> SUFFICES ASSUME AdmissionSound, phase = "serve" PROVE required # <<>>
    BY DEF NeverServesUnchecked, Admission!NeverServesUnchecked
  <2>1. required = Configured /\ raw # <<>> /\ raw \in Seq(Values)
    BY DEF AdmissionSound
  <2>2. 1 \in DOMAIN raw
    BY <2>1
  <2>3. DOMAIN required = DOMAIN raw
    BY <2>1 DEF Configured
  <2> QED
    BY <2>2, <2>3
<1> QED
  BY <1>1, AdmissionCorrect, PTL

\* The requirements served are the flags: as many, in their order, each of them its
\* name, the first separator and all that follows.
THEOREM CommandLineServed == Spec => []ServesCommandLine
<1>1. AdmissionSound => ServesCommandLine
  <2> SUFFICES ASSUME AdmissionSound, phase = "serve" 
               PROVE  /\ Len(required) = Len(raw)
                      /\ \A i \in DOMAIN raw :
                            /\ raw[i] = required[i].name \o <<"=">> \o required[i].value
                            /\ Admission!At(required[i].name, "=") = {}
    BY DEF ServesCommandLine, Admission!ServesCommandLine
  <2>1. /\ required = Configured /\ raw \in Seq(Values)
        /\ \A i \in DOMAIN raw : Admission!WellFormed(raw[i])
    BY DEF AdmissionSound
  <2>2. DOMAIN raw = 1..Len(raw) /\ Len(raw) \in Nat
    BY <2>1
  <2>3. Len(required) = Len(raw)
    BY <2>1, <2>2 DEF Configured
  <2>4. ASSUME NEW i \in DOMAIN raw
        PROVE  /\ raw[i] = required[i].name \o <<"=">> \o required[i].value
               /\ Admission!At(required[i].name, "=") = {}
    <3>1. raw[i] \in Values /\ Admission!WellFormed(raw[i])
      BY <2>1
    <3>2. /\ required[i].name = Cut(raw[i], "=").before
          /\ required[i].value = Cut(raw[i], "=").after
      BY <2>1 DEF Configured, Admission!Capability
    <3> QED
      BY <3>1, <3>2, FlagParts, SameTokens
  <2> QED
    BY <2>3, <2>4
<1> QED
  BY <1>1, AdmissionCorrect, PTL
-------------------------------------------------------------------------------
(* The version that is read off an image.                                  *)

\* The version is that of the image the controller looked at last.
VersionRead == version = Controller!VersionFromImage(image)

\* No image, no version.
LEMMA UnsetInvalid == Controller!VersionFromImage(Controller!Unset) = Invalid
<1>1. Controller!FirstUsable(Controller!Unset) = <<>>
  BY DEF Controller!FirstUsable, Controller!Unset, Controller!FromTag, Controller!FromRef,
         Controller!FromVersion
<1>2. ~Controller!validVersion(<<>>)
  BY DEF Controller!validVersion
<1> QED
  BY <1>1, <1>2 DEF Controller!VersionFromImage

\* Every step that looks at an image reads its version, others leave both alone.
THEOREM VersionIsRead == Spec => []VersionRead
<1>1. Init => VersionRead
  BY UnsetInvalid DEF Init, Controller!Init, VersionRead
<1>2. VersionRead /\ [Next]_vars => VersionRead'
  <2> SUFFICES ASSUME VersionRead, [Next]_vars PROVE VersionRead'
    OBVIOUS
  <2>1. CASE Controller!Next
    BY <2>1 DEF Controller!Next, Controller!FindInstallationImage, Controller!FindByDigest,
                VersionRead
  <2>2. ASSUME NEW chart, Release!Deploy(chart) PROVE VersionRead'
    BY <2>2, SameVersion DEF Release!Deploy, VersionRead
  <2>3. CASE UNCHANGED controllerVars
    BY <2>3 DEF controllerVars, VersionRead
  <2>4. \/ Controller!Next \/ UNCHANGED controllerVars
        \/ \E chart \in charts : Release!Deploy(chart)
    BY DEF Next, vars, controllerVars, Release!Next, Release!Begin, Release!PushImage,
           Release!PushChart
  <2> QED
    BY <2>1, <2>2, <2>3, <2>4
<1> QED
  BY <1>1, <1>2, PTL DEF Spec

\* Whatever the image is, the version is a name that stays in its directory and in
\* the string it is written into.
THEOREM SafeName == Spec => []VersionIsName
<1>1. VersionRead => VersionIsName
  <2> SUFFICES ASSUME Controller!validVersion(version)
               PROVE  /\ version # <<>> /\ version[1] # "-dots"
                      /\ {version[i] : i \in DOMAIN version} \cap {"/", ":", "@", "!"} = {}
    BY DEF VersionRead, VersionIsName, Controller!VersionIsName, Controller!VersionFromImage
  <2> QED
    BY TextsAssumption DEF Controller!validVersion
<1> QED
  BY <1>1, VersionIsRead, PTL

\* A version is not taken for a digest.
LEMMA VersionNoDigest ==
    ASSUME NEW s \in Texts, Controller!validVersion(s)
    PROVE  Controller!Usable(s) /\ At(s, ":") = {} /\ At(s, "@") = {}
<1>1. DOMAIN s = 1..Len(s) /\ Len(s) \in Nat
  BY LenProperties DEF Texts
<1>2. \A i \in DOMAIN s : s[i] # ":" /\ s[i] # "@"
  BY TextsAssumption DEF Controller!validVersion
<1>3. ~Controller!IsDigest(s)
  BY <1>1, <1>2 DEF Controller!IsDigest
<1> QED
  BY <1>2, <1>3 DEF Controller!Usable, Controller!validVersion, At

\* The separators of references, as texts.
LEMMA SeparatorTexts ==
    \A x \in {"/", ":", "@", "-dev"} : x \in Symbols /\ <<x>> \in Seq(Symbols)
<1>1. \A x \in {"/", ":", "@", "-dev"} : x \in Symbols
  BY TextsAssumption
<1>2. \A x \in Symbols : <<x>> \in Seq(Symbols)
  OBVIOUS
<1> QED
  BY <1>1, <1>2

\* Cut a text at the "@" that a digest was pinned with, or not.
LEMMA PinnedCut ==
    ASSUME NEW s \in Texts, At(s, "@") = {}, NEW d \in {Nil, Digest}
    PROVE  /\ Controller!Pinned(s, d) \in Texts
           /\ Cut(Controller!Pinned(s, d), "@").before = s
<1>1. CASE d = Nil
  BY <1>1 DEF Controller!Pinned, Cut
<1>2. CASE d # Nil
  <2>1. d \in Texts /\ Controller!Pinned(s, d) = s \o <<"@">> \o d
    BY <1>2, TextsAssumption DEF Controller!Pinned
  <2>2. Cut(s \o <<"@">> \o d, "@") = [found |-> TRUE, before |-> s, after |-> d]
    <3>1. s \in Seq(Symbols) /\ d \in Seq(Symbols) /\ "@" \in Symbols
      BY <2>1, SeparatorTexts DEF Texts
    <3> QED
      BY <3>1, CutConcat
  <2>3. s \o <<"@">> \o d \in Texts
    <3>1. s \in Seq(Symbols) /\ d \in Seq(Symbols) /\ "@" \in Symbols
      BY <2>1, SeparatorTexts DEF Texts
    <3>2. s \o <<"@">> \o d \in Seq(Symbols)
      BY <3>1
    <3> QED
      BY <3>2 DEF Texts
  <2> QED
    BY <2>1, <2>2, <2>3
<1> QED
  BY <1>1, <1>2

\* The last segment of a repository with a tag is the name in it with that tag.
LEMMA TaggedPath ==
    ASSUME NEW repo \in Texts, At(repo, "@") = {}, At(AfterLast(repo, "/"), ":") = {},
           NEW tag \in Texts, At(tag, "/") = {}, At(tag, "@") = {}
    PROVE  LET name == AfterLast(repo, "/")
               full == repo \o <<":">> \o tag
               path == AfterLast(full, "/")
           IN /\ full \in Texts /\ At(full, "@") = {} /\ Len(full) = Len(repo) + 1 + Len(tag)
              /\ SubSeq(full, 1, Len(repo)) = repo
              /\ Cut(path, ":") = [found |-> TRUE, before |-> name, after |-> tag]
              /\ Len(path) - Len(name) = 1 + Len(tag)
<1> DEFINE m == <<":">>
           name == AfterLast(repo, "/")
<1>1. /\ repo \in Seq(Symbols) /\ tag \in Seq(Symbols) /\ m \in Seq(Symbols)
      /\ ":" \in Symbols /\ At(name, ":") = {}
  BY SeparatorTexts DEF Texts
<1>2. At(m, "/") = {} /\ At(m, "@") = {}
  BY AtSelf
<1>3. name \in Seq(Symbols)
  BY <1>1, LastParts DEF AfterLast
<1> HIDE DEF m, name
<1>4. repo \o m \in Seq(Symbols) /\ At(repo \o m, "@") = {}
  BY <1>1, <1>2, AtConcat, ConcatProperties, Zenon
<1>5. repo \o m \o tag \in Seq(Symbols) /\ At(repo \o m \o tag, "@") = {}
  <2> DEFINE u == repo \o m
  <2> HIDE DEF u
  <2>1. u \o tag \in Seq(Symbols) /\ At(u \o tag, "@") = {}
    BY <1>1, <1>4, AtConcat, ConcatProperties, Zenon DEF u
  <2> QED
    BY <2>1 DEF u
<1>6. AfterLast(repo \o m, "/") = name \o m
  BY <1>1, <1>2, LastGrows DEF name
<1>7. AfterLast(repo \o m \o tag, "/") = name \o m \o tag
  <2> DEFINE u == repo \o m
  <2> HIDE DEF u
  <2>1. AfterLast(u \o tag, "/") = AfterLast(u, "/") \o tag
    BY <1>1, <1>4, LastGrows DEF u
  <2> QED
    BY <2>1, <1>6 DEF u
<1>8. Cut(name \o m \o tag, ":") = [found |-> TRUE, before |-> name, after |-> tag]
  BY <1>1, <1>3, CutConcat DEF m
<1>9. /\ Len(repo \o m \o tag) = Len(repo) + 1 + Len(tag)
      /\ SubSeq(repo \o m \o tag, 1, Len(repo)) = repo
  BY <1>1 DEF m
<1>10. Len(name \o m \o tag) - Len(name) = 1 + Len(tag)
  <2>1. Len(name \o m \o tag) = Len(name) + 1 + Len(tag)
    BY <1>1, <1>3 DEF m
  <2>2. Len(name) \in Nat /\ Len(tag) \in Nat
    BY <1>1, <1>3, LenProperties
  <2> QED
    BY <2>1, <2>2
<1> QED
  BY <1>5, <1>7, <1>8, <1>9, <1>10 DEF m, name, Texts

\* The version of an image by its tag or by its reference: the tag, if it is usable.
LEMMA VersionOfForms ==
    ASSUME NEW repo \in Repositories, NEW tag \in Tags, At(tag, "/") = {},
           NEW d \in {Nil, Digest}, NEW v
    PROVE  \A img \in {Controller!ByTag(repo, tag, d, v), Controller!ByRef(repo, tag, d, v)} :
              Controller!FirstUsable(img)
                = IF Controller!Usable(tag) THEN tag ELSE Controller!FromVersion(v)
<1>1. tag \in Texts /\ tag # <<>> /\ At(tag, "@") = {} /\ Nil \notin Texts
  BY TextsAssumption, GrammarAssumption
<1>2. /\ Controller!Pinned(tag, d) # Nil
      /\ Controller!Cut(Controller!Pinned(tag, d), "@").before = tag
  BY <1>1, PinnedCut, SameTokens
<1>3. Controller!FromTag(Controller!Pinned(tag, d)) = IF Controller!Usable(tag) THEN tag ELSE <<>>
  BY <1>2 DEF Controller!FromTag
<1> DEFINE full == repo \o <<":">> \o tag
<1>4. full \in Texts /\ At(full, "@") = {} /\ Cut(AfterLast(full, "/"), ":").after = tag
  <2>1. repo \in Texts /\ At(repo, "@") = {} /\ At(AfterLast(repo, "/"), ":") = {}
    BY TextsAssumption, GrammarAssumption
  <2> QED
    <3>1. /\ full \in Texts /\ At(full, "@") = {}
          /\ Cut(AfterLast(full, "/"), ":")
               = [found |-> TRUE, before |-> AfterLast(repo, "/"), after |-> tag]
      BY <1>1, <2>1, TaggedPath
    <3> HIDE DEF full
    <3> QED
      BY <3>1
<1> HIDE DEF full
<1>5. /\ Controller!Pinned(full, d) # Nil
      /\ Controller!Cut(Controller!Pinned(full, d), "@").before = full
  BY <1>1, <1>4, PinnedCut, SameTokens
<1>6. Controller!FromRef(Controller!Pinned(full, d))
        = IF Controller!Usable(tag) THEN tag ELSE <<>>
  BY <1>4, <1>5, SameTokens DEF Controller!FromRef
<1>7. Controller!FromTag(Nil) = <<>> /\ Controller!FromRef(Nil) = <<>>
  BY DEF Controller!FromTag, Controller!FromRef
<1>8. Controller!FirstUsable(Controller!ByTag(repo, tag, d, v))
        = IF Controller!Usable(tag) THEN tag ELSE Controller!FromVersion(v)
  BY <1>1, <1>3, <1>7 DEF Controller!FirstUsable, Controller!ByTag
<1>9. Controller!ByRef(repo, tag, d, v)
        = [tag |-> Nil, version |-> v, ref |-> Controller!Pinned(full, d)]
  <2>1. repo \o (IF tag = <<>> THEN <<>> ELSE <<":">> \o tag) = full
    <3>1. repo \in Seq(Symbols) /\ tag \in Seq(Symbols) /\ <<":">> \in Seq(Symbols)
      BY <1>1, TextsAssumption, SeparatorTexts DEF Texts
    <3>2. Regroups(repo, <<":">>, tag)
      BY <3>1, Regroup, Zenon
    <3> QED
      BY <1>1, <3>2 DEF Regroups, full
  <2> QED
    BY <2>1 DEF Controller!ByRef
<1>10. Controller!FirstUsable(Controller!ByRef(repo, tag, d, v))
        = IF Controller!Usable(tag) THEN tag ELSE Controller!FromVersion(v)
  BY <1>1, <1>6, <1>7, <1>9 DEF Controller!FirstUsable
<1> QED
  BY <1>8, <1>10

\* The version is the image's tag, in either form, with any port and any digest.
THEOREM TagIsRead == Spec => []VersionIsTag
<1>1. VersionRead => VersionIsTag
  <2> SUFFICES ASSUME VersionRead,
                      NEW repo \in Repositories, NEW tag \in Tags, At(tag, "/") = {},
                      NEW d \in {Nil, Digest}, NEW v \in Tags \cup {Nil},
                      image \in {Controller!ByTag(repo, tag, d, v),
                                 Controller!ByRef(repo, tag, d, v)}
               PROVE  version = IF Controller!validVersion(tag) THEN tag
                                ELSE IF Controller!IsDigest(tag)
                                     THEN Controller!VersionFromImage(
                                             [Controller!Unset EXCEPT !.version = v])
                                     ELSE Invalid
    BY SameTokens DEF VersionIsTag, Controller!VersionIsTag
  <2>1. tag \in Texts /\ tag # <<>>
    BY TextsAssumption, GrammarAssumption
  <2>2. Controller!FirstUsable(image)
          = IF Controller!Usable(tag) THEN tag ELSE Controller!FromVersion(v)
    BY VersionOfForms
  <2>3. version = IF Controller!validVersion(Controller!FirstUsable(image))
                  THEN Controller!FirstUsable(image) ELSE Invalid
    BY DEF VersionRead, Controller!VersionFromImage
  <2>4. CASE Controller!validVersion(tag)
    BY <2>1, <2>2, <2>3, <2>4, VersionNoDigest
  <2>5. CASE ~Controller!validVersion(tag) /\ Controller!IsDigest(tag)
    <3>1. Controller!FirstUsable(image) = Controller!FromVersion(v)
      BY <2>2, <2>5 DEF Controller!Usable
    <3>2. Controller!FirstUsable([Controller!Unset EXCEPT !.version = v])
            = Controller!FromVersion(v)
      BY DEF Controller!FirstUsable, Controller!Unset, Controller!FromTag, Controller!FromRef
    <3> QED
      BY <2>3, <2>5, <3>1, <3>2 DEF Controller!VersionFromImage
  <2>6. CASE ~Controller!validVersion(tag) /\ ~Controller!IsDigest(tag)
    BY <2>1, <2>2, <2>3, <2>6 DEF Controller!Usable
  <2> QED
    BY <2>4, <2>5, <2>6
<1> QED
  BY <1>1, VersionIsRead, PTL

\* An image that only a digest names, in its tag or in its reference, has the version
\* of its entry.
THEOREM DigestHasVersion == Spec => []DigestFallsBack
<1>1. VersionRead => DigestFallsBack
  <2> SUFFICES ASSUME VersionRead, NEW repo \in Repositories, NEW v \in Tags,
                      Controller!validVersion(v),
                      image \in {[tag |-> Digest, ref |-> Nil, version |-> v],
                                 Controller!ByRef(repo, <<>>, Digest, v)}
               PROVE  version = v
    BY DEF DigestFallsBack, Controller!DigestFallsBack
  <2>1. /\ v \in Texts /\ Digest \in Texts /\ repo \in Seq(Symbols) /\ Nil \notin Texts
        /\ At(Digest, "@") = {} /\ Controller!IsDigest(Digest)
        /\ At(repo, "@") = {} /\ At(AfterLast(repo, "/"), ":") = {}
    BY TextsAssumption, GrammarAssumption DEF Texts
  <2>2. Controller!FromVersion(v) = v
    BY <2>1, VersionNoDigest DEF Controller!FromVersion
  <2>3. Controller!FromTag(Nil) = <<>> /\ Controller!FromRef(Nil) = <<>>
    BY DEF Controller!FromTag, Controller!FromRef
  <2>4. CASE image = [tag |-> Digest, ref |-> Nil, version |-> v]
    <3>1. Controller!Cut(Digest, "@").before = Digest
      BY <2>1, SameTokens DEF Cut
    <3>2. Controller!FromTag(Digest) = <<>>
      BY <2>1, <3>1 DEF Controller!FromTag, Controller!Usable
    <3> QED
      BY <2>2, <2>3, <2>4, <3>2
         DEF VersionRead, Controller!VersionFromImage, Controller!FirstUsable
  <2>5. CASE image = Controller!ByRef(repo, <<>>, Digest, v)
    <3>1. repo \o <<>> = repo
      BY <2>1, ConcatEmptySeq
    <3>2. image = [tag |-> Nil, version |-> v, ref |-> Controller!Pinned(repo, Digest)]
      BY <2>5, <3>1 DEF Controller!ByRef
    <3>3. /\ Controller!Pinned(repo, Digest) # Nil
          /\ Controller!Cut(Controller!Pinned(repo, Digest), "@").before = repo
      BY <2>1, PinnedCut, SameTokens DEF Texts
    <3>4. Controller!Cut(Controller!AfterLast(repo, "/"), ":").after = <<>>
      BY <2>1, SameTokens DEF Cut
    <3>5. Controller!FromRef(Controller!Pinned(repo, Digest)) = <<>>
      BY <3>3, <3>4 DEF Controller!FromRef, Controller!Usable
    <3> QED
      BY <2>2, <2>3, <3>2, <3>5
         DEF VersionRead, Controller!VersionFromImage, Controller!FirstUsable
  <2> QED
    BY <2>4, <2>5
<1> QED
  BY <1>1, VersionIsRead, PTL
-------------------------------------------------------------------------------
(* References.                                                             *)

\* A digest is taken off where it was put, and nowhere else.
LEMMA DigestOff ==
    ASSUME NEW s \in Texts
    PROVE  /\ At(s, "@") = {} => Release!no_digest(s) = s
           /\ \A d \in Texts : At(d, "@") = {} =>
                 /\ s \o <<"@">> \o d \in Texts
                 /\ Release!no_digest(s \o <<"@">> \o d) = s
                 /\ Release!AfterLast(s \o <<"@">> \o d, "@") = d
                 /\ Release!At(s \o <<"@">> \o d, "@") # {}
<1>1. At(s, "@") = {} => Release!no_digest(s) = s
  BY SameTokens DEF Release!no_digest, BeforeLast
<1>2. ASSUME NEW d \in Texts, At(d, "@") = {}
      PROVE  /\ s \o <<"@">> \o d \in Texts
             /\ Release!no_digest(s \o <<"@">> \o d) = s
             /\ Release!AfterLast(s \o <<"@">> \o d, "@") = d
             /\ Release!At(s \o <<"@">> \o d, "@") # {}
  <2> DEFINE w == s \o <<"@">> \o d
  <2>1. s \in Seq(Symbols) /\ d \in Seq(Symbols) /\ "@" \in Symbols
    BY SeparatorTexts DEF Texts
  <2>2. AfterLast(w, "@") = d /\ BeforeLast(w, "@") = s
    BY <1>2, <2>1, LastConcat
  <2>3. w \in Seq(Symbols) /\ Len(w) = Len(s) + 1 + Len(d) /\ w[Len(s) + 1] = "@"
    BY <2>1
  <2> HIDE DEF w
  <2>4. DOMAIN w = 1..Len(w) /\ Len(s) \in Nat /\ Len(d) \in Nat
    BY <2>1, <2>3, LenProperties
  <2>5. Len(s) + 1 \in At(w, "@")
    BY <2>3, <2>4 DEF At
  <2>6. /\ w \in Texts /\ Release!no_digest(w) = s /\ Release!AfterLast(w, "@") = d
        /\ Release!At(w, "@") # {}
    BY <2>2, <2>3, <2>5, SameTokens DEF Texts, Release!no_digest
  <2> QED
    BY <2>6 DEF w
<1> QED
  BY <1>1, <1>2

\* A repository that has a tag, whatever digest follows.
LEMMA RepoAndTag ==
    ASSUME NEW repo \in Texts, At(repo, "@") = {}, At(AfterLast(repo, "/"), ":") = {},
           NEW tag \in Texts, At(tag, "/") = {}, At(tag, "@") = {},
           NEW p, Release!no_digest(p) = repo \o <<":">> \o tag
    PROVE  Release!image_repo(p) = repo /\ Release!image_tag_pushed(p) = tag
<1> DEFINE full == repo \o <<":">> \o tag
           name == AfterLast(repo, "/")
           path == AfterLast(full, "/")
<1>1. /\ full \in Texts /\ At(full, "@") = {} /\ Len(full) = Len(repo) + 1 + Len(tag)
      /\ SubSeq(full, 1, Len(repo)) = repo
      /\ Cut(path, ":") = [found |-> TRUE, before |-> name, after |-> tag]
      /\ Len(path) - Len(name) = 1 + Len(tag)
  BY TaggedPath
<1>2. Release!no_digest(p) = full
  OBVIOUS
<1> HIDE DEF full, name
<1>3. Release!last_segment(p) = path
  BY <1>2, SameTokens DEF Release!last_segment
<1> HIDE DEF path
<1>4. Release!Cut(path, ":").before = name /\ Release!Cut(path, ":").after = tag
  BY <1>1, SameTokens
<1>5. Release!image_tag_pushed(p) = tag
  BY <1>3, <1>4 DEF Release!image_tag_pushed
<1>6. Release!image_repo(p) = SubSeq(full, 1, Len(full) - (Len(path) - Len(name)))
  BY <1>2, <1>3, <1>4 DEF Release!image_repo
<1>7. Len(full) - (Len(path) - Len(name)) = Len(repo)
  <2>1. Len(repo) \in Nat /\ Len(tag) \in Nat
    BY LenProperties DEF Texts
  <2> QED
    BY <1>1, <2>1
<1> QED
  BY <1>1, <1>5, <1>6, <1>7

\* A repository that has none.
LEMMA RepoAlone ==
    ASSUME NEW repo \in Texts, At(AfterLast(repo, "/"), ":") = {},
           NEW p, Release!no_digest(p) = repo
    PROVE  Release!image_repo(p) = repo /\ Release!image_tag_pushed(p) = <<>>
<1> DEFINE path == AfterLast(repo, "/")
<1>1. Release!last_segment(p) = path
  BY SameTokens DEF Release!last_segment
<1>2. Release!Cut(path, ":").before = path /\ Release!Cut(path, ":").after = <<>>
  BY SameTokens DEF Cut
<1>3. path \in Seq(Symbols) /\ repo \in Seq(Symbols)
  <2>1. repo \in Seq(Symbols)
    BY DEF Texts
  <2>2. CASE At(repo, "/") = {}
    BY <2>1, <2>2 DEF AfterLast
  <2>3. CASE At(repo, "/") # {}
    BY <2>1, <2>3, LastParts
  <2> QED
    BY <2>1, <2>2, <2>3
<1> HIDE DEF path
<1>4. Release!image_tag_pushed(p) = <<>>
  BY <1>1, <1>2 DEF Release!image_tag_pushed
<1>5. Release!image_repo(p) = SubSeq(repo, 1, Len(repo) - (Len(path) - Len(path)))
  BY <1>1, <1>2 DEF Release!image_repo
<1>6. Len(repo) - (Len(path) - Len(path)) = Len(repo)
  BY <1>3, LenProperties
<1>7. SubSeq(repo, 1, Len(repo)) = repo
  BY <1>3, SubSeqFull
<1> QED
  BY <1>4, <1>5, <1>6, <1>7

\* What a build is pushed as is its repository, a colon and its tag.
LEMMA ReferenceParts ==
    ASSUME NEW ref \in References
    PROVE  LET repo == Release!image_repo(ref)
               tag == Release!image_tag_pushed(ref)
           IN /\ repo \in Texts /\ At(repo, "@") = {} /\ At(AfterLast(repo, "/"), ":") = {}
              /\ tag \in Texts /\ tag # <<>>
              /\ At(tag, "@") = {} /\ At(tag, "/") = {} /\ At(tag, ":") = {}
              /\ ref = repo \o <<":">> \o tag
              /\ ref \in Texts /\ At(ref, "@") = {}
              /\ tag = TagIn(ref) /\ NameIn(ref) \in Texts /\ NameIn(ref) # <<>>
              /\ BeforeLast(ref, "/") \in Texts /\ Release!oci_repo(ref) = BeforeLast(ref, "/")
              /\ repo = BeforeLast(ref, "/") \o <<"/">> \o NameIn(ref)
<1> DEFINE dir == BeforeLast(ref, "/")
           path == AfterLast(ref, "/")
           name == BeforeLast(path, ":")
           tag == AfterLast(path, ":")
           slash == <<"/">>
           colon == <<":">>
<1>1. /\ ref \in Seq(Symbols) /\ At(ref, "@") = {} /\ At(ref, "/") # {} /\ At(path, ":") # {}
      /\ name = NameIn(ref) /\ tag = TagIn(ref)
      /\ At(name, ":") = {} /\ name # <<>> /\ tag # <<>>
      /\ slash \in Seq(Symbols) /\ colon \in Seq(Symbols)
      /\ "/" \in Symbols /\ ":" \in Symbols
  BY SeparatorTexts DEF References, Texts, Path, NameIn, TagIn
<1>2. /\ dir \in Seq(Symbols) /\ path \in Seq(Symbols)
      /\ ref = dir \o slash \o path /\ At(path, "/") = {}
  BY <1>1, LastParts
<1> HIDE DEF dir, path
<1>3. /\ name \in Seq(Symbols) /\ tag \in Seq(Symbols)
      /\ path = name \o colon \o tag /\ At(tag, ":") = {}
  BY <1>1, <1>2, LastParts
<1> HIDE DEF name, tag
<1> DEFINE org == dir \o slash
           nc == name \o colon
           repo == org \o name
<1>4. /\ org \in Seq(Symbols) /\ nc \in Seq(Symbols)
  BY <1>1, <1>2, <1>3, ConcatProperties, Zenon DEF slash, colon
<1>5. ref = org \o path /\ path = nc \o tag
  BY <1>2, <1>3
<1> HIDE DEF org
<1>6. repo \in Seq(Symbols)
  BY <1>3, <1>4, ConcatProperties, Zenon
<1> HIDE DEF nc, colon
<1>7. ref = (repo \o colon) \o tag
  <2> HIDE DEF repo
  <2>1. /\ org \in Seq(Symbols) /\ nc \in Seq(Symbols) /\ tag \in Seq(Symbols)
        /\ name \in Seq(Symbols) /\ colon \in Seq(Symbols)
    BY <1>1, <1>3, <1>4
  <2>2. Regroups(org, nc, tag) /\ Regroups(org, name, colon)
    BY <2>1, Regroup, Zenon
  <2> QED
    BY <1>5, <2>2 DEF Regroups, nc, repo
<1>8. At(org, "@") = {} /\ At(path, "@") = {}
  <2>1. At(org \o path, "@") = {}
    BY <1>1, <1>5
  <2> QED
    BY <1>2, <1>4, <2>1, AtConcat
<1>9. /\ At(nc, "@") = {} /\ At(tag, "@") = {} /\ At(nc, "/") = {} /\ At(tag, "/") = {}
  <2>1. At(nc \o tag, "@") = {} /\ At(nc \o tag, "/") = {}
    BY <1>2, <1>5, <1>8
  <2> QED
    BY <1>3, <1>4, <2>1, AtConcat
<1>10. At(name, "@") = {} /\ At(name, "/") = {}
  <2>1. At(name \o colon, "@") = {} /\ At(name \o colon, "/") = {}
    BY <1>9 DEF nc
  <2>2. name \in Seq(Symbols) /\ colon \in Seq(Symbols)
    BY <1>1, <1>3
  <2> QED
    BY <2>1, <2>2, AtConcat
<1>11. At(repo, "@") = {}
  BY <1>3, <1>4, <1>8, <1>10, AtConcat
<1>12. AfterLast(repo, "/") = name
  BY <1>1, <1>2, <1>3, <1>10, LastConcat DEF org
<1> HIDE DEF repo
<1>13. Release!no_digest(ref) = repo \o <<":">> \o tag
  BY <1>1, <1>7, DigestOff DEF colon, Texts
<1>14. Release!image_repo(ref) = repo /\ Release!image_tag_pushed(ref) = tag
  BY <1>1, <1>3, <1>6, <1>9, <1>10, <1>11, <1>12, <1>13, RepoAndTag DEF Texts
<1>15. Release!oci_repo(ref) = dir
  <2>1. BeforeLast(repo, "/") = dir
    BY <1>1, <1>2, <1>3, <1>10, LastConcat DEF repo, org, slash
  <2> QED
    BY <1>14, <2>1, SameTokens DEF Release!oci_repo
<1>16. repo = dir \o <<"/">> \o name
  BY DEF repo, org, slash
<1> QED
  BY <1>1, <1>2, <1>3, <1>6, <1>7, <1>9, <1>11, <1>12, <1>14, <1>15, <1>16
     DEF colon, dir, Texts

\* A dev build is one by the name of its image.
LEMMA RepoEnds ==
    ASSUME NEW ref \in References, NEW x
    PROVE  Release!EndsIn(Release!image_repo(ref), x) <=> Release!EndsIn(NameIn(ref), x)
<1> DEFINE org == BeforeLast(ref, "/") \o <<"/">>
           name == NameIn(ref)
<1>1. /\ org \in Seq(Symbols) /\ name \in Seq(Symbols) /\ name # <<>>
      /\ Release!image_repo(ref) = org \o name
  BY ReferenceParts, SeparatorTexts DEF Texts
<1> HIDE DEF org, name
<1>2. /\ Len(org \o name) = Len(org) + Len(name) /\ Len(org) \in Nat /\ Len(name) \in Nat \ {0}
      /\ (org \o name)[Len(org) + Len(name)] = name[Len(name)]
      /\ org \o name # <<>>
  BY <1>1
<1> QED
  BY <1>1, <1>2 DEF Release!EndsIn, name

\* What is after the last colon of a reference is its tag.
LEMMA ReferenceTag ==
    ASSUME NEW ref \in References
    PROVE  Release!Latest(ref) <=> TagIn(ref) = <<"latest">>
<1> DEFINE repo == Release!image_repo(ref)
           tag == TagIn(ref)
<1>1. /\ repo \in Seq(Symbols) /\ tag \in Seq(Symbols) /\ At(tag, ":") = {}
      /\ ref = repo \o <<":">> \o tag /\ ":" \in Symbols
  BY ReferenceParts, SeparatorTexts DEF Texts
<1> HIDE DEF repo, tag
<1>2. AfterLast(ref, ":") = tag
  BY <1>1, LastConcat
<1> QED
  BY <1>2, SameTokens DEF Release!Latest, tag

\* What ko prints for a reference it was to push under.
Pin(ref, d) ==
    (IF Release!Latest(ref) THEN Release!image_repo(ref) ELSE ref) \o <<"@">> \o d

\* A digest is one for the charts too.
LEMMA SameDigest ==
    \A s : Release!Vector!IsDigest(s) = Controller!IsDigest(s)
BY DEF Release!Vector!IsDigest, Controller!IsDigest

\* A tag with a digest is not taken for a digest.
LEMMA PinnedTagNoDigest ==
    ASSUME NEW tag \in Texts, tag # <<>>, At(tag, ":") = {}
    PROVE  /\ ~Release!Vector!IsDigest(tag)
           /\ \A d \in Texts : ~Release!Vector!IsDigest(tag \o <<"@">> \o d)
<1>1. /\ tag \in Seq(Symbols) /\ Len(tag) \in Nat \ {0} /\ DOMAIN tag = 1..Len(tag)
      /\ "@" \in Symbols
  BY LenProperties, SeparatorTexts DEF Texts
<1>2. \A i \in 1..Len(tag) : tag[i] # ":"
  BY <1>1 DEF At
<1>3. ~Release!Vector!IsDigest(tag)
  BY <1>1, <1>2 DEF Release!Vector!IsDigest
<1>4. ASSUME NEW d \in Texts PROVE ~Release!Vector!IsDigest(tag \o <<"@">> \o d)
  <2> DEFINE w == tag \o <<"@">> \o d
  <2>1. (\A i \in 1..Len(tag) : w[i] = tag[i]) /\ w[Len(tag) + 1] = "@"
    BY <1>1 DEF Texts
  <2> HIDE DEF w
  <2>2. w[2] # ":"
    <3>1. CASE Len(tag) = 1
      BY <2>1, <3>1
    <3>2. CASE Len(tag) # 1
      <4>1. 2 \in 1..Len(tag)
        BY <1>1, <3>2
      <4> QED
        BY <2>1, <4>1, <1>2
    <3> QED
      BY <3>1, <3>2
  <2>3. ~Release!Vector!IsDigest(w)
    BY <2>2 DEF Release!Vector!IsDigest
  <2> QED
    BY <2>3 DEF w
<1> QED
  BY <1>3, <1>4

\* What ko prints has the repository and the tag that were asked for, but no tag
\* if it was "latest"; and the chart puts it together again.
LEMMA PinnedReference ==
    ASSUME NEW ref \in References, NEW d \in Digests
    PROVE  LET p == Pin(ref, d)
               tag == Release!image_tag_pushed(ref)
               values == [repository |-> Release!image_repo(p),
                          tag |-> Release!image_tag_with_digest(p)]
           IN /\ p \in Texts
              /\ Release!image_repo(p) = Release!image_repo(ref)
              /\ Release!image_tag_pushed(p)
                   = IF Release!Latest(ref) THEN <<>> ELSE tag
              /\ Release!Rendered(values) = p
              /\ ~Release!Latest(ref) => Release!RenderedRuntime(values) = p
<1> DEFINE p == Pin(ref, d)
           repo == Release!image_repo(ref)
           tag == Release!image_tag_pushed(ref)
           at == <<"@">>
<1>1. /\ repo \in Texts /\ At(repo, "@") = {} /\ At(AfterLast(repo, "/"), ":") = {}
      /\ tag \in Texts /\ tag # <<>> /\ At(tag, "@") = {} /\ At(tag, "/") = {}
      /\ At(tag, ":") = {} /\ ref = repo \o <<":">> \o tag
      /\ ref \in Texts /\ At(ref, "@") = {}
  BY ReferenceParts
<1>2. /\ d \in Texts /\ At(d, "@") = {} /\ Release!Vector!IsDigest(d) /\ d # <<>>
  <2>1. d \in Texts /\ At(d, "@") = {} /\ Controller!IsDigest(d)
    BY TextsAssumption, GrammarAssumption
  <2>2. d # <<>>
    BY <2>1 DEF Controller!IsDigest
  <2> QED
    BY <2>1, <2>2, SameDigest
<1> HIDE DEF repo, tag
<1>3. CASE Release!Latest(ref)
  <2>1. p = repo \o <<"@">> \o d
    BY <1>3 DEF Pin, repo
  <2>2. /\ p \in Texts /\ Release!no_digest(p) = repo
        /\ Release!AfterLast(p, "@") = d /\ Release!At(p, "@") # {}
    <3> DEFINE w == repo \o <<"@">> \o d
    <3>1. /\ w \in Texts /\ Release!no_digest(w) = repo
          /\ Release!AfterLast(w, "@") = d /\ Release!At(w, "@") # {}
      BY <1>1, <1>2, DigestOff
    <3> HIDE DEF p, w
    <3>2. p = w
      BY <2>1 DEF w
    <3> QED
      BY <1>1, <3>1, <3>2
  <2> HIDE DEF p
  <2>3. Release!image_repo(p) = repo /\ Release!image_tag_pushed(p) = <<>>
    BY <1>1, <2>2, RepoAlone
  <2>4. Release!image_tag_with_digest(p) = d
    BY <1>2, <2>2, <2>3 DEF Release!image_tag_with_digest
  <2>5. Release!Rendered([repository |-> Release!image_repo(p),
                          tag |-> Release!image_tag_with_digest(p)]) = p
    BY <1>2, <2>1, <2>3, <2>4 DEF Release!Rendered
  <2> QED
    BY <1>3, <2>2, <2>3, <2>5 DEF p, repo
<1>4. CASE ~Release!Latest(ref)
  <2>1. p = ref \o <<"@">> \o d
    BY <1>4 DEF Pin
  <2>2. /\ p \in Texts /\ Release!no_digest(p) = repo \o <<":">> \o tag
        /\ Release!AfterLast(p, "@") = d /\ Release!At(p, "@") # {}
    <3> DEFINE w == ref \o <<"@">> \o d
    <3>1. /\ w \in Texts /\ Release!no_digest(w) = ref
          /\ Release!AfterLast(w, "@") = d /\ Release!At(w, "@") # {}
      BY <1>1, <1>2, DigestOff
    <3> HIDE DEF p, w
    <3>2. p = w
      BY <2>1 DEF w
    <3> QED
      BY <1>1, <3>1, <3>2
  <2> HIDE DEF p
  <2>3. Release!image_repo(p) = repo /\ Release!image_tag_pushed(p) = tag
    BY <1>1, <2>2, RepoAndTag
  <2>4. Release!image_tag_with_digest(p) = tag \o <<"@">> \o d
    BY <1>1, <1>2, <2>2, <2>3 DEF Release!image_tag_with_digest
  <2>5. ~Release!Vector!IsDigest(tag \o <<"@">> \o d)
    BY <1>1, <1>2, PinnedTagNoDigest
  <2>6. repo \o <<":">> \o (tag \o <<"@">> \o d) = p
    <3> DEFINE rc == repo \o <<":">>
               ta == tag \o <<"@">>
    <3>1. /\ repo \in Seq(Symbols) /\ tag \in Seq(Symbols) /\ d \in Seq(Symbols)
          /\ <<":">> \in Seq(Symbols) /\ <<"@">> \in Seq(Symbols)
      BY <1>1, <1>2, SeparatorTexts DEF Texts
    <3>2. rc \in Seq(Symbols) /\ ta \in Seq(Symbols)
      BY <3>1, ConcatProperties, Zenon
    <3> HIDE DEF rc
    <3>3. Regroups(rc, tag, <<"@">>)
      BY <3>1, <3>2, Regroup, Zenon
    <3> HIDE DEF ta
    <3>4. Regroups(rc, ta, d)
      BY <3>1, <3>2, Regroup, Zenon
    <3> QED
      BY <1>1, <2>1, <3>3, <3>4 DEF Regroups, rc, ta
  <2>7. Release!Rendered([repository |-> Release!image_repo(p),
                          tag |-> Release!image_tag_with_digest(p)]) = p
    BY <2>3, <2>4, <2>5, <2>6 DEF Release!Rendered
  <2>8. Release!RenderedRuntime([repository |-> Release!image_repo(p),
                                 tag |-> Release!image_tag_with_digest(p)]) = p
    BY <2>3, <2>4, <2>6 DEF Release!RenderedRuntime
  <2> QED
    BY <1>4, <2>2, <2>3, <2>7, <2>8 DEF p, repo, tag
<1> QED
  BY <1>3, <1>4

\* What the overwrite makes of the installation image that was built or found: the
\* reference it was pushed under, without a digest.
LEMMA OverwriteParts ==
    ASSUME NEW b \in Builds,
           NEW p \in {b.installation} \cup {Pin(b.installation, d) : d \in Digests}
    PROVE  /\ Release!Overwrite(p)
                = [repository |-> Release!image_repo(b.installation),
                   tag |-> Release!image_tag_pushed(b.installation)]
           /\ Release!Rendered(Release!Overwrite(p)) = b.installation
<1> DEFINE ref == b.installation
           repo == Release!image_repo(ref)
           tag == Release!image_tag_pushed(ref)
<1>1. ref \in References /\ Controller!validVersion(tag) /\ tag # <<"latest">>
      /\ tag = TagIn(ref)
  BY BuildsAssumption, ReferenceParts
<1> HIDE DEF ref
<1>2. /\ tag \in Seq(Symbols) /\ tag \in Texts /\ tag # <<>> /\ At(tag, ":") = {}
      /\ ref = repo \o <<":">> \o tag
  BY <1>1, ReferenceParts DEF Texts
<1>4. ~Release!Latest(ref)
  BY <1>1, ReferenceTag
<1>5. Release!image_repo(p) = repo /\ Release!image_tag_pushed(p) = tag
  <2>1. CASE p = ref
    BY <2>1
  <2>2. ASSUME NEW d \in Digests, p = Pin(ref, d)
        PROVE  Release!image_repo(p) = repo /\ Release!image_tag_pushed(p) = tag
    BY <1>1, <1>4, <2>2, PinnedReference
  <2> QED
    BY <2>1, <2>2 DEF ref
<1>6. ~Release!Vector!IsDigest(tag)
  BY <1>2, PinnedTagNoDigest
<1>7. Release!Overwrite(p) = [repository |-> repo, tag |-> tag]
  BY <1>5 DEF Release!Overwrite
<1> HIDE DEF repo, tag
<1>8. Release!Rendered([repository |-> repo, tag |-> tag]) = ref
  BY <1>2, <1>6 DEF Release!Rendered
<1> QED
  BY <1>7, <1>8 DEF ref, repo, tag

\* The controller reads the tag of an installation image as it is.
LEMMA OverwriteRead ==
    ASSUME NEW tag \in Texts, Controller!validVersion(tag)
    PROVE  Controller!VersionFromImage([Controller!Unset EXCEPT !.tag = tag]) = tag
<1>1. Controller!Usable(tag) /\ At(tag, "@") = {} /\ tag # Nil /\ tag # <<>>
  BY VersionNoDigest, TextsAssumption DEF Controller!Usable
<1>2. Controller!Cut(tag, "@").before = tag
  BY <1>1, SameTokens DEF Cut
<1>3. Controller!FromTag(tag) = tag
  BY <1>1, <1>2 DEF Controller!FromTag
<1>4. Controller!FirstUsable([Controller!Unset EXCEPT !.tag = tag]) = tag
  BY <1>1, <1>3 DEF Controller!FirstUsable, Controller!Unset
<1> QED
  BY <1>4 DEF Controller!VersionFromImage
-------------------------------------------------------------------------------
(* The release.                                                            *)

Pushed(ref) == {Pin(ref, d) : d \in Digests}

\* A reference in images.json: as it was asked for, then as it was pushed.
Stage(ref, pushed) == IF pushed THEN Pushed(ref) \cap images ELSE {ref}

Jobs == [controller : Texts, installation : Texts, admission : Texts \cup {Nil}]

\* The job of build b has come to its step k: what was pushed is in the registry, and
\* so is the chart of the controller once the admission charts are due.
AtStep(b, k) ==
    /\ todo = SubSeq(Release!Steps(b), k, Len(Release!Steps(b)))
    /\ job \in Jobs
    /\ job.controller \in Stage(b.controller, k > 1)
    /\ IF b.admission = Nil THEN job.admission = Nil
                            ELSE job.admission \in Stage(b.admission, k > 2)
    /\ IF k > 3 THEN /\ b.installation \in images
                     /\ job.installation \in Pushed(b.installation) \cup {b.installation}
                ELSE job.installation = b.installation
    /\ k > 4 => \E c \in charts :
          /\ c.name = "runtime-kata" /\ c.at = Release!oci_repo(job.controller)
          /\ c.version = Release!chart_version(job.controller)

JobSound ==
    todo = <<>> \/ \E b \in Builds : \E k \in 1..Len(Release!Steps(b)) : AtStep(b, k)

\* Every overwrite names the tag of an installation image that is there.
OverwriteSound ==
    \A c \in charts : c.overwrite # Nil =>
        \E b \in Builds :
            /\ c.overwrite.tag = Release!image_tag_pushed(b.installation)
            /\ b.installation \in images

\* No commit's own tag ends as the postfix of dev builds does.
PlainTags ==
    \A build \in Builds : ~Release!EndsIn(Release!image_tag(build.controller), "-dev")

\* The version of a chart says whether its image is that of a dev build.
DevSound ==
    \A c \in charts : PlainTags /\ c.image # Nil =>
        (Release!EndsIn(c.image.repository, "-dev") <=> Release!EndsIn(c.version, "-dev"))

ReleaseSound ==
    /\ JobSound /\ OverwriteSound /\ DevSound
    /\ ChartsResolve /\ AdmissionBehindController /\ DeployedReadsTag

\* The parts of a build that the proofs take.
LEMMA BuildParts ==
    ASSUME NEW b \in Builds
    PROVE  /\ b.controller \in References /\ b.installation \in References
           /\ b.admission # Nil => b.admission \in References
           /\ b \in Jobs
BY BuildsAssumption DEF References, Jobs

\* The steps of a build, one by one.
LEMMA StepsAre ==
    ASSUME NEW b \in Builds
    PROVE  /\ Release!Steps(b) \in Seq({"controller", "admission", "installation",
                                        "runtime-kata", "runtime", "virtual-garden"})
           /\ Len(Release!Steps(b)) = IF b.admission = Nil THEN 4 ELSE 6
           /\ Release!Steps(b)[1] = "controller" /\ Release!Steps(b)[2] = "admission"
           /\ Release!Steps(b)[3] = "installation" /\ Release!Steps(b)[4] = "runtime-kata"
           /\ b.admission # Nil => /\ Release!Steps(b)[5] = "runtime"
                                   /\ Release!Steps(b)[6] = "virtual-garden"
<1> DEFINE S == {"controller", "admission", "installation",
                 "runtime-kata", "runtime", "virtual-garden"}
           first == Release!Kinds \o <<"runtime-kata">>
           last == IF b.admission = Nil THEN <<>> ELSE Release!AdmissionCharts
<1>1. /\ first \in Seq(S) /\ Len(first) = 4 /\ first[1] = "controller"
      /\ first[2] = "admission" /\ first[3] = "installation" /\ first[4] = "runtime-kata"
  BY DEF Release!Kinds
<1>2. /\ last \in Seq(S) /\ Len(last) = IF b.admission = Nil THEN 0 ELSE 2
      /\ b.admission # Nil => last[1] = "runtime" /\ last[2] = "virtual-garden"
  <2>1. CASE b.admission = Nil
    <3>1. last = <<>>
      BY <2>1
    <3> HIDE DEF last
    <3> QED
      BY <2>1, <3>1
  <2>2. CASE b.admission # Nil
    <3>1. last = <<"runtime", "virtual-garden">>
      BY <2>2 DEF Release!AdmissionCharts
    <3> HIDE DEF last
    <3> QED
      BY <2>2, <3>1
  <2> QED
    BY <2>1, <2>2
<1>3. Release!Steps(b) = first \o last
  BY DEF Release!Steps
<1> HIDE DEF S, first, last
<1>4. /\ first \o last \in Seq(S) /\ Len(first \o last) = 4 + Len(last)
      /\ \A i \in 1..(4 + Len(last)) :
            (first \o last)[i] = IF i <= 4 THEN first[i] ELSE last[i - 4]
  <2>1. /\ first \o last \in Seq(S) /\ Len(first \o last) = Len(first) + Len(last)
        /\ \A i \in 1..(Len(first) + Len(last)) :
              (first \o last)[i] = IF i <= Len(first) THEN first[i] ELSE last[i - Len(first)]
    <3>1. first \in Seq(S) /\ last \in Seq(S)
      BY <1>1, <1>2
    <3> QED
      BY <3>1, ConcatProperties, Zenon
  <2> QED
    BY <1>1, <2>1
<1>5. /\ (first \o last)[1] = "controller" /\ (first \o last)[2] = "admission"
      /\ (first \o last)[3] = "installation" /\ (first \o last)[4] = "runtime-kata"
  BY <1>1, <1>2, <1>4
<1>6. ASSUME b.admission # Nil
      PROVE  (first \o last)[5] = "runtime" /\ (first \o last)[6] = "virtual-garden"
  BY <1>2, <1>4, <1>6
<1> QED
  BY <1>2, <1>3, <1>4, <1>5, <1>6 DEF S

\* What is done next, and what is left then.
LEMMA NextStep ==
    ASSUME NEW b \in Builds, NEW k \in 1..Len(Release!Steps(b)),
           todo = SubSeq(Release!Steps(b), k, Len(Release!Steps(b)))
    PROVE  /\ Head(todo) = Release!Steps(b)[k]
           /\ Tail(todo) = SubSeq(Release!Steps(b), k + 1, Len(Release!Steps(b)))
           /\ k = Len(Release!Steps(b)) => Tail(todo) = <<>>
           /\ Head(todo) \in Release!ImageSteps <=> k \in 1..3
           /\ k \in 1..6 /\ (k > 4 => b.admission # Nil)
<1> DEFINE s == Release!Steps(b)
<1>1. /\ s \in Seq({"controller", "admission", "installation",
                    "runtime-kata", "runtime", "virtual-garden"})
      /\ Len(s) \in {4, 6} /\ (b.admission = Nil => Len(s) = 4)
      /\ s[1] = "controller" /\ s[2] = "admission" /\ s[3] = "installation"
      /\ s[4] = "runtime-kata"
      /\ Len(s) = 6 => s[5] = "runtime" /\ s[6] = "virtual-garden"
  BY StepsAre
<1> HIDE DEF s
<1>2. k \in 1..Len(s) /\ Len(s) \in k..Len(s) /\ todo = SubSeq(s, k, Len(s))
  BY <1>1 DEF s
<1>3. Head(todo) = s[k] /\ Tail(todo) = SubSeq(s, k + 1, Len(s))
  BY <1>1, <1>2, HeadTailOfSubSeq
<1>4. k = Len(s) => Tail(todo) = <<>>
  BY <1>1, <1>3, SubSeqEmpty
<1>5. s[k] \in Release!ImageSteps <=> k \in 1..3
  <2>1. k \in {1, 2, 3, 4} \/ (k \in {5, 6} /\ Len(s) = 6)
    BY <1>1, <1>2
  <2> QED
    BY <1>1, <2>1 DEF Release!ImageSteps
<1>6. k \in 1..6 /\ (k > 4 => b.admission # Nil)
  <2>1. k \in {1, 2, 3, 4} \/ (k \in {5, 6} /\ Len(s) = 6)
    BY <1>1, <1>2
  <2>2. CASE k \in {1, 2, 3, 4}
    <3>1. k \in 1..6 /\ ~(k > 4)
      BY <2>2
    <3> QED
      BY <3>1
  <2>3. CASE k \in {5, 6} /\ Len(s) = 6
    <3>1. k \in 1..6
      BY <2>3
    <3>2. b.admission # Nil
      BY <1>1, <2>3
    <3> QED
      BY <3>1, <3>2
  <2> QED
    BY <2>1, <2>2, <2>3
<1> QED
  BY <1>3, <1>4, <1>5, <1>6 DEF s

\* References that were pushed stay.
LEMMA ImagesGrow ==
    ASSUME images \subseteq images', UNCHANGED <<charts, image, version>>,
           OverwriteSound, DevSound, ChartsResolve, AdmissionBehindController, DeployedReadsTag,
           UNCHANGED source
    PROVE  /\ OverwriteSound' /\ DevSound' /\ ChartsResolve'
           /\ AdmissionBehindController' /\ DeployedReadsTag'
<1>1. OverwriteSound' /\ DevSound' /\ AdmissionBehindController'
  BY DEF OverwriteSound, DevSound, AdmissionBehindController,
         Release!AdmissionBehindController
<1>2. ChartsResolve'
  BY DEF ChartsResolve, Release!ChartsResolve
<1>3. DeployedReadsTag'
  BY DEF DeployedReadsTag, Release!DeployedReadsTag
<1> QED
  BY <1>1, <1>2, <1>3

\* A job begins with nothing pushed.
LEMMA BeginKeeps ==
    ASSUME ReleaseSound, UNCHANGED source, NEW b \in Builds, Release!Begin(b)
    PROVE  ReleaseSound'
<1>1. /\ job' = b /\ todo' = Release!Steps(b) /\ images' = images
      /\ UNCHANGED <<charts, image, version>>
  BY DEF Release!Begin
<1>2. 1 \in 1..Len(Release!Steps(b))
  BY StepsAre
<1>3. Release!Steps(b) = SubSeq(Release!Steps(b), 1, Len(Release!Steps(b)))
  BY StepsAre, SubSeqFull
<1>4. AtStep(b, 1)'
  BY <1>1, <1>3, BuildParts DEF AtStep, Stage
<1>5. JobSound'
  BY <1>2, <1>4 DEF JobSound
<1> QED
  BY <1>1, <1>5, ImagesGrow DEF ReleaseSound

\* ko adds the reference it was to push under and the one it prints.
LEMMA KoPushes ==
    ASSUME NEW b \in Builds, NEW kind \in {"controller", "admission", "installation"},
           job \in Jobs, job[kind] = b[kind], b[kind] \in References,
           Release!KoBuild(kind)
    PROVE  /\ images \subseteq images' /\ b[kind] \in images'
           /\ job' \in Jobs /\ job'[kind] \in Pushed(b[kind]) \cap images'
           /\ \A other \in {"controller", "admission", "installation"} \ {kind} :
                 job'[other] = job[other]
<1>1. PICK d \in Digests :
        /\ images' = images \cup {b[kind], Pin(b[kind], d)}
        /\ job' = [job EXCEPT ![kind] = Pin(b[kind], d)]
  BY DEF Release!KoBuild, Pin
<1>2. Pin(b[kind], d) \in Texts
  BY PinnedReference
<1> QED
  BY <1>1, <1>2 DEF Pushed, Jobs

\* An image is pushed, or was there: the job comes to the next step.
LEMMA PushImageKeeps ==
    ASSUME ReleaseSound, UNCHANGED source, Release!PushImage
    PROVE  ReleaseSound'
<1>1. /\ todo # <<>> /\ Head(todo) \in Release!ImageSteps /\ todo' = Tail(todo)
      /\ UNCHANGED <<charts, image, version>>
  BY DEF Release!PushImage
<1>2. PICK b \in Builds : \E k \in 1..Len(Release!Steps(b)) : AtStep(b, k)
  BY <1>1 DEF ReleaseSound, JobSound
<1>3. PICK k \in 1..Len(Release!Steps(b)) : AtStep(b, k)
  BY <1>2
<1>4. /\ Head(todo) = Release!Steps(b)[k] /\ k \in 1..3
      /\ Tail(todo) = SubSeq(Release!Steps(b), k + 1, Len(Release!Steps(b)))
  BY <1>1, <1>3, NextStep DEF AtStep
<1>5. /\ Release!Steps(b)[1] = "controller" /\ Release!Steps(b)[2] = "admission"
      /\ Release!Steps(b)[3] = "installation" /\ k + 1 \in 1..Len(Release!Steps(b))
  BY <1>4, StepsAre
<1>6. /\ b.controller \in References /\ b.installation \in References /\ Nil \notin Texts
      /\ (b.admission # Nil => b.admission \in References)
      /\ b.controller # Nil /\ b.installation # Nil
  BY BuildParts, TextsAssumption DEF References
<1>7. /\ job \in Jobs /\ job.installation = b.installation
      /\ job.controller \in Stage(b.controller, k > 1)
      /\ IF b.admission = Nil THEN job.admission = Nil
                              ELSE job.admission \in Stage(b.admission, k > 2)
  BY <1>3, <1>4 DEF AtStep
<1>8. CASE k = 1
  <2>1. Head(todo) = "controller" /\ job.controller = b.controller
    BY <1>4, <1>5, <1>7, <1>8 DEF Stage
  <2>2. Release!KoBuild("controller")
    BY <1>6, <2>1 DEF Release!PushImage
  <2>3. /\ images \subseteq images' /\ job' \in Jobs
        /\ job'.controller \in Pushed(b.controller) \cap images'
        /\ job'.admission = job.admission /\ job'.installation = job.installation
    BY <1>6, <1>7, <2>1, <2>2, KoPushes
  <2>4. AtStep(b, 2)'
    BY <1>1, <1>4, <1>7, <1>8, <2>3 DEF AtStep, Stage
  <2> QED
    BY <1>1, <1>5, <1>8, <2>3, <2>4, ImagesGrow DEF ReleaseSound, JobSound
<1>9. CASE k = 2 /\ b.admission # Nil
  <2>1. Head(todo) = "admission" /\ job.admission = b.admission
    BY <1>4, <1>5, <1>7, <1>9 DEF Stage
  <2>2. Release!KoBuild("admission")
    BY <1>6, <1>9, <2>1 DEF Release!PushImage
  <2>3. /\ images \subseteq images' /\ job' \in Jobs
        /\ job'.admission \in Pushed(b.admission) \cap images'
        /\ job'.controller = job.controller /\ job'.installation = job.installation
    BY <1>6, <1>7, <1>9, <2>1, <2>2, KoPushes
  <2>4. job'.controller \in Pushed(b.controller) \cap images'
    BY <1>7, <1>9, <2>3 DEF Stage
  <2>5. AtStep(b, 3)'
    BY <1>1, <1>4, <1>7, <1>9, <2>3, <2>4 DEF AtStep, Stage
  <2> QED
    BY <1>1, <1>5, <1>9, <2>3, <2>5, ImagesGrow DEF ReleaseSound, JobSound
<1>10. CASE k = 2 /\ b.admission = Nil
  <2>1. Head(todo) = "admission" /\ job.admission = Nil
    BY <1>4, <1>5, <1>7, <1>10
  <2>2. UNCHANGED <<images, job>>
    BY <2>1 DEF Release!PushImage
  <2>3. AtStep(b, 3)'
    BY <1>1, <1>4, <1>7, <1>10, <2>2 DEF AtStep, Stage
  <2> QED
    BY <1>1, <1>5, <1>10, <2>2, <2>3, ImagesGrow DEF ReleaseSound, JobSound
<1>11. CASE k = 3
  <2>1. Head(todo) = "installation" /\ job.installation = b.installation
    BY <1>4, <1>5, <1>7, <1>11
  <2>2. /\ images \subseteq images' /\ job' \in Jobs /\ b.installation \in images'
        /\ job'.installation \in Pushed(b.installation) \cup {b.installation}
        /\ job'.controller = job.controller /\ job'.admission = job.admission
    <3>1. CASE job.installation \in images /\ UNCHANGED <<images, job>>
      BY <1>7, <2>1, <3>1
    <3>2. CASE Release!KoBuild("installation")
      BY <1>6, <1>7, <2>1, <3>2, KoPushes
    <3> QED
      BY <1>6, <2>1, <3>1, <3>2 DEF Release!PushImage
  <2>3. AtStep(b, 4)'
    BY <1>1, <1>4, <1>7, <1>11, <2>2 DEF AtStep, Stage
  <2> QED
    BY <1>1, <1>5, <1>11, <2>2, <2>3, ImagesGrow DEF ReleaseSound, JobSound
<1> QED
  BY <1>4, <1>8, <1>9, <1>10, <1>11

\* The tag of a chart is a text, of what was asked for unless that was "latest".
LEMMA CleanTag ==
    ASSUME NEW ref \in References, NEW p \in Pushed(ref), Release!image_tag(p) # <<>>
    PROVE  /\ ~Release!Latest(ref)
           /\ Release!image_tag(p) = Release!image_tag(ref)
           /\ Release!image_tag(p) \in Seq(Symbols)
<1> DEFINE tag == Release!image_tag_pushed(p)
<1>1. PICK d \in Digests : p = Pin(ref, d)
  BY DEF Pushed
<1>2. tag # <<>>
  BY DEF Release!image_tag, Release!EndsIn
<1>3. ~Release!Latest(ref) /\ tag = Release!image_tag_pushed(ref)
  BY <1>1, <1>2, PinnedReference
<1>4. tag \in Seq(Symbols)
  BY <1>3, ReferenceParts DEF Texts
<1>5. Release!image_tag(p) = Release!image_tag(ref)
  BY <1>3 DEF Release!image_tag
<1>6. Release!image_tag(p)
        = IF Release!EndsIn(tag, "-dirty") THEN SubSeq(tag, 1, Len(tag) - 1) ELSE tag
  BY DEF Release!image_tag
<1> HIDE DEF tag
<1>7. SubSeq(tag, 1, Len(tag) - 1) \in Seq(Symbols)
  <2>1. Len(tag) \in 1..Len(tag)
    BY <1>2, <1>4
  <2> QED
    BY <1>4, <2>1, SplitAt
<1> QED
  BY <1>3, <1>4, <1>5, <1>6, <1>7

\* A version ends in "-dev" if that was added to it, and only then.
LEMMA VersionEnds ==
    ASSUME NEW s \in Seq(Symbols), ~Release!EndsIn(s, "-dev"), NEW dev \in BOOLEAN
    PROVE  Release!EndsIn(s \o (IF dev THEN <<"-dev">> ELSE <<>>), "-dev") <=> dev
<1>1. CASE dev
  <2> DEFINE m == <<"-dev">>
  <2>1. m \in Seq(Symbols) /\ Len(m) = 1 /\ m[1] = "-dev"
    BY SeparatorTexts
  <2> HIDE DEF m
  <2>2. /\ s \o m \in Seq(Symbols) /\ Len(s \o m) = Len(s) + Len(m)
        /\ \A i \in 1..(Len(s) + Len(m)) :
              (s \o m)[i] = IF i <= Len(s) THEN s[i] ELSE m[i - Len(s)]
    BY <2>1, ConcatProperties, Zenon
  <2>3. Len(s) \in Nat /\ Len(s) + 1 - Len(s) = 1
    OBVIOUS
  <2>4. (s \o m)[Len(s \o m)] = "-dev"
    BY <2>1, <2>2, <2>3
  <2>5. s \o m # <<>>
    BY <2>1, <2>2, <2>3
  <2> QED
    BY <1>1, <2>4, <2>5 DEF Release!EndsIn, m
<1>2. CASE ~dev
  BY <1>2, ConcatEmptySeq
<1> QED
  BY <1>1, <1>2

\* The chart that a job pushes.
LEMMA NewChart ==
    ASSUME NEW b \in Builds, NEW k \in 4..Len(Release!Steps(b)), AtStep(b, k),
           Release!image_tag(job.controller) # <<>>,
           NEW name, name = Release!Steps(b)[k],
           NEW chart, chart = Release!Chart(name, IF name = "runtime-kata" THEN job.controller
                                                                           ELSE job.admission)
    PROVE  /\ chart.name = name /\ chart.at = Release!oci_repo(job.controller)
           /\ chart.version = Release!chart_version(job.controller)
           /\ name = "runtime" => Release!RenderedRuntime(chart.image) \in images
           /\ name = "runtime-kata" => /\ Release!Rendered(chart.image) \in images
                                       /\ Release!Rendered(chart.overwrite) \in images
           /\ chart.overwrite # Nil =>
                 /\ chart.overwrite.tag = Release!image_tag_pushed(b.installation)
                 /\ b.installation \in images
           /\ PlainTags /\ chart.image # Nil =>
                 (Release!EndsIn(chart.image.repository, "-dev")
                    <=> Release!EndsIn(chart.version, "-dev"))
<1> DEFINE ref == IF name = "runtime-kata" THEN job.controller ELSE job.admission
<1>1. /\ job \in Jobs /\ b.installation \in images
      /\ job.controller \in Pushed(b.controller) \cap images
      /\ b.admission # Nil => job.admission \in Pushed(b.admission) \cap images
      /\ job.installation \in Pushed(b.installation) \cup {b.installation}
  BY DEF AtStep, Stage
<1>2. /\ b.controller \in References /\ b.installation \in References
      /\ b.admission # Nil => b.admission \in References
  BY BuildParts
<1>3. /\ k \in 1..Len(Release!Steps(b)) /\ todo = SubSeq(Release!Steps(b), k, Len(Release!Steps(b)))
      /\ (k = 4 <=> name = "runtime-kata") /\ (k > 4 => b.admission # Nil)
  <2>1. k \in 1..Len(Release!Steps(b)) /\ todo = SubSeq(Release!Steps(b), k, Len(Release!Steps(b)))
    BY StepsAre DEF AtStep
  <2>2. k \in 1..6 /\ (k > 4 => b.admission # Nil)
    BY <2>1, NextStep
  <2>3. k = 4 \/ (k \in {5, 6} /\ b.admission # Nil)
    BY <2>2
  <2> QED
    BY <2>1, <2>2, <2>3, StepsAre
<1>4. /\ ~Release!Latest(b.controller)
      /\ Release!image_tag(job.controller) = Release!image_tag(b.controller)
      /\ Release!image_tag(job.controller) \in Seq(Symbols)
  BY <1>1, <1>2, CleanTag
<1>5. PICK source_ref \in References, d \in Digests :
        /\ ref = Pin(source_ref, d) /\ ref \in images
        /\ ~Release!Latest(source_ref)
        /\ Release!oci_repo(source_ref) = Release!oci_repo(b.controller)
        /\ Release!EndsIn(Release!image_repo(source_ref), "-dev")
             <=> Release!EndsIn(Release!image_repo(b.controller), "-dev")
  <2>1. CASE name = "runtime-kata"
    <3>1. PICK d \in Digests : job.controller = Pin(b.controller, d)
      BY <1>1 DEF Pushed
    <3> QED
      BY <1>1, <1>2, <1>4, <2>1, <3>1
  <2>2. CASE name # "runtime-kata"
    <3>1. b.admission # Nil
      BY <1>3, <2>2
    <3>2. PICK d \in Digests : job.admission = Pin(b.admission, d)
      BY <1>1, <3>1 DEF Pushed
    <3>3. /\ Release!oci_repo(b.admission) = Release!oci_repo(b.controller)
          /\ Release!image_tag_pushed(b.admission) = Release!image_tag_pushed(b.controller)
          /\ Release!EndsIn(Release!image_repo(b.admission), "-dev")
               = Release!EndsIn(Release!image_repo(b.controller), "-dev")
      <4>1. /\ BeforeLast(b.admission, "/") = BeforeLast(b.controller, "/")
            /\ TagIn(b.admission) = TagIn(b.controller)
            /\ Release!EndsIn(NameIn(b.admission), "-dev")
                 = Release!EndsIn(NameIn(b.controller), "-dev")
        BY <3>1, BuildsAssumption
      <4>2. b.admission \in References /\ b.controller \in References
        BY <1>2, <3>1
      <4>3. \A r \in {b.admission, b.controller} :
              /\ Release!oci_repo(r) = BeforeLast(r, "/")
              /\ Release!image_tag_pushed(r) = TagIn(r)
        BY <4>2, ReferenceParts
      <4>4. \A r \in {b.admission, b.controller} :
              Release!EndsIn(Release!image_repo(r), "-dev") <=> Release!EndsIn(NameIn(r), "-dev")
        BY <4>2, RepoEnds
      <4>5. Release!EndsIn(Release!image_repo(b.admission), "-dev")
              = Release!EndsIn(Release!image_repo(b.controller), "-dev")
        BY <4>1, <4>4 DEF Release!EndsIn
      <4> QED
        BY <4>1, <4>3, <4>5
    <3>4. ~Release!Latest(b.admission)
      BY <1>2, <1>4, <3>1, <3>3, ReferenceParts, ReferenceTag
    <3> QED
      BY <1>1, <1>2, <2>2, <3>1, <3>2, <3>3, <3>4
  <2> QED
    BY <2>1, <2>2
<1> DEFINE values == [repository |-> Release!image_repo(ref),
                      tag |-> Release!image_tag_with_digest(ref)]
<1>6. chart = [name |-> name, at |-> Release!oci_repo(ref),
               version |-> Release!chart_version(job.controller),
               image |-> IF name = "virtual-garden" THEN Nil ELSE values,
               overwrite |-> IF name = "runtime-kata" THEN Release!Overwrite(job.installation)
                                                     ELSE Nil]
  BY DEF Release!Chart
<1> HIDE DEF ref
<1>7. /\ Release!image_repo(ref) = Release!image_repo(source_ref)
      /\ Release!Rendered(values) = ref /\ Release!RenderedRuntime(values) = ref
  BY <1>5, PinnedReference
<1>8. Release!image_repo(job.controller) = Release!image_repo(b.controller)
  BY <1>1, <1>2, PinnedReference DEF Pushed
<1>9. Release!oci_repo(ref) = Release!oci_repo(job.controller)
  BY <1>5, <1>7, <1>8 DEF Release!oci_repo
<1>10. ASSUME PlainTags
       PROVE  Release!EndsIn(values.repository, "-dev")
                <=> Release!EndsIn(Release!chart_version(job.controller), "-dev")
  <2> DEFINE dev == Release!EndsIn(Release!image_repo(job.controller), "-dev")
  <2>1. ~Release!EndsIn(Release!image_tag(job.controller), "-dev")
    BY <1>4, <1>10 DEF PlainTags
  <2>2. dev \in BOOLEAN
    BY DEF Release!EndsIn
  <2>3. Release!chart_version(job.controller)
          = Release!image_tag(job.controller) \o (IF dev THEN <<"-dev">> ELSE <<>>)
    BY DEF Release!chart_version
  <2> HIDE DEF dev
  <2>4. Release!EndsIn(Release!chart_version(job.controller), "-dev") <=> dev
    BY <1>4, <2>1, <2>2, <2>3, VersionEnds
  <2>5. dev <=> Release!EndsIn(Release!image_repo(b.controller), "-dev")
    BY <1>8 DEF dev
  <2> QED
    BY <1>5, <1>7, <2>4, <2>5
<1> HIDE DEF values
<1>11. /\ Release!Overwrite(job.installation)
            = [repository |-> Release!image_repo(b.installation),
               tag |-> Release!image_tag_pushed(b.installation)]
       /\ Release!Rendered(Release!Overwrite(job.installation)) = b.installation
  BY <1>1, OverwriteParts DEF Pushed
<1>12. /\ chart.name = name /\ chart.at = Release!oci_repo(ref)
       /\ chart.version = Release!chart_version(job.controller)
       /\ chart.image = IF name = "virtual-garden" THEN Nil ELSE values
       /\ chart.overwrite = IF name = "runtime-kata" THEN Release!Overwrite(job.installation)
                                                     ELSE Nil
  BY <1>6
<1>13. /\ name = "runtime" => Release!RenderedRuntime(chart.image) \in images
       /\ name = "runtime-kata" => /\ Release!Rendered(chart.image) \in images
                                   /\ Release!Rendered(chart.overwrite) \in images
  BY <1>1, <1>5, <1>7, <1>11, <1>12
<1>14. chart.overwrite # Nil =>
         /\ chart.overwrite.tag = Release!image_tag_pushed(b.installation)
         /\ b.installation \in images
  BY <1>1, <1>11, <1>12
<1>15. PlainTags /\ chart.image # Nil =>
         (Release!EndsIn(chart.image.repository, "-dev")
            <=> Release!EndsIn(chart.version, "-dev"))
  BY <1>10, <1>12
<1> QED
  BY <1>9, <1>12, <1>13, <1>14, <1>15

\* A chart replaces what was kept under its key, and rests on what was there.
LEMMA PushChartKeeps ==
    ASSUME ReleaseSound, UNCHANGED source, Release!PushChart
    PROVE  ReleaseSound'
<1>1. /\ todo # <<>> /\ Head(todo) \notin Release!ImageSteps
      /\ UNCHANGED <<images, job, image, version>>
  BY DEF Release!PushChart
<1>2. DeployedReadsTag'
  BY <1>1 DEF ReleaseSound, DeployedReadsTag, Release!DeployedReadsTag
<1>3. CASE Release!image_tag(job.controller) = <<>>
  <2>1. charts' = charts /\ todo' = <<>>
    BY <1>3 DEF Release!PushChart
  <2> QED
    BY <1>1, <2>1, ImagesGrow DEF ReleaseSound, JobSound
<1>4. CASE Release!image_tag(job.controller) # <<>>
  <2>1. PICK b \in Builds : \E k \in 1..Len(Release!Steps(b)) : AtStep(b, k)
    BY <1>1 DEF ReleaseSound, JobSound
  <2>2. PICK k \in 1..Len(Release!Steps(b)) : AtStep(b, k)
    BY <2>1
  <2> DEFINE name == Head(todo)
             chart == Release!Chart(name, IF name = "runtime-kata" THEN job.controller
                                                                    ELSE job.admission)
  <2>3. /\ name = Release!Steps(b)[k] /\ k \in 4..6 /\ (k > 4 => b.admission # Nil)
        /\ Tail(todo) = SubSeq(Release!Steps(b), k + 1, Len(Release!Steps(b)))
        /\ k = Len(Release!Steps(b)) => Tail(todo) = <<>>
    <3>1. /\ name = Release!Steps(b)[k] /\ k \in 1..6 /\ (k > 4 => b.admission # Nil)
          /\ Tail(todo) = SubSeq(Release!Steps(b), k + 1, Len(Release!Steps(b)))
          /\ k = Len(Release!Steps(b)) => Tail(todo) = <<>>
          /\ (name \in Release!ImageSteps <=> k \in 1..3)
      BY <2>2, NextStep DEF AtStep
    <3> QED
      BY <1>1, <3>1
  <2>4. /\ charts' = {c \in charts : Release!Key(c) # Release!Key(chart)} \cup {chart}
        /\ todo' = Tail(todo)
    BY <1>4 DEF Release!PushChart
  <2>5. (k = 4 => name = "runtime-kata") /\ (k > 4 => name # "runtime-kata")
    <3>1. k = 4 \/ (k \in {5, 6} /\ b.admission # Nil)
      BY <2>3
    <3> QED
      BY <2>3, <3>1, StepsAre
  <2> HIDE DEF name
  <2>6. /\ chart.name = name /\ chart.at = Release!oci_repo(job.controller)
        /\ chart.version = Release!chart_version(job.controller)
        /\ name = "runtime" => Release!RenderedRuntime(chart.image) \in images
        /\ name = "runtime-kata" => /\ Release!Rendered(chart.image) \in images
                                    /\ Release!Rendered(chart.overwrite) \in images
        /\ chart.overwrite # Nil =>
              /\ chart.overwrite.tag = Release!image_tag_pushed(b.installation)
              /\ b.installation \in images
        /\ PlainTags /\ chart.image # Nil =>
              (Release!EndsIn(chart.image.repository, "-dev")
                 <=> Release!EndsIn(chart.version, "-dev"))
    <3>1. k \in 4..Len(Release!Steps(b))
      BY <2>3, StepsAre
    <3> QED
      BY <1>4, <2>2, <2>3, <3>1, NewChart
  <2> HIDE DEF chart
  <2>7. PICK d \in charts' :
          /\ d.name = "runtime-kata" /\ d.at = Release!oci_repo(job.controller)
          /\ d.version = Release!chart_version(job.controller)
    <3>1. CASE k = 4
      BY <2>4, <2>5, <2>6, <3>1
    <3>2. CASE k > 4
      <4>1. PICK d \in charts :
              /\ d.name = "runtime-kata" /\ d.at = Release!oci_repo(job.controller)
              /\ d.version = Release!chart_version(job.controller)
        BY <2>2, <3>2 DEF AtStep
      <4>2. Release!Key(d) # Release!Key(chart)
        BY <2>5, <2>6, <3>2, <4>1 DEF Release!Key
      <4> QED
        BY <2>4, <4>1, <4>2
    <3> QED
      BY <2>3, <3>1, <3>2
  <2>8. JobSound'
    <3>1. CASE k = Len(Release!Steps(b))
      BY <2>3, <2>4, <3>1 DEF JobSound
    <3>2. CASE k # Len(Release!Steps(b))
      <4>1. k + 1 \in 1..Len(Release!Steps(b)) /\ k + 1 > 4 /\ k > 3 /\ k > 2 /\ k > 1
        BY <2>3, <3>2, StepsAre
      <4>2. /\ job \in Jobs /\ job.controller \in Stage(b.controller, TRUE)
            /\ IF b.admission = Nil THEN job.admission = Nil
                                    ELSE job.admission \in Stage(b.admission, TRUE)
            /\ b.installation \in images
            /\ job.installation \in Pushed(b.installation) \cup {b.installation}
        BY <2>2, <4>1 DEF AtStep, Stage
      <4>3. AtStep(b, k + 1)'
        BY <1>1, <2>3, <2>4, <2>7, <4>1, <4>2 DEF AtStep, Stage
      <4> QED
        BY <4>1, <4>3 DEF JobSound
    <3> QED
      BY <3>1, <3>2
  <2>9. OverwriteSound' /\ DevSound'
    BY <1>1, <2>4, <2>6 DEF ReleaseSound, OverwriteSound, DevSound
  <2>10. ChartsResolve'
    BY <1>1, <2>4, <2>6 DEF ReleaseSound, ChartsResolve, Release!ChartsResolve
  <2>11. AdmissionBehindController'
    <3> SUFFICES ASSUME NEW c \in charts'
                 PROVE  \E e \in charts' :
                           e.name = "runtime-kata" /\ e.at = c.at /\ e.version = c.version
      BY DEF AdmissionBehindController, Release!AdmissionBehindController
    <3>1. CASE c = chart
      BY <2>6, <2>7, <3>1
    <3>2. CASE c # chart
      <4>1. PICK e \in charts :
              e.name = "runtime-kata" /\ e.at = c.at /\ e.version = c.version
        BY <2>4, <3>2 DEF ReleaseSound, AdmissionBehindController,
                          Release!AdmissionBehindController
      <4>2. CASE Release!Key(e) = Release!Key(chart)
        BY <2>4, <4>1, <4>2 DEF Release!Key
      <4>3. CASE Release!Key(e) # Release!Key(chart)
        BY <2>4, <4>1, <4>3
      <4> QED
        BY <4>2, <4>3
    <3> QED
      BY <3>1, <3>2
  <2> QED
    BY <1>2, <2>8, <2>9, <2>10, <2>11 DEF ReleaseSound
<1> QED
  BY <1>3, <1>4

\* A controller that is deployed reads the tag of its overwrite.
LEMMA DeployKeeps ==
    ASSUME ReleaseSound, UNCHANGED source, NEW chart \in charts, Release!Deploy(chart)
    PROVE  ReleaseSound'
<1>1. /\ chart.overwrite # Nil /\ UNCHANGED <<images, charts, job, todo>>
      /\ image' = [Release!Vector!Unset EXCEPT !.tag = chart.overwrite.tag]
      /\ version' = Release!Vector!VersionFromImage(image')
  BY DEF Release!Deploy, Release!releaseVars
<1>2. PICK b \in Builds : /\ chart.overwrite.tag = Release!image_tag_pushed(b.installation)
                          /\ b.installation \in images
  BY <1>1 DEF ReleaseSound, OverwriteSound
<1>3. /\ Release!image_tag_pushed(b.installation) \in Texts
      /\ Controller!validVersion(Release!image_tag_pushed(b.installation))
  BY BuildsAssumption, BuildParts, ReferenceParts
<1>4. version' = Release!image_tag_pushed(b.installation)
  <2>1. Release!Vector!Unset = Controller!Unset
    BY DEF Release!Vector!Unset, Controller!Unset
  <2> QED
    BY <1>1, <1>2, <1>3, <2>1, SameVersion, OverwriteRead
<1>5. DeployedReadsTag'
  BY <1>1, <1>2, <1>4 DEF DeployedReadsTag, Release!DeployedReadsTag
<1>6. JobSound'
  BY <1>1 DEF ReleaseSound, JobSound, AtStep, Stage
<1>7. OverwriteSound' /\ DevSound' /\ ChartsResolve' /\ AdmissionBehindController'
  BY <1>1 DEF ReleaseSound, OverwriteSound, DevSound, ChartsResolve, Release!ChartsResolve,
              AdmissionBehindController, Release!AdmissionBehindController
<1> QED
  BY <1>5, <1>6, <1>7 DEF ReleaseSound

\* Jobs that end anywhere leave a registry whose charts name what is there, and a job
\* that goes on has pushed what its next steps rest on.
THEOREM ReleaseCorrect == Spec => []ReleaseSound
<1>1. Init => ReleaseSound
  <2> SUFFICES ASSUME Init PROVE ReleaseSound
    OBVIOUS
  <2>1. /\ charts = {} /\ todo = <<>> /\ image = Release!Vector!Unset
    BY DEF Init, Release!Init
  <2> QED
    BY <2>1 DEF ReleaseSound, JobSound, OverwriteSound, DevSound, ChartsResolve,
                Release!ChartsResolve, AdmissionBehindController,
                Release!AdmissionBehindController, DeployedReadsTag,
                Release!DeployedReadsTag
<1>2. ReleaseSound /\ [Next]_vars => ReleaseSound'
  <2> SUFFICES ASSUME ReleaseSound, [Next]_vars PROVE ReleaseSound'
    OBVIOUS
  <2>1. UNCHANGED source
    BY DEF Next, vars
  <2>2. CASE Release!Next
    <3>1. ASSUME NEW b \in Builds, Release!Begin(b) PROVE ReleaseSound'
      BY <2>1, <3>1, BeginKeeps
    <3>2. ASSUME NEW chart \in charts, Release!Deploy(chart) PROVE ReleaseSound'
      BY <2>1, <3>2, DeployKeeps
    <3> QED
      BY <2>1, <2>2, <3>1, <3>2, PushImageKeeps, PushChartKeeps DEF Release!Next
  <2>3. CASE /\ UNCHANGED releaseVars
             /\ source = "release" => UNCHANGED controllerVars
    <3>1. UNCHANGED <<images, charts, job, todo>>
      BY <2>3 DEF releaseVars
    <3>2. JobSound'
      BY <3>1 DEF ReleaseSound, JobSound, AtStep, Stage
    <3>3. OverwriteSound' /\ DevSound' /\ ChartsResolve' /\ AdmissionBehindController'
      BY <3>1 DEF ReleaseSound, OverwriteSound, DevSound, ChartsResolve,
                  Release!ChartsResolve, AdmissionBehindController,
                  Release!AdmissionBehindController
    <3>4. DeployedReadsTag'
      BY <2>1, <2>3, <3>1 DEF ReleaseSound, DeployedReadsTag, Release!DeployedReadsTag,
                              controllerVars
    <3> QED
      BY <3>2, <3>3, <3>4 DEF ReleaseSound
  <2>4. \/ Release!Next
        \/ /\ UNCHANGED releaseVars
           /\ source = "release" => UNCHANGED controllerVars
    BY DEF Next, vars
  <2> QED
    BY <2>2, <2>3, <2>4
<1> QED
  BY <1>1, <1>2, PTL DEF Spec

\* Every chart in the registry names images that are there, however many jobs ended
\* between their steps.
THEOREM ChartsAlwaysResolve == Spec => []ChartsResolve
<1>1. ReleaseSound => ChartsResolve
  BY DEF ReleaseSound
<1> QED
  BY <1>1, ReleaseCorrect, PTL

\* A controller of a released chart reads the tag that its installation image has.
THEOREM ReleasedReadsTag == Spec => []DeployedReadsTag
<1>1. ReleaseSound => DeployedReadsTag
  BY DEF ReleaseSound
<1> QED
  BY <1>1, ReleaseCorrect, PTL

\* No version has admission charts and not the controller's.
THEOREM ControllerFirst == Spec => []AdmissionBehindController
<1>1. ReleaseSound => AdmissionBehindController
  BY DEF ReleaseSound
<1> QED
  BY <1>1, ReleaseCorrect, PTL

\* What replaces a chart is a dev build's if and only if the chart was, unless a commit
\* has a tag that ends in "-dev" by itself.
THEOREM DevApart ==
    ASSUME PlainTags
    PROVE  Spec => DevReplacesDev
<1>1. ReleaseSound /\ ReleaseSound' /\ [Next]_vars =>
        [\A c \in charts \ charts', d \in charts' \ charts :
            Nil \notin {c.image, d.image} =>
            Release!EndsIn(c.image.repository, "-dev")
              = Release!EndsIn(d.image.repository, "-dev")]_(Release!vars)
  <2> SUFFICES ASSUME ReleaseSound, ReleaseSound', [Next]_vars,
                      NEW c \in charts \ charts', NEW d \in charts' \ charts,
                      c.image # Nil, d.image # Nil
               PROVE  Release!EndsIn(c.image.repository, "-dev")
                        = Release!EndsIn(d.image.repository, "-dev")
    OBVIOUS
  <2>1. Release!PushChart
    BY DEF Next, vars, releaseVars, Release!Next, Release!Begin, Release!PushImage,
           Release!Deploy, Release!releaseVars
  <2>2. PICK chart : charts' = {e \in charts : Release!Key(e) # Release!Key(chart)} \cup {chart}
    BY <2>1 DEF Release!PushChart
  <2>3. Release!Key(c) = Release!Key(d)
    BY <2>2
  <2>4. c.version = d.version
    BY <2>3 DEF Release!Key
  <2>5. Release!EndsIn(c.image.repository, "-dev") <=> Release!EndsIn(c.version, "-dev")
    BY DEF ReleaseSound, DevSound
  <2>6. Release!EndsIn(d.image.repository, "-dev") <=> Release!EndsIn(d.version, "-dev")
    BY DEF ReleaseSound, DevSound
  <2> QED
    BY <2>4, <2>5, <2>6 DEF Release!EndsIn
<1> QED
  BY <1>1, ReleaseCorrect, PTL DEF Spec, DevReplacesDev, Release!DevReplacesDev
=============================================================================
