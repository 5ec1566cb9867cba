----------------------------- MODULE ListLemmas -----------------------------
(***************************************************************************)
(* Facts about sequences that the proofs about the kernel's lists rest on: *)
(* which elements a list has after an insertion or a removal, and that     *)
(* none of them gets on it twice.  And what a chain of links in memory     *)
(* holds.                                                                  *)
(***************************************************************************)
EXTENDS Integers, SequencesExt, Chains, SequenceTheorems, FiniteSetTheorems,
        WellFoundedInduction, TLAPS

\* A set of natural numbers that is not empty has a least one.
LEMMA Least ==
    ASSUME NEW T \in SUBSET Nat, T # {}
    PROVE  \E m \in T : \A k \in T : m <= k
<1>1. IsWellFoundedOn(OpToRel(<, Nat), Nat)
  BY NatLessThanWellFounded
<1>2. PICK x \in T : \A y \in T : ~ (<<y, x>> \in OpToRel(<, Nat))
  BY <1>1, WFMin, Zenon
<1>3. \A y \in T : ~ (y < x)
  BY <1>2 DEF OpToRel
<1> QED
  BY <1>3

\* What is on a list has a place on it (DOMAIN and Len of a sequence).
LEMMA Places ==
    ASSUME NEW S, NEW s \in Seq(S)
    PROVE  /\ DOMAIN s = 1 .. Len(s)
           /\ Len(s) \in Nat
           /\ ToSet(s) \subseteq S
           /\ s = <<>> <=> ToSet(s) = {}
           /\ s = <<>> <=> Len(s) = 0
  BY DEF ToSet

\* Nothing is on the empty list.
LEMMA NoneOnEmpty == ToSet(<<>>) = {} /\ IsInjective(<<>>)
  BY DEF ToSet, IsInjective

\* List_insert at the end.
LEMMA Appended ==
    ASSUME NEW S, NEW s \in Seq(S), NEW e \in S
    PROVE  /\ Append(s, e) \in Seq(S)
           /\ ToSet(Append(s, e)) = ToSet(s) \union {e}
           /\ IsInjective(s) /\ e \notin ToSet(s) => IsInjective(Append(s, e))
<1>1. /\ Append(s, e) \in Seq(S)
      /\ Len(Append(s, e)) = Len(s) + 1
      /\ \A i \in 1 .. Len(s) : Append(s, e)[i] = s[i]
      /\ Append(s, e)[Len(s) + 1] = e
  BY AppendProperties
<1>2. DOMAIN Append(s, e) = 1 .. Len(s) + 1 /\ DOMAIN s = 1 .. Len(s) /\ Len(s) \in Nat
  BY <1>1, LenProperties
<1>3. ToSet(Append(s, e)) = ToSet(s) \union {e}
  BY <1>1, <1>2 DEF ToSet
<1>4. IsInjective(s) /\ e \notin ToSet(s) => IsInjective(Append(s, e))
  BY <1>1, <1>2 DEF IsInjective, ToSet
<1> QED
  BY <1>1, <1>3, <1>4

\* List_detach of the first item.
LEMMA Detached ==
    ASSUME NEW S, NEW s \in Seq(S), s # <<>>
    PROVE  /\ Head(s) \in S /\ Tail(s) \in Seq(S)
           /\ Head(s) \in ToSet(s)
           /\ ToSet(s) = ToSet(Tail(s)) \union {Head(s)}
           /\ IsInjective(s) => IsInjective(Tail(s)) /\ Head(s) \notin ToSet(Tail(s))
<1>1. /\ Head(s) \in S /\ Tail(s) \in Seq(S)
      /\ Len(Tail(s)) = Len(s) - 1
      /\ \A i \in 1 .. Len(Tail(s)) : Tail(s)[i] = s[i + 1]
  BY HeadTailProperties
<1>2. /\ DOMAIN s = 1 .. Len(s) /\ Len(s) \in Nat \ {0}
      /\ DOMAIN Tail(s) = 1 .. Len(s) - 1
      /\ Head(s) = s[1]
  BY <1>1, LenProperties, EmptySeq
<1>3. ToSet(s) \subseteq ToSet(Tail(s)) \union {Head(s)}
  <2> SUFFICES ASSUME NEW i \in 1 .. Len(s), i # 1
               PROVE  s[i] \in ToSet(Tail(s))
    BY <1>2 DEF ToSet
  <2>1. i - 1 \in DOMAIN Tail(s) /\ Tail(s)[i - 1] = s[i]
    BY <1>1, <1>2
  <2> QED
    BY <2>1 DEF ToSet
<1>4. ToSet(Tail(s)) \union {Head(s)} \subseteq ToSet(s)
  BY <1>1, <1>2 DEF ToSet
<1>5. IsInjective(s) => IsInjective(Tail(s)) /\ Head(s) \notin ToSet(Tail(s))
  BY <1>1, <1>2 DEF IsInjective, ToSet
<1> QED
  BY <1>1, <1>3, <1>4, <1>5

\* One list put before another.
LEMMA Joined ==
    ASSUME NEW S, NEW s \in Seq(S), NEW t \in Seq(S)
    PROVE  /\ s \o t \in Seq(S)
           /\ ToSet(s \o t) = ToSet(s) \union ToSet(t)
           /\ IsInjective(s) /\ IsInjective(t) /\ ToSet(s) \intersect ToSet(t) = {}
                 => IsInjective(s \o t)
<1>1. /\ s \o t \in Seq(S)
      /\ Len(s \o t) = Len(s) + Len(t)
      /\ \A i \in 1 .. Len(s) + Len(t) :
            (s \o t)[i] = IF i <= Len(s) THEN s[i] ELSE t[i - Len(s)]
  BY ConcatProperties
<1>2. /\ DOMAIN s = 1 .. Len(s) /\ DOMAIN t = 1 .. Len(t)
      /\ Len(s) \in Nat /\ Len(t) \in Nat
      /\ DOMAIN (s \o t) = 1 .. Len(s) + Len(t)
  BY <1>1, LenProperties
<1>3. ToSet(s \o t) \subseteq ToSet(s) \union ToSet(t)
  BY <1>1, <1>2 DEF ToSet
<1>4. ToSet(s) \subseteq ToSet(s \o t)
  BY <1>1, <1>2 DEF ToSet
<1>5. ToSet(t) \subseteq ToSet(s \o t)
  <2> SUFFICES ASSUME NEW i \in 1 .. Len(t)
               PROVE  t[i] \in ToSet(s \o t)
    BY <1>2 DEF ToSet
  <2>1. Len(s) + i \in DOMAIN (s \o t) /\ (s \o t)[Len(s) + i] = t[i]
    BY <1>1, <1>2
  <2> QED
    BY <2>1 DEF ToSet
<1>6. ASSUME IsInjective(s), IsInjective(t), ToSet(s) \intersect ToSet(t) = {}
      PROVE  IsInjective(s \o t)
  <2> SUFFICES ASSUME NEW i \in 1 .. Len(s) + Len(t), NEW j \in 1 .. Len(s) + Len(t),
                      (s \o t)[i] = (s \o t)[j]
               PROVE  i = j
    BY <1>2 DEF IsInjective
  <2>1. CASE i <= Len(s) /\ j <= Len(s)
    BY <2>1, <1>1, <1>2, <1>6 DEF IsInjective
  <2>2. CASE i > Len(s) /\ j > Len(s)
    BY <2>2, <1>1, <1>2, <1>6 DEF IsInjective
  <2>3. CASE i <= Len(s) /\ j > Len(s)
    <3>1. s[i] \in ToSet(s) /\ t[j - Len(s)] \in ToSet(t)
      BY <2>3, <1>2 DEF ToSet
    <3> QED
      BY <3>1, <2>3, <1>1, <1>2, <1>6
  <2>4. CASE i > Len(s) /\ j <= Len(s)
    <3>1. t[i - Len(s)] \in ToSet(t) /\ s[j] \in ToSet(s)
      BY <2>4, <1>2 DEF ToSet
    <3> QED
      BY <3>1, <2>4, <1>1, <1>2, <1>6
  <2> QED
    BY <1>2, <2>1, <2>2, <2>3, <2>4
<1> QED
  BY <1>1, <1>3, <1>4, <1>5, <1>6

\* The block given back last is the first to be given out.
LEMMA PutInFront ==
    ASSUME NEW S, NEW s \in Seq(S), NEW e \in S
    PROVE  /\ <<e>> \o s \in Seq(S)
           /\ ToSet(<<e>> \o s) = ToSet(s) \union {e}
           /\ IsInjective(s) /\ e \notin ToSet(s) => IsInjective(<<e>> \o s)
<1> DEFINE t == <<e>>
<1>1. t \in Seq(S) /\ ToSet(t) = {e} /\ IsInjective(t)
  BY DEF ToSet, IsInjective
<1> HIDE DEF t
<1>2. /\ t \o s \in Seq(S)
      /\ ToSet(t \o s) = ToSet(t) \union ToSet(s)
      /\ IsInjective(t) /\ IsInjective(s) /\ ToSet(t) \intersect ToSet(s) = {}
            => IsInjective(t \o s)
  BY <1>1, Joined
<1>3. e \notin ToSet(s) => ToSet(t) \intersect ToSet(s) = {}
  BY <1>1
<1>4. ToSet(t \o s) = ToSet(s) \union {e}
  BY <1>1, <1>2
<1> QED
  BY <1>1, <1>2, <1>3, <1>4 DEF t

\* The last part of a list, from any place on.
LEMMA Suffix ==
    ASSUME NEW S, NEW s \in Seq(S), NEW k \in 0 .. Len(s)
    PROVE  /\ SubSeq(s, k + 1, Len(s)) \in Seq(S)
           /\ Len(SubSeq(s, k + 1, Len(s))) = Len(s) - k
           /\ \A i \in 1 .. Len(s) - k : SubSeq(s, k + 1, Len(s))[i] = s[k + i]
<1>1. DOMAIN s = 1 .. Len(s) /\ Len(s) \in Nat /\ \A i \in k + 1 .. Len(s) : s[i] \in S
  BY LenProperties
<1> DEFINE b == SubSeq(s, k + 1, Len(s))
<1>2. /\ b \in Seq(S)
      /\ Len(b) = IF k + 1 <= Len(s) THEN Len(s) - (k + 1) + 1 ELSE 0
      /\ \A i \in 1 .. Len(s) - (k + 1) + 1 : b[i] = s[k + 1 + i - 1]
  BY <1>1, SubSeqProperties
<1> HIDE DEF b
<1>3. k \in Nat /\ k <= Len(s)
  BY <1>1
<1>4. Len(b) = Len(s) - k
  <2>1. CASE k + 1 <= Len(s)
    BY <2>1, <1>1, <1>2, <1>3
  <2>2. CASE k = Len(s)
    BY <2>2, <1>1, <1>2, <1>3
  <2>3. \A n \in Nat : k <= n => k + 1 <= n \/ k = n
    BY <1>3
  <2> QED
    BY <2>1, <2>2, <2>3, <1>1, <1>3
<1>5. ASSUME NEW i \in 1 .. Len(s) - k
      PROVE  b[i] = s[k + i]
  <2>1. i \in 1 .. Len(s) - (k + 1) + 1 /\ k + 1 + i - 1 = k + i
    BY <1>1, <1>3
  <2> QED
    BY <1>2, <2>1
<1> QED
  BY <1>2, <1>4, <1>5 DEF b

\* The first part of a list, up to any place.
LEMMA Prefix ==
    ASSUME NEW S, NEW s \in Seq(S), NEW k \in 0 .. Len(s)
    PROVE  /\ SubSeq(s, 1, k) \in Seq(S)
           /\ Len(SubSeq(s, 1, k)) = k
           /\ \A i \in 1 .. k : SubSeq(s, 1, k)[i] = s[i]
<1>1. DOMAIN s = 1 .. Len(s) /\ Len(s) \in Nat /\ \A i \in 1 .. k : s[i] \in S
  BY LenProperties
<1> DEFINE a == SubSeq(s, 1, k)
<1>2. /\ a \in Seq(S)
      /\ Len(a) = IF 1 <= k THEN k - 1 + 1 ELSE 0
      /\ \A i \in 1 .. k - 1 + 1 : a[i] = s[1 + i - 1]
  BY <1>1, SubSeqProperties
<1> HIDE DEF a
<1>3. Len(a) = k
  BY <1>1, <1>2
<1>4. ASSUME NEW i \in 1 .. k
      PROVE  a[i] = s[i]
  <2>1. i \in 1 .. k - 1 + 1 /\ 1 + i - 1 = i
    BY <1>1
  <2> QED
    BY <1>2, <2>1
<1> QED
  BY <1>2, <1>3, <1>4 DEF a

\* List_detach of the item at a place.
LEMMA Removed ==
    ASSUME NEW S, NEW s \in Seq(S), NEW k \in DOMAIN s
    PROVE  /\ RemoveAt(s, k) \in Seq(S)
           /\ Len(RemoveAt(s, k)) = Len(s) - 1
           /\ \A i \in 1 .. k - 1 : RemoveAt(s, k)[i] = s[i]
           /\ \A i \in k .. Len(s) - 1 : RemoveAt(s, k)[i] = s[i + 1]
<1> DEFINE a == SubSeq(s, 1, k - 1)
           b == SubSeq(s, k + 1, Len(s))
<1>1. DOMAIN s = 1 .. Len(s) /\ Len(s) \in Nat /\ k \in Nat /\ \A i \in 1 .. Len(s) : s[i] \in S
  BY LenProperties
<1>2. /\ a \in Seq(S) /\ Len(a) = k - 1
      /\ \A i \in 1 .. k - 1 : a[i] = s[i]
  <2>1. k - 1 \in 0 .. Len(s)
    BY <1>1
  <2> QED
    BY <2>1, Prefix
<1>3. /\ b \in Seq(S) /\ Len(b) = Len(s) - k
      /\ \A i \in 1 .. Len(s) - k : b[i] = s[k + i]
  <2>1. k \in 0 .. Len(s)
    BY <1>1
  <2> HIDE DEF b
  <2>2. b = SubSeq(s, k + 1, Len(s))
    BY DEF b
  <2>3. /\ SubSeq(s, k + 1, Len(s)) \in Seq(S) /\ Len(SubSeq(s, k + 1, Len(s))) = Len(s) - k
        /\ \A i \in 1 .. Len(s) - k : SubSeq(s, k + 1, Len(s))[i] = s[k + i]
    BY <2>1, Suffix
  <2> QED
    BY <2>2, <2>3
<1> HIDE DEF a, b
<1>4. RemoveAt(s, k) = a \o b
  BY DEF RemoveAt, a, b
<1>5. /\ a \o b \in Seq(S)
      /\ Len(a \o b) = Len(s) - 1
      /\ \A i \in 1 .. Len(s) - 1 : (a \o b)[i] = IF i <= k - 1 THEN a[i] ELSE b[i - (k - 1)]
  <2>1. /\ a \o b \in Seq(S)
        /\ Len(a \o b) = Len(a) + Len(b)
        /\ \A i \in 1 .. Len(a) + Len(b) :
              (a \o b)[i] = IF i <= Len(a) THEN a[i] ELSE b[i - Len(a)]
    BY <1>2, <1>3, ConcatProperties
  <2>2. Len(a) + Len(b) = Len(s) - 1
    BY <1>1, <1>2, <1>3
  <2> QED
    BY <2>1, <2>2, <1>2
<1>6. \A i \in 1 .. k - 1 : (a \o b)[i] = s[i]
  BY <1>1, <1>2, <1>5
<1>7. ASSUME NEW i \in k .. Len(s) - 1
      PROVE  (a \o b)[i] = s[i + 1]
  <2>1. i - (k - 1) \in 1 .. Len(s) - k /\ k + (i - (k - 1)) = i + 1
    BY <1>1
  <2>2. b[i - (k - 1)] = s[i + 1]
    BY <2>1, <1>3
  <2>3. i \in 1 .. Len(s) - 1 /\ ~(i <= k - 1)
    BY <1>1
  <2> QED
    BY <2>2, <2>3, <1>5
<1> QED
  BY <1>4, <1>5, <1>6, <1>7

\* Without the item the list holds the others, each at most as often as before.
LEMMA RemovedSet ==
    ASSUME NEW S, NEW s \in Seq(S), NEW k \in DOMAIN s, IsInjective(s)
    PROVE  /\ RemoveAt(s, k) \in Seq(S)
           /\ ToSet(RemoveAt(s, k)) = ToSet(s) \ {s[k]}
           /\ IsInjective(RemoveAt(s, k))
<1> DEFINE r == RemoveAt(s, k)
<1>1. DOMAIN s = 1 .. Len(s) /\ Len(s) \in Nat /\ k \in 1 .. Len(s)
  BY LenProperties
<1>2. /\ r \in Seq(S) /\ Len(r) = Len(s) - 1
      /\ \A i \in 1 .. k - 1 : r[i] = s[i]
      /\ \A i \in k .. Len(s) - 1 : r[i] = s[i + 1]
  BY Removed
<1> HIDE DEF r
<1>3. DOMAIN r = 1 .. Len(s) - 1
  BY <1>2, LenProperties
<1> DEFINE at(i) == IF i < k THEN i ELSE i + 1
<1>4. ASSUME NEW i \in DOMAIN r
       PROVE  at(i) \in DOMAIN s /\ at(i) # k /\ r[i] = s[at(i)]
  <2>1. CASE i < k
    BY <2>1, <1>1, <1>2, <1>3
  <2>2. CASE ~(i < k)
    BY <2>2, <1>1, <1>2, <1>3
  <2> QED
    BY <2>1, <2>2
<1>5. \A i, j \in DOMAIN r : at(i) = at(j) => i = j
  BY <1>1, <1>3
<1> HIDE DEF at
<1>6. ToSet(r) \subseteq ToSet(s) \ {s[k]}
  BY <1>4 DEF ToSet, IsInjective
<1>7. ToSet(s) \ {s[k]} \subseteq ToSet(r)
  <2> SUFFICES ASSUME NEW i \in 1 .. Len(s), i # k
               PROVE  s[i] \in ToSet(r)
    BY <1>1 DEF ToSet
  <2>1. CASE i < k
    BY <2>1, <1>1, <1>2, <1>3 DEF ToSet
  <2>2. CASE i > k
    <3>1. i - 1 \in 1 .. Len(s) - 1 /\ r[i - 1] = s[i]
      BY <2>2, <1>1, <1>2
    <3> QED
      BY <3>1, <1>3 DEF ToSet
  <2> QED
    BY <1>1, <2>1, <2>2
<1>8. IsInjective(r)
  BY <1>4, <1>5 DEF IsInjective
<1> QED
  BY <1>2, <1>6, <1>7, <1>8 DEF r

\* List_insert after k items.
LEMMA Inserted ==
    ASSUME NEW S, NEW s \in Seq(S), NEW k \in 0 .. Len(s), NEW e \in S
    PROVE  /\ InsertAt(s, k + 1, e) \in Seq(S)
           /\ Len(InsertAt(s, k + 1, e)) = Len(s) + 1
           /\ \A i \in 1 .. k : InsertAt(s, k + 1, e)[i] = s[i]
           /\ InsertAt(s, k + 1, e)[k + 1] = e
           /\ \A i \in k + 2 .. Len(s) + 1 : InsertAt(s, k + 1, e)[i] = s[i - 1]
<1> DEFINE a == SubSeq(s, 1, k)
           b == SubSeq(s, k + 1, Len(s))
<1>1. Len(s) \in Nat /\ k \in Nat /\ k <= Len(s)
  BY LenProperties
<1>2. /\ a \in Seq(S) /\ Len(a) = k /\ \A i \in 1 .. k : a[i] = s[i]
      /\ b \in Seq(S) /\ Len(b) = Len(s) - k /\ \A i \in 1 .. Len(s) - k : b[i] = s[k + i]
  BY Prefix, Suffix
<1> HIDE DEF a, b
<1>3. InsertAt(s, k + 1, e) = a \o <<e>> \o b
  <2> DEFINE j == k + 1
  <2>1. j - 1 = k
    BY <1>1
  <2> HIDE DEF j
  <2>2. InsertAt(s, j, e) = SubSeq(s, 1, j - 1) \o <<e>> \o SubSeq(s, j, Len(s))
    BY DEF InsertAt
  <2>3. InsertAt(s, j, e) = a \o <<e>> \o SubSeq(s, j, Len(s))
    BY <2>1, <2>2 DEF a
  <2> QED
    BY <2>3 DEF j, b
<1>4. <<e>> \in Seq(S) /\ Len(<<e>>) = 1 /\ <<e>>[1] = e
  OBVIOUS
<1> DEFINE c == a \o <<e>>
<1>5. /\ c \in Seq(S) /\ Len(c) = k + 1
      /\ \A i \in 1 .. k + 1 : c[i] = IF i <= k THEN s[i] ELSE e
  <2>1. /\ c \in Seq(S)
        /\ Len(c) = Len(a) + Len(<<e>>)
        /\ \A i \in 1 .. Len(a) + Len(<<e>>) :
              c[i] = IF i <= Len(a) THEN a[i] ELSE <<e>>[i - Len(a)]
    BY <1>2, <1>4, ConcatProperties
  <2>2. ASSUME NEW i \in 1 .. k + 1, ~(i <= k)
        PROVE  i - k = 1
    BY <1>1, <2>2
  <2> HIDE DEF c
  <2> QED
    BY <2>1, <2>2, <1>1, <1>2, <1>4
<1> HIDE DEF c
<1>6. /\ c \o b \in Seq(S) /\ Len(c \o b) = Len(s) + 1
      /\ \A i \in 1 .. Len(s) + 1 : (c \o b)[i] = IF i <= k + 1 THEN c[i] ELSE b[i - (k + 1)]
  <2>1. /\ c \o b \in Seq(S)
        /\ Len(c \o b) = Len(c) + Len(b)
        /\ \A i \in 1 .. Len(c) + Len(b) :
              (c \o b)[i] = IF i <= Len(c) THEN c[i] ELSE b[i - Len(c)]
    BY <1>2, <1>5, ConcatProperties
  <2>2. Len(c) + Len(b) = Len(s) + 1
    BY <1>1, <1>2, <1>5
  <2> QED
    BY <2>1, <2>2, <1>5
<1>7. /\ \A i \in 1 .. k : (c \o b)[i] = s[i]
      /\ (c \o b)[k + 1] = e
  <2>1. \A i \in 1 .. k + 1 : i \in 1 .. Len(s) + 1 /\ i <= k + 1
    BY <1>1
  <2>2. \A i \in 1 .. k + 1 : (c \o b)[i] = c[i]
    BY <2>1, <1>6
  <2>3. k + 1 \in 1 .. k + 1 /\ ~(k + 1 <= k) /\ \A i \in 1 .. k : i \in 1 .. k + 1 /\ i <= k
    BY <1>1
  <2> QED
    BY <2>2, <2>3, <1>5
<1>8. ASSUME NEW i \in k + 2 .. Len(s) + 1
      PROVE  (c \o b)[i] = s[i - 1]
  <2>1. i - (k + 1) \in 1 .. Len(s) - k /\ k + (i - (k + 1)) = i - 1
    BY <1>1
  <2>2. b[i - (k + 1)] = s[i - 1]
    BY <2>1, <1>2
  <2>3. i \in 1 .. Len(s) + 1 /\ ~(i <= k + 1)
    BY <1>1
  <2> QED
    BY <2>2, <2>3, <1>6
<1> QED
  <2>1. InsertAt(s, k + 1, e) = c \o b
    BY <1>3 DEF c
  <2> QED
    BY <2>1, <1>6, <1>7, <1>8

\* The item itself is behind the k-th.
LEMMA InsertedThere ==
    ASSUME NEW S, NEW s \in Seq(S), NEW k \in 0 .. Len(s), NEW e \in S
    PROVE  InsertAt(s, k + 1, e)[k + 1] = e
  BY Inserted

\* What is on a list after List_insert behind the k-th item.
LEMMA InsertedSet ==
    ASSUME NEW S, NEW s \in Seq(S), NEW k \in 0 .. Len(s), NEW e \in S
    PROVE  /\ InsertAt(s, k + 1, e) \in Seq(S)
           /\ ToSet(InsertAt(s, k + 1, e)) = ToSet(s) \union {e}
           /\ IsInjective(s) /\ e \notin ToSet(s) => IsInjective(InsertAt(s, k + 1, e))
<1>1. PICK a, b, c : /\ a = SubSeq(s, 1, k) /\ b = SubSeq(s, k + 1, Len(s))
                     /\ c = Append(a, e)
  OBVIOUS
<1>2. /\ Len(s) \in Nat /\ DOMAIN s = 1 .. Len(s)
      /\ k \in Nat /\ k <= Len(s)
  BY LenProperties
<1>3. /\ a \in Seq(S) /\ Len(a) = k /\ \A i \in 1 .. k : a[i] = s[i]
      /\ b \in Seq(S) /\ Len(b) = Len(s) - k /\ \A i \in 1 .. Len(s) - k : b[i] = s[k + i]
  BY <1>1, Prefix, Suffix
<1>4. DOMAIN a = 1 .. k /\ DOMAIN b = 1 .. Len(s) - k
  BY <1>3, LenProperties
<1>5. ToSet(a) \union ToSet(b) = ToSet(s)
  <2>1. \A i \in DOMAIN b : k + i \in DOMAIN s
    BY <1>2, <1>4
  <2>2. \A i \in DOMAIN a : i \in DOMAIN s
    BY <1>2, <1>4
  <2>3. ToSet(a) \subseteq ToSet(s) /\ ToSet(b) \subseteq ToSet(s)
    BY <2>1, <2>2, <1>3, <1>4 DEF ToSet
  <2>4. ASSUME NEW i \in DOMAIN s
        PROVE  s[i] \in ToSet(a) \union ToSet(b)
    <3>1. CASE i <= k
      <4>1. i \in DOMAIN a /\ a[i] = s[i]
        BY <3>1, <1>2, <1>3, <1>4
      <4> QED
        BY <4>1 DEF ToSet
    <3>2. CASE ~(i <= k)
      <4>1. PICK j \in 1 .. Len(s) - k : k + j = i
        <5>1. i - k \in 1 .. Len(s) - k /\ k + (i - k) = i
          BY <3>2, <1>2
        <5> QED
          BY <5>1
      <4>2. j \in DOMAIN b /\ b[j] = s[i]
        BY <4>1, <1>3, <1>4
      <4> QED
        BY <4>2 DEF ToSet
    <3> QED
      BY <3>1, <3>2
  <2> QED
    BY <2>3, <2>4 DEF ToSet
<1>6. /\ c \in Seq(S) /\ ToSet(c) = ToSet(a) \union {e}
      /\ IsInjective(a) /\ e \notin ToSet(a) => IsInjective(c)
  <2>1. a \in Seq(S)
    BY <1>3
  <2>2. /\ Append(a, e) \in Seq(S) /\ ToSet(Append(a, e)) = ToSet(a) \union {e}
        /\ IsInjective(a) /\ e \notin ToSet(a) => IsInjective(Append(a, e))
    BY <2>1, Appended
  <2> QED
    BY <2>2, <1>1
<1>7. InsertAt(s, k + 1, e) = c \o b
  <2>1. (k + 1) - 1 = k
    BY <1>2
  <2>2. PICK j : j = k + 1
    OBVIOUS
  <2>3. InsertAt(s, j, e) = SubSeq(s, 1, j - 1) \o <<e>> \o SubSeq(s, j, Len(s))
    BY DEF InsertAt
  <2>4. a \o <<e>> = c
    BY <1>1, <1>3
  <2> QED
    BY <2>1, <2>2, <2>3, <2>4, <1>1
<1>8. /\ c \o b \in Seq(S) /\ ToSet(c \o b) = ToSet(c) \union ToSet(b)
      /\ IsInjective(c) /\ IsInjective(b) /\ ToSet(c) \intersect ToSet(b) = {}
           => IsInjective(c \o b)
  BY <1>3, <1>6, Joined
<1>9. ASSUME IsInjective(s), e \notin ToSet(s)
      PROVE  IsInjective(c \o b)
  <2>1. \A i, j \in DOMAIN s : s[i] = s[j] => i = j
    BY <1>9 DEF IsInjective
  <2>2. /\ \A i \in 1 .. k : i \in DOMAIN s
        /\ \A i \in 1 .. Len(s) - k : k + i \in DOMAIN s /\ \A j \in 1 .. k : j # k + i
    BY <1>2
  <2>3. IsInjective(a)
    BY <2>1, <2>2, <1>3, <1>4 DEF IsInjective
  <2>4. IsInjective(b)
    <3> SUFFICES ASSUME NEW i \in 1 .. Len(s) - k, NEW j \in 1 .. Len(s) - k, b[i] = b[j]
                 PROVE  i = j
      BY <1>4 DEF IsInjective
    <3>1. PICK m, n \in DOMAIN s : m = k + i /\ n = k + j
      BY <2>2
    <3>2. s[m] = s[n]
      BY <3>1, <1>3
    <3>3. k + i = k + j
      BY <3>1, <3>2, <2>1
    <3> QED
      BY <3>3, <1>2
  <2>5. ToSet(a) \intersect ToSet(b) = {}
    <3> SUFFICES ASSUME NEW i \in 1 .. k, NEW j \in 1 .. Len(s) - k, a[i] = b[j]
                 PROVE  FALSE
      BY <1>4 DEF ToSet
    <3>1. PICK n \in DOMAIN s : n = k + j /\ i # n /\ i \in DOMAIN s
      BY <2>2
    <3>2. s[i] = s[n]
      BY <3>1, <1>3
    <3> QED
      BY <3>1, <3>2, <2>1
  <2>6. e \notin ToSet(a) /\ e \notin ToSet(b)
    BY <1>5, <1>9
  <2> QED
    BY <2>3, <2>4, <2>5, <2>6, <1>6, <1>8
<1> QED
  BY <1>5, <1>6, <1>7, <1>8, <1>9

-----------------------------------------------------------------------------
(* Chains of links *)

\* s is what hangs on the links from `start` on, up to `end`, which is no node.
Hangs(s, start, link, end) ==
    /\ start = IF s = <<>> THEN end ELSE s[1]
    /\ \A i \in 1 .. Len(s) - 1 : link[s[i]] = s[i + 1]
    /\ s # <<>> => link[s[Len(s)]] = end

\* A list on which nothing is twice is no longer than there are things.
LEMMA LengthBound ==
    ASSUME NEW S, IsFiniteSet(S), NEW s \in Seq(S), IsInjective(s)
    PROVE  Len(s) <= Cardinality(S) /\ Cardinality(S) \in Nat
<1>1. /\ Cardinality(S) \in Nat
      /\ IsFiniteSet(1 .. Len(s)) /\ Cardinality(1 .. Len(s)) = Len(s)
      /\ Len(s) \in Nat /\ s \in [1 .. Len(s) -> S]
  <2>1. Len(s) \in Nat /\ s \in [1 .. Len(s) -> S]
    BY LenProperties
  <2>2. IsFiniteSet(1 .. Len(s)) /\ Cardinality(1 .. Len(s)) = Len(s)
    BY <2>1, FS_Interval
  <2> QED
    BY <2>1, <2>2, FS_CardinalityType
<1>2. \A i, j \in 1 .. Len(s) : s[i] = s[j] => i = j
  BY <1>1 DEF IsInjective
<1> QED
  BY <1>1, <1>2, FS_PigeonHole

\* What Chain meets is the list that hangs on the links: the first place at which
\* the two could differ follows one at which they do not.
LEMMA ChainIs ==
    ASSUME NEW nodes, IsFiniteSet(nodes), NEW link, NEW start, NEW end, end \notin nodes,
           NEW s \in Seq(nodes), IsInjective(s), Hangs(s, start, link, end)
    PROVE  Chain(start, link, nodes) = s
<1> DEFINE most == Cardinality(nodes) + 1
           Follows(f) == f = [k \in 1 .. most |->
               IF k = 1 THEN start
               ELSE IF f[k - 1] \in nodes THEN link[f[k - 1]] ELSE f[k - 1]]
           w == [k \in 1 .. most |-> IF k <= Len(s) THEN s[k] ELSE end]
           met == CHOOSE f : Follows(f)
<1>1. /\ Len(s) \in Nat /\ most \in Nat \ {0} /\ Len(s) + 1 <= most
      /\ \A i \in 1 .. Len(s) : s[i] \in nodes
      /\ s = [i \in 1 .. Len(s) |-> s[i]]
      /\ s = <<>> <=> Len(s) = 0
  <2>1. Len(s) <= Cardinality(nodes) /\ Cardinality(nodes) \in Nat
    BY LengthBound
  <2> QED
    BY <2>1, LenProperties, EmptySeq
<1> HIDE DEF most
<1>2. Follows(w)
  <2> SUFFICES ASSUME NEW k \in 1 .. most
               PROVE  w[k] = IF k = 1 THEN start
                             ELSE IF w[k - 1] \in nodes THEN link[w[k - 1]] ELSE w[k - 1]
    BY Zenon
  <2>1. CASE k = 1
    BY <2>1, <1>1 DEF Hangs
  <2>2. CASE k # 1 /\ k <= Len(s)
    <3>1. w[k] = s[k] /\ w[k - 1] = s[k - 1] /\ s[k - 1] \in nodes /\ k - 1 \in 1 .. Len(s) - 1
      BY <2>2, <1>1
    <3> QED
      BY <2>2, <3>1 DEF Hangs
  <2>3. CASE k # 1 /\ k > Len(s)
    <3>1. CASE k - 1 = Len(s)
      BY <3>1, <2>3, <1>1 DEF Hangs
    <3>2. CASE k - 1 > Len(s)
      BY <3>2, <2>3, <1>1
    <3> QED
      BY <3>1, <3>2, <2>3, <1>1
  <2> QED
    BY <2>1, <2>2, <2>3, <1>1
<1>3. Follows(met)
  BY <1>2, Zenon
<1> HIDE DEF met
<1>4. \A k \in 1 .. most : met[k] = w[k]
  <2> DEFINE Wrong == {k \in 1 .. most : met[k] # w[k]}
  <2> SUFFICES ASSUME Wrong # {}
               PROVE  FALSE
    OBVIOUS
  <2>1. PICK k \in Wrong : \A j \in Wrong : k <= j
    <3>1. Wrong \in SUBSET Nat
      BY <1>1
    <3> HIDE DEF Wrong
    <3> QED
      BY <3>1, Least
  <2>2. k \in 1 .. most /\ met[k] # w[k]
    OBVIOUS
  <2>3. met[k] = IF k = 1 THEN start
                 ELSE IF met[k - 1] \in nodes THEN link[met[k - 1]] ELSE met[k - 1]
    BY <1>3, <2>2
  <2>4. w[k] = IF k = 1 THEN start
               ELSE IF w[k - 1] \in nodes THEN link[w[k - 1]] ELSE w[k - 1]
    BY <1>2, <2>2
  <2>5. k # 1 => met[k - 1] = w[k - 1]
    <3> HIDE DEF w
    <3> QED
      BY <2>1, <2>2, <1>1
  <2> QED
    BY <2>2, <2>3, <2>4, <2>5
<1>5. {k \in 1 .. most : met[k] \in nodes} = 1 .. Len(s)
  BY <1>1, <1>4
<1>6. Cardinality({k \in 1 .. most : met[k] \in nodes}) = Len(s)
  <2>1. Len(s) \in Nat
    BY <1>1
  <2>2. PICK n \in Nat : n = Len(s)
    BY <2>1
  <2>3. Cardinality(1 .. n) = n
    <3>1. Cardinality(1 .. n) = IF 1 > n THEN 0 ELSE n - 1 + 1
      BY FS_Interval
    <3> QED
      BY <3>1
  <2> QED
    BY <1>5, <2>2, <2>3, Zenon
<1>7. [k \in 1 .. Len(s) |-> met[k]] = s
  BY <1>1, <1>4
<1>8. Chain(start, link, nodes) =
          [k \in 1 .. Cardinality({k \in 1 .. most : met[k] \in nodes}) |-> met[k]]
  BY Zenon DEF Chain, most, met
<1> QED
  BY <1>6, <1>7, <1>8
=============================================================================
