------------------------ MODULE LinkedListInvariants ------------------------
(***************************************************************************)
(* The linked lists are sequences: used the way the kernel uses them, the  *)
(* pointers of a list read the same in both directions through any         *)
(* insertions and removals, and no item gets on two lists.                 *)
(***************************************************************************)
EXTENDS LinkedList, ListLemmas

Pointer == ListItem \union {NULL}

\* The pointers of one list: s hangs on them forwards from f and backwards from l.
Strung(s, f, l, nxt, prv) ==
    /\ Hangs(s, f, nxt, NULL)
    /\ l = IF s = <<>> THEN NULL ELSE s[Len(s)]
    /\ \A i \in 1 .. Len(s) - 1 : prv[s[i + 1]] = s[i]
    /\ s # <<>> => prv[s[1]] = NULL

\* The pointers of all lists.
Lists(L, f, l, n, nxt, prv) ==
    /\ L \in [ListHead -> Seq(ListItem)]
    /\ \A h \in ListHead : /\ IsInjective(L[h])
                           /\ Strung(L[h], f[h], l[h], nxt, prv)
                           /\ n[h] = Len(L[h])
    /\ \A x \in ListItem : nxt[x] # NULL \/ prv[x] # NULL => \E h \in ListHead : x \in ToSet(L[h])
    /\ \A g, h \in ListHead : g # h => ToSet(L[g]) \intersect ToSet(L[h]) = {}

\* Beyond types and LinksAgree: no list runs in a circle.
ListInv ==
    /\ TypeOK
    /\ Lists([h \in ListHead |-> Forward(h)], first, last, size, next, prev)

-----------------------------------------------------------------------------
(* One list *)

\* Read backwards, s hangs on the links back.
LEMMA HangsBackwards ==
    ASSUME NEW s \in Seq(ListItem), IsInjective(s), NEW f, NEW l, NEW nxt, NEW prv,
           Strung(s, f, l, nxt, prv)
    PROVE  Reverse(s) \in Seq(ListItem) /\ IsInjective(Reverse(s)) /\ Hangs(Reverse(s), l, prv, NULL)
<1> DEFINE r == Reverse(s)
<1>1. /\ Len(s) \in Nat /\ DOMAIN s = 1 .. Len(s)
      /\ \A i \in 1 .. Len(s) : s[i] \in ListItem
      /\ s = <<>> <=> Len(s) = 0
  BY EmptySeq, LenProperties
<1>2. r = [i \in 1 .. Len(s) |-> s[(Len(s) - i) + 1]]
  BY DEF Reverse
<1>3. /\ r \in Seq(ListItem) /\ Len(r) = Len(s) /\ DOMAIN r = 1 .. Len(s)
      /\ \A i \in 1 .. Len(s) : r[i] = s[(Len(s) - i) + 1]
  BY <1>1, <1>2
<1> HIDE DEF r
<1>4. IsInjective(r)
  BY <1>1, <1>3 DEF IsInjective
<1>5. r = <<>> <=> s = <<>>
  BY <1>1, <1>3, EmptySeq
<1>6. l = IF r = <<>> THEN NULL ELSE r[1]
  BY <1>1, <1>3, <1>5 DEF Strung
<1>7. ASSUME NEW i \in 1 .. Len(r) - 1
      PROVE  prv[r[i]] = r[i + 1]
  <2>1. /\ Len(s) - i \in 1 .. Len(s) - 1
        /\ r[i] = s[(Len(s) - i) + 1] /\ r[i + 1] = s[Len(s) - i]
    BY <1>1, <1>3
  <2> QED
    BY <2>1 DEF Strung
<1>8. r # <<>> => prv[r[Len(r)]] = NULL
  BY <1>1, <1>3, <1>5 DEF Strung
<1> QED
  BY <1>3, <1>4, <1>6, <1>7, <1>8 DEF Hangs, r

\* What is on a list and has no neighbours is alone on it.
LEMMA AloneOrLinked ==
    ASSUME NEW s \in Seq(ListItem), NEW f, NEW l, NEW nxt, NEW prv, Strung(s, f, l, nxt, prv),
           NULL \notin ListItem, NEW item \in ToSet(s), nxt[item] = NULL, prv[item] = NULL
    PROVE  s = <<item>>
<1>1. /\ Len(s) \in Nat /\ DOMAIN s = 1 .. Len(s)
      /\ \A i \in 1 .. Len(s) : s[i] \in ListItem
  BY LenProperties
<1>2. PICK k \in 1 .. Len(s) : s[k] = item
  BY <1>1 DEF ToSet
<1>3. ~(k < Len(s))
  BY <1>1, <1>2 DEF Strung, Hangs
<1>4. ~(k > 1)
  <2> SUFFICES ASSUME k > 1
               PROVE  FALSE
    OBVIOUS
  <2>1. k - 1 \in 1 .. Len(s) - 1 /\ (k - 1) + 1 = k
    BY <1>1
  <2>2. prv[s[k]] = s[k - 1]
    BY <2>1 DEF Strung
  <2> QED
    BY <1>1, <1>2, <2>1, <2>2
<1>5. Len(s) = 1 /\ s[1] = item
  BY <1>1, <1>2, <1>3, <1>4
<1> QED
  BY <1>1, <1>5

\* A list does not notice what happens to the pointers of others.
LEMMA StrungElsewhere ==
    ASSUME NEW s \in Seq(ListItem), NEW f, NEW l, NEW nxt, NEW prv, Strung(s, f, l, nxt, prv),
           NEW nxt2, NEW prv2, \A x \in ToSet(s) : nxt2[x] = nxt[x] /\ prv2[x] = prv[x]
    PROVE  Strung(s, f, l, nxt2, prv2)
<1>1. /\ Len(s) \in Nat
      /\ \A i \in 1 .. Len(s) : s[i] \in ToSet(s)
      /\ s = <<>> <=> Len(s) = 0
  BY EmptySeq, LenProperties DEF ToSet
<1> QED
  BY <1>1 DEF Strung, Hangs

\* The places in front of and behind a gap after the k-th item.
Gap(s, k, before, after) ==
    /\ before = IF k = 0 THEN NULL ELSE s[k]
    /\ after = IF k = Len(s) THEN NULL ELSE s[k + 1]

\* The pointers of the items with `item` put between before and after.
NextWith(nxt, before, item, after) ==
    [x \in ListItem |-> IF x = item THEN after ELSE IF x = before THEN item ELSE nxt[x]]
PrevWith(prv, before, item, after) ==
    [x \in ListItem |-> IF x = item THEN before ELSE IF x = after THEN item ELSE prv[x]]

\* List_insert on a list of items.
LEMMA ItemInserted ==
    ASSUME NEW s \in Seq(ListItem), NEW k \in 0 .. Len(s), NEW item \in ListItem
    PROVE  /\ InsertAt(s, k + 1, item) \in Seq(ListItem)
           /\ Len(InsertAt(s, k + 1, item)) = Len(s) + 1
           /\ \A i \in 1 .. k : InsertAt(s, k + 1, item)[i] = s[i]
           /\ InsertAt(s, k + 1, item)[k + 1] = item
           /\ \A i \in k + 2 .. Len(s) + 1 : InsertAt(s, k + 1, item)[i] = s[i - 1]
<1> DEFINE S == ListItem
<1>1. s \in Seq(S) /\ item \in S
  OBVIOUS
<1> HIDE DEF S
<1>2. InsertAt(s, k + 1, item)[k + 1] = item
  BY <1>1, InsertedThere
<1>3. /\ InsertAt(s, k + 1, item) \in Seq(S)
      /\ Len(InsertAt(s, k + 1, item)) = Len(s) + 1
      /\ \A i \in 1 .. k : InsertAt(s, k + 1, item)[i] = s[i]
  BY <1>1, Inserted
<1>4. \A i \in k + 2 .. Len(s) + 1 : InsertAt(s, k + 1, item)[i] = s[i - 1]
  BY <1>1, Inserted
<1> QED
  BY <1>2, <1>3, <1>4 DEF S

\* List_insert behind the k-th item.
LEMMA StrungInserted ==
    ASSUME NEW s \in Seq(ListItem), IsInjective(s), NEW item \in ListItem, item \notin ToSet(s),
           NULL \notin ListItem, NEW k \in 0 .. Len(s),
           NEW f, NEW l, NEW nxt \in [ListItem -> Pointer], NEW prv \in [ListItem -> Pointer],
           Strung(s, f, l, nxt, prv), NEW before, NEW after, Gap(s, k, before, after)
    PROVE  /\ after = IF before = NULL THEN f ELSE nxt[before]
           /\ Strung(InsertAt(s, k + 1, item),
                     IF before = NULL THEN item ELSE f, IF after = NULL THEN item ELSE l,
                     NextWith(nxt, before, item, after), PrevWith(prv, before, item, after))
<1>1. PICK n \in Nat : n = Len(s)
  BY LenProperties
<1>2. PICK t : t = InsertAt(s, k + 1, item)
  OBVIOUS
<1>3. PICK nxt2, prv2 : /\ nxt2 = NextWith(nxt, before, item, after)
                        /\ prv2 = PrevWith(prv, before, item, after)
  OBVIOUS
<1>4. /\ k \in 0 .. n /\ k + 1 \in 1 .. n + 1
      /\ \A i \in 1 .. n : s[i] \in ListItem
      /\ s = <<>> <=> n = 0
  BY <1>1, EmptySeq, LenProperties
<1>5. \A i, j \in 1 .. n : s[i] = s[j] => i = j
  BY <1>1, LenProperties DEF IsInjective
<1>6. /\ t \in Seq(ListItem) /\ Len(t) = n + 1
      /\ \A i \in 1 .. k : t[i] = s[i]
      /\ t[k + 1] = item
      /\ \A i \in k + 2 .. n + 1 : t[i] = s[i - 1]
  <2>1. /\ InsertAt(s, k + 1, item) \in Seq(ListItem)
        /\ Len(InsertAt(s, k + 1, item)) = Len(s) + 1
        /\ \A i \in 1 .. k : InsertAt(s, k + 1, item)[i] = s[i]
        /\ InsertAt(s, k + 1, item)[k + 1] = item
        /\ \A i \in k + 2 .. Len(s) + 1 : InsertAt(s, k + 1, item)[i] = s[i - 1]
    BY ItemInserted, Zenon
  <2> QED
    BY <2>1, <1>1, <1>2, Zenon
<1>7. before = (IF k = 0 THEN NULL ELSE s[k]) /\ after = (IF k = n THEN NULL ELSE s[k + 1])
  BY <1>1 DEF Gap
<1>8. /\ f = IF n = 0 THEN NULL ELSE s[1]
      /\ l = IF n = 0 THEN NULL ELSE s[n]
      /\ \A i \in 1 .. n - 1 : nxt[s[i]] = s[i + 1] /\ prv[s[i + 1]] = s[i]
      /\ n # 0 => nxt[s[n]] = NULL /\ prv[s[1]] = NULL
  BY <1>1, <1>4 DEF Strung, Hangs
<1>9. \A i \in 1 .. n : s[i] # item
  BY <1>1, LenProperties DEF ToSet
<1>10. before = NULL <=> k = 0
  BY <1>4, <1>7
<1>11. after = NULL <=> k = n
  <2>1. k # n => k + 1 \in 1 .. n
    BY <1>1, <1>4
  <2> QED
    BY <1>4, <1>7, <2>1
<1>12. ASSUME NEW i \in 1 .. n
       PROVE  /\ s[i] = before => i = k
              /\ s[i] = after => i = k + 1
  <2>1. k # 0 => k \in 1 .. n
    BY <1>4
  <2>2. k # n => k + 1 \in 1 .. n
    BY <1>1, <1>4
  <2>3. s[i] # NULL
    BY <1>4
  <2>4. s[i] = before => i = k
    BY <1>5, <1>7, <2>1, <2>3
  <2>5. s[i] = after => i = k + 1
    BY <1>5, <1>7, <2>2, <2>3
  <2> QED
    BY <2>4, <2>5
<1>13. after = IF before = NULL THEN f ELSE nxt[before]
  <2>1. CASE k = 0
    <3>1. before = NULL
      BY <2>1, <1>7
    <3>2. k + 1 = 1
      BY <2>1
    <3>3. after = f
      BY <2>1, <3>2, <1>7, <1>8
    <3> QED
      BY <3>1, <3>3
  <2>2. CASE k # 0
    <3>1. before # NULL /\ before = s[k]
      BY <2>2, <1>7, <1>10
    <3>2. CASE k = n
      BY <2>2, <3>1, <3>2, <1>7, <1>8
    <3>3. CASE k # n
      <4>1. k \in 1 .. n - 1
        BY <2>2, <3>3, <1>4, <1>1
      <4>2. nxt[s[k]] = s[k + 1] /\ after = s[k + 1]
        BY <4>1, <3>3, <1>7, <1>8
      <4> QED
        BY <3>1, <4>2
    <3> QED
      BY <3>2, <3>3
  <2> QED
    BY <2>1, <2>2
<1>14. nxt2[item] = after /\ prv2[item] = before
  BY <1>3 DEF NextWith, PrevWith
<1>15. \A x \in ListItem : x = before /\ x # item => nxt2[x] = item
  BY <1>3 DEF NextWith
<1>16. \A x \in ListItem : x = after /\ x # item => prv2[x] = item
  BY <1>3 DEF PrevWith
<1>17. \A x \in ListItem : x # before /\ x # item => nxt2[x] = nxt[x]
  BY <1>3 DEF NextWith
<1>18. \A x \in ListItem : x # after /\ x # item => prv2[x] = prv[x]
  BY <1>3 DEF PrevWith
<1>19. t[1] = IF before = NULL THEN item ELSE f
  <2>1. CASE k = 0
    BY <2>1, <1>6, <1>10
  <2>2. CASE k # 0
    <3>1. 1 \in 1 .. k /\ n # 0
      BY <2>2, <1>1, <1>4
    <3> QED
      BY <2>2, <3>1, <1>6, <1>8, <1>10
  <2> QED
    BY <2>1, <2>2
<1>20. t[n + 1] = IF after = NULL THEN item ELSE l
  <2>1. CASE k = n
    BY <2>1, <1>6, <1>11
  <2>2. CASE k # n
    <3>1. n + 1 \in k + 2 .. n + 1 /\ (n + 1) - 1 = n /\ n # 0
      BY <2>2, <1>1, <1>4
    <3>2. t[n + 1] = s[n]
      BY <3>1, <1>6
    <3> QED
      BY <2>2, <3>1, <3>2, <1>8, <1>11
  <2> QED
    BY <2>1, <2>2
<1>21. ASSUME NEW i \in 1 .. n
       PROVE  nxt2[t[i]] = t[i + 1] /\ prv2[t[i + 1]] = t[i]
  <2>1. CASE i < k
    <3>1. /\ i \in 1 .. k /\ i + 1 \in 1 .. k /\ i \in 1 .. n - 1 /\ i + 1 \in 1 .. n
          /\ i # k /\ i + 1 # k + 1
      BY <2>1, <1>1, <1>4
    <3>2. PICK x, y : x = s[i] /\ y = s[i + 1]
      OBVIOUS
    <3>3. t[i] = x /\ t[i + 1] = y
      BY <3>1, <3>2, <1>6
    <3>4. nxt[x] = y /\ prv[y] = x
      BY <3>1, <3>2, <1>8
    <3>5. x \in ListItem /\ x # item /\ x # before /\ y \in ListItem /\ y # item /\ y # after
      BY <3>1, <3>2, <1>4, <1>9, <1>12
    <3> QED
      BY <3>3, <3>4, <3>5, <1>17, <1>18
  <2>2. CASE i = k
    <3>1. k # 0 /\ i \in 1 .. k
      BY <2>2
    <3>2. t[i] = before /\ t[i + 1] = item /\ before \in ListItem /\ before # item
      BY <2>2, <3>1, <1>4, <1>6, <1>7, <1>9
    <3> QED
      BY <3>2, <1>14, <1>15
  <2>3. CASE i = k + 1
    <3>1. /\ k # n /\ k + 1 \in 1 .. n /\ i + 1 \in k + 2 .. n + 1 /\ (i + 1) - 1 = i
      BY <2>3, <1>1, <1>4
    <3>2. t[i] = item /\ t[i + 1] = s[i]
      BY <2>3, <3>1, <1>6
    <3>3. s[i] = after /\ after \in ListItem /\ after # item
      BY <2>3, <3>1, <1>4, <1>7, <1>9
    <3> QED
      BY <3>2, <3>3, <1>14, <1>16
  <2>4. CASE i > k + 1
    <3>1. PICK j \in 1 .. n - 1 : i = j + 1
      <4>1. i - 1 \in 1 .. n - 1 /\ i = (i - 1) + 1
        BY <2>4, <1>1, <1>4
      <4> QED
        BY <4>1
    <3>2. /\ i \in k + 2 .. n + 1 /\ i - 1 = j /\ i + 1 \in k + 2 .. n + 1 /\ (i + 1) - 1 = i
          /\ j \in 1 .. n /\ j # k /\ i # k + 1
      BY <2>4, <3>1, <1>1, <1>4
    <3>3. PICK x, y : x = s[j] /\ y = s[i]
      OBVIOUS
    <3>4. t[i] = x /\ t[i + 1] = y
      BY <3>2, <3>3, <1>6
    <3>5. nxt[x] = y /\ prv[y] = x
      BY <3>1, <3>3, <1>8
    <3>6. x \in ListItem /\ x # item /\ x # before /\ y \in ListItem /\ y # item /\ y # after
      BY <3>2, <3>3, <1>4, <1>9, <1>12
    <3> QED
      BY <3>4, <3>5, <3>6, <1>17, <1>18
  <2> QED
    BY <2>1, <2>2, <2>3, <2>4, <1>1, <1>4
<1>22. prv2[t[1]] = NULL
  <2>1. CASE k = 0
    BY <2>1, <1>6, <1>10, <1>14
  <2>2. CASE k # 0
    <3>1. 1 \in 1 .. k /\ 1 \in 1 .. n /\ n # 0 /\ 1 # k + 1
      BY <2>2, <1>1, <1>4
    <3>2. PICK x : x = s[1]
      OBVIOUS
    <3>3. t[1] = x /\ prv[x] = NULL /\ x \in ListItem /\ x # item /\ x # after
      BY <3>1, <3>2, <1>4, <1>6, <1>8, <1>9, <1>12
    <3> QED
      BY <3>3, <1>18
  <2> QED
    BY <2>1, <2>2
<1>23. nxt2[t[n + 1]] = NULL
  <2>1. CASE k = n
    BY <2>1, <1>6, <1>11, <1>14
  <2>2. CASE k # n
    <3>1. n + 1 \in k + 2 .. n + 1 /\ (n + 1) - 1 = n /\ n \in 1 .. n /\ n # 0
      BY <2>2, <1>1, <1>4
    <3>2. PICK x : x = s[n]
      OBVIOUS
    <3>3. t[n + 1] = x /\ nxt[x] = NULL
      BY <3>1, <3>2, <1>6, <1>8
    <3>4. x \in ListItem /\ x # item /\ x # before
      BY <2>2, <3>1, <3>2, <1>4, <1>9, <1>12
    <3> QED
      BY <3>3, <3>4, <1>17
  <2> QED
    BY <2>1, <2>2
<1>24. t # <<>> /\ Len(t) = n + 1 /\ Len(t) - 1 = n
  BY <1>1, <1>6, EmptySeq
<1>25. \A i \in 1 .. Len(t) - 1 : nxt2[t[i]] = t[i + 1] /\ prv2[t[i + 1]] = t[i]
  BY <1>21, <1>24
<1>26. Strung(t, IF before = NULL THEN item ELSE f, IF after = NULL THEN item ELSE l, nxt2, prv2)
  BY <1>19, <1>20, <1>22, <1>23, <1>24, <1>25 DEF Strung, Hangs
<1> QED
  BY <1>2, <1>3, <1>13, <1>26

\* The neighbours of the k-th item.
Beside(s, k, before, after) ==
    /\ before = IF k = 1 THEN NULL ELSE s[k - 1]
    /\ after = IF k = Len(s) THEN NULL ELSE s[k + 1]

\* The pointers of the items with `item` taken out from between before and after.
NextWithout(nxt, before, item, after) ==
    [x \in ListItem |-> IF x = item THEN NULL ELSE IF x = before THEN after ELSE nxt[x]]
PrevWithout(prv, before, item, after) ==
    [x \in ListItem |-> IF x = item THEN NULL ELSE IF x = after THEN before ELSE prv[x]]

\* List_detach of the k-th item.
LEMMA StrungRemoved ==
    ASSUME NEW s \in Seq(ListItem), IsInjective(s), NULL \notin ListItem, NEW k \in 1 .. Len(s),
           NEW f, NEW l, NEW nxt \in [ListItem -> Pointer], NEW prv \in [ListItem -> Pointer],
           Strung(s, f, l, nxt, prv), NEW item, item = s[k]
    PROVE  Strung(RemoveAt(s, k),
                  IF f = item THEN nxt[item] ELSE f, IF l = item THEN prv[item] ELSE l,
                  NextWithout(nxt, prv[item], item, nxt[item]),
                  PrevWithout(prv, prv[item], item, nxt[item]))
<1>1. PICK n \in Nat : n = Len(s)
  BY LenProperties
<1>2. PICK t : t = RemoveAt(s, k)
  OBVIOUS
<1>3. PICK before, after : before = prv[item] /\ after = nxt[item]
  OBVIOUS
<1>4. PICK nxt2, prv2 : /\ nxt2 = NextWithout(nxt, before, item, after)
                        /\ prv2 = PrevWithout(prv, before, item, after)
  OBVIOUS
<1>5. /\ k \in 1 .. n /\ n # 0
      /\ \A i \in 1 .. n : s[i] \in ListItem
      /\ s # <<>>
  BY <1>1, EmptySeq, LenProperties
<1>6. \A i, j \in 1 .. n : s[i] = s[j] => i = j
  BY <1>1, LenProperties DEF IsInjective
<1>7. /\ t \in Seq(ListItem) /\ Len(t) = n - 1
      /\ \A i \in 1 .. k - 1 : t[i] = s[i]
      /\ \A i \in k .. n - 1 : t[i] = s[i + 1]
  <2>1. /\ RemoveAt(s, k) \in Seq(ListItem)
        /\ Len(RemoveAt(s, k)) = Len(s) - 1
        /\ \A i \in 1 .. k - 1 : RemoveAt(s, k)[i] = s[i]
        /\ \A i \in k .. Len(s) - 1 : RemoveAt(s, k)[i] = s[i + 1]
    BY Removed
  <2> QED
    BY <2>1, <1>1, <1>2, Zenon
<1>8. /\ f = s[1] /\ l = s[n]
      /\ \A i \in 1 .. n - 1 : nxt[s[i]] = s[i + 1] /\ prv[s[i + 1]] = s[i]
      /\ nxt[s[n]] = NULL /\ prv[s[1]] = NULL
  BY <1>1, <1>5 DEF Strung, Hangs
<1>9. before = IF k = 1 THEN NULL ELSE s[k - 1]
  <2>1. CASE k = 1
    BY <2>1, <1>3, <1>8
  <2>2. CASE k # 1
    <3>1. PICK j \in 1 .. n - 1 : k = j + 1 /\ k - 1 = j
      <4>1. k - 1 \in 1 .. n - 1 /\ k = (k - 1) + 1
        BY <2>2, <1>1, <1>5
      <4> QED
        BY <4>1
    <3> QED
      BY <2>2, <3>1, <1>3, <1>8
  <2> QED
    BY <2>1, <2>2
<1>10. after = IF k = n THEN NULL ELSE s[k + 1]
  <2>1. CASE k = n
    BY <2>1, <1>3, <1>8
  <2>2. CASE k # n
    <3>1. k \in 1 .. n - 1
      BY <2>2, <1>1, <1>5
    <3> QED
      BY <2>2, <3>1, <1>3, <1>8
  <2> QED
    BY <2>1, <2>2
<1>11. ASSUME NEW i \in 1 .. n, i # k
       PROVE  /\ s[i] # item
              /\ s[i] = before => i = k - 1
              /\ s[i] = after => i = k + 1
  <2>1. k # 1 => k - 1 \in 1 .. n
    BY <1>1, <1>5
  <2>2. k # n => k + 1 \in 1 .. n
    BY <1>1, <1>5
  <2>3. s[i] # NULL
    BY <1>5
  <2>4. s[i] = before => i = k - 1
    BY <1>6, <1>9, <2>1, <2>3
  <2>5. s[i] = after => i = k + 1
    BY <1>6, <1>10, <2>2, <2>3
  <2>6. s[i] # item
    BY <1>5, <1>6, <1>11
  <2> QED
    BY <2>4, <2>5, <2>6
<1>12. \A x \in ListItem : x = before /\ x # item => nxt2[x] = after
  BY <1>4 DEF NextWithout
<1>13. \A x \in ListItem : x = after /\ x # item => prv2[x] = before
  BY <1>4 DEF PrevWithout
<1>14. \A x \in ListItem : x # before /\ x # item => nxt2[x] = nxt[x]
  BY <1>4 DEF NextWithout
<1>15. \A x \in ListItem : x # after /\ x # item => prv2[x] = prv[x]
  BY <1>4 DEF PrevWithout
<1>16. t = <<>> <=> n = 1
  BY <1>1, <1>7, EmptySeq
<1>17. (IF f = item THEN after ELSE f) = IF n = 1 THEN NULL ELSE t[1]
  <2>1. 1 \in 1 .. n
    BY <1>1, <1>5
  <2>2. f = item <=> k = 1
    BY <2>1, <1>5, <1>6, <1>8
  <2>3. CASE k = 1
    <3>1. n # 1 => 1 \in k .. n - 1 /\ 1 + 1 = k + 1 /\ k # n
      BY <2>3, <1>1, <1>5
    <3> QED
      BY <2>2, <2>3, <3>1, <1>7, <1>10
  <2>4. CASE k # 1
    <3>1. n # 1 /\ 1 \in 1 .. k - 1
      BY <2>4, <1>1, <1>5
    <3> QED
      BY <2>2, <2>4, <3>1, <1>7, <1>8
  <2> QED
    BY <2>3, <2>4
<1>18. (IF l = item THEN before ELSE l) = IF n = 1 THEN NULL ELSE t[n - 1]
  <2>1. n \in 1 .. n
    BY <1>1, <1>5
  <2>2. l = item <=> k = n
    BY <2>1, <1>5, <1>6, <1>8
  <2>3. CASE k = n
    <3>1. n # 1 => n - 1 \in 1 .. k - 1 /\ n - 1 = k - 1 /\ k # 1
      BY <2>3, <1>1, <1>5
    <3> QED
      BY <2>2, <2>3, <3>1, <1>7, <1>9
  <2>4. CASE k # n
    <3>1. n # 1 /\ n - 1 \in k .. n - 1 /\ (n - 1) + 1 = n
      BY <2>4, <1>1, <1>5
    <3> QED
      BY <2>2, <2>4, <3>1, <1>7, <1>8
  <2> QED
    BY <2>3, <2>4
<1>19. ASSUME NEW i \in 1 .. n - 2
       PROVE  nxt2[t[i]] = t[i + 1] /\ prv2[t[i + 1]] = t[i]
  <2>1. CASE i < k - 1
    <3>1. /\ i \in 1 .. k - 1 /\ i + 1 \in 1 .. k - 1 /\ i \in 1 .. n - 1 /\ i \in 1 .. n
          /\ i + 1 \in 1 .. n /\ i # k /\ i + 1 # k /\ i # k - 1 /\ i + 1 # k + 1
      BY <2>1, <1>1, <1>5
    <3>2. PICK x, y : x = s[i] /\ y = s[i + 1]
      OBVIOUS
    <3>3. t[i] = x /\ t[i + 1] = y
      BY <3>1, <3>2, <1>7
    <3>4. nxt[x] = y /\ prv[y] = x
      BY <3>1, <3>2, <1>8
    <3>5. x \in ListItem /\ x # item /\ x # before /\ y \in ListItem /\ y # item /\ y # after
      BY <3>1, <3>2, <1>5, <1>11
    <3> QED
      BY <3>3, <3>4, <3>5, <1>14, <1>15
  <2>2. CASE i = k - 1
    <3>1. /\ k # 1 /\ k # n /\ i \in 1 .. k - 1 /\ i + 1 \in k .. n - 1 /\ (i + 1) + 1 = k + 1
          /\ i \in 1 .. n /\ k + 1 \in 1 .. n /\ i # k /\ k + 1 # k
      BY <2>2, <1>1, <1>5
    <3>2. t[i] = s[i] /\ t[i + 1] = s[k + 1]
      BY <3>1, <1>7
    <3>3. s[i] = before /\ s[k + 1] = after
      BY <2>2, <3>1, <1>9, <1>10
    <3>4. before \in ListItem /\ before # item /\ after \in ListItem /\ after # item
      BY <3>1, <3>3, <1>5, <1>11
    <3> QED
      BY <3>2, <3>3, <3>4, <1>12, <1>13
  <2>3. CASE i > k - 1
    <3>1. PICK j \in 1 .. n - 1 : j = i + 1
      <4>1. i + 1 \in 1 .. n - 1
        BY <1>1
      <4> QED
        BY <4>1
    <3>2. /\ i \in k .. n - 1 /\ j \in k .. n - 1 /\ j \in 1 .. n /\ j + 1 \in 1 .. n
          /\ j # k /\ j + 1 # k /\ j # k - 1 /\ j + 1 # k + 1
      BY <2>3, <3>1, <1>1, <1>5
    <3>3. PICK x, y : x = s[j] /\ y = s[j + 1]
      OBVIOUS
    <3>4. t[i] = x /\ t[i + 1] = y
      BY <3>1, <3>2, <3>3, <1>7
    <3>5. nxt[x] = y /\ prv[y] = x
      BY <3>1, <3>3, <1>8
    <3>6. x \in ListItem /\ x # item /\ x # before /\ y \in ListItem /\ y # item /\ y # after
      BY <3>2, <3>3, <1>5, <1>11
    <3> QED
      BY <3>4, <3>5, <3>6, <1>14, <1>15
  <2> QED
    BY <2>1, <2>2, <2>3, <1>1, <1>5
<1>20. n # 1 => prv2[t[1]] = NULL
  <2> SUFFICES ASSUME n # 1
               PROVE  prv2[t[1]] = NULL
    OBVIOUS
  <2>1. CASE k = 1
    <3>1. 1 \in k .. n - 1 /\ 1 + 1 = k + 1 /\ k # n /\ k + 1 \in 1 .. n /\ k + 1 # k
      BY <2>1, <1>1, <1>5
    <3>2. t[1] = after /\ after \in ListItem /\ after # item
      BY <3>1, <1>5, <1>7, <1>10, <1>11
    <3>3. before = NULL
      BY <2>1, <1>9
    <3> QED
      BY <3>2, <3>3, <1>13
  <2>2. CASE k # 1
    <3>1. 1 \in 1 .. k - 1 /\ 1 \in 1 .. n /\ 1 # k /\ 1 # k + 1
      BY <2>2, <1>1, <1>5
    <3>2. PICK x : x = s[1]
      OBVIOUS
    <3>3. t[1] = x /\ prv[x] = NULL /\ x \in ListItem /\ x # item /\ x # after
      BY <3>1, <3>2, <1>5, <1>7, <1>8, <1>11
    <3> QED
      BY <3>3, <1>15
  <2> QED
    BY <2>1, <2>2
<1>21. n # 1 => nxt2[t[n - 1]] = NULL
  <2> SUFFICES ASSUME n # 1
               PROVE  nxt2[t[n - 1]] = NULL
    OBVIOUS
  <2>1. CASE k = n
    <3>1. n - 1 \in 1 .. k - 1 /\ n - 1 = k - 1 /\ k # 1 /\ k - 1 \in 1 .. n /\ k - 1 # k
      BY <2>1, <1>1, <1>5
    <3>2. t[n - 1] = before /\ before \in ListItem /\ before # item
      BY <3>1, <1>5, <1>7, <1>9, <1>11
    <3>3. after = NULL
      BY <2>1, <1>10
    <3> QED
      BY <3>2, <3>3, <1>12
  <2>2. CASE k # n
    <3>1. n - 1 \in k .. n - 1 /\ (n - 1) + 1 = n /\ n \in 1 .. n /\ n # k /\ n # k - 1
      BY <2>2, <1>1, <1>5
    <3>2. PICK x : x = s[n]
      OBVIOUS
    <3>3. t[n - 1] = x /\ nxt[x] = NULL
      BY <3>1, <3>2, <1>7, <1>8
    <3>4. x \in ListItem /\ x # item /\ x # before
      BY <3>1, <3>2, <1>5, <1>11
    <3> QED
      BY <3>3, <3>4, <1>14
  <2> QED
    BY <2>1, <2>2
<1>22. Len(t) = n - 1 /\ Len(t) - 1 = n - 2
  BY <1>1, <1>7
<1>23. \A i \in 1 .. Len(t) - 1 : nxt2[t[i]] = t[i + 1] /\ prv2[t[i + 1]] = t[i]
  BY <1>19, <1>22
<1>24. Strung(t, IF f = item THEN after ELSE f, IF l = item THEN before ELSE l, nxt2, prv2)
  BY <1>16, <1>17, <1>18, <1>20, <1>21, <1>22, <1>23 DEF Strung, Hangs
<1> QED
  BY <1>2, <1>3, <1>4, <1>24

-----------------------------------------------------------------------------
(* All lists *)

\* What hangs on the pointers is what Chain finds on them.
LEMMA ListsAreChains ==
    ASSUME NEW L, NEW f, NEW l, NEW n, NEW nxt, NEW prv, Lists(L, f, l, n, nxt, prv),
           NEW h \in ListHead
    PROVE  /\ Chain(f[h], nxt, ListItem) = L[h]
           /\ Chain(l[h], prv, ListItem) = Reverse(L[h])
           /\ n[h] \in 0 .. Cardinality(ListItem)
<1>1. /\ L[h] \in Seq(ListItem) /\ IsInjective(L[h]) /\ n[h] = Len(L[h])
      /\ Strung(L[h], f[h], l[h], nxt, prv)
  BY DEF Lists
<1>2. IsFiniteSet(ListItem) /\ NULL \notin ListItem
  BY ListAssumption
<1>3. Hangs(L[h], f[h], nxt, NULL)
  BY <1>1 DEF Strung
<1>4. Chain(f[h], nxt, ListItem) = L[h]
  BY <1>1, <1>2, <1>3, ChainIs
<1>5. PICK r : r = Reverse(L[h])
  OBVIOUS
<1>6. r \in Seq(ListItem) /\ IsInjective(r) /\ Hangs(r, l[h], prv, NULL)
  BY <1>1, <1>5, HangsBackwards
<1>7. Chain(l[h], prv, ListItem) = r
  BY <1>2, <1>6, ChainIs
<1>8. n[h] \in 0 .. Cardinality(ListItem)
  BY <1>1, <1>2, LengthBound, LenProperties
<1> QED
  BY <1>4, <1>5, <1>7, <1>8

\* The heads of the other lists stay.
Kept(old, new, h) == \A g \in ListHead \ {h} : new[g] = old[g]

\* When s becomes t, items that were and are elsewhere keep their pointers, those that
\* leave lose them.
Elsewhere(nxt, prv, nxt2, prv2, s, t) ==
    /\ \A x \in ListItem \ (ToSet(s) \union ToSet(t)) : nxt2[x] = nxt[x] /\ prv2[x] = prv[x]
    /\ \A x \in ToSet(s) \ ToSet(t) : nxt2[x] = NULL /\ prv2[x] = NULL

\* What belongs to the list that changes and to the others: one list is strung anew,
\* keeps its items apart from those that come or go, and touches the pointers of nobody else's.
LEMMA ListsWith ==
    ASSUME NEW L, NEW f, NEW l, NEW n, NEW nxt, NEW prv, Lists(L, f, l, n, nxt, prv),
           NEW h \in ListHead, NEW t \in Seq(ListItem), IsInjective(t),
           \A g \in ListHead \ {h} : ToSet(t) \intersect ToSet(L[g]) = {},
           NEW f2, NEW l2, NEW n2, Kept(f, f2, h), Kept(l, l2, h), Kept(n, n2, h),
           NEW nxt2, NEW prv2, Strung(t, f2[h], l2[h], nxt2, prv2), n2[h] = Len(t),
           Elsewhere(nxt, prv, nxt2, prv2, L[h], t)
    PROVE  Lists([L EXCEPT ![h] = t], f2, l2, n2, nxt2, prv2)
<1>1. PICK L2 : L2 = [L EXCEPT ![h] = t]
  OBVIOUS
<1>2. /\ L \in [ListHead -> Seq(ListItem)]
      /\ \A g \in ListHead : /\ IsInjective(L[g])
                             /\ Strung(L[g], f[g], l[g], nxt, prv)
                             /\ n[g] = Len(L[g])
      /\ \A x \in ListItem : nxt[x] # NULL \/ prv[x] # NULL => \E g \in ListHead : x \in ToSet(L[g])
      /\ \A g, j \in ListHead : g # j => ToSet(L[g]) \intersect ToSet(L[j]) = {}
  BY DEF Lists
<1>3. /\ L2 \in [ListHead -> Seq(ListItem)] /\ L2[h] = t
      /\ \A g \in ListHead \ {h} : L2[g] = L[g]
  BY <1>1, <1>2
<1>4. ASSUME NEW g \in ListHead
      PROVE  /\ IsInjective(L2[g])
             /\ Strung(L2[g], f2[g], l2[g], nxt2, prv2)
             /\ n2[g] = Len(L2[g])
  <2>1. CASE g = h
    BY <2>1, <1>3
  <2>2. CASE g # h
    <3>1. L2[g] = L[g] /\ f2[g] = f[g] /\ l2[g] = l[g] /\ n2[g] = n[g]
      BY <2>2, <1>3 DEF Kept
    <3>2. PICK s, fg, lg : s = L[g] /\ fg = f[g] /\ lg = l[g]
      OBVIOUS
    <3>3. s \in Seq(ListItem) /\ Strung(s, fg, lg, nxt, prv)
      BY <3>2, <1>2
    <3>4. ToSet(s) \subseteq ListItem
      BY <3>3, Places
    <3>5. ToSet(s) \intersect ToSet(t) = {} /\ ToSet(s) \intersect ToSet(L[h]) = {}
      BY <2>2, <3>2, <1>2
    <3>6. \A x \in ToSet(s) : nxt2[x] = nxt[x] /\ prv2[x] = prv[x]
      BY <3>4, <3>5 DEF Elsewhere
    <3>7. Strung(s, fg, lg, nxt2, prv2)
      BY <3>3, <3>6, StrungElsewhere
    <3> QED
      BY <3>1, <3>2, <3>7, <1>2
  <2> QED
    BY <2>1, <2>2
<1>5. ASSUME NEW x \in ListItem, nxt2[x] # NULL \/ prv2[x] # NULL
      PROVE  \E g \in ListHead : x \in ToSet(L2[g])
  <2>1. CASE x \in ToSet(t)
    BY <2>1, <1>3
  <2>2. CASE x \notin ToSet(t)
    <3>1. x \notin ToSet(L[h])
      BY <2>2, <1>5 DEF Elsewhere
    <3>2. nxt2[x] = nxt[x] /\ prv2[x] = prv[x]
      BY <2>2, <3>1 DEF Elsewhere
    <3>3. PICK g \in ListHead : x \in ToSet(L[g])
      BY <3>2, <1>2, <1>5
    <3> QED
      BY <3>1, <3>3, <1>3
  <2> QED
    BY <2>1, <2>2
<1>6. ASSUME NEW g \in ListHead, NEW j \in ListHead, g # j
      PROVE  ToSet(L2[g]) \intersect ToSet(L2[j]) = {}
  BY <1>2, <1>3, <1>6
<1>7. Lists(L2, f2, l2, n2, nxt2, prv2)
  BY <1>3, <1>4, <1>5, <1>6 DEF Lists
<1> QED
  BY <1>1, <1>7

\* One list becomes another.
Turned(L, L2, h, t) == L2 = [L EXCEPT ![h] = t]

OnNone(L, item) == \A g \in ListHead : item \notin ToSet(L[g])

\* What List_insert leaves in the head.
HeadWith(f, l, n, f2, l2, n2, h, before, after, item) ==
    /\ f2[h] = IF before = NULL THEN item ELSE f[h]
    /\ l2[h] = IF after = NULL THEN item ELSE l[h]
    /\ n2[h] = n[h] + 1

\* List_insert.
LEMMA ListsInserted ==
    ASSUME NEW L, NEW f, NEW l, NEW n, NEW nxt \in [ListItem -> Pointer],
           NEW prv \in [ListItem -> Pointer], Lists(L, f, l, n, nxt, prv), NULL \notin ListItem,
           NEW h \in ListHead, NEW s, s = L[h], NEW k \in 0 .. Len(s), NEW before, NEW after,
           Gap(s, k, before, after), NEW item \in ListItem, OnNone(L, item),
           NEW f2, NEW l2, NEW n2, Kept(f, f2, h), Kept(l, l2, h), Kept(n, n2, h),
           HeadWith(f, l, n, f2, l2, n2, h, before, after, item),
           NEW L2, Turned(L, L2, h, InsertAt(s, k + 1, item))
    PROVE  Lists(L2, f2, l2, n2,
                 NextWith(nxt, before, item, after), PrevWith(prv, before, item, after))
<1>1. PICK t : t = InsertAt(s, k + 1, item)
  OBVIOUS
<1>2. PICK nxt2, prv2 : /\ nxt2 = NextWith(nxt, before, item, after)
                        /\ prv2 = PrevWith(prv, before, item, after)
  OBVIOUS
<1>3. /\ s \in Seq(ListItem) /\ IsInjective(s) /\ Strung(s, f[h], l[h], nxt, prv)
      /\ n[h] = Len(s) /\ k \in 0 .. Len(s) /\ item \notin ToSet(s)
      /\ Gap(s, k, before, after)
  BY DEF Lists, OnNone
<1>4. Strung(t, f2[h], l2[h], nxt2, prv2)
  <2>1. /\ f2[h] = IF before = NULL THEN item ELSE f[h]
        /\ l2[h] = IF after = NULL THEN item ELSE l[h]
    BY DEF HeadWith
  <2> QED
    BY <2>1, <1>1, <1>2, <1>3, StrungInserted
<1>5. t \in Seq(ListItem) /\ ToSet(t) = ToSet(s) \union {item} /\ IsInjective(t)
  BY <1>1, <1>3, InsertedSet
<1>6. Len(t) = Len(s) + 1
  BY <1>1, <1>3, ItemInserted
<1>7. \A g \in ListHead \ {h} : ToSet(t) \intersect ToSet(L[g]) = {}
  BY <1>5 DEF Lists, OnNone
<1>8. (before = NULL \/ before \in ToSet(s)) /\ (after = NULL \/ after \in ToSet(s))
  <2>1. Len(s) \in Nat /\ \A i \in 1 .. Len(s) : s[i] \in ToSet(s)
    BY <1>3, LenProperties DEF ToSet
  <2>2. k # 0 => k \in 1 .. Len(s)
    BY <2>1, <1>3
  <2>3. k # Len(s) => k + 1 \in 1 .. Len(s)
    BY <2>1, <1>3
  <2> QED
    BY <2>1, <2>2, <2>3, <1>3 DEF Gap
<1>9. ASSUME NEW x \in ListItem, x \notin ToSet(s), x \notin ToSet(t)
      PROVE  nxt2[x] = nxt[x] /\ prv2[x] = prv[x]
  BY <1>2, <1>5, <1>8, <1>9 DEF NextWith, PrevWith
<1>10. Lists([L EXCEPT ![h] = t], f2, l2, n2, nxt2, prv2)
  <2>1. n2[h] = Len(t)
    BY <1>3, <1>6 DEF HeadWith
  <2>2. Elsewhere(nxt, prv, nxt2, prv2, L[h], t)
    BY <1>1, <1>5, <1>9 DEF Elsewhere
  <2> QED
    BY <2>1, <2>2, <1>4, <1>5, <1>7, ListsWith
<1> QED
  BY <1>1, <1>2, <1>10 DEF Turned

\* What List_detach leaves in the head.
HeadWithout(f, l, n, f2, l2, n2, h, before, after, item) ==
    /\ f2[h] = IF f[h] = item THEN after ELSE f[h]
    /\ l2[h] = IF l[h] = item THEN before ELSE l[h]
    /\ n2[h] = n[h] - 1

\* List_detach.
LEMMA ListsRemoved ==
    ASSUME NEW L, NEW f, NEW l, NEW n, NEW nxt \in [ListItem -> Pointer],
           NEW prv \in [ListItem -> Pointer], Lists(L, f, l, n, nxt, prv), NULL \notin ListItem,
           NEW h \in ListHead, NEW s, s = L[h], NEW k \in 1 .. Len(s), NEW item, item = s[k],
           NEW before, NEW after, before = prv[item], after = nxt[item],
           NEW f2, NEW l2, NEW n2, Kept(f, f2, h), Kept(l, l2, h), Kept(n, n2, h),
           HeadWithout(f, l, n, f2, l2, n2, h, before, after, item),
           NEW L2, Turned(L, L2, h, RemoveAt(s, k))
    PROVE  Lists(L2, f2, l2, n2,
                 NextWithout(nxt, before, item, after), PrevWithout(prv, before, item, after))
<1>1. PICK t : t = RemoveAt(s, k)
  OBVIOUS
<1>2. PICK nxt2, prv2 : /\ nxt2 = NextWithout(nxt, prv[item], item, nxt[item])
                        /\ prv2 = PrevWithout(prv, prv[item], item, nxt[item])
  OBVIOUS
<1>3. /\ s \in Seq(ListItem) /\ IsInjective(s) /\ Strung(s, f[h], l[h], nxt, prv)
      /\ n[h] = Len(s) /\ k \in 1 .. Len(s) /\ item = s[k]
  BY DEF Lists
<1>4. Strung(t, f2[h], l2[h], nxt2, prv2)
  <2>1. /\ f2[h] = IF f[h] = item THEN nxt[item] ELSE f[h]
        /\ l2[h] = IF l[h] = item THEN prv[item] ELSE l[h]
    BY DEF HeadWithout
  <2> QED
    BY <2>1, <1>1, <1>2, <1>3, StrungRemoved
<1>5. Len(s) \in Nat /\ DOMAIN s = 1 .. Len(s) /\ \A i \in 1 .. Len(s) : s[i] \in ToSet(s)
  BY <1>3, LenProperties DEF ToSet
<1>6. t \in Seq(ListItem) /\ ToSet(t) = ToSet(s) \ {item} /\ IsInjective(t)
  BY <1>1, <1>3, <1>5, RemovedSet
<1>7. Len(t) = Len(s) - 1
  BY <1>1, <1>3, <1>5, Removed
<1>8. \A g \in ListHead \ {h} : ToSet(t) \intersect ToSet(L[g]) = {}
  BY <1>6 DEF Lists
<1>9. /\ item \in ToSet(s) /\ item \in ListItem
      /\ nxt[item] = NULL \/ nxt[item] \in ToSet(s)
      /\ prv[item] = NULL \/ prv[item] \in ToSet(s)
  <2>1. item \in ToSet(s) /\ item \in ListItem
    BY <1>3, <1>5, LenProperties
  <2>2. nxt[item] = NULL \/ nxt[item] \in ToSet(s)
    <3>1. CASE k = Len(s)
      BY <3>1, <1>3, <1>5 DEF Strung, Hangs
    <3>2. CASE k # Len(s)
      <4>1. k \in 1 .. Len(s) - 1 /\ k + 1 \in 1 .. Len(s)
        BY <3>2, <1>3, <1>5
      <4> QED
        BY <4>1, <1>3, <1>5 DEF Strung, Hangs
    <3> QED
      BY <3>1, <3>2
  <2>3. prv[item] = NULL \/ prv[item] \in ToSet(s)
    <3>1. CASE k = 1
      BY <3>1, <1>3, <1>5 DEF Strung
    <3>2. CASE k # 1
      <4>1. PICK j \in 1 .. Len(s) - 1 : k = j + 1 /\ j \in 1 .. Len(s)
        <5>1. k - 1 \in 1 .. Len(s) - 1 /\ k = (k - 1) + 1 /\ k - 1 \in 1 .. Len(s)
          BY <3>2, <1>3, <1>5
        <5> QED
          BY <5>1
      <4> QED
        BY <4>1, <1>3, <1>5 DEF Strung
    <3> QED
      BY <3>1, <3>2
  <2> QED
    BY <2>1, <2>2, <2>3
<1>10. ASSUME NEW x \in ListItem, x \notin ToSet(s), x \notin ToSet(t)
       PROVE  nxt2[x] = nxt[x] /\ prv2[x] = prv[x]
  BY <1>2, <1>9, <1>10 DEF NextWithout, PrevWithout
<1>11. Lists([L EXCEPT ![h] = t], f2, l2, n2, nxt2, prv2)
  <2>1. n2[h] = Len(t)
    BY <1>3, <1>7 DEF HeadWithout
  <2>2. nxt2[item] = NULL /\ prv2[item] = NULL
    BY <1>2, <1>9 DEF NextWithout, PrevWithout
  <2>3. Elsewhere(nxt, prv, nxt2, prv2, L[h], t)
    BY <2>2, <1>1, <1>6, <1>10 DEF Elsewhere
  <2> QED
    BY <2>1, <2>3, <1>4, <1>6, <1>8, ListsWith
<1> QED
  BY <1>1, <1>2, <1>11 DEF Turned

-----------------------------------------------------------------------------
(* The invariant *)

Order == [h \in ListHead |-> Forward(h)]

\* The lists that the pointers hold are the chains.
LEMMA ListsAreOrder ==
    ASSUME NEW L, NEW f, NEW l, NEW n, NEW nxt, NEW prv, Lists(L, f, l, n, nxt, prv),
           n = [h \in ListHead |-> n[h]]
    PROVE  /\ L = [h \in ListHead |-> Chain(f[h], nxt, ListItem)]
           /\ n \in [ListHead -> 0 .. Cardinality(ListItem)]
<1>1. \A h \in ListHead : Chain(f[h], nxt, ListItem) = L[h] /\ n[h] \in 0 .. Cardinality(ListItem)
  BY ListsAreChains
<1>2. L = [h \in ListHead |-> Chain(f[h], nxt, ListItem)]
  BY <1>1 DEF Lists
<1>3. n \in [ListHead -> 0 .. Cardinality(ListItem)]
  BY <1>1
<1> QED
  BY <1>2, <1>3

\* At first nothing is on any list.
LEMMA InitLists == Init => ListInv /\ Order = [h \in ListHead |-> <<>>]
<1> SUFFICES ASSUME Init
             PROVE  ListInv /\ Order = [h \in ListHead |-> <<>>]
  OBVIOUS
<1>1. PICK L : L = [h \in ListHead |-> <<>>]
  OBVIOUS
<1>2. Strung(<<>>, NULL, NULL, next, prev)
  BY DEF Strung, Hangs
<1>3. ASSUME NEW h \in ListHead
      PROVE  /\ L[h] = <<>> /\ IsInjective(L[h]) /\ size[h] = Len(L[h])
             /\ Strung(L[h], first[h], last[h], next, prev) /\ ToSet(L[h]) = {}
  BY <1>1, <1>2, NoneOnEmpty DEF Init
<1>4. L \in [ListHead -> Seq(ListItem)]
  BY <1>1
<1>5. Lists(L, first, last, size, next, prev)
  BY <1>3, <1>4 DEF Lists, Init
<1>6. size = [h \in ListHead |-> size[h]]
  BY DEF Init
<1>7. L = [h \in ListHead |-> Forward(h)] /\ size \in [ListHead -> 0 .. Cardinality(ListItem)]
  BY <1>5, <1>6, ListsAreOrder DEF Forward
<1> QED
  BY <1>1, <1>5, <1>7 DEF ListInv, TypeOK, Init, Order

\* Where an item is on a list.
PlaceOf(s, x) == CHOOSE i \in DOMAIN s : s[i] = x

\* An item that looks as if it were on no list is on none: List_insert does what it
\* should, and refuses what is on a list already.
LEMMA InsertStep ==
    ASSUME ListInv, NEW h \in ListHead, NEW item \in ListItem, NEW before \in Pointer,
           List_insert(h, before, item)
    PROVE  /\ ListInv'
           /\ \/ /\ \E g \in ListHead : item \in ToSet(Order[g])
                 /\ returned' = NULL /\ Order' = Order
              \/ /\ \A g \in ListHead : item \notin ToSet(Order[g])
                 /\ before = NULL \/ before \in ToSet(Order[h])
                 /\ returned' = item
                 /\ Order' = [Order EXCEPT ![h] =
                        InsertAt(Order[h], (IF before = NULL THEN 0 ELSE PlaceOf(Order[h], before)) + 1,
                                 item)]
<1>1. PICK L : L = Order
  OBVIOUS
<1>2. /\ Lists(L, first, last, size, next, prev) /\ TypeOK
      /\ NULL \notin ListItem
      /\ \A g \in ListHead : L[g] = Forward(g)
  BY <1>1, ListAssumption DEF ListInv, Order
<1>3. /\ first \in [ListHead -> Pointer] /\ last \in [ListHead -> Pointer]
      /\ prev \in [ListItem -> Pointer] /\ next \in [ListItem -> Pointer]
      /\ size \in [ListHead -> 0 .. Cardinality(ListItem)]
  BY <1>2 DEF TypeOK, Pointer
<1>4. /\ before = NULL \/ before \in ToSet(L[h])
      /\ \A g \in ListHead : L[g] # <<item>>
  BY <1>2 DEF List_insert, MayInsert
<1>5. CASE Linked(item)
  <2>1. returned' = NULL /\ UNCHANGED links
    BY <1>5 DEF List_insert
  <2>2. \E g \in ListHead : item \in ToSet(L[g])
    BY <1>2, <1>5 DEF Linked, Lists
  <2>3. ListInv' /\ Order' = Order
    BY <2>1, <1>2 DEF links, ListInv, TypeOK, Order, Forward
  <2> QED
    BY <2>1, <2>2, <2>3, <1>1
<1>6. CASE ~Linked(item)
  <2>1. ASSUME NEW g \in ListHead, item \in ToSet(L[g])
        PROVE  FALSE
    <3>1. PICK s : s = L[g]
      OBVIOUS
    <3>2. s \in Seq(ListItem) /\ Strung(s, first[g], last[g], next, prev)
      BY <3>1, <1>2 DEF Lists
    <3>3. next[item] = NULL /\ prev[item] = NULL
      BY <1>6 DEF Linked
    <3>4. s = <<item>>
      BY <2>1, <3>1, <3>2, <3>3, <1>2, AloneOrLinked
    <3> QED
      BY <3>1, <3>4, <1>4
  <2>2. PICK s : s = L[h]
    OBVIOUS
  <2>3. s \in Seq(ListItem) /\ Len(s) \in Nat /\ DOMAIN s = 1 .. Len(s) /\ size[h] = Len(s)
    BY <2>2, <1>2, LenProperties DEF Lists
  <2>4. PICK k : k = IF before = NULL THEN 0 ELSE PlaceOf(s, before)
    OBVIOUS
  <2>5. k \in 0 .. Len(s) /\ before = IF k = 0 THEN NULL ELSE s[k]
    <3>1. CASE before = NULL
      BY <3>1, <2>3, <2>4
    <3>2. CASE before # NULL
      <4>1. \E i \in DOMAIN s : s[i] = before
        BY <3>2, <2>2, <1>4 DEF ToSet
      <4>2. k \in DOMAIN s /\ s[k] = before
        BY <3>2, <4>1, <2>4 DEF PlaceOf
      <4> QED
        BY <4>2, <2>3
    <3> QED
      BY <3>1, <3>2
  <2>6. PICK after : after = IF k = Len(s) THEN NULL ELSE s[k + 1]
    OBVIOUS
  <2>7. k \in 0 .. Len(L[h]) /\ Gap(L[h], k, before, after)
    BY <2>2, <2>5, <2>6 DEF Gap
  <2>8. after = IF before = NULL THEN first[h] ELSE next[before]
    <3>1. PICK f, l, nxt, prv : f = first[h] /\ l = last[h] /\ nxt = next /\ prv = prev
      OBVIOUS
    <3>2. s \in Seq(ListItem) /\ IsInjective(s) /\ Strung(s, f, l, nxt, prv)
      BY <2>2, <3>1, <1>2 DEF Lists
    <3>3. k \in 0 .. Len(s) /\ Gap(s, k, before, after) /\ item \notin ToSet(s)
      BY <2>1, <2>2, <2>7
    <3>4. nxt \in [ListItem -> Pointer] /\ prv \in [ListItem -> Pointer] /\ NULL \notin ListItem
      BY <3>1, <1>2, <1>3
    <3>5. /\ after = IF before = NULL THEN f ELSE nxt[before]
          /\ Strung(InsertAt(s, k + 1, item),
                    IF before = NULL THEN item ELSE f, IF after = NULL THEN item ELSE l,
                    NextWith(nxt, before, item, after), PrevWith(prv, before, item, after))
      BY <3>2, <3>3, <3>4, StrungInserted
    <3> QED
      BY <3>1, <3>5
  <2>9. PICK f2, l2, n2, nxt2, prv2 :
          f2 = first' /\ l2 = last' /\ n2 = size' /\ nxt2 = next' /\ prv2 = prev'
    OBVIOUS
  <2>10. /\ prv2 = PrevWith(prev, before, item, after)
         /\ nxt2 = NextWith(next, before, item, after)
         /\ f2 = IF before = NULL THEN [first EXCEPT ![h] = item] ELSE first
         /\ l2 = IF after = NULL THEN [last EXCEPT ![h] = item] ELSE last
         /\ n2 = [size EXCEPT ![h] = @ + 1]
         /\ returned' = item
    BY <2>8, <2>9, <1>6 DEF List_insert, LastWith, NextWith, PrevWith
  <2>11. /\ Kept(first, f2, h) /\ Kept(last, l2, h) /\ Kept(size, n2, h)
         /\ HeadWith(first, last, size, f2, l2, n2, h, before, after, item)
         /\ n2 = [g \in ListHead |-> n2[g]]
    BY <2>10, <1>3 DEF Kept, HeadWith
  <2>12. PICK L2 : L2 = [L EXCEPT ![h] = InsertAt(s, k + 1, item)]
    OBVIOUS
  <2>13. Lists(L2, f2, l2, n2, nxt2, prv2)
    <3>1. OnNone(L, item) /\ Turned(L, L2, h, InsertAt(s, k + 1, item))
      BY <2>1, <2>12 DEF OnNone, Turned
    <3>2. k \in 0 .. Len(s) /\ Gap(s, k, before, after)
      BY <2>2, <2>7
    <3>3. /\ Lists(L, first, last, size, next, prev) /\ NULL \notin ListItem
          /\ prev \in [ListItem -> Pointer] /\ next \in [ListItem -> Pointer]
      BY <1>2, <1>3
    <3>4. Lists(L2, f2, l2, n2,
                NextWith(next, before, item, after), PrevWith(prev, before, item, after))
      BY <3>1, <3>2, <3>3, <2>2, <2>11, ListsInserted
    <3> QED
      BY <3>4, <2>10
  <2>14. /\ L2 = [g \in ListHead |-> Chain(f2[g], nxt2, ListItem)]
         /\ n2 \in [ListHead -> 0 .. Cardinality(ListItem)]
    BY <2>11, <2>13, ListsAreOrder
  <2>15. Order' = L2
    BY <2>9, <2>14 DEF Order, Forward
  <2>16. /\ f2 \in [ListHead -> Pointer] /\ l2 \in [ListHead -> Pointer]
         /\ before \in Pointer /\ after \in Pointer
    <3>1. after \in Pointer
      BY <2>8, <1>3, <1>2 DEF Pointer
    <3>2. item \in Pointer
      BY DEF Pointer
    <3> QED
      BY <3>1, <3>2, <2>10, <1>3
  <2>17. nxt2 \in [ListItem -> Pointer] /\ prv2 \in [ListItem -> Pointer]
    BY <2>10, <2>16, <1>3 DEF NextWith, PrevWith, Pointer
  <2>18. TypeOK'
    BY <2>9, <2>10, <2>14, <2>16, <2>17 DEF TypeOK, Pointer
  <2>19. ListInv'
    BY <2>9, <2>13, <2>15, <2>18 DEF ListInv, Order
  <2> QED
    BY <2>1, <2>2, <2>4, <2>10, <2>12, <2>15, <2>19, <1>1, <1>4
<1> QED
  BY <1>5, <1>6

\* A list without one of its items is still strung in both directions.
LEMMA DetachStep ==
    ASSUME ListInv, NEW h \in ListHead, NEW item \in ListItem, List_detach(h, item)
    PROVE  /\ ListInv'
           /\ item \in ToSet(Order[h]) /\ returned' = item
           /\ Order' = [Order EXCEPT ![h] = RemoveAt(Order[h], PlaceOf(Order[h], item))]
<1>1. PICK L : L = Order
  OBVIOUS
<1>2. /\ Lists(L, first, last, size, next, prev) /\ TypeOK
      /\ NULL \notin ListItem
      /\ \A g \in ListHead : L[g] = Forward(g)
  BY <1>1, ListAssumption DEF ListInv, Order
<1>3. /\ first \in [ListHead -> Pointer] /\ last \in [ListHead -> Pointer]
      /\ prev \in [ListItem -> Pointer] /\ next \in [ListItem -> Pointer]
      /\ size \in [ListHead -> 0 .. Cardinality(ListItem)]
  BY <1>2 DEF TypeOK, Pointer
<1>4. PICK s : s = L[h]
  OBVIOUS
<1>5. s \in Seq(ListItem) /\ Len(s) \in Nat /\ DOMAIN s = 1 .. Len(s) /\ size[h] = Len(s)
  BY <1>2, <1>4, LenProperties DEF Lists
<1>6. item \in ToSet(s)
  BY <1>2, <1>4 DEF List_detach
<1>7. PICK k : k = PlaceOf(s, item)
  OBVIOUS
<1>8. k \in 1 .. Len(s) /\ s[k] = item
  BY <1>5, <1>6, <1>7 DEF PlaceOf, ToSet
<1>9. PICK f2, l2, n2, nxt2, prv2 :
        f2 = first' /\ l2 = last' /\ n2 = size' /\ nxt2 = next' /\ prv2 = prev'
  OBVIOUS
<1>10. /\ prv2 = PrevWithout(prev, prev[item], item, next[item])
       /\ nxt2 = NextWithout(next, prev[item], item, next[item])
       /\ f2 = IF first[h] = item THEN [first EXCEPT ![h] = next[item]] ELSE first
       /\ l2 = IF last[h] = item THEN [last EXCEPT ![h] = prev[item]] ELSE last
       /\ n2 = [size EXCEPT ![h] = @ - 1]
       /\ returned' = item
  BY <1>9 DEF List_detach, PrevCleared, NextWithout, PrevWithout
<1>11. /\ Kept(first, f2, h) /\ Kept(last, l2, h) /\ Kept(size, n2, h)
       /\ HeadWithout(first, last, size, f2, l2, n2, h, prev[item], next[item], item)
       /\ n2 = [g \in ListHead |-> n2[g]]
  BY <1>10, <1>3 DEF Kept, HeadWithout
<1>12. PICK L2 : L2 = [L EXCEPT ![h] = RemoveAt(s, k)]
  OBVIOUS
<1>13. Lists(L2, f2, l2, n2, nxt2, prv2)
  <2>1. Turned(L, L2, h, RemoveAt(s, k))
    BY <1>12 DEF Turned
  <2>2. PICK before, after : before = prev[item] /\ after = next[item]
    OBVIOUS
  <2>3. HeadWithout(first, last, size, f2, l2, n2, h, before, after, item)
    BY <2>2, <1>11
  <2>4. /\ Lists(L, first, last, size, next, prev) /\ NULL \notin ListItem
        /\ prev \in [ListItem -> Pointer] /\ next \in [ListItem -> Pointer]
    BY <1>2, <1>3
  <2>5. Lists(L2, f2, l2, n2,
              NextWithout(next, before, item, after), PrevWithout(prev, before, item, after))
    BY <2>1, <2>2, <2>3, <2>4, <1>4, <1>8, <1>11, ListsRemoved
  <2> QED
    BY <2>2, <2>5, <1>10
<1>14. /\ L2 = [g \in ListHead |-> Chain(f2[g], nxt2, ListItem)]
       /\ n2 \in [ListHead -> 0 .. Cardinality(ListItem)]
  BY <1>11, <1>13, ListsAreOrder
<1>15. Order' = L2
  BY <1>9, <1>14 DEF Order, Forward
<1>16. f2 \in [ListHead -> Pointer] /\ l2 \in [ListHead -> Pointer]
  BY <1>3, <1>10
<1>17. nxt2 \in [ListItem -> Pointer] /\ prv2 \in [ListItem -> Pointer]
  BY <1>3, <1>10 DEF NextWithout, PrevWithout, Pointer
<1>18. TypeOK'
  BY <1>9, <1>10, <1>14, <1>16, <1>17 DEF TypeOK, Pointer
<1>19. ListInv'
  BY <1>9, <1>13, <1>15, <1>18 DEF ListInv, Order
<1> QED
  BY <1>1, <1>4, <1>6, <1>7, <1>10, <1>12, <1>15, <1>19

\* ListInv is inductive.
LEMMA StepLists == ListInv /\ [Next]_vars => ListInv'
<1> SUFFICES ASSUME ListInv, [Next]_vars
             PROVE  ListInv'
  OBVIOUS
<1>1. CASE UNCHANGED vars
  BY <1>1 DEF vars, links, ListInv, TypeOK, Forward
<1>2. ASSUME NEW h \in ListHead, NEW item \in ListItem, NEW before \in ListItem \union {NULL},
             List_insert(h, before, item)
      PROVE  ListInv'
  BY <1>2, InsertStep DEF Pointer
<1>3. ASSUME NEW h \in ListHead, NEW item \in ListItem, List_detach(h, item)
      PROVE  ListInv'
  BY <1>3, DetachStep
<1> QED
  BY <1>1, <1>2, <1>3 DEF Next

\* ListInv makes the types right and the links agree.
LEMMA InvShows == ListInv => TypeOK /\ LinksAgree
<1> SUFFICES ASSUME ListInv
             PROVE  TypeOK /\ LinksAgree
  OBVIOUS
<1>1. PICK L : L = [h \in ListHead |-> Forward(h)]
  OBVIOUS
<1>2. Lists(L, first, last, size, next, prev) /\ TypeOK
  BY <1>1 DEF ListInv
<1>3. ASSUME NEW h \in ListHead
      PROVE  Forward(h) = L[h] /\ Backward(h) = Reverse(L[h]) /\ size[h] = Len(L[h])
  <2>1. Forward(h) = L[h] /\ Backward(h) = Reverse(L[h])
    BY <1>2, ListsAreChains DEF Forward, Backward
  <2>2. size[h] = Len(L[h])
    BY <1>2 DEF Lists
  <2> QED
    BY <2>1, <2>2
<1> QED
  BY <1>2, <1>3 DEF LinksAgree, Lists, Linked

\* ListInv as an invariant.
THEOREM ListInvariant == Spec => []ListInv
  BY InitLists, StepLists, PTL DEF Spec

\* Whatever is inserted and detached, the pointers of heads and items stay in range,
\* and so do the sizes.
THEOREM ListTypes == Spec => []TypeOK
  BY ListInvariant, InvShows, PTL

\* For any number of lists and items, List_insert and List_detach keep each list the
\* same in both directions, its size right, and every item on one list at most.
THEOREM PointersAgree == Spec => []LinksAgree
  BY ListInvariant, InvShows, PTL

-----------------------------------------------------------------------------
(* The lists as sequences *)

\* Empty lists are empty sequences.
LEMMA InitRefines == Init => Abstract!Init
  BY InitLists DEF Abstract!Init, Init, Order

\* Each call is one of ListOrder.
LEMMA StepRefines == ListInv /\ [Next]_vars => [Abstract!Next]_(<<Order, returned>>)
<1> SUFFICES ASSUME ListInv, [Next]_vars
             PROVE  [Abstract!Next]_(<<Order, returned>>)
  OBVIOUS
<1>1. CASE UNCHANGED vars
  BY <1>1 DEF vars, links, Order, Forward
<1>2. ASSUME NEW h \in ListHead, NEW item \in ListItem, NEW before \in ListItem \union {NULL},
             List_insert(h, before, item)
      PROVE  Abstract!Next
  <2>1. /\ \/ /\ \E g \in ListHead : item \in ToSet(Order[g])
              /\ returned' = NULL /\ Order' = Order
           \/ /\ \A g \in ListHead : item \notin ToSet(Order[g])
              /\ before = NULL \/ before \in ToSet(Order[h])
              /\ returned' = item
              /\ Order' = [Order EXCEPT ![h] =
                     InsertAt(Order[h], (IF before = NULL THEN 0 ELSE PlaceOf(Order[h], before)) + 1,
                              item)]
    BY <1>2, InsertStep DEF Pointer
  <2>2. CASE /\ \E g \in ListHead : item \in ToSet(Order[g])
             /\ returned' = NULL /\ Order' = Order
    <3>1. Abstract!RefuseInsert(item)
      BY <2>2 DEF Abstract!RefuseInsert, Abstract!On, Abstract!ToSet, ToSet, Order
    <3> QED
      BY <3>1 DEF Abstract!Next
  <2>3. CASE /\ \A g \in ListHead : item \notin ToSet(Order[g])
             /\ before = NULL \/ before \in ToSet(Order[h])
             /\ returned' = item
             /\ Order' = [Order EXCEPT ![h] =
                    InsertAt(Order[h], (IF before = NULL THEN 0 ELSE PlaceOf(Order[h], before)) + 1,
                             item)]
    <3>1. Abstract!Insert(h, before, item)
      BY <2>3 DEF Abstract!Insert, Abstract!On, Abstract!Place, Abstract!ToSet, ToSet, Order,
                  Abstract!InsertAt, InsertAt, PlaceOf
    <3> QED
      BY <3>1 DEF Abstract!Next
  <2> QED
    BY <2>1, <2>2, <2>3
<1>3. ASSUME NEW h \in ListHead, NEW item \in ListItem, List_detach(h, item)
      PROVE  Abstract!Next
  <2>1. /\ item \in ToSet(Order[h]) /\ returned' = item
        /\ Order' = [Order EXCEPT ![h] = RemoveAt(Order[h], PlaceOf(Order[h], item))]
    BY <1>3, DetachStep
  <2>2. Abstract!Detach(h, item)
    BY <2>1 DEF Abstract!Detach, Abstract!On, Abstract!Place, Abstract!ToSet, ToSet, Order,
                Abstract!RemoveAt, RemoveAt, PlaceOf
  <2> QED
    BY <2>2 DEF Abstract!Next
<1> QED
  BY <1>1, <1>2, <1>3 DEF Next

\* For any number of lists and items, the pointers implement ListOrder: an item gets
\* behind the one named and a detached item leaves the others in their order.
THEOREM ListsImplement == Spec => ImplementsListOrder
<1>1. <<Order, returned>> = <<[h \in ListHead |-> Forward(h)], returned>>
  BY DEF Order
<1> QED
  BY <1>1, InitRefines, StepRefines, ListInvariant, PTL
     DEF Spec, ImplementsListOrder, Abstract!Spec, Order
=============================================================================
