--------------------------- MODULE PoolInvariants ---------------------------
(***************************************************************************)
(* The array of indices is a pool: through any sequence of calls, wrong    *)
(* ones included, the links lead through the free blocks, each once.       *)
(***************************************************************************)
EXTENDS PoolAllocator, ListLemmas

\* Beyond types and LinksAreFree: the chain ends properly, at NullIdx, and not
\* on its way round at a block that somebody holds.
PoolInv ==
    /\ TypeOK
    /\ LinksAreFree
    /\ FreeChain \in Seq(Idx)
    /\ Hangs(FreeChain, first_idx, free_list, NullIdx)

\* s lists the free blocks, from the first on; n counts them.
FreeList(s, first, link, n) ==
    /\ s \in Seq(Idx)
    /\ IsInjective(s)
    /\ Hangs(s, first, link, NullIdx)
    /\ n = Len(s)
    /\ \A i \in Idx : link[i] = DetachedIdx <=> i \notin ToSet(s)

-----------------------------------------------------------------------------
(* Blocks and indices *)

\* What the assumptions say of the numbers.
LEMMA Indices ==
    /\ IsFiniteSet(Idx) /\ Cardinality(Idx) = size_max
    /\ size_max \in Nat \ {0} /\ item_size \in Nat \ {0}
    /\ NullIdx \notin Idx /\ DetachedIdx \notin Idx /\ NullIdx # DetachedIdx
    /\ Idx \subseteq Int
<1>1. size_max \in Nat \ {0} /\ item_size \in Nat \ {0}
  BY PoolAssumption
<1>2. size_max - 1 \in Int /\ 0 \in Int
  BY <1>1
<1>3. IsFiniteSet(0 .. size_max - 1)
      /\ Cardinality(0 .. size_max - 1) = IF 0 > size_max - 1 THEN 0 ELSE size_max - 1 - 0 + 1
  BY <1>2, FS_Interval
<1> QED
  BY <1>1, <1>3 DEF Idx, NullIdx, DetachedIdx

\* An aligned offset in the buffer is that of exactly one block.
LEMMA OffsetsAreBlocks ==
    /\ \A i, j \in Idx : i * item_size = j * item_size => i = j
    /\ \A i \in Idx : i * item_size \in Nat
    /\ \A offset \in Int :
          /\ offset \div item_size \in Int
          /\ offset % item_size = 0 => offset = (offset \div item_size) * item_size
    /\ \A i \in Idx : (i * item_size) % item_size = 0 /\ (i * item_size) \div item_size = i
  BY Indices DEF Idx

-----------------------------------------------------------------------------
(* The chain *)

\* The block before the others is taken from the chain ...
LEMMA ChainLost ==
    ASSUME NEW nodes, NEW s \in Seq(nodes), IsInjective(s), s # <<>>,
           NEW link, DOMAIN link = nodes, NEW start, NEW end, NEW mark,
           Hangs(s, start, link, end)
    PROVE  /\ start = Head(s) /\ start \in nodes
           /\ Hangs(Tail(s), link[start], [link EXCEPT ![start] = mark], end)
<1>1. /\ Tail(s) \in Seq(nodes)
      /\ Len(Tail(s)) = Len(s) - 1
      /\ \A i \in 1 .. Len(Tail(s)) : Tail(s)[i] = s[i + 1]
  BY HeadTailProperties
<1>2. /\ Len(s) \in Nat \ {0} /\ DOMAIN s = 1 .. Len(s)
      /\ \A i \in 1 .. Len(s) : s[i] \in nodes
      /\ Head(s) = s[1]
      /\ Tail(s) = <<>> <=> Len(s) = 1
  <2>1. /\ Len(s) \in Nat \ {0} /\ DOMAIN s = 1 .. Len(s)
        /\ \A i \in 1 .. Len(s) : s[i] \in nodes
        /\ Head(s) = s[1]
    BY LenProperties, EmptySeq
  <2>2. Tail(s) = <<>> <=> Len(Tail(s)) = 0
    BY <1>1, EmptySeq
  <2> QED
    BY <1>1, <2>1, <2>2
<1>3. start = s[1] /\ start \in nodes
  BY <1>2 DEF Hangs
<1>4. \A i \in 2 .. Len(s) : s[i] # start
  BY <1>2, <1>3 DEF IsInjective
<1> DEFINE t == Tail(s)
           left == [link EXCEPT ![start] = mark]
<1>5. \A i \in 2 .. Len(s) : left[s[i]] = link[s[i]]
  BY <1>2, <1>4
<1> HIDE DEF left
<1>6. link[start] = IF t = <<>> THEN end ELSE t[1]
  BY <1>1, <1>2, <1>3 DEF Hangs
<1>7. \A i \in 1 .. Len(t) - 1 : left[t[i]] = t[i + 1]
  BY <1>1, <1>2, <1>5 DEF Hangs
<1>8. t # <<>> => left[t[Len(t)]] = end
  BY <1>1, <1>2, <1>5 DEF Hangs
<1>9. Hangs(t, link[start], left, end)
  BY <1>6, <1>7, <1>8 DEF Hangs
<1> QED
  BY <1>2, <1>3, <1>9 DEF left

\* ... and put before the others.
LEMMA ChainGrown ==
    ASSUME NEW nodes, NEW s \in Seq(nodes), NEW node \in nodes, node \notin ToSet(s),
           NEW link, DOMAIN link = nodes, NEW start, NEW end,
           Hangs(s, start, link, end)
    PROVE  Hangs(<<node>> \o s, node, [link EXCEPT ![node] = start], end)
<1>1. <<node>> \in Seq(nodes) /\ Len(<<node>>) = 1 /\ <<node>>[1] = node
  OBVIOUS
<1> DEFINE t == <<node>> \o s
           grown == [link EXCEPT ![node] = start]
<1>2. /\ Len(t) = Len(s) + 1 /\ t[1] = node
      /\ \A i \in 2 .. Len(s) + 1 : t[i] = s[i - 1]
      /\ t # <<>>
  OBVIOUS
<1> HIDE DEF t
<1>3. /\ Len(s) \in Nat
      /\ \A i \in 1 .. Len(s) : s[i] \in nodes /\ s[i] # node
      /\ s = <<>> <=> Len(s) = 0
  BY EmptySeq, LenProperties DEF ToSet
<1>4. grown[node] = start /\ \A i \in 1 .. Len(s) : grown[s[i]] = link[s[i]]
  BY <1>3
<1> HIDE DEF grown
<1>5. \A i \in 1 .. Len(t) - 1 : grown[t[i]] = t[i + 1]
  <2> SUFFICES ASSUME NEW i \in 1 .. Len(s)
               PROVE  grown[t[i]] = t[i + 1]
    BY <1>2
  <2>1. t[i + 1] = s[i]
    BY <1>2, <1>3
  <2>2. CASE i = 1
    BY <2>1, <2>2, <1>2, <1>3, <1>4 DEF Hangs
  <2>3. CASE i # 1
    BY <2>1, <2>3, <1>2, <1>3, <1>4 DEF Hangs
  <2> QED
    BY <2>2, <2>3
<1>6. grown[t[Len(t)]] = end
  BY <1>2, <1>3, <1>4 DEF Hangs
<1>7. Hangs(t, node, grown, end)
  BY <1>2, <1>5, <1>6 DEF Hangs
<1> QED
  BY <1>7 DEF t, grown
\* Such a list is the chain; so no head is a block that somebody holds, and the
\* count stays within the pool.
LEMMA FreeListIsChain ==
    ASSUME NEW s, NEW first, NEW link, NEW n, FreeList(s, first, link, n)
    PROVE  /\ Chain(first, link, Idx) = s
           /\ first \in Idx \union {NullIdx}
           /\ n \in 0 .. size_max
<1>1. /\ s \in Seq(Idx) /\ IsInjective(s) /\ n = Len(s)
      /\ Hangs(s, first, link, NullIdx)
      /\ IsFiniteSet(Idx) /\ Cardinality(Idx) = size_max /\ size_max \in Nat
      /\ NullIdx \notin Idx
  BY Indices DEF FreeList
<1>2. Chain(first, link, Idx) = s
  BY <1>1, ChainIs
<1>3. n \in 0 .. size_max
  BY <1>1, LengthBound, LenProperties
<1>4. s # <<>> => s[1] \in Idx
  BY <1>1, EmptySeq, LenProperties
<1> QED
  BY <1>1, <1>2, <1>3, <1>4 DEF Hangs

\* In PoolInv the chain is the list of the free.
LEMMA ChainIsFreeList ==
    ASSUME PoolInv
    PROVE  FreeList(FreeChain, first_idx, free_list, size)
  BY DEF PoolInv, LinksAreFree, FreeList

-----------------------------------------------------------------------------
(* The calls *)

\* At first the free blocks are all, in the order of their addresses.
LEMMA InitFree ==
    ASSUME Init
    PROVE  FreeList([k \in 1 .. size_max |-> k - 1], first_idx, free_list, size)
<1> DEFINE s == [k \in 1 .. size_max |-> k - 1]
<1>1. /\ size_max \in Nat \ {0} /\ \A k \in 1 .. size_max : k - 1 \in Idx
      /\ \A i \in Idx : i + 1 \in 1 .. size_max
  BY Indices DEF Idx
<1>2. s \in Seq(Idx) /\ Len(s) = size_max
  BY <1>1
<1>3. IsInjective(s)
  BY <1>1 DEF IsInjective
<1>4. /\ s # <<>> /\ \A k \in 1 .. size_max : s[k] = k - 1
  BY <1>1, <1>2
<1>5. ToSet(s) = Idx
  <2>1. DOMAIN s = 1 .. size_max /\ \A k \in 1 .. size_max : s[k] \in Idx
    BY <1>1
  <2>2. ASSUME NEW i \in Idx
        PROVE  s[i + 1] = i
    <3>1. i + 1 \in 1 .. size_max /\ i \in Int
      BY <1>1, Indices
    <3> QED
      BY <3>1
  <2> HIDE DEF s
  <2>3. ToSet(s) \subseteq Idx
    BY <2>1 DEF ToSet
  <2>4. Idx \subseteq ToSet(s)
    BY <1>1, <2>1, <2>2 DEF ToSet
  <2> QED
    BY <2>3, <2>4
<1> HIDE DEF s
<1>6. \A i \in Idx : free_list[i] = (IF i < size_max - 1 THEN i + 1 ELSE NullIdx)
  BY DEF Init
<1>7. Hangs(s, first_idx, free_list, NullIdx)
  <2>1. first_idx = s[1]
    BY <1>1, <1>4 DEF Init
  <2>2. \A i \in 1 .. Len(s) - 1 : free_list[s[i]] = s[i + 1]
    <3> SUFFICES ASSUME NEW i \in 1 .. size_max - 1
                 PROVE  free_list[s[i]] = s[i + 1]
      BY <1>2
    <3>1. i \in 1 .. size_max /\ i + 1 \in 1 .. size_max /\ i - 1 \in Idx /\ i - 1 < size_max - 1
      BY <1>1
    <3>2. s[i] = i - 1 /\ s[i + 1] = i
      BY <3>1, <1>4
    <3>3. free_list[i - 1] = i
      BY <3>1, <1>6
    <3> QED
      BY <3>2, <3>3
  <2>3. free_list[s[Len(s)]] = NullIdx
    <3>1. size_max \in 1 .. size_max /\ size_max - 1 \in Idx
      BY <1>1
    <3>2. s[size_max] = size_max - 1
      BY <3>1, <1>4
    <3>3. free_list[size_max - 1] = NullIdx
      BY <3>1, <1>6
    <3> QED
      BY <3>2, <3>3, <1>2
  <2> QED
    BY <1>4, <2>1, <2>2, <2>3 DEF Hangs
<1>8. \A i \in Idx : free_list[i] # DetachedIdx
  BY <1>1, <1>6 DEF NullIdx, DetachedIdx, Idx
<1>9. size = Len(s)
  BY <1>2 DEF Init
<1> QED
  BY <1>2, <1>3, <1>5, <1>7, <1>8, <1>9 DEF FreeList, s

\* The links and the count without the first free block.
LEMMA GetFree ==
    ASSUME NEW s, FreeList(s, first_idx, free_list, size), first_idx # NullIdx,
           DOMAIN free_list = Idx
    PROVE  /\ s # <<>> /\ first_idx = Head(s) /\ first_idx \in Idx
           /\ FreeList(Tail(s), free_list[first_idx], Marked(first_idx), size - 1)
<1>1. s \in Seq(Idx) /\ IsInjective(s) /\ s # <<>>
      /\ Hangs(s, first_idx, free_list, NullIdx)
  BY DEF FreeList, Hangs
<1>2. /\ first_idx = Head(s) /\ first_idx \in Idx
      /\ Hangs(Tail(s), free_list[first_idx], Marked(first_idx), NullIdx)
  BY <1>1, ChainLost DEF Marked
<1>3. /\ Tail(s) \in Seq(Idx) /\ IsInjective(Tail(s))
      /\ ToSet(s) = ToSet(Tail(s)) \union {Head(s)} /\ Head(s) \notin ToSet(Tail(s))
      /\ Len(Tail(s)) = Len(s) - 1
  BY <1>1, Detached, HeadTailProperties
<1>4. ASSUME NEW i \in Idx
      PROVE  Marked(first_idx)[i] = DetachedIdx <=> i \notin ToSet(Tail(s))
  BY <1>2, <1>3 DEF Marked, FreeList
<1> QED
  BY <1>1, <1>2, <1>3, <1>4 DEF FreeList

\* The links and the count with one more block before the free.
LEMMA ReleaseFree ==
    ASSUME NEW s, FreeList(s, first_idx, free_list, size), NEW idx \in Idx, ~FreeAlready(idx),
           DOMAIN free_list = Idx
    PROVE  /\ idx \notin ToSet(s)
           /\ FreeList(<<idx>> \o s, idx, Linked(idx), size + 1)
<1>1. s \in Seq(Idx) /\ IsInjective(s) /\ idx \notin ToSet(s)
      /\ Hangs(s, first_idx, free_list, NullIdx)
  BY DEF FreeList, FreeAlready
<1>2. Hangs(<<idx>> \o s, idx, Linked(idx), NullIdx)
  BY <1>1, ChainGrown DEF Linked
<1>3. /\ <<idx>> \o s \in Seq(Idx) /\ IsInjective(<<idx>> \o s)
      /\ ToSet(<<idx>> \o s) = ToSet(s) \union {idx}
  BY <1>1, PutInFront
<1>4. Len(<<idx>> \o s) = Len(s) + 1
  BY <1>1
<1>5. first_idx # DetachedIdx
  BY FreeListIsChain, Indices
<1>6. ASSUME NEW i \in Idx
      PROVE  Linked(idx)[i] = DetachedIdx <=> i \notin ToSet(<<idx>> \o s)
  BY <1>3, <1>5 DEF Linked, FreeList
<1>7. size + 1 = Len(s) + 1
  BY DEF FreeList
<1> QED
  BY <1>1, <1>2, <1>3, <1>4, <1>6, <1>7 DEF FreeList

\* What the calls leave behind, once the links after them are known.
LEMMA PoolKept ==
    ASSUME NEW s, FreeList(s, first_idx', free_list', size'),
           free_list' \in [Idx -> Idx \union {NullIdx, DetachedIdx}],
           returned' \in [op : {"init", "get", "release"}, arg : Int, value : Int]
    PROVE  PoolInv' /\ FreeChain' = s
<1>1. /\ Chain(first_idx', free_list', Idx) = s
      /\ first_idx' \in Idx \union {NullIdx}
      /\ size' \in 0 .. size_max
  BY FreeListIsChain
<1>2. FreeChain' = s
  BY <1>1 DEF FreeChain
<1> QED
  BY <1>1, <1>2 DEF PoolInv, TypeOK, LinksAreFree, FreeList

\* A call that changes nothing but its answer.
LEMMA PoolSame ==
    ASSUME PoolInv, UNCHANGED <<first_idx, free_list, size>>,
           returned' \in [op : {"init", "get", "release"}, arg : Int, value : Int]
    PROVE  PoolInv' /\ FreeChain' = FreeChain
<1>1. FreeList(FreeChain, first_idx', free_list', size')
  BY ChainIsFreeList
<1>2. free_list' \in [Idx -> Idx \union {NullIdx, DetachedIdx}]
  BY DEF PoolInv, TypeOK
<1> QED
  BY <1>1, <1>2, PoolKept

\* PoolAllocator_getBlock takes the first free block.
LEMMA GetStep ==
    ASSUME PoolInv, PoolAllocator_getBlock
    PROVE  /\ PoolInv'
           /\ \/ /\ FreeChain = <<>>
                 /\ FreeChain' = FreeChain
                 /\ returned' = [op |-> "get", arg |-> NULL, value |-> NULL]
              \/ /\ FreeChain # <<>>
                 /\ FreeChain' = Tail(FreeChain)
                 /\ returned' = [op |-> "get", arg |-> NULL,
                                 value |-> Head(FreeChain) * item_size]
<1>1. PICK s : s = FreeChain
  OBVIOUS
<1>2. FreeList(s, first_idx, free_list, size)
  BY <1>1, ChainIsFreeList
<1>3. /\ first_idx \in Idx \union {NullIdx}
      /\ free_list \in [Idx -> Idx \union {NullIdx, DetachedIdx}]
  BY DEF PoolInv, TypeOK
<1>4. CASE first_idx = NullIdx
  <2>1. returned' = [op |-> "get", arg |-> NULL, value |-> NULL]
        /\ UNCHANGED <<first_idx, free_list, size>>
    BY <1>4 DEF PoolAllocator_getBlock
  <2>2. s = <<>>
    BY <1>2, <1>4, Indices, EmptySeq, LenProperties DEF FreeList, Hangs
  <2> QED
    BY <1>1, <2>1, <2>2, PoolSame DEF NULL
<1>5. CASE first_idx # NullIdx
  <2>1. /\ s # <<>> /\ first_idx = Head(s) /\ first_idx \in Idx
        /\ FreeList(Tail(s), free_list[first_idx], Marked(first_idx), size - 1)
    BY <1>2, <1>3, <1>5, GetFree
  <2>2. /\ first_idx' = free_list[first_idx]
        /\ free_list' = Marked(first_idx)
        /\ size' = size - 1
        /\ returned' = [op |-> "get", arg |-> NULL, value |-> first_idx * item_size]
    BY <1>5 DEF PoolAllocator_getBlock
  <2>3. first_idx * item_size \in Int
    BY <2>1, OffsetsAreBlocks
  <2>4. returned' \in [op : {"init", "get", "release"}, arg : Int, value : Int]
    BY <2>2, <2>3 DEF NULL
  <2>5. free_list' \in [Idx -> Idx \union {NullIdx, DetachedIdx}]
    BY <1>3, <2>1, <2>2 DEF Marked
  <2>6. FreeList(Tail(s), first_idx', free_list', size')
    BY <2>1, <2>2
  <2>7. PoolInv' /\ FreeChain' = Tail(s)
    BY <2>4, <2>5, <2>6, PoolKept
  <2> QED
    BY <1>1, <2>1, <2>2, <2>7
<1> QED
  BY <1>4, <1>5

\* PoolAllocator_releaseBlock puts a block of the buffer that is not free before
\* the free ones and refuses everything else.
LEMMA ReleaseStep ==
    ASSUME PoolInv, NEW offset \in Offset, PoolAllocator_releaseBlock(offset)
    PROVE  /\ PoolInv'
           /\ returned' = [op |-> "release", arg |-> offset, value |-> Refusal(offset)]
           /\ \/ /\ Refusal(offset) # Success
                 /\ \A i \in Idx : offset = i * item_size => i \in ToSet(FreeChain)
                 /\ FreeChain' = FreeChain
              \/ /\ Refusal(offset) = Success
                 /\ \E i \in Idx : /\ offset = i * item_size
                                   /\ i \notin ToSet(FreeChain)
                                   /\ FreeChain' = <<i>> \o FreeChain
<1>1. PICK s : s = FreeChain
  OBVIOUS
<1>2. FreeList(s, first_idx, free_list, size)
  BY <1>1, ChainIsFreeList
<1>3. /\ first_idx \in Idx \union {NullIdx}
      /\ free_list \in [Idx -> Idx \union {NullIdx, DetachedIdx}]
  BY DEF PoolInv, TypeOK
<1>4. PICK idx : idx = offset \div item_size
  OBVIOUS
<1>5. offset \in Int
  <2>1. item_size \in Int /\ (size_max + 1) * item_size \in Int
    BY Indices
  <2> QED
    BY <2>1 DEF Offset
<1>6. returned' = [op |-> "release", arg |-> offset, value |-> Refusal(offset)]
  BY DEF PoolAllocator_releaseBlock
<1>7. Refusal(offset) \in Int
  BY DEF Refusal, UnalignedFree, OutOfRange, DoubleFree, Success
<1>8. returned' \in [op : {"init", "get", "release"}, arg : Int, value : Int]
  BY <1>5, <1>6, <1>7
<1>9. Refusal(offset) = Success <=>
          offset % item_size = 0 /\ idx \in Idx /\ ~FreeAlready(idx)
  BY <1>4 DEF Refusal, UnalignedFree, OutOfRange, DoubleFree, Success
<1>10. CASE Refusal(offset) # Success
  <2>1. UNCHANGED <<first_idx, free_list, size>>
    BY <1>10 DEF PoolAllocator_releaseBlock
  <2>2. ASSUME NEW i \in Idx, offset = i * item_size
        PROVE  i \in ToSet(s)
    <3>1. offset % item_size = 0 /\ idx = i
      BY <1>4, <2>2, OffsetsAreBlocks
    <3> QED
      BY <1>2, <1>9, <1>10, <3>1 DEF FreeList, FreeAlready
  <2> QED
    BY <1>1, <1>6, <1>8, <1>10, <2>1, <2>2, PoolSame
<1>11. CASE Refusal(offset) = Success
  <2>1. offset % item_size = 0 /\ idx \in Idx /\ ~FreeAlready(idx)
    BY <1>9, <1>11
  <2>2. /\ idx \notin ToSet(s)
        /\ FreeList(<<idx>> \o s, idx, Linked(idx), size + 1)
    BY <1>2, <1>3, <2>1, ReleaseFree
  <2>3. free_list' = Linked(idx) /\ first_idx' = idx /\ size' = size + 1
    BY <1>4, <1>11 DEF PoolAllocator_releaseBlock
  <2>4. free_list' \in [Idx -> Idx \union {NullIdx, DetachedIdx}]
    BY <1>3, <2>1, <2>3 DEF Linked
  <2>5. FreeList(<<idx>> \o s, first_idx', free_list', size')
    BY <2>2, <2>3
  <2>6. PoolInv' /\ FreeChain' = <<idx>> \o s
    BY <1>8, <2>4, <2>5, PoolKept
  <2>7. offset = idx * item_size
    BY <1>4, <1>5, <2>1, OffsetsAreBlocks
  <2> QED
    BY <1>1, <1>6, <1>11, <2>1, <2>2, <2>6, <2>7
<1> QED
  BY <1>10, <1>11
-----------------------------------------------------------------------------
(* The invariant *)

\* PoolAllocator_init makes the invariant ...
LEMMA InitPool == Init => PoolInv
<1> SUFFICES ASSUME Init
             PROVE  PoolInv
  OBVIOUS
<1> DEFINE s == [k \in 1 .. size_max |-> k - 1]
<1>1. FreeList(s, first_idx, free_list, size)
  BY InitFree
<1> HIDE DEF s
<1>2. /\ Chain(first_idx, free_list, Idx) = s
      /\ first_idx \in Idx \union {NullIdx}
      /\ size \in 0 .. size_max
  BY <1>1, FreeListIsChain
<1>3. FreeChain = s
  BY <1>2 DEF FreeChain
<1>4. free_list \in [Idx -> Idx \union {NullIdx, DetachedIdx}]
  <2>1. \A i \in Idx : i < size_max - 1 => i + 1 \in Idx
    BY Indices DEF Idx
  <2> QED
    BY <2>1 DEF Init
<1>5. returned \in [op : {"init", "get", "release"}, arg : Int, value : Int]
  BY DEF Init, NULL, Success
<1> QED
  BY <1>1, <1>2, <1>3, <1>4, <1>5 DEF PoolInv, TypeOK, LinksAreFree, FreeList

\* ... and every call keeps it.
LEMMA StepPool == PoolInv /\ [Next]_vars => PoolInv'
<1> SUFFICES ASSUME PoolInv, [Next]_vars
             PROVE  PoolInv'
  OBVIOUS
<1>1. CASE PoolAllocator_getBlock
  BY <1>1, GetStep
<1>2. ASSUME NEW offset \in Offset, PoolAllocator_releaseBlock(offset)
      PROVE  PoolInv'
  BY <1>2, ReleaseStep
<1>3. CASE UNCHANGED vars
  <2>1. returned' \in [op : {"init", "get", "release"}, arg : Int, value : Int]
    BY <1>3 DEF vars, PoolInv, TypeOK
  <2> QED
    BY <1>3, <2>1, PoolSame DEF vars
<1> QED
  BY <1>1, <1>2, <1>3 DEF Next

\* Through any calls, PoolInv holds.
THEOREM PoolInvariant == Spec => []PoolInv
  BY InitPool, StepPool, PTL DEF Spec

\* For any number and size of blocks and any calls, no index leaves the array and
\* the count of free blocks stays between zero and all of them.
THEOREM PoolTypes == Spec => []TypeOK
<1>1. PoolInv => TypeOK
  BY DEF PoolInv
<1> QED
  BY <1>1, PoolInvariant, PTL

\* For any number and size of blocks and any calls, wrong ones included, the links
\* lead through exactly the blocks that nobody holds, each once.
THEOREM LinksLeadThroughFree == Spec => []LinksAreFree
<1>1. PoolInv => LinksAreFree
  BY DEF PoolInv
<1> QED
  BY <1>1, PoolInvariant, PTL

-----------------------------------------------------------------------------
(* The refinement *)

\* The pointers that a list of blocks stands for.
Pointers(s) == [k \in DOMAIN s |-> s[k] * item_size]
Blocks == {i * item_size : i \in Idx}

\* The addresses of indices: what the mapping makes of an empty list, of its head and tail
\* and of one that got longer.
LEMMA PointersOf ==
    ASSUME NEW s \in Seq(Idx)
    PROVE  /\ Pointers(s) \in Seq(Blocks)
           /\ Pointers(s) = <<>> <=> s = <<>>
           /\ s # <<>> => /\ Head(Pointers(s)) = Head(s) * item_size
                          /\ Tail(Pointers(s)) = Pointers(Tail(s))
           /\ IsInjective(s) => IsInjective(Pointers(s))
           /\ \A i \in Idx : /\ i * item_size \in ToSet(Pointers(s)) <=> i \in ToSet(s)
                             /\ Pointers(<<i>> \o s) = <<i * item_size>> \o Pointers(s)
<1> DEFINE f == Pointers(s)
<1>1. /\ Len(s) \in Nat /\ DOMAIN s = 1 .. Len(s)
      /\ \A k \in 1 .. Len(s) : s[k] \in Idx
      /\ s = <<>> <=> Len(s) = 0
  BY EmptySeq, LenProperties
<1>2. f = [k \in 1 .. Len(s) |-> s[k] * item_size]
  BY <1>1 DEF Pointers
<1>3. \A k \in 1 .. Len(s) : s[k] * item_size \in Blocks
  BY <1>1 DEF Blocks
<1>4. /\ f \in Seq(Blocks) /\ Len(f) = Len(s) /\ DOMAIN f = 1 .. Len(s)
      /\ \A k \in 1 .. Len(s) : f[k] = s[k] * item_size
  BY <1>1, <1>2, <1>3
<1> HIDE DEF f
<1>5. f = <<>> <=> s = <<>>
  BY <1>1, <1>4, EmptySeq
<1>6. ASSUME s # <<>>
      PROVE  Head(f) = Head(s) * item_size /\ Tail(f) = Pointers(Tail(s))
  <2>1. /\ Tail(s) \in Seq(Idx) /\ Len(Tail(s)) = Len(s) - 1
        /\ \A k \in 1 .. Len(s) - 1 : Tail(s)[k] = s[k + 1]
        /\ Head(s) = s[1]
    BY <1>6, HeadTailProperties
  <2>2. /\ Tail(f) \in Seq(Blocks) /\ Len(Tail(f)) = Len(s) - 1
        /\ \A k \in 1 .. Len(s) - 1 : Tail(f)[k] = f[k + 1]
        /\ Head(f) = f[1]
    BY <1>4, <1>5, <1>6, HeadTailProperties
  <2>3. DOMAIN Tail(s) = 1 .. Len(s) - 1 /\ DOMAIN Tail(f) = 1 .. Len(s) - 1
        /\ Tail(f) = [k \in 1 .. Len(s) - 1 |-> Tail(f)[k]]
    BY <2>1, <2>2, LenProperties
  <2>4. Pointers(Tail(s)) = [k \in 1 .. Len(s) - 1 |-> Tail(s)[k] * item_size]
    BY <2>3 DEF Pointers
  <2>5. \A k \in 1 .. Len(s) - 1 : Tail(f)[k] = Tail(s)[k] * item_size
    BY <1>1, <1>4, <2>1, <2>2
  <2>6. Head(f) = Head(s) * item_size
    BY <1>1, <1>4, <1>6, <2>1, <2>2
  <2> QED
    BY <2>3, <2>4, <2>5, <2>6
<1>7. ASSUME IsInjective(s)
      PROVE  IsInjective(f)
  BY <1>1, <1>4, <1>7, OffsetsAreBlocks DEF IsInjective
<1>8. ASSUME NEW i \in Idx
      PROVE  i * item_size \in ToSet(f) <=> i \in ToSet(s)
  <2>1. \A k \in 1 .. Len(s) : f[k] = i * item_size <=> s[k] = i
    BY <1>1, <1>4, OffsetsAreBlocks
  <2>2. i \in ToSet(s) <=> \E k \in 1 .. Len(s) : s[k] = i
    BY <1>1 DEF ToSet
  <2>3. i * item_size \in ToSet(f) <=> \E k \in 1 .. Len(s) : f[k] = i * item_size
    BY <1>4 DEF ToSet
  <2> QED
    BY <2>1, <2>2, <2>3
<1>9. ASSUME NEW i \in Idx
      PROVE  Pointers(<<i>> \o s) = <<i * item_size>> \o f
  <2> DEFINE g == <<i>> \o s
             h == <<i * item_size>> \o f
  <2>1. i * item_size \in Blocks
    BY DEF Blocks
  <2>2. <<i>> \in Seq(Idx) /\ <<i * item_size>> \in Seq(Blocks)
        /\ Len(<<i>>) = 1 /\ Len(<<i * item_size>>) = 1
        /\ <<i>>[1] = i /\ <<i * item_size>>[1] = i * item_size
    BY <2>1
  <2>3. /\ g \in Seq(Idx) /\ Len(g) = Len(s) + 1
        /\ \A k \in 1 .. Len(s) + 1 : g[k] = IF k <= 1 THEN <<i>>[k] ELSE s[k - 1]
    BY <1>1, <2>2, ConcatProperties
  <2>4. /\ h \in Seq(Blocks) /\ Len(h) = Len(s) + 1
        /\ \A k \in 1 .. Len(s) + 1 : h[k] = IF k <= 1 THEN <<i * item_size>>[k] ELSE f[k - 1]
    BY <1>1, <1>4, <2>2, ConcatProperties
  <2> HIDE DEF g, h
  <2>5. \A k \in 1 .. Len(s) + 1 : h[k] = g[k] * item_size
    BY <1>1, <1>4, <2>2, <2>3, <2>4
  <2>6. DOMAIN g = 1 .. Len(s) + 1 /\ h = [k \in 1 .. Len(s) + 1 |-> h[k]]
    BY <2>3, <2>4, LenProperties
  <2>7. Pointers(g) = [k \in 1 .. Len(s) + 1 |-> g[k] * item_size]
    BY <2>6 DEF Pointers
  <2>8. Pointers(g) = h
    BY <2>5, <2>6, <2>7
  <2> QED
    BY <2>8 DEF g, h
<1> QED
  BY <1>4, <1>5, <1>6, <1>7, <1>8, <1>9 DEF f

\* There are as many addresses of blocks as blocks.
LEMMA BlocksCounted == IsFiniteSet(Blocks) /\ Cardinality(Blocks) = size_max
<1> DEFINE f == [i \in Idx |-> i * item_size]
<1>1. f \in Bijection(Idx, Blocks)
  BY OffsetsAreBlocks DEF Bijection, Injection, Surjection, IsInjective, Blocks
<1>2. ExistsBijection(Idx, Blocks)
  BY <1>1 DEF ExistsBijection
<1> QED
  BY <1>2, Indices, FS_Bijection

\* free and answer of BlockPool for the chain s and what was returned.
Answer(r) ==
    [op |-> r.op,
     value |-> IF r.op = "get" THEN r.value
               ELSE IF r.op = "release" /\ r.value = Success THEN r.arg ELSE NULL]

\* The initial chain is a list of all blocks.
LEMMA InitRefines == Init => Abstract!Init
<1> SUFFICES ASSUME Init
             PROVE  Abstract!Init
  OBVIOUS
<1>1. PICK s : s = FreeChain
  OBVIOUS
<1>2. s \in Seq(Idx) /\ IsInjective(s) /\ Len(s) = size_max
  BY <1>1, InitPool DEF PoolInv, LinksAreFree, Init
<1>3. Pointers(s) \in Seq(Blocks) /\ IsInjective(Pointers(s))
  BY <1>2, PointersOf
<1>4. DOMAIN Pointers(s) = 1 .. size_max
  BY <1>2, LenProperties DEF Pointers
<1>5. Pointers(s) \in [1 .. Cardinality(Blocks) -> Blocks]
  BY <1>3, <1>4, BlocksCounted, LenProperties
<1>6. Answer(returned) = [op |-> "init", value |-> NULL]
  BY DEF Init, Answer
<1> QED
  <2>1. /\ Abstract!Cardinality(Blocks) = Cardinality(Blocks)
        /\ Abstract!IsInjective(Pointers(s)) = IsInjective(Pointers(s))
    BY DEF Abstract!Cardinality, Cardinality, Abstract!IsInjective, IsInjective
  <2>2. /\ [k \in DOMAIN FreeChain |-> FreeChain[k] * item_size] = Pointers(s)
        /\ {i * item_size : i \in Idx} = Blocks
    BY <1>1 DEF Pointers, Blocks
  <2> QED
    BY <1>3, <1>5, <1>6, <2>1, <2>2 DEF Abstract!Init, Answer

\* Each call is one of BlockPool.
LEMMA StepRefines == PoolInv /\ [Next]_vars => [Abstract!Next]_(Abstract!poolVars)
<1> SUFFICES ASSUME PoolInv, [Next]_vars
             PROVE  [Abstract!Next]_(Abstract!poolVars)
  OBVIOUS
<1>1. PICK s, t : s = FreeChain /\ t = FreeChain'
  OBVIOUS
<1>2. s \in Seq(Idx)
  BY <1>1 DEF PoolInv
<1>3. PICK a : a = Answer(returned)'
  OBVIOUS
<1>4. /\ Pointers(s) = <<>> <=> s = <<>>
      /\ s # <<>> => /\ Head(Pointers(s)) = Head(s) * item_size
                     /\ Tail(Pointers(s)) = Pointers(Tail(s))
      /\ \A i \in Idx : /\ i * item_size \in ToSet(Pointers(s)) <=> i \in ToSet(s)
                        /\ Pointers(<<i>> \o s) = <<i * item_size>> \o Pointers(s)
  BY <1>2, PointersOf
<1> DEFINE get == \/ /\ Pointers(s) # <<>>
                     /\ a = [op |-> "get", value |-> Head(Pointers(s))]
                     /\ Pointers(t) = Tail(Pointers(s))
                  \/ /\ Pointers(s) = <<>>
                     /\ a = [op |-> "get", value |-> NULL]
                     /\ Pointers(t) = Pointers(s)
           release(pointer) ==
                  \/ /\ pointer \in Blocks \ ToSet(Pointers(s))
                     /\ Pointers(t) = <<pointer>> \o Pointers(s)
                     /\ a = [op |-> "release", value |-> pointer]
                  \/ /\ pointer \notin Blocks \ ToSet(Pointers(s))
                     /\ a = [op |-> "release", value |-> NULL]
                     /\ Pointers(t) = Pointers(s)
<1>5. get => Abstract!Get
  BY <1>1, <1>3 DEF Abstract!Get, Pointers, Answer
<1>6. ASSUME NEW pointer \in Offset, release(pointer)
      PROVE  Abstract!Release(pointer)
  BY <1>1, <1>3, <1>6 DEF Abstract!Release, Abstract!ToSet, ToSet, Pointers, Answer, Blocks
<1>7. CASE PoolAllocator_getBlock
  <2>1. CASE /\ s = <<>> /\ t = s
             /\ returned' = [op |-> "get", arg |-> NULL, value |-> NULL]
    <3>1. a = [op |-> "get", value |-> NULL]
      BY <1>3, <2>1 DEF Answer
    <3> QED
      BY <1>4, <1>5, <2>1, <3>1 DEF Abstract!Next
  <2>2. CASE /\ s # <<>> /\ t = Tail(s)
             /\ returned' = [op |-> "get", arg |-> NULL, value |-> Head(s) * item_size]
    <3>1. a = [op |-> "get", value |-> Head(s) * item_size]
      BY <1>3, <2>2 DEF Answer
    <3> QED
      BY <1>4, <1>5, <2>2, <3>1 DEF Abstract!Next
  <2> QED
    BY <1>1, <1>7, <2>1, <2>2, GetStep
<1>8. ASSUME NEW offset \in Offset, PoolAllocator_releaseBlock(offset)
      PROVE  Abstract!Next
  <2>1. /\ returned' = [op |-> "release", arg |-> offset, value |-> Refusal(offset)]
        /\ \/ /\ Refusal(offset) # Success
              /\ \A i \in Idx : offset = i * item_size => i \in ToSet(s)
              /\ t = s
           \/ /\ Refusal(offset) = Success
              /\ \E i \in Idx : offset = i * item_size /\ i \notin ToSet(s) /\ t = <<i>> \o s
    BY <1>1, <1>8, ReleaseStep
  <2>2. CASE Refusal(offset) # Success
    <3>1. a = [op |-> "release", value |-> NULL]
      BY <1>3, <2>1, <2>2 DEF Answer
    <3>2. offset \notin Blocks \ ToSet(Pointers(s))
      BY <1>4, <2>1, <2>2 DEF Blocks
    <3>3. release(offset)
      BY <2>1, <2>2, <3>1, <3>2
    <3> QED
      BY <1>6, <3>3 DEF Abstract!Next
  <2>3. CASE Refusal(offset) = Success
    <3>1. a = [op |-> "release", value |-> offset]
      BY <1>3, <2>1, <2>3 DEF Answer
    <3>2. PICK i \in Idx : offset = i * item_size /\ i \notin ToSet(s) /\ t = <<i>> \o s
      BY <2>1, <2>3
    <3>3. offset \in Blocks \ ToSet(Pointers(s)) /\ Pointers(t) = <<offset>> \o Pointers(s)
      BY <1>4, <3>2 DEF Blocks
    <3>4. release(offset)
      BY <3>1, <3>3
    <3> QED
      BY <1>6, <3>4 DEF Abstract!Next
  <2> QED
    BY <2>2, <2>3
<1>9. CASE UNCHANGED vars
  BY <1>9 DEF vars, Abstract!poolVars, FreeChain
<1> QED
  BY <1>7, <1>8, <1>9 DEF Next

\* For any number and size of blocks, the array of indices implements BlockPool:
\* each block has one holder at a time, and the last freed is the next given.
THEOREM PoolImplements == Spec => ImplementsBlockPool
  BY InitRefines, StepRefines, PoolInvariant, PTL DEF Spec, ImplementsBlockPool, Abstract!Spec
=============================================================================
