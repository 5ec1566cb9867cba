---------------------------- MODULE PoolAllocator ----------------------------
(***************************************************************************)
(* The pool allocator (pool_allocator.c): blocks of one size in a buffer,  *)
(* and an array that links the free ones by their indices.  A pointer to a *)
(* block is its offset in the buffer.                                      *)
(***************************************************************************)
EXTENDS Integers, SequencesExt, Chains

CONSTANTS
    item_size,  \* size of a block
    size_max    \* how many there are

ASSUME PoolAssumption ==
    /\ item_size \in Nat \ {0}
    /\ size_max \in Nat \ {0}

NullIdx == -1
DetachedIdx == -2

Success == 0
UnalignedFree == -2
OutOfRange == -3
DoubleFree == -4

NULL == -1  \* no offset of a block

VARIABLES
    first_idx,  \* the first free block
    free_list,  \* after each free block the next
    size,       \* the number of free blocks
    returned    \* the call that was made last, its argument, and what it returned

vars == <<first_idx, free_list, size, returned>>

Idx == 0 .. size_max - 1

\* BOUND: what callers give back lies at most a block beside the buffer.
Offset == -item_size .. (size_max + 1) * item_size

-----------------------------------------------------------------------------

\* PoolAllocator_init.
Init ==
    /\ free_list = [i \in Idx |-> IF i < size_max - 1 THEN i + 1 ELSE NullIdx]
    /\ first_idx = 0
    /\ size = size_max
    /\ returned = [op |-> "init", arg |-> NULL, value |-> Success]

\* Mutant: the block is not marked.
Unmarked(idx) == free_list

Marked(idx) == [free_list EXCEPT ![idx] = DetachedIdx]

PoolAllocator_getBlock ==
    \/ /\ first_idx = NullIdx
       /\ returned' = [op |-> "get", arg |-> NULL, value |-> NULL]
       /\ UNCHANGED <<first_idx, free_list, size>>
    \/ /\ first_idx # NullIdx
       /\ first_idx' = free_list[first_idx]
       /\ free_list' = Marked(first_idx)
       /\ size' = size - 1
       /\ returned' = [op |-> "get", arg |-> NULL, value |-> first_idx * item_size]

\* Mutants: no check for a block that is free already, the head is moved before
\* it is linked.
NeverFree(idx) == FALSE
LinkedToItself(idx) == [free_list EXCEPT ![idx] = idx]

FreeAlready(idx) == free_list[idx] # DetachedIdx
Linked(idx) == [free_list EXCEPT ![idx] = first_idx]

\* The checks in their order, on an offset that may be negative: C's % and / cut
\* off towards zero, but only zero counts of the one and the other is exact then.
Refusal(offset) ==
    LET idx == offset \div item_size
    IN IF offset % item_size # 0 THEN UnalignedFree
       ELSE IF idx \notin Idx THEN OutOfRange
       ELSE IF FreeAlready(idx) THEN DoubleFree
       ELSE Success

PoolAllocator_releaseBlock(offset) ==
    LET idx == offset \div item_size
    IN /\ returned' = [op |-> "release", arg |-> offset, value |-> Refusal(offset)]
       /\ IF Refusal(offset) # Success
          THEN UNCHANGED <<first_idx, free_list, size>>
          ELSE /\ free_list' = Linked(idx)
               /\ first_idx' = idx
               /\ size' = size + 1

Next ==
    \/ PoolAllocator_getBlock
    \/ \E offset \in Offset : PoolAllocator_releaseBlock(offset)

Spec == Init /\ [][Next]_vars

-----------------------------------------------------------------------------
(* Properties *)

TypeOK ==
    /\ first_idx \in Idx \union {NullIdx}
    /\ free_list \in [Idx -> Idx \union {NullIdx, DetachedIdx}]
    /\ size \in 0 .. size_max
    /\ returned \in [op : {"init", "get", "release"}, arg : Int, value : Int]

\* The blocks that are free, in the order in which they will be given out.
FreeChain == Chain(first_idx, free_list, Idx)

\* The links lead through the free blocks, each once, and through no block that
\* somebody holds; size counts them.
LinksAreFree ==
    /\ size = Len(FreeChain)
    /\ IsInjective(FreeChain)
    /\ \A i \in Idx : free_list[i] = DetachedIdx <=> i \notin ToSet(FreeChain)

\* Through any sequence of calls, wrong ones included, the array of indices is a
\* pool that gives each block to one holder at a time, the last freed first.
Abstract == INSTANCE BlockPool WITH
    Block <- {i * item_size : i \in Idx},
    Pointer <- Offset,
    free <- [k \in DOMAIN FreeChain |-> FreeChain[k] * item_size],
    answer <- [op |-> returned.op,
               value |-> IF returned.op = "get" THEN returned.value
                         ELSE IF returned.op = "release" /\ returned.value = Success
                         THEN returned.arg ELSE NULL]

ImplementsBlockPool == Abstract!Spec
=============================================================================
