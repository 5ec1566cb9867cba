-------------------------------- MODULE Chains --------------------------------
(***************************************************************************)
(* What a chain of links in memory holds, for the refinement mappings of   *)
(* PoolAllocator and LinkedList.                                           *)
(***************************************************************************)
EXTENDS Naturals, FiniteSets

\* The nodes met from `start` on by following `link` until it leaves `nodes`.  A
\* chain that runs in a circle has more of them than there are.
Chain(start, link, nodes) ==
    LET most == Cardinality(nodes) + 1
        met[k \in 1 .. most] ==
            IF k = 1 THEN start
            ELSE IF met[k - 1] \in nodes THEN link[met[k - 1]] ELSE met[k - 1]
        len == Cardinality({k \in 1 .. most : met[k] \in nodes})
    IN [k \in 1 .. len |-> met[k]]
=============================================================================
