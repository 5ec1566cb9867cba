------------------------------ MODULE LinkedList ------------------------------
(***************************************************************************)
(* The linked lists (linked_list.c) as pointers: a ListItem is part of the *)
(* thing that is on the list, so it can be on one list only, and heads     *)
(* know the first and the last.                                            *)
(***************************************************************************)
EXTENDS Integers, SequencesExt, Chains

CONSTANTS
    ListHead,  \* the ListHeads
    ListItem,  \* the ListItems
    NULL

ASSUME ListAssumption ==
    /\ IsFiniteSet(ListItem)
    /\ NULL \notin ListItem

VARIABLES
    first, last, size,  \* fields of the heads
    prev, next,         \* fields of the items
    returned            \* what the last call returned

links == <<first, last, size, prev, next>>
vars == <<links, returned>>

Forward(h) == Chain(first[h], next, ListItem)
Backward(h) == Chain(last[h], prev, ListItem)

-----------------------------------------------------------------------------

\* List_init, and items that were zeroed when they were allocated.
Init ==
    /\ first = [h \in ListHead |-> NULL]
    /\ last = [h \in ListHead |-> NULL]
    /\ size = [h \in ListHead |-> 0]
    /\ prev = [x \in ListItem |-> NULL]
    /\ next = [x \in ListItem |-> NULL]
    /\ returned = NULL

\* Mutant: only one side is looked at.
LinkedBehind(item) == next[item] # NULL

Linked(item) == next[item] # NULL \/ prev[item] # NULL

\* What callers see to: they insert after an item of that very list or in front,
\* and the item is on no list.  List_insert sees for itself only if the item has
\* neighbours; one alone on a list looks like one on none.
MayInsert(h, before, item) ==
    /\ before = NULL \/ before \in ToSet(Forward(h))
    /\ \A g \in ListHead : Forward(g) # <<item>>

\* Mutant: the head keeps its last item.
LastKept(h, after, item) == last

LastWith(h, after, item) == IF after = NULL THEN [last EXCEPT ![h] = item] ELSE last

List_insert(h, before, item) ==
    LET after == IF before = NULL THEN first[h] ELSE next[before]
    IN /\ MayInsert(h, before, item)
       /\ IF Linked(item)
          THEN returned' = NULL /\ UNCHANGED links
          ELSE /\ prev' = [x \in ListItem |-> IF x = item THEN before
                                          ELSE IF x = after THEN item ELSE prev[x]]
               /\ next' = [x \in ListItem |-> IF x = item THEN after
                                          ELSE IF x = before THEN item ELSE next[x]]
               /\ first' = IF before = NULL THEN [first EXCEPT ![h] = item] ELSE first
               /\ last' = LastWith(h, after, item)
               /\ size' = [size EXCEPT ![h] = @ + 1]
               /\ returned' = item

\* Mutant: the item keeps a neighbour.
PrevKept(item) == prev[item]

PrevCleared(item) == NULL

\* Callers detach an item from the list that it is on.
List_detach(h, item) ==
    /\ item \in ToSet(Forward(h))
    /\ prev' = [x \in ListItem |-> IF x = item THEN PrevCleared(item)
                               ELSE IF x = next[item] THEN prev[item] ELSE prev[x]]
    /\ next' = [x \in ListItem |-> IF x = item THEN NULL
                               ELSE IF x = prev[item] THEN next[item] ELSE next[x]]
    /\ first' = IF first[h] = item THEN [first EXCEPT ![h] = next[item]] ELSE first
    /\ last' = IF last[h] = item THEN [last EXCEPT ![h] = prev[item]] ELSE last
    /\ size' = [size EXCEPT ![h] = @ - 1]
    /\ returned' = item

Next ==
    \E h \in ListHead, item \in ListItem :
        \/ \E before \in ListItem \union {NULL} : List_insert(h, before, item)
        \/ List_detach(h, item)

Spec == Init /\ [][Next]_vars

-----------------------------------------------------------------------------
(* Properties *)

TypeOK ==
    /\ first \in [ListHead -> ListItem \union {NULL}]
    /\ last \in [ListHead -> ListItem \union {NULL}]
    /\ size \in [ListHead -> 0 .. Cardinality(ListItem)]
    /\ prev \in [ListItem -> ListItem \union {NULL}]
    /\ next \in [ListItem -> ListItem \union {NULL}]
    /\ returned \in ListItem \union {NULL}

\* A list reads the same in both directions, its size is the number of its items,
\* no item is on two lists, and only those on a list have neighbours.
LinksAgree ==
    /\ \A h \in ListHead : Backward(h) = Reverse(Forward(h)) /\ size[h] = Len(Forward(h))
    /\ \A x \in ListItem : Linked(x) => \E h \in ListHead : x \in ToSet(Forward(h))
    /\ \A g, h \in ListHead : g # h => ToSet(Forward(g)) \intersect ToSet(Forward(h)) = {}

\* Used like that, the pointers are the sequences that the other modules use
\* for lists.
Abstract == INSTANCE ListOrder WITH list <- [h \in ListHead |-> Forward(h)]

ImplementsListOrder == Abstract!Spec
=============================================================================
