------------------------------ MODULE ListOrder ------------------------------
(***************************************************************************)
(* What the linked lists promise to the kernel: sequences, and an item on  *)
(* one of them at a time.                                                  *)
(***************************************************************************)
EXTENDS Integers, SequencesExt

CONSTANTS ListHead, ListItem, NULL

VARIABLES
    list,     \* the items of each list
    returned  \* the item that was inserted or detached last, NULL if it was not

Init ==
    /\ list = [h \in ListHead |-> <<>>]
    /\ returned = NULL

On(h, item) == item \in ToSet(list[h])
Place(h, item) == CHOOSE i \in DOMAIN list[h] : list[h][i] = item

\* After `before`, or first.
Insert(h, before, item) ==
    /\ \A g \in ListHead : ~On(g, item)
    /\ before = NULL \/ On(h, before)
    /\ list' = [list EXCEPT ![h] =
                   InsertAt(@, IF before = NULL THEN 1 ELSE Place(h, before) + 1, item)]
    /\ returned' = item

\* An item that is on a list already is not inserted.
RefuseInsert(item) ==
    /\ \E h \in ListHead : On(h, item)
    /\ returned' = NULL
    /\ UNCHANGED list

Detach(h, item) ==
    /\ On(h, item)
    /\ list' = [list EXCEPT ![h] = RemoveAt(@, Place(h, item))]
    /\ returned' = item

Next ==
    \E h \in ListHead, item \in ListItem :
        \/ \E before \in ListItem \union {NULL} : Insert(h, before, item)
        \/ RefuseInsert(item)
        \/ Detach(h, item)

Spec == Init /\ [][Next]_<<list, returned>>
=============================================================================
