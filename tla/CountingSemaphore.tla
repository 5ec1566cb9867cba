-------------------------- MODULE CountingSemaphore --------------------------
(***************************************************************************)
(* What the semaphores promise to programs: a semaphore exists from the    *)
(* first open to the last close; waiting takes one from its value, or      *)
(* queues the caller up when there is nothing to take; posting hands over  *)
(* to the one who has waited longest, or adds one to the value.            *)
(***************************************************************************)
EXTENDS Integers, Sequences

CONSTANTS
    SemNum,        \* the semaphores
    PCB,           \* the processes
    InitialValues  \* the values a semaphore can be opened with

VARIABLES linked, value, queue

abstractVars == <<linked, value, queue>>

Init ==
    /\ linked = {}
    /\ value = [s \in SemNum |-> 0]
    /\ queue = [s \in SemNum |-> <<>>]

\* The first open, with nobody in the queue.
Create(s) ==
    /\ s \notin linked /\ queue[s] = <<>>
    /\ linked' = linked \union {s}
    /\ \E v \in InitialValues : value' = [value EXCEPT ![s] = v]
    /\ UNCHANGED queue

\* The last close, with nobody left in the queue.
Destroy(s) ==
    /\ s \in linked /\ queue[s] = <<>>
    /\ linked' = linked \ {s}
    /\ UNCHANGED <<value, queue>>

Take(s) ==
    /\ s \in linked /\ value[s] > 0
    /\ value' = [value EXCEPT ![s] = @ - 1]
    /\ UNCHANGED <<linked, queue>>

Enqueue(s, p) ==
    /\ s \in linked /\ value[s] = 0
    /\ \A t \in SemNum : \A i \in DOMAIN queue[t] : queue[t][i] # p
    /\ queue' = [queue EXCEPT ![s] = Append(@, p)]
    /\ UNCHANGED <<linked, value>>

HandOver(s) ==
    /\ s \in linked /\ queue[s] # <<>>
    /\ queue' = [queue EXCEPT ![s] = Tail(@)]
    /\ UNCHANGED <<linked, value>>

Give(s) ==
    /\ s \in linked /\ queue[s] = <<>>
    /\ value' = [value EXCEPT ![s] = @ + 1]
    /\ UNCHANGED <<linked, queue>>

Next == \E s \in SemNum :
    \/ Create(s)
    \/ Destroy(s)
    \/ Take(s)
    \/ \E p \in PCB : Enqueue(s, p)
    \/ HandOver(s)
    \/ Give(s)

Spec == Init /\ [][Next]_abstractVars
=============================================================================
