------------------------------ MODULE BlockPool ------------------------------
(***************************************************************************)
(* What a pool promises to the kernel: a free block, the one given back    *)
(* last, as long as there is one, and each block to one holder at a time.  *)
(* Kernel keeps its PCB pool in this form.                                 *)
(***************************************************************************)
EXTENDS Integers, SequencesExt

CONSTANTS
    Block,   \* the blocks ...
    NULL,    \* ... and none
    Pointer  \* whatever can be given back

VARIABLES
    free,    \* the free blocks, next one first
    answer   \* what the last call returned: a block, NULL, or whether it was a success

poolVars == <<free, answer>>

Init ==
    /\ free \in {s \in [1 .. Cardinality(Block) -> Block] : IsInjective(s)}
    /\ answer = [op |-> "init", value |-> NULL]

Get ==
    \/ /\ free # <<>>
       /\ answer' = [op |-> "get", value |-> Head(free)]
       /\ free' = Tail(free)
    \/ /\ free = <<>>
       /\ answer' = [op |-> "get", value |-> NULL]
       /\ UNCHANGED free

Release(pointer) ==
    \/ /\ pointer \in Block \ ToSet(free)
       /\ free' = <<pointer>> \o free
       /\ answer' = [op |-> "release", value |-> pointer]
    \/ /\ pointer \notin Block \ ToSet(free)
       /\ answer' = [op |-> "release", value |-> NULL]
       /\ UNCHANGED free

Next == Get \/ \E pointer \in Pointer : Release(pointer)

Spec == Init /\ [][Next]_poolVars
=============================================================================
