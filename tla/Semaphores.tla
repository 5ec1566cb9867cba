----------------------------- MODULE Semaphores -----------------------------
(***************************************************************************)
(* The semaphores of disastrOS on top of its kernel: semOpen, semClose,    *)
(* semWait and semPost, the list of the semaphores that are linked, and    *)
(* the descriptors by which processes refer to them.                       *)
(*                                                                         *)
(* Semaphores are named by their number, which is unique on                *)
(* semaphores_list.  A SemDescriptor is known to its process by fd and to  *)
(* its semaphore by pid and fd.  (The code keeps a pointer to the PCB, whose *)
(* block can pass on while descriptors of a dead process stay behind.)     *)
(***************************************************************************)
EXTENDS Kernel

CONSTANTS
    MAX_NUM_SEMAPHORES, \* blocks of the semaphore pool (disastrOS_constants.h:5)
    SemNum,             \* the semaphore numbers the programs use ...
    InitialValues,      \* ... and the values they open them with
    MaxFd,              \* BOUND: no process opens a semaphore with last_sem_fd above this
    MaxCount            \* BOUND: no count is raised above this

ASSUME SemaphoresAssumption ==
    /\ MAX_NUM_SEMAPHORES \in Nat \ {0}
    /\ SemNum \subseteq Int
    /\ InitialValues \subseteq Int
    /\ MaxFd \in Nat
    /\ MaxCount \in Nat

DSOS_ECREATEFD == -14
DSOS_ENOTMYSEM == -15
DSOS_ECREATESEM == -16
DSOS_ECREATEPTR == -17

VARIABLES
    semaphores_list,     \* the semaphores that are linked
    count,
    descriptors,         \* Semaphore.descriptors
    waiting_descriptors, \* Semaphore.waiting_descriptors, as the PCBs they lead to
    sem_descriptors,     \* PCB.sem_descriptors
    last_sem_fd,         \* PCB.last_sem_fd
    dsc_free,            \* free blocks of the SemDescriptor pool
    dsc_ptr_free         \* free blocks of the SemDescriptorPtr pool

semaphoreVars == <<semaphores_list, count, descriptors, waiting_descriptors>>
holderVars == <<sem_descriptors, last_sem_fd>>
dscVars == <<dsc_free, dsc_ptr_free>>
vars == <<kernelVars, semaphoreVars, holderVars, dscVars>>

-----------------------------------------------------------------------------
(* Helpers *)

\* SemDescriptorList_byFd and MySearch in the list of the running process.
ByFd(fd) == {d \in sem_descriptors[running] : d.fd = fd}
BySem(semnum) == {d \in sem_descriptors[running] : d.sem = semnum}
Holds(fd) == ByFd(fd) # {}
SemOf(fd) == (CHOOSE d \in ByFd(fd) : TRUE).sem

\* What a semaphore call leaves alone unless it switches processes.
SameProcesses == UNCHANGED <<system, running, status, ready_list, waiting_list>>
\* What every semaphore call leaves alone.
SameFamily == UNCHANGED <<init_pcb, last_pid, poolVars, pid, parent, signals, children,
                          zombie_list, timer_list>>

Answer(value) == retvalue' = [retvalue EXCEPT ![running] = value]
NotMySem == Answer(DSOS_ENOTMYSEM) /\ SameProcesses /\ UNCHANGED <<semaphoreVars, holderVars, dscVars>>

-----------------------------------------------------------------------------
(* semOpen *)

\* Semaphore_alloc: the pool is as full as semaphores_list is long.
NoSemaphoreLeft == Cardinality(semaphores_list) = MAX_NUM_SEMAPHORES

\* A semaphore that is linked already keeps its count, whatever value is given.
Link(semnum, value) ==
    /\ semaphores_list' = semaphores_list \union {semnum}
    /\ count' = [count EXCEPT ![semnum] = IF semnum \in semaphores_list THEN @ ELSE value]

\* Mutants: room for one pointer is enough, the fd is used again.
NoPtrLeft == dsc_ptr_free < 1
SameFd(fd) == fd

NoPtrsLeft == dsc_ptr_free < 2
NextFd(fd) == fd + 1

\* SemDescriptor_alloc and twice SemDescriptorPtr_alloc; a failure on the way
\* keeps what was taken before it.
Describe(semnum) ==
    LET fd == last_sem_fd[running]
    IN IF dsc_free = 0
       THEN Answer(DSOS_ECREATEFD) /\ UNCHANGED <<dscVars, holderVars, descriptors>>
       ELSE /\ dsc_free' = dsc_free - 1
            /\ last_sem_fd' = [last_sem_fd EXCEPT ![running] = NextFd(fd)]
            /\ IF NoPtrsLeft
               THEN /\ dsc_ptr_free' = 0
                    /\ Answer(DSOS_ECREATEPTR)
                    /\ UNCHANGED <<sem_descriptors, descriptors>>
               ELSE /\ dsc_ptr_free' = dsc_ptr_free - 2
                    /\ sem_descriptors' = [sem_descriptors EXCEPT ![running] =
                                              @ \union {[fd |-> fd, sem |-> semnum]}]
                    /\ descriptors' = [descriptors EXCEPT ![semnum] =
                                          @ \union {[pid |-> pid[running], fd |-> fd]}]
                    /\ Answer(fd)

SemOpen(semnum, value) ==
    /\ User("semOpen")
    /\ last_sem_fd[running] <= MaxFd
    /\ Trap("semOpen", semnum)
    /\ SameProcesses /\ SameFamily
    /\ IF BySem(semnum) # {}
       THEN /\ Answer((CHOOSE d \in BySem(semnum) : TRUE).fd)
            /\ UNCHANGED <<semaphoreVars, holderVars, dscVars>>
       ELSE IF semnum \notin semaphores_list /\ NoSemaphoreLeft
       THEN /\ Answer(DSOS_ECREATESEM)
            /\ UNCHANGED <<semaphoreVars, holderVars, dscVars>>
       ELSE /\ Link(semnum, value)
            /\ Describe(semnum)
            /\ UNCHANGED waiting_descriptors

-----------------------------------------------------------------------------
(* semClose *)

\* Mutant: any close unlinks.
UnlinkAlways(semnum, left) == semaphores_list' = semaphores_list \ {semnum}

\* Without descriptors a semaphore is unlinked.
Unlink(semnum, left) ==
    semaphores_list' = IF left = {} THEN semaphores_list \ {semnum} ELSE semaphores_list

SemClose(fd) ==
    /\ User("semClose")
    /\ Trap("semClose", fd)
    /\ SameFamily
    /\ IF ~Holds(fd)
       THEN NotMySem
       ELSE LET semnum == SemOf(fd)
                left == descriptors[semnum] \ {[pid |-> pid[running], fd |-> fd]}
            IN /\ sem_descriptors' = [sem_descriptors EXCEPT ![running] = @ \ ByFd(fd)]
               /\ descriptors' = [descriptors EXCEPT ![semnum] = left]
               /\ dsc_free' = dsc_free + 1
               /\ dsc_ptr_free' = dsc_ptr_free + 2
               /\ Unlink(semnum, left)
               /\ Answer(0)
               /\ SameProcesses
               /\ UNCHANGED <<count, waiting_descriptors, last_sem_fd>>

-----------------------------------------------------------------------------
(* semWait *)

\* Mutants: zero is enough to go on, the queue is a stack.
MustWaitBelow(semnum) == count[semnum] < 0
EnqueuedFirst(semnum) == <<running>> \o waiting_descriptors[semnum]

Enqueued(semnum) == Append(waiting_descriptors[semnum], running)

MustWait(semnum) == count[semnum] <= 0

\* The caller queues up and the first ready process runs; its retvalue is the
\* one that gets the 0, for `running` has changed by then.
Block(semnum) ==
    /\ waiting_descriptors' = [waiting_descriptors EXCEPT ![semnum] = Enqueued(semnum)]
    /\ status' = [status EXCEPT ![running] = "Waiting"]
    /\ waiting_list' = waiting_list \union {running}
    /\ NextReady
    /\ retvalue' = [retvalue EXCEPT ![Head(ready_list)] = 0]
    /\ UNCHANGED system

\* With nobody ready the handler shuts the system down, whoever is asleep.
SemWait(fd) ==
    /\ User("semWait")
    /\ IF ~Holds(fd)
       THEN Trap("semWait", fd) /\ SameFamily /\ NotMySem
       ELSE LET semnum == SemOf(fd)
            IN IF MustWait(semnum) /\ ready_list = <<>>
               THEN Stop("deadlock") /\ UNCHANGED <<semaphoreVars, holderVars, dscVars>>
               ELSE /\ Trap("semWait", fd)
                    /\ SameFamily
                    /\ count' = [count EXCEPT ![semnum] = @ - 1]
                    /\ IF MustWait(semnum)
                       THEN Block(semnum)
                       ELSE Answer(0) /\ SameProcesses /\ UNCHANGED waiting_descriptors
                    /\ UNCHANGED <<semaphores_list, descriptors, holderVars, dscVars>>

-----------------------------------------------------------------------------
(* semPost *)

\* Mutants: the head is not detached from the queue, or not from waiting_list, or
\* a single waiter is overlooked.
NotDequeued(semnum) == waiting_descriptors[semnum]
StillBlocked(p) == waiting_list

Dequeued(semnum) == Tail(waiting_descriptors[semnum])
Unblocked(p) == waiting_list \ {p}

TwoWait(semnum) == count[semnum] < -1 /\ waiting_descriptors[semnum] # <<>>

SomeoneWaits(semnum) == count[semnum] < 0 /\ waiting_descriptors[semnum] # <<>>

\* The process that has waited longest goes to the back of the ready list.
Wake(semnum) ==
    LET head == Head(waiting_descriptors[semnum])
    IN /\ waiting_descriptors' = [waiting_descriptors EXCEPT ![semnum] = Dequeued(semnum)]
       /\ waiting_list' = Unblocked(head)
       /\ ready_list' = Append(ready_list, head)
       /\ status' = [status EXCEPT ![head] = "Ready"]

SemPost(fd) ==
    /\ User("semPost")
    /\ Holds(fd) => count[SemOf(fd)] < MaxCount
    /\ Trap("semPost", fd)
    /\ SameFamily
    /\ IF ~Holds(fd)
       THEN NotMySem
       ELSE LET semnum == SemOf(fd)
            IN /\ count' = [count EXCEPT ![semnum] = @ + 1]
               /\ IF SomeoneWaits(semnum)
                  THEN Wake(semnum)
                  ELSE UNCHANGED <<waiting_descriptors, waiting_list, ready_list, status>>
               /\ Answer(0)
               /\ UNCHANGED <<system, running, semaphores_list, descriptors, holderVars, dscVars>>

-----------------------------------------------------------------------------
(* Specification *)

Init ==
    /\ KernelInit
    /\ semaphores_list = {}
    /\ count = [s \in SemNum |-> 0]
    /\ descriptors = [s \in SemNum |-> {}]
    /\ waiting_descriptors = [s \in SemNum |-> <<>>]
    /\ sem_descriptors = [p \in PCB |-> {}]
    /\ last_sem_fd = [p \in PCB |-> 0]
    /\ dsc_free = MAX_NUM_PROCESSES
    /\ dsc_ptr_free = MAX_NUM_PROCESSES

\* Mutant: a new process keeps what its block held.
StaleHolders == UNCHANGED holderVars

\* PCB_alloc (a new pid in the block) also empties the fields for semaphores;
\* exit and wait leave the descriptors of the process where they are.
FreshHolders ==
    LET fresh == {p \in PCB : pid'[p] # pid[p]}
    IN /\ sem_descriptors' = [p \in PCB |-> IF p \in fresh THEN {} ELSE sem_descriptors[p]]
       /\ last_sem_fd' = [p \in PCB |-> IF p \in fresh THEN 0 ELSE last_sem_fd[p]]

KernelStep == KernelNext /\ FreshHolders /\ UNCHANGED <<semaphoreVars, dscVars>>

Fds == 0 .. MaxFd

SemCall ==
    \/ \E s \in SemNum, v \in InitialValues : SemOpen(s, v)
    \/ \E fd \in Fds : SemClose(fd)
    \/ \E fd \in Fds : SemWait(fd)
    \/ \E fd \in Fds : SemPost(fd)

Next == KernelStep \/ SemCall

Spec == Init /\ [][Next]_vars

-----------------------------------------------------------------------------
(* Properties *)

TypeOK ==
    /\ KernelTypeOK
    /\ semaphores_list \subseteq SemNum
    /\ count \in [SemNum -> Int]
    /\ descriptors \in [SemNum -> SUBSET [pid : Nat, fd : Nat]]
    /\ waiting_descriptors \in [SemNum -> Seq(PCB)]
    /\ sem_descriptors \in [PCB -> SUBSET [fd : Nat, sem : SemNum]]
    /\ last_sem_fd \in [PCB -> Nat]
    /\ dsc_free \in Nat
    /\ dsc_ptr_free \in Nat

\* The two lists of descriptors agree for every process that is not gone, a
\* process has one descriptor for a semaphore and one semaphore for a fd, and
\* what it holds is linked: no descriptor leads to a semaphore that was freed.
DescriptorsAgree ==
    \A p \in Live :
        /\ \A s \in SemNum : {d.fd : d \in {e \in descriptors[s] : e.pid = pid[p]}} =
                             {d.fd : d \in {e \in sem_descriptors[p] : e.sem = s}}
        /\ \A d, e \in sem_descriptors[p] : d.fd = e.fd <=> d.sem = e.sem
        /\ \A d \in sem_descriptors[p] : d.sem \in semaphores_list /\ d.fd < last_sem_fd[p]

\* The count of a semaphore opened with no negative value is exact: below zero
\* it tells how many wait, otherwise nobody does.  semWait and semPost decide by
\* the count alone, long before or after the other list is touched.
WaitersExact ==
    InitialValues \subseteq Nat =>
        \A s \in SemNum : Len(waiting_descriptors[s]) = IF count[s] < 0 THEN -count[s] ELSE 0

\* Whatever the initial value, a process waits in the queue of a semaphore iff it
\* is blocked in semWait on a descriptor of its own for it, and it waits once.
WaitersBlocked ==
    /\ \A s \in SemNum :
          /\ IsInjective(waiting_descriptors[s])
          /\ \A p \in ToSet(waiting_descriptors[s]) :
                /\ p \in waiting_list /\ call[p].num = "semWait"
                /\ [fd |-> call[p].arg, sem |-> s] \in sem_descriptors[p]
    /\ \A p \in waiting_list : call[p].num = "semWait" =>
          \E s \in SemNum : p \in ToSet(waiting_descriptors[s])

\* A semaphore that is not linked has neither descriptors nor waiters, though
\* semClose looks at the descriptors only and Semaphore_alloc does not set
\* waiting_descriptors.
UnlinkedIsQuiet ==
    \A s \in SemNum \ semaphores_list : descriptors[s] = {} /\ waiting_descriptors[s] = <<>>

\* For the README's semaphore, a value that never goes below zero and a queue.
Abstract == INSTANCE CountingSemaphore WITH
    linked <- semaphores_list,
    value <- [s \in SemNum |-> IF count[s] > 0 THEN count[s] ELSE 0],
    queue <- waiting_descriptors

\* semOpen, semClose, semWait and semPost implement that semaphore.
ImplementsCountingSemaphore == Abstract!Spec
=============================================================================
