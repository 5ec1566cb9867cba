# disastrOS: a formal model of its kernel and semaphores

disastrOS (`src/disastrOS_semaphores/`) simulates a small operating system
inside one host process: processes are `ucontext` coroutines, a system call is
a context switch to a trap that runs with SIGALRM masked, and the timer
interrupt is a SIGALRM. This directory holds TLA+ modules of its kernel,
semaphores, resources and data structures, the TLC configurations that check them, and proofs that TLAPS
checks. `PROJECT.json` links every definition to the lines it models.

    tlc -workers 2 -config kernel.cfg Kernel        # one run
    tlapm KernelInvariants.tla                      # one module of proofs

File names below are those of `src/disastrOS_semaphores/` without the prefix
`disastrOS_` where that leaves no doubt.

## 1. The system

| Component | Code | State | Operations |
|---|---|---|---|
| Start, trap, call entry | `disastrOS.c` | `running`, `init_pcb`, the contexts and their signal masks, `shutdown_now` | `disastrOS_start`, `disastrOS_syscall`, `disastrOS_trap` |
| Scheduler, timer interrupt | `schedule.c`, `preempt.c`, `disastrOS.c:47-60` | `ready_list`, `waiting_list`, `disastrOS_time` | `internal_schedule`, `timerInterrupt`, preempt |
| Timers, sleep | `timer.c`, `sleep.c` | `timer_list`, timer pool | `TimerList_add/current/removeCurrent`, sleep |
| Processes | `pcb.c`, `spawn.c`, `wait.c`, `exit.c`, `shutdown.c` | PCBs (pid, status, parent, signals, children), `zombie_list`, PCB and PCBPtr pools | spawn, wait, exit, shutdown |
| Semaphores | `semaphore.c`, `semdescriptor.c`, `semopen.c`, `semclose.c`, `semwait.c`, `sempost.c` | `semaphores_list`; count, descriptors and waiters of each; descriptors of each process; three pools | semOpen, semClose, semWait, semPost |
| Resources | `resource.c`, `descriptor.c`, `open_resource.c`, `close_resource.c`, `destroy_resource.c` | `resources_list`, descriptors of resources and processes | open, close, destroy |
| Linked lists | `linked_list.c` | first, last, size, links | `List_insert`, `List_detach`, `List_find` |
| Pool allocator | `pool_allocator.c` | the free list as an array of indices | `getBlock`, `releaseBlock` |
| fork | `fork.c` | | |
| Test programs | `OurTest.c`, `test.c` | a ring buffer and its two indices | producers, consumers and their father; a handshake |

**How they interact.** Handlers share global lists and the global `running`; a
handler that switches processes assigns `running` and the trap returns into
whatever it points to then. exit reaches into the PCB of the parent, semPost
into the PCB of the waiter, a timer interrupt into the PCBs of all sleepers. A
PCB is on `ready_list`, `waiting_list` or `zombie_list` through the same two
links, so it must never be on two of them. Pools hand freed blocks out again,
contents and all.

**What is hard.**
Interrupts fall between the return of the trap and the moment the caller reads
its return value, and traps and interrupts share a stack. A sleeper wakes in the middle of what others wait for. Blocks
of dead processes live on in parent pointers. When nobody can run, the trap
falls through `uc_link` into `disastrOS_start`, which starts another first
process over the old lists. Every pool runs out. `PROJECT.json` lists these
hazards at their lines, with the properties that would show them going wrong.

**What makes each part correct.**
*Scheduler*: each process is in one place; who is ready runs in turn and in the
end. *Timers*: nobody oversleeps, everybody wakes. *Processes*: status and list
agree; the family tree is a tree of live blocks; who waits has something to
wait for; a child that exits is not missed. *Semaphores*: the count tells the
waiters, first come first served, nothing is leaked into a later semaphore of
the same number, the two lists of descriptors agree. *Resources*: what is open exists
and stays the same resource, and no descriptor is lost. *Pools and lists*: a block
has one holder, an item one list, and the links hold what the sequences say.
*Contexts*: a process resumes where it was, on its own stack, with the alarm on.
*Test programs*: the ring holds what was produced and not consumed, and the test ends.

## 2. The modules

| Module | What it is |
|---|---|
| `Kernel` | Start, trap, scheduler, interrupt, timers and processes: one action per system call, `Tick` (the interrupt), `Return` (the caller reads its value) and `Restart` |
| `Semaphores` | EXTENDS `Kernel`; the four semaphore calls, which change kernel and semaphore state in one step, and `KernelStep`, every step of the kernel with what PCB_alloc does to the fields for semaphores |
| `CountingSemaphore` | What semaphores promise, with neither descriptors nor a kernel; `Semaphores` is shown to implement it |
| `TestPrograms` | EXTENDS `Semaphores`; what the two test programs do, instruction by instruction, with the memory they share |
| `Contexts` | EXTENDS `Kernel`; how a call and an interrupt get from one process to another: contexts, stacks, the mask of SIGALRM |
| `Resources` | EXTENDS `Kernel`; open, close and destroy, and `KernelStep`, every step of the kernel with what exit and PCB_alloc do to the descriptors |
| `PoolAllocator`, `BlockPool` | The allocator as it is written, and the pool it is shown to implement |
| `LinkedList`, `ListOrder` | The lists as pointers, and the sequences they are shown to implement |
| `Chains` | The nodes along a chain of links, for these two refinements |
| `ListLemmas` | Proved facts about lists, and about what hangs on a chain of links |
| `KernelInvariants` | EXTENDS `Kernel`; proved facts about its helpers, the types of its variables, the inductive invariant of the kernel and what follows from it |
| `SemaphoreInvariants` | EXTENDS `Semaphores` and `KernelInvariants`; the inductive invariant of the semaphores, and that they implement `CountingSemaphore` |
| `ResourceInvariants` | EXTENDS `Resources` and `KernelInvariants`; the inductive invariant of the resources |
| `ContextsInvariants` | EXTENDS `Contexts` and `KernelInvariants`; the inductive invariant of contexts, stacks and signal frames |
| `ProgramInvariants` | EXTENDS `TestPrograms` and `SemaphoreInvariants`; the inductive invariant of the test programs: their mutexes and what their father keeps open |
| `PoolInvariants`, `LinkedListInvariants` | What the indices and the pointers hold, and that allocator and lists implement `BlockPool` and `ListOrder` |

### Kernel

*Atomicity.* The trap masks SIGALRM (`disastrOS.c:223`), so a system call up to
the switch is one action. The interrupt context does not, but runs for
microseconds every 100 ms and is one action too. Between any two actions a
`Tick` can fall, also between a call and its `Return`, which is when
`disastrOS_syscall` reads `syscall_retvalue`.

*Identity.* A PCB* is a number in `PCB == 1 .. MAX_NUM_PROCESSES`, a block of
the pool, and `NULL` is 0. Fields of a freed block stay as they were. `pcb_free`
is the free list in the order the allocator gives blocks out, so that the model
reuses the blocks the code reuses.

*Data.* `children[p]` holds the PCBs that the PCBPtrs of the list lead to, and
`ptr_free` counts PCBPtr blocks. `waiting_list` and `zombie_list` are sets, since
nothing depends on their order; `ready_list`, `timer_list`, `children` are
sequences. `timer_list` holds ticks left instead of awakening times. `signals`
is a set. `call[p]` is `syscall_num` and `syscall_args[0]`, or `NoCall` once
the process is back in user code. `running->timer` is never assigned by the
code, so the check in sleep for a second timer never fires and is left out.

*Who can come back.* `WaitersHaveCause` says of everybody on `waiting_list` what will take it off: its own timer, or the exit of
any of the children it waits for (`Awaited`: all, or the one of the pid it asked for), which has not exited and whose parent field leads
to it. Two exceptions are part of the formula, and the code never ends either wait: orphans
keep the parent field they had, so they do not wake the init they came to (the violated run `kernel_missed_child`), and a wait for the pid
of no child, which blocks instead of returning an error, waits for nobody. `WaitersAreAnswered` is the other half, a step at a time: the children waited for are
not lost while the wait goes on, and it ends with the exit of one of them, the processor and its pid.

*The ways to stop.* `system` is "up", or "halted" (shutdown), "deadlock" (semWait
calls shutdown), "crashed" (a NULL pointer is followed, or an assert fails just
before) or "hung" (exit of an init that has children moves them from its list
to its list without end). What follows a crash in the host process is not
modelled; a stopped system stutters (`Stopped`), so TLC's deadlock check stays
on in every run.

*Programs* are arbitrary: the running process makes any call of `Calls` with any
argument of `SleepTimes` and `WaitArgs`, or computes while ticks go on. One thing is
assumed: they leave through exit. A first function that returns ends the host
through `uc_link`.

*Bounds.* `MaxPid` ends spawning; sleep with an empty ready list also needs a
pid left for the restart it causes. It is named in the guards of `Spawn` and
`Sleep` and is the only bound of the module: everything else is finite by the
pools.

### Semaphores

A semaphore is its number, unique on `semaphores_list`. Its `descriptors` and a
process's `sem_descriptors` are sets, as no operation depends on their order, and
`waiting_descriptors` is the queue of the PCBs behind the descriptors. The two
descriptor pools are numbers of free blocks. semOpen's failures part of the way
keep what the code keeps: the semaphore, the descriptor, one pointer. exit and
wait leave descriptors where they are. `MaxFd` and `MaxCount` bound opens and posts.

`CountingSemaphore` has `linked`, `value` and `queue`. The refinement maps
`value` to the count or 0 if it is negative. It holds for initial values that
are not negative (the runs use those; with -1 the code's first waiter would be
counted twice).

### Resources

Built like `Semaphores`, with one descriptor list on each side. `resources_list`
is a function from the ids of the resources that exist to their types. The four
modes of `disastrOS_constants.h` are numbers, and DSOS_WRITE (3) has the bit of DSOS_CREATE (1).
exit into a waiting parent releases the descriptors of the process, exit to the ready list does
not, and both are steps of `Kernel`, so `KernelStep` tells them apart by the
block that is freed. `LastFd` bounds opens.

### TestPrograms

`Semaphores` lets every process make any call at any time; here processes do what
`OurTest.c` and `test.c` make them do. The text of a function is the sequence of its
instructions with the loops unrolled: system calls, and the three accesses to the
shared ring (`load` the index, `store` into the slot, `advance` the index). A call is the
action of `Semaphores` or `Kernel`, then `Returned` reads the answer at the time the
code reads it (`disastrOS.c:102`), checks it as ERROR_HELPER does and goes on or gives up (`pc` 0,
then exit without closing). Between any two of these an `Interrupt` can fall.

A `test` is what is typed into OurTest (5 is any number but 1 to 4), or 0 for
`test.c`, and the constants of `OurTest.c` are constants or, for `HOWMANY`, a value chosen
at the start; only tests whose processes fit into `MaxPid` are started. `MaxFd` and `MaxCount`
are above anything these programs reach. A spawn that finds no block follows NULL (`system` "crashed") and leaves
the programs where they are. A process that waits and blocks gets
the answer to its call before, so workers do give up; and a process can get 0 instead of the
descriptor it opened (`Misled`). The properties say what holds all the same: up to the first
process that is misled the ring and the mutexes are right, workers that gave up included, and
there is one at a time in a section (`OneInSection`: two that say so, one of them misled, is the finding of `programs_section`);
the semaphores of the father stay linked whatever happens.

### Contexts

`Kernel` takes a call and an interrupt for one step each. `Contexts` has the steps in
between: an alarm comes (`Alarm`), is delivered once it is not blocked (`Deliver`, which leaves a signal
frame on the stack in use), `timerHandler` saves the context through `running` and enters
`interrupt_context`, and so on to `Resume`, the setcontext to whatever `running` is by then. A
context is a stack, a place in the code and a mask. The kernel's actions are used as they are, in
`timerInterrupt`, `disastrOS_trap`, `SyscallReturns` and `disastrOS_start`.

Two things are assumed, and the code does not guarantee them; all properties and theorems of `Contexts` are under both. An interrupt (and a
restart) is through before the next alarm is due, 100 ms later: `InTime`, a conjunct of `ContextsNext`. And
swapcontext and setcontext change mask and registers at once. In glibc setcontext sets
the mask first, so that an alarm that came during a trap is delivered while the
trap's stack is still in use, and the context about to be resumed is overwritten; this window is
listed as a hazard (`disastrOS.c:135`) and no property covers it. What the run shows is that the masks
the code sets are the right ones: without that of the trap, or with that of the trap
inherited by a child, the properties fail.

### PoolAllocator and LinkedList

These two stand below the others: a pool's array of indices, and list items with
their neighbours. `BlockPool` has the form of `pcb_free` in `Kernel` (the first free block goes
out, a freed one comes first), and `ListOrder` that of `ready_list`, `timer_list` and
`children`. So the refinements are what entitles `Kernel` to its sequences.

`PoolAllocator_releaseBlock` takes any pointer, also to a block that is free, to the middle of
one and outside the buffer; `Offset` bounds how far. The size check of
`PoolAllocator_init` compares constants and is left out.

`List_insert` is not as careful: it refuses an item that has neighbours, but one
alone on a list has none. `MayInsert` states what callers have to see to, and
`List_detach` asks for an item of that list. In the kernel this is `OnePlace`,
which is proved: a PCB is on one list at most, and handlers detach it before they insert it.

## 3. The runs

| Run | Question | Expected |
|---|---|---|
| `kernel` | Do ticks, restarts, reused blocks and exhausted pools keep every process in one place, with the right status, family and timers, the ready list in turn, and waiters able to be awakened? | pass |
| `kernel_live` | Does everyone who is ready run, and everyone who sleeps wake? | pass |
| `kernel_missed_child` | Is init awakened when an orphan exits? | violated |
| `sem_queue` | Do the calls implement a first-come-first-served semaphore with three processes, two of which can wait, also when one gets the block of a dead one? | pass |
| `sem_pools` | Do descriptors agree and unlinked semaphores stay quiet when the pools run out? | pass |
| `programs` | Do the tests keep ring, mutexes, sections and semaphores in order and come to their end, wherever ticks fall? | pass |
| `programs_section` | Is a worker that says so alone in the section? | violated |
| `contexts` | Does every process resume where it was, on its stack, with the alarm on? | pass |
| `resources` | Do descriptors agree, stay with their resource and come back to their pools, whoever dies with them open? | pass |
| `resources_exit` | Does a process that is gone hold nothing? | violated |
| `pool` | Is the array of indices a pool, whatever is released? | pass |
| `list` | Are the pointers sequences? | pass |

**Bounds and why they are enough.** `kernel` has three blocks and room for five processes, one after the other
(`MaxPid` is 4, and the first pid is 0). Three at a time are a parent, a child and
a grandchild, so orphans, zombies and init's adopted children occur; two more than
there are blocks make a block change hands while a child still names it as its
parent; both pools run out, the PCBPtrs first. Sleep times 1 and
2 give timers that are added before, after and equal to one another, and wait
arguments 0, 1 and 2 are any child, a child of one's own and a stranger's.
`kernel_live` has one process for each block: liveness costs more, and its hazards (waking in
front of others, handing over to a parent, restarting) need three processes only.
`sem_queue` allows one semaphore at a time among two numbers, so that one is
unlinked and the other created with the same block. `sem_pools` has five
descriptors and five pointers: pointers run out first, as in the code, where an
open takes two of them, and an odd one is left, so the third open fails half-way
with a pointer in hand. It has no wait, so no block is used again there; in `sem_queue` the third process can get
the block of the second, whose descriptors are left on the semaphore. `resources` has two blocks for three processes, so that a block
passes on while a dead process has resources open, and pools for two descriptors, which
one process can exhaust. `pool` has four blocks: with four, freed blocks come back in the front,
middle and end of the free list. `programs` runs all tests: 1 for four rounds of one producer and one consumer
around two slots, so that the ring wraps and both sides block; 3 and 4 with two workers of a kind, who contend
for the mutex, and one of the other kind; 2 with one pair (two pairs, five processes, are out of TLC's reach; its workers
are those of 3 and 4). `programs_section` needs a third slot and a second round: a misled consumer waits for two items in each. `contexts`
has three processes one of which can be interrupted while another is in a call and the third was never run. `list` has four items on two lists: insertion and detachment in front,
between two others, behind, and into and out of an empty list.

**Fairness.** `KernelFairSpec` has weak fairness of `Tick`, as `setitimer`
delivers SIGALRM every 100 ms for as long as the system is up, and of `Restart`,
as the host process goes on with `disastrOS_start` when the trap returns. None of
any system call: processes may compute forever, and the properties hold
nonetheless. In `TestPrograms` the programs are known, and `ProgramSpec` has weak fairness of their
steps: the host executes whoever runs. That ticks go on is not needed there, as no test
sleeps or spins. `ContextsSpec` has weak fairness of what the host does by itself, of calls none.

**Findings.** The violated runs show where the code departs from its own
comments, assertions and messages (`PROJECT.json`, "findings"):

- exit does not set the new parent of the children it hands to init
  (`exit.c:20-33`), so init's wait is not ended by their exit (`exit.c:13-14`);
- semWait writes its 0 into the process it switched to (`semwait.c:46`). If that one was interrupted
  before it read the descriptor it opened, it takes 0 for it, and two consumers meet in the section (`OurTest.c:121`);
- exit releases resources only into a waiting parent (`exit.c:74`), and nobody
  does so later: the resources of a reaped process cannot be destroyed any more.

Also worth knowing, and in the models:

- who had to wait in semWait returns the answer to its call before instead of 0 (`semwait.c:46` again, `HowToProceed.txt:29`),
  so the workers of `OurTest.c` give up when their first call that blocks follows anything but a 0;
- semWait reports a deadlock as soon as the ready list is empty, though sleepers may wake up and post (`semwait.c:36-39`);
- wait for the pid of a process that is no child finds the last child instead (`wait.c:36`), so where the comment announces
  an error (`wait.c:33-34`) the caller takes that child if it is a zombie, and otherwise blocks for good:
  exit wakes for argument 0 or its own pid only (`exit.c:42-44`). `ReportedAreGone` says what holds for the former, and
  `WaitersHaveCause` excepts the latter by name;
- exit to a waiting parent loses the PCBPtr (`exit.c:51-52`), until spawn follows NULL.

## 4. Proofs

TLAPS proves these for every number of processes, every set of calls and all
arguments, numbers and pool sizes. Assumed are `KernelAssumption` (at least one block,
arguments are integers) and its likes in `Semaphores`, `Resources`, `PoolAllocator` and `LinkedList`, which say of what type the
constants are; `TestsAssumption` adds that semaphores are opened with no negative value and that the numbers the programs
use are among those of the model. The bounds (`MaxPid`, `MaxFd`, `MaxCount`, `LastFd`) may be any numbers, so they limit nothing.

| Module | Theorem | States |
|---|---|---|
| `KernelInvariants` | `KernelTypes` | `KernelSpec => []KernelTypeOK` |
| | `KernelInvariant` | `KernelSpec => []KernelInv` |
| | `OneBlockOnePlace` | `KernelSpec => []OnePlace` |
| | `StatusIsPlace` | `KernelSpec => []StatusTellsPlace` |
| | `OneFamily` | `KernelSpec => []FamilyTree` |
| | `CausesHold` | `KernelSpec => []CauseInv` |
| | `NobodyMissedTheirChild` | `KernelSpec => []WaitersHaveCause` |
| | `WaitsAreAnswered` | `KernelSpec => WaitersAreAnswered` (an action property) |
| | `ReportsAreTrue` | `KernelSpec => []ReportedAreGone` |
| | `OrphansHaveInit` | `KernelSpec => []HungUpAreInits` |
| | `NobodyOversleeps` | `KernelSpec => []SleepersOnTime` |
| | `TurnsAreKept` | `KernelSpec => InTurn` (an action property) |
| `SemaphoreInvariants` | `SemaphoreInvariant` | `Spec => []SemInv`, which includes `KernelInv` |
| | `SemaphoreTypes`, `StillOnePlace`, `CountsAreExact`, `QueuesHoldTheBlocked`, `UnlinkedStayQuiet`, `BothListsAgree` | `Spec => []TypeOK`, and so of `OnePlace`, `WaitersExact`, `WaitersBlocked`, `UnlinkedIsQuiet`, `DescriptorsAgree` |
| | `SemaphoresImplement` | `Spec => ImplementsCountingSemaphore`, for initial values that are not negative |
| `ResourceInvariants` | `ResourceInvariant` | `Spec => []ResInv`, which includes `KernelInv` |
| | `ResourceTypes`, `NoBlockIsLost`, `HoldersAgree` | `Spec => []TypeOK`, and so of `BlocksAccounted`, `DescriptorsAgree` |
| | `OpenResourcesStay` | `Spec => OpenStaysOpen` (an action property) |
| `ContextsInvariants` | `ContextsInvariant` | `ContextsSpec => []ContextsInv`, which includes `KernelInv` |
| | `ContextsTypes`, `StacksAreOwn`, `EveryCallReturnsOnce` | `ContextsSpec => []ContextsTypeOK`, and so of `OwnStack`, `CallsReturnOnce` |
| `ProgramInvariants` | `ProgramInvariant` | `ProgramSpec => []ProgInv`, which includes `SemInv` |
| | `ProgramTypes`, `MutexesAreAccounted`, `SectionsExclude`, `FatherKeepsThemOpen` | `ProgramSpec => []ProgramTypeOK`, and so of `MutexAccounted`, `OneInSection`, `SemaphoresStay` |
| `PoolInvariants` | `PoolInvariant` | `Spec => []PoolInv` |
| | `PoolTypes`, `LinksLeadThroughFree` | `Spec => []TypeOK`, and so of `LinksAreFree` |
| | `PoolImplements` | `Spec => ImplementsBlockPool` |
| `LinkedListInvariants` | `ListInvariant` | `Spec => []ListInv` |
| | `ListTypes`, `PointersAgree` | `Spec => []TypeOK`, and so of `LinksAgree` |
| | `ListsImplement` | `Spec => ImplementsListOrder` |

*Types.* `KernelTypeOK` is inductive. The work is in the handlers that search:
the model writes a search as CHOOSE, and `TimerPlaceFound`, `ElapsedCountFound`,
`PtrPlaceFound` and `AwaitedPlaceFound` show that there is such a place, from
`Least` (a set of naturals that is not empty has a least element).

*The kernel's invariant.* None of `OnePlace`, `StatusTellsPlace`, `FamilyTree` and `WaitersHaveCause` is inductive alone, and the four
together are not either. `KernelInv` is their conjunction with two more, and with
`SoundCauses` instead of `WaitersHaveCause`: that sleepers have their timer and waiters a child, which is what the handlers rely on. It says nothing
of calls the kernel does not have itself, so the same `KernelInv` serves the modules over the kernel.

- `OnePlace` through a tick needs `SoundCauses`: that a woken process was on
  waiting_list holds because timers belong to sleepers only. `SoundCauses`
  through a tick needs in turn that nobody has two timers.
- `StatusTellsPlace` and `OnePlace` through exit need each other: exit asks the
  status of the parent and then takes it off waiting_list. The parent pointer may
  name a free block by then, of which `StatusTellsPlace` says nothing; hence
  **`FreeBlocksIdle`**: no free block has the status Waiting. That is so because blocks are freed as
  zombies (by wait) or by the one who runs (by exit).
- `OnePlace` through wait needs `FamilyTree`: the reaped child holds its block, so it
  is freed once, and as a zombie it has no children that would be lost.
- `FamilyTree` through exit needs **`RootedTree`**: init holds its block and is no
  zombie, so it can take orphans; and who has a parent is a child of somebody (of init if not of the
  one its parent field names), so a new zombie is in somebody's list. That init
  has no parent makes its exit a fault rather than a zombie that nobody can reap.

There is a lemma for each action (`SpawnKeeps`, `ReapKeeps`, ...), with one step
for each part of the invariant. What several need is stated once: what lists hold
after insertions, removals and concatenations (`ListLemmas`); the timers as a set of processes
(`AgedSleepers`, `WokenSleepers`, `AddedSleepers`); the hand-over to the first
ready process (`NextReadyPlaces`); and the family after the orphans moved (`OrphansToInit`).

*Pids and orphans.* `ReportedAreGone` speaks of pids of live processes, and blocks are used
again, so it needs **`PidsDiffer`**: pids of live processes differ and all pids given are below
`last_pid`; and a pid that was reported is below it too, so no new process can get it. What the
allocation of a block looks like from outside is stated once (`BlocksStep`: a step takes no block or one, which
gets the next pid), and everything above the kernel uses that instead of
the handlers. `HungUpAreInits` needs `RootedTree`, and that a process without a parent never exits.

*Waiters.* `WaitersHaveCause` needs **`ChildrenOwn`**: only a process without a parent has children whose parent field leads elsewhere,
as exit hands orphans to init alone; and **`AwaitedAlive`**: no child waited for that would wake its parent is a zombie. It
holds when wait blocks because the scan stops at the first such child, and with `PidsDiffer` a pid names one (`AwaitsTheLiving`); and it stays because a
child whose parent field leads to a process that waits for it does not exit to the ready list (`ExitAnswers`). `WaiterSees` says what any
step does to a wait, and both theorems follow from it.

*Order.* `SleepersOnTime` is inductive over `KernelInv`. `InTurn` holds step by step, as woken
processes are no members of the ready list (`OnePlace` and `SoundCauses`).

*Semaphores.* Here four pieces of state have to agree: the queue of a semaphore, waiting_list, the call of the process
and its descriptors. `SemInv` has the properties with two more: **`DescriptorsPair`**, which is
`DescriptorsAgree` one descriptor at a time and adds that the next fd is new, and **`NoneOfTheFuture`**: exit
leaves descriptors behind, but never under a pid still to be given. That an unlinked semaphore
has nobody in its queue follows from both: whoever waits has a descriptor, and semClose unlinks
when there is none. The calls preserve `KernelInv` too (`BlockKeepsKernel` and the lemmas around it: semWait
blocks like wait, semPost makes ready one who neither sleeps nor waits for a child).

*The refinement.* A step of the kernel leaves the abstract semaphores alone (`KernelStep` does not touch
them). semOpen, semClose, semWait and semPost each make a step of `CountingSemaphore` or none
(errors and what fails part of the way). `SemInv` is needed where the code decides by the count
and the abstract semaphore by its queue: `WaitersExact` makes them the same. The theorem assumes
`InitialValues \subseteq Nat`: the code does not refuse a negative value, and with one it is
false, as section 2 says. Without that assumption the theorems of the invariants still hold.

*Resources.* `ResInv` has, besides both lists of descriptors, that the set of all descriptors is
finite: `BlocksAccounted` counts it, and one more or one less descriptor is one more or less block
(`OneMoreDescribed` and `OneLessDescribed`). exit without release keeps the descriptors of the dead counted.

*Contexts.* These theorems are about `ContextsSpec`, and so rest on its two assumptions. `OwnStack` and `CallsReturnOnce` say nothing of the frame that an alarm leaves below
`timerHandler`, of the mask, or of who is inside the trap. `ContextsInv` follows each process
through them: **`SavedContexts`**, a process that is not running goes on in its program unmasked, or in the
handler masked, above a frame that leads to its program; **`CpuContext`**, what each place in the
code says of stack, mask, `running` and the alarm (the caller in the trap is saved behind its swapcontext; no alarm is
pending while the interrupt context, which does not mask it, is in use); and **`TrapsOnce`**, who enters the trap is
in no other call. Contexts that are made go to blocks with a new pid (`AliveStep`), so nobody's is overwritten.

*Pool and lists.* What hangs on a chain of links is an induction along the chain, which the provers cannot do. It is
avoided: the proofs exhibit the sequence that a chain holds after a call and show that it satisfies the equations that
define `Chain` (`ChainIs`), whose only solution it is, as the least place where two solutions differ cannot exist. `LinksAreFree` does not
say where the chain ends and `LinksAgree` does not exclude a list that runs in a circle, so neither is inductive: **`PoolInv`** says
that the chain ends at NullIdx and **`ListInv`** that each list is a sequence without repetition that ends in NULL on both
sides. As an item on no list has no neighbours and lists share none, it is enough that `MayInsert` excludes an item that is alone on a list. Both refinements
follow step by step: a chain that gets one more item in front or in the middle, or loses one, is `ListOrder`'s or `BlockPool`'s step.

*Test programs.* The theorems hold for every ring length and every number of rounds and workers, so first the texts have to be understood without
unrolling them: each text a process runs `Fits` (`TextsFit`), that is, it opens its semaphores first and closes them last
(`OpensFirst`), uses what it opened (`UsesOpened`), reads an index before it uses it (`Reads`), and has nothing but three accesses between the
semWait of a mutex and its semPost (`Guards`). From these `ProgInv` follows a process through its text:

- `ProgramTypeOK` needs `InTheRing`, that the index was read before it is used, and `Founded` and `InCalls`, that a process
  is in the call at its place of the text of its function.
- `SemaphoresStay` needs **`FatherHolds`**: until he closes, the father holds a descriptor of each semaphore (and by `DescriptorsPair` it
  is linked). His opens were true because he is alone then, and nobody can have overwritten their answers (`Gathering`).
- `MutexAccounted` is about who believes to be in a section and who really waited. A variable for a mutex leads to that mutex as long
  as nobody is misled (`Answers`, `OwnSems`, **`Kept`**), so a semWait cannot fail there; and whoever is in front of a section had 0 as last answer
  (**`Admitted`**), so the old answer that a blocked process gets is 0 too. Nobody gives up with a mutex in hand, or in its queue.
- `OneInSection` follows: the count is 1 less those inside or waiting (`MutexAccounted`) and, if negative, the number of
  those in the queue (`WaitersExact`), who are among the former because a blocked process is in the semWait at its place
  (`WaitersBlocked`, `WaitCalls`). So all but one of them wait.

*Only model-checked*: `RingInOrder`, whose proof would need the arithmetic of places around the ring and a count of who has waited and
not yet accessed it. It is not an invariant for every size of the pools, either: with too few blocks an open can fail, its answer be overwritten with the
0 that a first open would give, and the error of the semWait with that number be overwritten as well; the run has blocks for
every open. `EveryReadyRuns`, `EverySleeperWakes`, `AlarmsGetThrough` and `TestEnds` are liveness under fairness, beyond the
prover's reach as ENABLED is. The properties of the violated runs are false, so there is nothing to prove.

## 5. Not modelled, and why

- *The inside of swapcontext and setcontext*, and a second alarm within an interrupt: see `Contexts`.
- *fork*: the child has no context, so what it runs is undefined, and no program calls it. On the lists it does what spawn does.
- *Exit values, logging, printing*; call numbers out of range, which no wrapper gives.
- *Functions that no main starts*: `wrongInputs` and `fun` of `OurTest.c`, `sleeperFunction` and
  `childFunction` of `test.c`. The calls they make are among those of `Semaphores`, `Resources` and `Kernel`.
- *Semaphores and resources in one module*: their handlers share no state but the
  kernel's, so each is modelled over the kernel without the other.
- `semops.c` is not built.

## 6. Plan

Done: the modules above and the proofs of section 4. What could be added: `RingInOrder` as a theorem, under the assumption
that the descriptor pools are large enough for every open, over `ProgInv` and a count of the workers between a semWait and their access.
