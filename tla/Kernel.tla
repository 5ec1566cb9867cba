------------------------------- MODULE Kernel -------------------------------
(***************************************************************************)
(* The process kernel of disastrOS: the start routine and the trap         *)
(* (disastrOS.c), the timer interrupt, the scheduler, the process control  *)
(* blocks and the system calls preempt, spawn, wait, exit, sleep and       *)
(* shutdown.  One host process simulates a single core, so exactly one     *)
(* process runs at a time, a system call is one atomic step (the trap      *)
(* masks SIGALRM), and a timer interrupt can fall between any two steps.   *)
(*                                                                         *)
(* A PCB* is a block of the PCB pool, and freeing a block leaves its       *)
(* contents behind, as in the code: a stale parent pointer reads whatever  *)
(* the block holds now.                                                    *)
(***************************************************************************)
EXTENDS Integers, SequencesExt

CONSTANTS
    MAX_NUM_PROCESSES,  \* blocks of each kernel pool (disastrOS_constants.h:3)
    LogFile,            \* TRUE iff disastrOS_start was given a log file
    Calls,              \* the system calls the programs of this instance make
    SleepTimes,         \* the arguments they give to disastrOS_sleep ...
    WaitArgs,           \* ... and to disastrOS_wait
    MaxPid              \* BOUND: no process gets a pid above this one

\* The system calls modelled here and in the modules over this one.
Syscalls == {"preempt", "spawn", "wait", "exit", "sleep", "shutdown",
             "semOpen", "semClose", "semWait", "semPost",
             "openResource", "closeResource", "destroyResource"}

ASSUME KernelAssumption ==
    /\ MAX_NUM_PROCESSES \in Nat \ {0}
    /\ LogFile \in BOOLEAN
    /\ Calls \subseteq Syscalls
    /\ SleepTimes \subseteq Int
    /\ WaitArgs \subseteq Int
    /\ MaxPid \in Nat

PCB == 1 .. MAX_NUM_PROCESSES
NULL == 0

DSOS_EWAIT == -5
DSOS_ESLEEP == -7

Statuses == {"Created", "Running", "Ready", "Waiting", "Zombie"}
Signals == {"SIGCHLD", "SIGHUP"}

\* What a PCB says of a call, syscall_num and syscall_args[0]; "none" of a
\* process in user code, that is one that has read syscall_retvalue.
CallRecord == [num : Syscalls \union {"none"}, arg : Int]
NoCall == [num |-> "none", arg |-> 0]

\* A TimerItem.
Timer == [pcb : PCB, left : Int]

VARIABLES
    system,        \* "up", or how it stopped: "halted" (exit(0)), "deadlock" (exit(0) from
                   \* semWait), "crashed" (a fault of the host process), "hung"
    running,       \* the running process; NULL while disastrOS_start restarts
    init_pcb,      \* where orphans go
    last_pid,      \* the pid of the next process
    pcb_free,      \* the free list of the PCB pool, last freed first
    ptr_free,      \* how many PCBPtr blocks are free
    pid, status, parent, signals, \* fields of the PCBs ...
    children,      \* ... with the list of PCBPtr as the PCBs they point to
    ready_list, waiting_list, zombie_list,
    timer_list,    \* the PCBs asleep and how many ticks each has left
    call,          \* the system call a process is in
    retvalue       \* syscall_retvalue

pcbVars == <<pid, status, parent, signals, children>>
listVars == <<ready_list, waiting_list, zombie_list, timer_list>>
poolVars == <<pcb_free, ptr_free>>
kernelVars == <<system, running, init_pcb, last_pid, poolVars, pcbVars,
                listVars, call, retvalue>>

-----------------------------------------------------------------------------
(* Helpers *)

\* Whether the running process is in user code and may make the call `num`.
User(num) == system = "up" /\ running # NULL /\ call[running] = NoCall /\ num \in Calls

\* disastrOS_syscall and disastrOS_trap up to the handler: number and argument
\* go into the PCB of the caller.
Trap(num, arg) == call' = [call EXCEPT ![running] = [num |-> num, arg |-> arg]]

\* A NULL pointer is followed or a loop never ends: nothing of the system
\* runs after that.
Stop(how) == system' = how /\ UNCHANGED <<running, init_pcb, last_pid, poolVars, pcbVars,
                                          listVars, call, retvalue>>
Crash == Stop("crashed")

\* Mutant: the block is not given back.
KeptBlock(p) == pcb_free

\* PCB_free: the block becomes the first of the free list.
Freed(p) == <<p>> \o pcb_free

\* The place of the first PCBPtr to q in a list of children (PCBPtr_byPID).
PtrPlace(s, q) == CHOOSE i \in DOMAIN s : s[i] = q /\ \A j \in 1 .. i - 1 : s[j] # q

-----------------------------------------------------------------------------
(* Timers.  Only the distance to the current time matters, so an entry     *)
(* holds what is left and a tick takes one away.                           *)

\* Mutant: the new timer always goes last.
TimerPlaceLast(timers, left) == Len(timers)

\* TimerList_add keeps the list sorted: after every entry that is due earlier
\* or at the same time.
TimerPlace(timers, left) ==
    CHOOSE k \in 0 .. Len(timers) :
        /\ \A i \in 1 .. k : timers[i].left <= left
        /\ k < Len(timers) => left < timers[k + 1].left

TimerList_add(timers, left, p) ==
    InsertAt(timers, TimerPlace(timers, left) + 1, [pcb |-> p, left |-> left])

\* TimerList_current looks at the first entry only: how often it finds one due.
ElapsedCount(timers) ==
    CHOOSE k \in 0 .. Len(timers) :
        /\ \A i \in 1 .. k : timers[i].left <= 0
        /\ k < Len(timers) => timers[k + 1].left > 0

Woken(timers) == [i \in 1 .. ElapsedCount(timers) |-> timers[i].pcb]

Pending(timers) == SubSeq(timers, ElapsedCount(timers) + 1, Len(timers))

\* Mutant: time stands still.
Ageless(timers) == timers

\* The tick: ++disastrOS_time.
Aged(timers) == [i \in DOMAIN timers |-> [timers[i] EXCEPT !.left = @ - 1]]

-----------------------------------------------------------------------------
(* Scheduling *)

\* Mutants: the status is not set, the process is not taken off waiting_list,
\* the running process goes to the front.
AsleepStill(timers) == status
WaitingStill(timers) == waiting_list
RequeuedFirst(rest) == <<running>> \o rest

\* internal_schedule wakes the processes whose timers are due, in front of the
\* ready list; if anyone is ready, the running process goes to its back.
AfterWakeUp(timers) == Woken(timers) \o ready_list
Awakened(timers) == [q \in PCB |-> IF q \in ToSet(Woken(timers)) THEN "Ready" ELSE status[q]]
StillWaiting(timers) == waiting_list \ ToSet(Woken(timers))
Requeued(rest) == Append(rest, running)

Schedule(timers) ==
    LET ready == AfterWakeUp(timers)
        awake == Awakened(timers)
    IN /\ waiting_list' = StillWaiting(timers)
       /\ timer_list' = Pending(timers)
       /\ IF ready = <<>>
          THEN /\ status' = awake
               /\ UNCHANGED <<running, ready_list>>
          ELSE /\ running' = Head(ready)
               /\ ready_list' = Requeued(Tail(ready))
               /\ status' = [awake EXCEPT ![running] = "Ready", ![Head(ready)] = "Running"]
       /\ UNCHANGED <<system, init_pcb, last_pid, poolVars, pid, parent, signals,
                      children, zombie_list, retvalue>>

\* Mutant: the last one is taken.
NextReadyLast == running' = Last(ready_list) /\ ready_list' = Front(ready_list)

\* The running process leaves the processor and the first ready one takes its
\* place, whose status stays as it was.
NextReady == running' = Head(ready_list) /\ ready_list' = Tail(ready_list)

-----------------------------------------------------------------------------
(* Start *)

\* PCB_alloc and the rest of disastrOS_start for the first process.
KernelInit ==
    /\ system = "up"
    /\ running = 1
    /\ init_pcb = 1
    /\ last_pid = 1
    /\ pcb_free = [i \in 1 .. MAX_NUM_PROCESSES - 1 |-> i + 1]
    /\ ptr_free = MAX_NUM_PROCESSES
    /\ pid = [p \in PCB |-> 0]
    /\ status = [p \in PCB |-> IF p = 1 THEN "Running" ELSE "Created"]
    /\ parent = [p \in PCB |-> NULL]
    /\ signals = [p \in PCB |-> {}]
    /\ children = [p \in PCB |-> <<>>]
    /\ ready_list = <<>>
    /\ waiting_list = {}
    /\ zombie_list = {}
    /\ timer_list = <<>>
    /\ call = [p \in PCB |-> NoCall]
    /\ retvalue = [p \in PCB |-> 0]

\* PCB_alloc and what its caller sets: the new process p gets the next pid, a
\* status and a parent, no signals and no children, and starts in user code.
Alloc(p, newStatus, newParent) ==
    /\ pcb_free' = Tail(pcb_free)
    /\ pid' = [pid EXCEPT ![p] = last_pid]
    /\ last_pid' = last_pid + 1
    /\ status' = [status EXCEPT ![p] = newStatus]
    /\ parent' = [parent EXCEPT ![p] = newParent]
    /\ signals' = [signals EXCEPT ![p] = {}]

\* With nobody running the trap returns into main_context, in the middle of
\* disastrOS_start: it allocates and starts another first process and keeps
\* the lists as they are.
Restart ==
    /\ system = "up" /\ running = NULL
    /\ IF pcb_free = <<>>
       THEN Crash
       ELSE /\ Alloc(Head(pcb_free), "Running", NULL)
            /\ children' = [children EXCEPT ![Head(pcb_free)] = <<>>]
            /\ call' = [call EXCEPT ![Head(pcb_free)] = NoCall]
            /\ running' = Head(pcb_free)
            /\ init_pcb' = Head(pcb_free)
            /\ UNCHANGED <<system, ptr_free, listVars, retvalue>>

-----------------------------------------------------------------------------
(* The timer interrupt and the return from a system call *)

\* timerHandler saves the context of the running process through `running`.
Tick ==
    /\ system = "up"
    /\ IF running = NULL
       THEN Crash
       ELSE Schedule(Aged(timer_list)) /\ UNCHANGED call

\* disastrOS_syscall reads syscall_retvalue and the process is back in user code.
Return ==
    /\ system = "up" /\ running # NULL /\ call[running] # NoCall
    /\ call' = [call EXCEPT ![running] = NoCall]
    /\ UNCHANGED <<system, running, init_pcb, last_pid, poolVars, pcbVars, listVars, retvalue>>

-----------------------------------------------------------------------------
(* System calls *)

Preempt ==
    /\ User("preempt")
    /\ Trap("preempt", 0)
    /\ Schedule(timer_list)

\* internal_shutdown returns into main_context with shutdown_now set: exit(0).
Shutdown ==
    /\ User("shutdown")
    /\ Stop("halted")

\* Mutant: only the PCB pool is looked at.
NoPcbLeft == pcb_free = <<>>

\* Neither PCB_alloc nor PCBPtr_alloc looks at what the pool gave it before
\* writing to it.
NoBlockLeft == pcb_free = <<>> \/ ptr_free = 0

Spawn ==
    /\ User("spawn")
    /\ last_pid <= MaxPid
    /\ IF NoBlockLeft
       THEN Crash
       ELSE LET new == Head(pcb_free)
            IN /\ Alloc(new, "Ready", running)
               /\ children' = [children EXCEPT ![running] = Append(@, new),
                                               ![new] = <<>>]
               /\ ptr_free' = ptr_free - 1
               /\ ready_list' = Append(ready_list, new)
               /\ retvalue' = [retvalue EXCEPT ![running] = last_pid]
               /\ call' = [call EXCEPT ![running] = [num |-> "spawn", arg |-> 0],
                                       ![new] = NoCall]
               /\ UNCHANGED <<system, running, init_pcb, waiting_list, zombie_list, timer_list>>

\* Asleep, or, with every timer in use, told so.  (running->timer is never set,
\* so its check never finds one.)
Sleep(cycles) ==
    /\ User("sleep")
    /\ ready_list = <<>> => last_pid <= MaxPid  \* leaves a pid for Restart
    /\ Trap("sleep", cycles)
    /\ IF Len(timer_list) = MAX_NUM_PROCESSES
       THEN /\ retvalue' = [retvalue EXCEPT ![running] = DSOS_ESLEEP]
            /\ UNCHANGED <<system, running, status, ready_list, waiting_list, timer_list>>
       ELSE /\ timer_list' = TimerList_add(timer_list, cycles, running)
            /\ status' = [status EXCEPT ![running] = "Waiting"]
            /\ waiting_list' = waiting_list \union {running}
            /\ IF ready_list # <<>>
               THEN NextReady /\ UNCHANGED system
               ELSE /\ running' = NULL
                    /\ system' = IF LogFile THEN "crashed" ELSE "up"
                    /\ UNCHANGED ready_list
            /\ UNCHANGED retvalue
    /\ UNCHANGED <<init_pcb, last_pid, poolVars, pid, parent, signals, children, zombie_list>>

\* Where the scan of the children stops: at the first zombie (wait for any) or
\* the first child with that pid, and with no such child at the last one.
AwaitedPlace(arg) ==
    LET kids == children[running]
        hit(i) == IF arg = 0 THEN status[kids[i]] = "Zombie" ELSE pid[kids[i]] = arg
    IN CHOOSE i \in DOMAIN kids :
           /\ \A j \in 1 .. i - 1 : ~hit(j)
           /\ hit(i) \/ i = Len(kids)

\* EWAIT.
NoChildren ==
    /\ retvalue' = [retvalue EXCEPT ![running] = DSOS_EWAIT]
    /\ UNCHANGED <<system, running, status, children, ready_list, waiting_list, zombie_list,
                   poolVars>>

\* The child is reaped: its block and the pointer to it are free again.
Reap(i) ==
    LET child == children[running][i]
    IN /\ children' = [children EXCEPT ![running] = RemoveAt(@, i)]
       /\ ptr_free' = ptr_free + 1
       /\ zombie_list' = zombie_list \ {child}
       /\ retvalue' = [retvalue EXCEPT ![running] = pid[child]]
       /\ pcb_free' = Freed(child)
       /\ UNCHANGED <<system, running, status, ready_list, waiting_list>>

\* The caller waits for a child to exit; with nobody ready List_detach follows NULL.
Await ==
    /\ status' = [status EXCEPT ![running] = "Waiting"]
    /\ waiting_list' = waiting_list \union {running}
    /\ NextReady
    /\ UNCHANGED <<system, children, ptr_free, zombie_list, retvalue, pcb_free>>

Wait(arg) ==
    /\ User("wait")
    /\ LET kids == children[running]
           reapable == kids # <<>> /\ status[kids[AwaitedPlace(arg)]] = "Zombie"
       IN IF kids # <<>> /\ ~reapable /\ ready_list = <<>>
          THEN Crash
          ELSE /\ Trap("wait", arg)
               /\ IF kids = <<>> THEN NoChildren
                  ELSE IF reapable THEN Reap(AwaitedPlace(arg))
                  ELSE Await
               /\ UNCHANGED <<init_pcb, last_pid, pid, parent, signals, timer_list>>

-----------------------------------------------------------------------------
(* exit *)

\* Mutants: the children are not detached from the old list, or go to the parent.
KeptChildren == [children EXCEPT ![init_pcb] = @ \o children[running]]
GivenToParent ==
    [children EXCEPT ![parent[running]] = @ \o children[running], ![running] = <<>>]

\* Mutant: the orphans take the place of the children that init has.
InsteadOfInits == [children EXCEPT ![init_pcb] = children[running], ![running] = <<>>]

\* The children of the process that exits go to the end of init's list.
Reparented ==
    [children EXCEPT ![init_pcb] = @ \o children[running], ![running] = <<>>]

\* They get SIGHUP, and the process that parent points to gets SIGCHLD.
ExitSignals ==
    [q \in PCB |-> signals[q]
        \union (IF q \in ToSet(children[running]) THEN {"SIGHUP"} ELSE {})
        \union (IF q = parent[running] THEN {"SIGCHLD"} ELSE {})]

\* Mutant: who waits for any child is forgotten.
ParentAwaitsThis(par) ==
    status[par] = "Waiting" /\ call[par].num = "wait" /\ call[par].arg = pid[running]

ParentAwaits(par) ==
    /\ status[par] = "Waiting"
    /\ call[par].num = "wait"
    /\ call[par].arg \in {0, pid[running]}

\* The parent takes the processor over at once and the process is gone.  The
\* PCBPtr leaves the list of the parent but is not given back to its pool; the
\* timers the code releases here are none, for who runs is not asleep.
ExitToParent(par) ==
    /\ children' = [Reparented EXCEPT ![par] = RemoveAt(@, PtrPlace(@, running))]
    /\ waiting_list' = waiting_list \ {par}
    /\ status' = [status EXCEPT ![par] = "Running", ![running] = "Zombie"]
    /\ retvalue' = [retvalue EXCEPT ![par] = pid[running]]
    /\ pcb_free' = Freed(running)
    /\ running' = par
    /\ UNCHANGED <<zombie_list, ready_list>>

ExitToReady ==
    /\ children' = Reparented
    /\ zombie_list' = zombie_list \union {running}
    /\ status' = [status EXCEPT ![running] = "Zombie", ![Head(ready_list)] = "Running"]
    /\ NextReady
    /\ UNCHANGED <<waiting_list, retvalue, pcb_free>>

\* init hands its own children to itself forever; a first process has no parent
\* to signal; a parent found waiting may not have the process among its
\* children; and nobody may be ready.
Exit ==
    /\ User("exit")
    /\ LET par == parent[running]
       IN IF running = init_pcb /\ children[running] # <<>>
          THEN Stop("hung")
          ELSE IF par = NULL
          THEN Crash
          ELSE IF ParentAwaits(par)
          THEN IF running \notin ToSet(Reparented[par])
               THEN Crash
               ELSE /\ ExitToParent(par)
                    /\ Trap("exit", 0)
                    /\ signals' = ExitSignals
                    /\ UNCHANGED <<system, init_pcb, last_pid, ptr_free, pid, parent, timer_list>>
          ELSE IF ready_list = <<>>
          THEN Crash
          ELSE /\ ExitToReady
               /\ Trap("exit", 0)
               /\ signals' = ExitSignals
               /\ UNCHANGED <<system, init_pcb, last_pid, ptr_free, pid, parent, timer_list>>

-----------------------------------------------------------------------------
(* Specification *)

\* A system that has stopped stays as it is.
Stopped == system # "up" /\ UNCHANGED kernelVars

KernelCall ==
    \/ Preempt
    \/ Shutdown
    \/ Spawn
    \/ \E cycles \in SleepTimes : Sleep(cycles)
    \/ \E arg \in WaitArgs : Wait(arg)
    \/ Exit

KernelNext == Restart \/ Tick \/ Return \/ KernelCall \/ Stopped

KernelSpec == KernelInit /\ [][KernelNext]_kernelVars

\* setitimer delivers SIGALRM every INTERVAL ms, and the host goes on with
\* disastrOS_start when the trap returns.
KernelFairSpec == KernelSpec /\ WF_kernelVars(Tick) /\ WF_kernelVars(Restart)

-----------------------------------------------------------------------------
(* Properties *)

KernelTypeOK ==
    /\ system \in {"up", "halted", "deadlock", "crashed", "hung"}
    /\ running \in PCB \union {NULL}
    /\ init_pcb \in PCB
    /\ last_pid \in Nat
    /\ pcb_free \in Seq(PCB)
    /\ ptr_free \in Nat
    /\ pid \in [PCB -> Nat]
    /\ status \in [PCB -> Statuses]
    /\ parent \in [PCB -> PCB \union {NULL}]
    /\ signals \in [PCB -> SUBSET Signals]
    /\ children \in [PCB -> Seq(PCB)]
    /\ ready_list \in Seq(PCB)
    /\ waiting_list \subseteq PCB
    /\ zombie_list \subseteq PCB
    /\ timer_list \in Seq(Timer)
    /\ call \in [PCB -> CallRecord]
    /\ retvalue \in [PCB -> Int]

Asleep == {timer_list[i].pcb : i \in DOMAIN timer_list}
Live == PCB \ ToSet(pcb_free)

\* Every PCB block is in exactly one place: running, on one of the three process
\* lists, once, or free.  linked_list.c refuses or corrupts a list when an item
\* is on two of them, and the moves between lists are spread over the handlers.
OnePlace ==
    /\ IsInjective(ready_list) /\ IsInjective(pcb_free)
    /\ PCB \union {running} =
           {running} \union ToSet(ready_list) \union waiting_list \union zombie_list
                     \union ToSet(pcb_free)
    /\ running \notin ToSet(ready_list) \union waiting_list \union zombie_list \union ToSet(pcb_free)
    /\ ToSet(ready_list) \intersect (waiting_list \union zombie_list \union ToSet(pcb_free)) = {}
    /\ waiting_list \intersect (zombie_list \union ToSet(pcb_free)) = {}
    /\ zombie_list \intersect ToSet(pcb_free) = {}

\* The status wait and exit decide by is the place: a process is Waiting iff it
\* is on waiting_list, a Zombie iff it is on zombie_list, and only a free block
\* may say otherwise (the one who runs may still be marked Ready).
StatusTellsPlace ==
    \A p \in Live : /\ status[p] = "Waiting" <=> p \in waiting_list
                    /\ status[p] = "Zombie" <=> p \in zombie_list

\* A process is child of at most one process, once; children and their parents
\* hold their blocks, parents are no zombies, and every zombie is somebody's
\* child: wait never reaps a block that was freed before, and no zombie is lost.
FamilyTree ==
    /\ \A p \in PCB : IsInjective(children[p])
    /\ \A p, q \in PCB : p # q => ToSet(children[p]) \intersect ToSet(children[q]) = {}
    /\ \A p \in PCB : children[p] # <<>> => p \in Live \ zombie_list
    /\ \A p \in PCB : ToSet(children[p]) \subseteq Live
    /\ \A z \in zombie_list : \E p \in PCB : z \in ToSet(children[p])

\* The children that p, which is in wait, waits for: any, or the one with that pid.
Awaited(p) == {c \in ToSet(children[p]) : call[p].arg \in {0, pid[c]}}

\* exit of c wakes p: it has not exited yet, and its parent field leads to p, which
\* waits for it.
WillWake(c, p) == c \notin zombie_list /\ parent[c] = p /\ call[p].arg \in {0, pid[c]}

\* Nobody who may come back has missed it: who is on waiting_list is asleep with one
\* timer running, or waits for children each of which will wake it.  Two kinds of
\* wait are excepted, as exit wakes neither (exit.c:40-45): for orphans, whose parent
\* field does not lead to the init they came to (NoMissedChild), and for the pid of
\* a process that is no child, which blocks for good (wait.c:31-41, 58-65) though
\* the comment in wait.c:33-34 announces an error: such a process awaits nobody.
WaitersHaveCause ==
    /\ \A p \in waiting_list :
          \/ call[p].num = "sleep" /\ p \in Asleep
          \/ /\ call[p].num = "wait"
             /\ call[p].arg = 0 => Awaited(p) # {}
             /\ \A c \in Awaited(p) : WillWake(c, p) \/ (parent[p] = NULL /\ parent[c] # p)
    /\ \A i, j \in DOMAIN timer_list : timer_list[i].pcb = timer_list[j].pcb => i = j
    /\ \A p \in Asleep : p \in waiting_list /\ call[p].num = "sleep"

\* Nobody sleeps longer than asked for: looking at the first timer only is
\* enough, for the list is in order and what is due has left it.
SleepersOnTime ==
    /\ \A i, j \in DOMAIN timer_list : i < j => timer_list[i].left <= timer_list[j].left
    /\ SleepTimes \subseteq Nat \ {0} => \A i \in DOMAIN timer_list : timer_list[i].left > 0

\* SIGHUP goes to orphans: a live process that has it is a child of a process
\* without a parent, that is of an init (exit.c:10-12).
HungUpAreInits ==
    \A p \in Live : "SIGHUP" \in signals[p] =>
        \E q \in PCB : parent[q] = NULL /\ p \in ToSet(children[q])

\* A pid that wait reports, be it that of the child asked for or of the last one
\* (wait.c:36 finds a child for any pid), is that of a process that is gone, and
\* it is reported to one process only.
ReportedAreGone ==
    LET reported == {p \in Live \ waiting_list : call[p].num = "wait" /\ retvalue[p] > 0}
    IN /\ \A p \in reported, q \in Live : pid[q] # retvalue[p]
       /\ \A p, q \in reported : retvalue[p] = retvalue[q] => p = q

\* q is before p on a list.
Before(list, q, p) ==
    \E i, j \in DOMAIN list : i < j /\ list[i] = q /\ list[j] = p

\* Processes run in turn: only a sleeper that wakes gets before a process that
\* was ready already, and of those that were ready only the first starts to run
\* (schedule.c:16, "we insert the processes in front the ready list").
InTurn ==
    [][ /\ \A p \in ToSet(ready_list), q \in PCB :
             Before(ready_list', q, p) => Before(ready_list, q, p) \/ q \in Asleep
        /\ running' \in ToSet(ready_list) => running' = Head(ready_list)
      ]_kernelVars

\* Who waits keeps the children it waits for until one of them exits, and that one
\* takes it from waiting_list, hands it the processor and its pid, and is gone.
WaitersAreAnswered ==
    [][ \A p \in waiting_list : call[p].num = "wait" =>
           \/ p \in waiting_list' /\ Awaited(p) \subseteq Awaited(p)'
           \/ /\ running \in Awaited(p) /\ running' = p
              /\ retvalue'[p] = pid[running]
              /\ running \in ToSet(pcb_free') /\ running \notin ToSet(children'[p])
      ]_kernelVars

\* A ready process is run in the end, though sleepers wake in front of it, new
\* processes keep being spawned and parents take over from their children.
EveryReadyRuns ==
    \A p \in PCB : p \in ToSet(ready_list) ~> (running = p \/ system # "up")

\* A sleeper wakes in the end, even when everybody slept and disastrOS_start
\* began again.
EverySleeperWakes ==
    \A p \in PCB : p \in Asleep ~> (p \notin Asleep \/ system # "up")

-----------------------------------------------------------------------------
(* What a comment of the source says and the code does not do              *)

\* "parent should receive SIGCHLD and be awakened if it was waiting for this
\* process to report its value" (exit.c:13-14): who waits for any child has none
\* that is a zombie.
NoMissedChild ==
    \A p \in waiting_list : call[p] = [num |-> "wait", arg |-> 0] =>
        ToSet(children[p]) \intersect zombie_list = {}
=============================================================================
