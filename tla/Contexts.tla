------------------------------ MODULE Contexts ------------------------------
(***************************************************************************)
(* How disastrOS gets from one process to another: the machine contexts,   *)
(* the stacks they run on and the mask of SIGALRM (disastrOS.c).  Kernel   *)
(* takes a system call and a timer interrupt for one step each; here each  *)
(* is the way through swapcontext, the handler, setcontext and back.       *)
(*                                                                         *)
(* The code relies on two things of the host, sees to neither, and all     *)
(* that is said here is said under both.  setcontext and swapcontext       *)
(* change mask and registers at once (glibc's setcontext sets the mask     *)
(* first, so an alarm that comes during a trap can be delivered before the *)
(* stack of the trap is left).  And the host comes through a timer         *)
(* interrupt, and through a restart, before the next alarm is due:         *)
(* InTime.                                                                 *)
(***************************************************************************)
EXTENDS Kernel

SYSTEM == NULL  \* system_stack; the stack of a process is named as its PCB
Stacks == PCB \union {SYSTEM}

\* A ucontext_t: a stack, the place in the code, and whether SIGALRM is blocked.
CodePlaces == {"user",      \* code of a program
               "returned",  \* disastrOS_syscall, behind swapcontext
               "handler",   \* timerHandler
               "handled",   \* timerHandler, behind swapcontext
               "interrupt", \* timerInterrupt
               "resume",    \* its setcontext
               "trap",      \* disastrOS_trap
               "leave",     \* its setcontext
               "start"}     \* disastrOS_start, behind getcontext(&main_context)
Context == [stack : Stacks, at : CodePlaces, masked : BOOLEAN]

VARIABLES
    cpu,       \* the context that runs
    cpu_state, \* PCB.cpu_state
    frame,     \* what the signal frame on a stack holds: where the alarm fell
    pending    \* an alarm has come and is not delivered yet

contextVars == <<cpu, cpu_state, frame, pending>>
allVars == <<kernelVars, contextVars>>

-----------------------------------------------------------------------------
(* The contexts that are made rather than saved *)

\* Mutants: the trap leaves the alarm on; a child inherits the mask of the trap
\* it is made in, or gets the stack of its parent.
open_trap_context == [stack |-> SYSTEM, at |-> "trap", masked |-> FALSE]
MaskedContext(p) == [stack |-> p, at |-> "user", masked |-> TRUE]
ContextOnParent(p) == [stack |-> running, at |-> "user", masked |-> FALSE]

trap_context == [stack |-> SYSTEM, at |-> "trap", masked |-> TRUE]
interrupt_context == [stack |-> SYSTEM, at |-> "interrupt", masked |-> FALSE]

\* The stack of the host's main is used by nothing else: it goes without a name.
main_context == [stack |-> SYSTEM, at |-> "start", masked |-> FALSE]

\* What spawn makes for the function of the new process p, whose mask it
\* empties, and disastrOS_start for the first one.
NewContext(p) == [stack |-> p, at |-> "user", masked |-> FALSE]

\* The steps of the kernel that allocate a PCB make its context too.
MadeContexts ==
    [p \in PCB |-> IF pid'[p] # pid[p] THEN NewContext(p) ELSE cpu_state[p]]

-----------------------------------------------------------------------------
(* SIGALRM *)

\* A signal that is pending and not blocked comes before anything else.
Undisturbed == system = "up" /\ ~(pending /\ ~cpu.masked)

\* The interval timer expires.
Alarm ==
    /\ Undisturbed /\ ~pending
    /\ pending' = TRUE
    /\ UNCHANGED <<kernelVars, cpu, cpu_state, frame>>

\* ASSUMED of the host: no alarm falls between the start of the handler and the
\* end of the interrupt, nor into a restart.
InTime == cpu.at \notin {"handler", "interrupt", "resume", "start"}

\* The host calls timerHandler, on the stack it is on (there is no SA_ONSTACK)
\* and with SIGALRM blocked (nor SA_NODEFER).
Deliver ==
    /\ system = "up" /\ pending /\ ~cpu.masked
    /\ frame' = [frame EXCEPT ![cpu.stack] = cpu]
    /\ cpu' = [cpu EXCEPT !.at = "handler", !.masked = TRUE]
    /\ pending' = FALSE
    /\ UNCHANGED <<kernelVars, cpu_state>>

\* swapcontext(&running->cpu_state, next), which will come back to `at`.
Swap(at, next) ==
    /\ cpu_state' = [cpu_state EXCEPT ![running] = [cpu EXCEPT !.at = at]]
    /\ cpu' = next
    /\ UNCHANGED <<kernelVars, frame, pending>>

timerHandler ==
    /\ Undisturbed /\ cpu.at = "handler"
    /\ IF running = NULL
       THEN Crash /\ UNCHANGED contextVars
       ELSE Swap("handled", interrupt_context)

\* The handler returns to where the alarm fell.
HandlerReturns ==
    /\ Undisturbed /\ cpu.at = "handled"
    /\ cpu' = frame[cpu.stack]
    /\ UNCHANGED <<kernelVars, cpu_state, frame, pending>>

timerInterrupt ==
    /\ Undisturbed /\ cpu.at = "interrupt"
    /\ Tick
    /\ cpu' = [cpu EXCEPT !.at = "resume"]
    /\ UNCHANGED <<cpu_state, frame, pending>>

-----------------------------------------------------------------------------
(* System calls *)

\* The running process calls disastrOS_syscall: into the trap ...
disastrOS_syscall == Undisturbed /\ cpu.at = "user" /\ Swap("returned", trap_context)

\* ... whose handler is one of the kernel's.
disastrOS_trap ==
    /\ Undisturbed /\ cpu.at = "trap"
    /\ KernelCall
    /\ cpu_state' = MadeContexts
    /\ cpu' = [cpu EXCEPT !.at = "leave"]
    /\ UNCHANGED <<frame, pending>>

\* setcontext(&running->cpu_state), of the trap and of the interrupt.  With nobody
\* running the trap function returns and uc_link leads to disastrOS_start.
Resume ==
    /\ Undisturbed /\ cpu.at \in {"leave", "resume"}
    /\ cpu' = IF running = NULL THEN main_context ELSE cpu_state[running]
    /\ UNCHANGED <<kernelVars, cpu_state, frame, pending>>

\* The process reads syscall_retvalue and goes on.
SyscallReturns ==
    /\ Undisturbed /\ cpu.at = "returned"
    /\ Return
    /\ cpu' = [cpu EXCEPT !.at = "user"]
    /\ UNCHANGED <<cpu_state, frame, pending>>

\* disastrOS_start once more, up to its setcontext.
disastrOS_start ==
    /\ Undisturbed /\ cpu.at = "start"
    /\ Restart
    /\ cpu_state' = MadeContexts
    /\ cpu' = IF system' = "up" THEN NewContext(running') ELSE cpu
    /\ UNCHANGED <<frame, pending>>

-----------------------------------------------------------------------------
(* Specification *)

ContextsInit ==
    /\ KernelInit
    /\ cpu = NewContext(running)
    /\ cpu_state = [p \in PCB |-> NewContext(p)]
    /\ frame = [s \in Stacks |-> main_context]
    /\ pending = FALSE

\* What the host does without being asked by a program.
Host ==
    \/ Deliver \/ timerHandler \/ timerInterrupt \/ HandlerReturns
    \/ disastrOS_trap \/ Resume \/ SyscallReturns \/ disastrOS_start

ContextsNext ==
    \/ InTime /\ Alarm
    \/ Host
    \/ disastrOS_syscall
    \/ Stopped /\ UNCHANGED contextVars

\* The host goes on executing, but a program may compute for ever.
ContextsSpec == ContextsInit /\ [][ContextsNext]_allVars /\ WF_allVars(Host)

-----------------------------------------------------------------------------
(* Properties *)

\* Who may still run.
Alive == Live \ zombie_list

\* Signal frames lie on the stacks of processes only, above code that may be
\* interrupted: the system stack is never left in the middle of something.
ContextsTypeOK ==
    /\ cpu \in Context
    /\ cpu_state \in [PCB -> Context]
    /\ frame \in [Stacks -> Context]
    /\ pending \in BOOLEAN
    /\ \A p \in PCB : frame[p].at \in {"user", "returned", "start"}
    /\ frame[SYSTEM] = main_context

\* Every process resumes on its own stack, and the stack in use is that of the
\* process that `running` names: the handler of the alarm and the trap save
\* through `running`, which the handlers of the kernel have assigned meanwhile.
OwnStack ==
    /\ cpu.stack # SYSTEM => cpu.stack = running
    /\ \A p \in Alive \ {cpu.stack} : cpu_state[p].stack = p

\* Where a process is, or goes on when it gets the processor, in its own code.
PlaceOf(p) ==
    LET c == IF cpu.stack = p THEN cpu ELSE cpu_state[p]
    IN IF c.at \in {"handler", "handled"} THEN frame[p].at ELSE c.at

\* A call that was made returns, once, and to the one who made it: a process goes
\* on behind its swapcontext iff it made a call that has not returned, however
\* many interrupts and switches came between.
CallsReturnOnce ==
    system = "up" => \A p \in Alive : ~(p = running /\ cpu.at = "trap") =>
        PlaceOf(p) = (IF call[p] # NoCall THEN "returned" ELSE "user")

\* An alarm gets through, to the process that runs by then, also to one that never
\* makes a call: nobody is left with SIGALRM blocked.
AlarmsGetThrough == pending ~> (~pending \/ system # "up")
=============================================================================
