------------------------- MODULE ContextsInvariants -------------------------
(***************************************************************************)
(* Every process goes on where it stopped, on its own stack, whatever      *)
(* interrupts and switches came between.  A context is saved through       *)
(* `running` before a handler of the kernel assigns it, and taken from it  *)
(* afterwards, and an alarm leaves a frame on the stack it falls on: the   *)
(* invariant follows each process through its saved context and its frame. *)
(***************************************************************************)
EXTENDS Contexts, KernelInvariants

\* The frame on p's stack leads back to the program, with the alarm on.
Interrupted(p) ==
    /\ frame[p].stack = p
    /\ frame[p].at \in {"user", "returned"}
    /\ ~frame[p].masked

\* A saved context with which p goes on, in the program or in timerHandler.
Resumable(p, c) ==
    /\ c.stack = p
    /\ \/ c.at \in {"user", "returned"} /\ ~c.masked
       \/ c.at = "handled" /\ c.masked /\ Interrupted(p)

SavedContexts == \A p \in Alive \ {cpu.stack} : Resumable(p, cpu_state[p])

\* What the place of the processor says about its stack and mask, the process
\* that runs and the alarm.
CpuContext ==
    /\ cpu.at \in {"user", "returned", "handler", "handled"} => cpu.stack = running
    /\ cpu.at \in {"user", "returned"} => running \in PCB /\ ~cpu.masked
    /\ cpu.at \in {"handler", "handled"} => cpu.masked /\ (running \in PCB => Interrupted(running))
    /\ cpu.at \in {"handled", "trap"} => running \in PCB
    /\ cpu.at = "trap" => cpu_state[running].at = "returned"
    /\ cpu.at \in {"interrupt", "resume", "trap", "leave", "start"} => cpu.stack = SYSTEM
    /\ cpu.at \in {"trap", "leave"} => cpu.masked
    /\ cpu.at = "start" => cpu = main_context /\ running = NULL
    /\ cpu.at \in {"handler", "interrupt", "resume"} => ~pending

\* The process in the trap has made no other call.
TrapsOnce == system = "up" /\ cpu.at = "trap" => call[running] = NoCall

ContextsInv ==
    /\ KernelInv
    /\ PidsDiffer
    /\ ContextsTypeOK
    /\ SavedContexts
    /\ CpuContext
    /\ TrapsOnce
    /\ CallsReturnOnce

-----------------------------------------------------------------------------
(* What the kernel's steps do to the ones who may still run *)

\* A zombie stays one until wait gives its block back.
LEMMA ZombiesStay ==
    ASSUME KernelInv, [KernelNext]_kernelVars
    PROVE  zombie_list \intersect Live' \subseteq zombie_list'
<1>1. zombie_list \subseteq zombie_list' => zombie_list \intersect Live' \subseteq zombie_list'
  OBVIOUS
<1>2. CASE UNCHANGED kernelVars \/ \E how \in {"halted", "deadlock", "crashed", "hung"} : Stop(how)
  BY <1>2, <1>1 DEF kernelVars, listVars, Stop
<1>3. CASE Tick \/ Preempt \/ Return
  BY <1>3, <1>1 DEF Tick, Preempt, Return, Schedule, Crash, Stop, listVars
<1>4. CASE \E cycles \in SleepTimes : Sleep(cycles)
  BY <1>4, <1>1 DEF Sleep
<1>5. CASE Restart \/ Spawn
  BY <1>5, <1>1 DEF Restart, Spawn, Crash, Stop, listVars
<1>6. ASSUME NEW arg \in WaitArgs, Wait(arg)
      PROVE  zombie_list \intersect Live' \subseteq zombie_list'
  <2>1. running \in PCB /\ children[running] \in Seq(PCB)
    BY <1>6, UserRuns DEF Wait, KernelInv, KernelTypeOK
  <2>2. CASE Crash \/ NoChildren \/ Await
    BY <2>2, <1>1 DEF Crash, Stop, listVars, NoChildren, Await
  <2>3. CASE children[running] # <<>> /\ Reap(AwaitedPlace(arg))
    <3>1. AwaitedPlace(arg) \in DOMAIN children[running]
      BY <2>1, <2>3, AwaitedPlaceFound
    <3>2. Live' = Live \ {children[running][AwaitedPlace(arg)]}
      BY <2>1, <2>3, <3>1, ReapedBlock
    <3>3. zombie_list' = zombie_list \ {children[running][AwaitedPlace(arg)]}
      BY <2>3 DEF Reap
    <3> QED
      BY <3>2, <3>3
  <2> QED
    BY <1>6, <2>2, <2>3 DEF Wait
<1>7. CASE Exit
  BY <1>7, <1>1 DEF Exit, Crash, Stop, listVars, ExitToReady, ExitToParent
<1> QED
  BY <1>2, <1>3, <1>4, <1>5, <1>6, <1>7 DEF KernelNext, KernelCall, Shutdown, Stopped

\* Whoever may run after a step of the kernel could before, or its block was free
\* and has a new pid.
LEMMA AliveStep ==
    ASSUME KernelInv, PidsDiffer, [KernelNext]_kernelVars, NEW p \in Alive'
    PROVE  \/ p \in Alive /\ pid'[p] = pid[p]
           \/ p \in PCB /\ p \notin Live /\ pid'[p] # pid[p]
<1>1. /\ p \in Live' /\ p \notin zombie_list' /\ Live \subseteq PCB
      /\ pid \in [PCB -> Nat] /\ last_pid \in Nat
  BY DEF Alive, KernelInv, KernelTypeOK, Live
<1>2. p \notin zombie_list
  BY <1>1, ZombiesStay
<1>3. CASE NoNewBlock
  BY <1>1, <1>2, <1>3 DEF NoNewBlock, Alive
<1>4. ASSUME NEW new \in PCB, NewBlock(new), p # new
      PROVE  p \in Alive /\ pid'[p] = pid[p]
  BY <1>1, <1>2, <1>4 DEF NewBlock, Alive
<1>5. ASSUME NEW new \in PCB, NewBlock(new), p = new
      PROVE  p \in PCB /\ p \notin Live /\ pid'[p] # pid[p]
  <2>1. pid'[p] = last_pid
    BY <1>1, <1>5 DEF NewBlock
  <2>2. pid[p] < last_pid /\ pid[p] \in Nat
    BY <1>1, <1>5 DEF PidsDiffer
  <2> QED
    BY <1>1, <1>5, <2>1, <2>2 DEF NewBlock
<1> QED
  BY BlocksStep, <1>3, <1>4, <1>5

\* The handler of a call that does not stop the system leaves its caller in the
\* call, a new process without one, and everybody else's alone.
LEMMA CallStep ==
    ASSUME KernelInv, KernelCall, system' = "up", running \in PCB
    PROVE  /\ call'[running] # NoCall
           /\ \A p \in PCB : p # running =>
                 \/ call'[p] = call[p] /\ pid'[p] = pid[p]
                 \/ p \notin Live /\ call'[p] = NoCall
<1> DEFINE goal == /\ call'[running] # NoCall
                   /\ \A p \in PCB : p # running =>
                         \/ call'[p] = call[p] /\ pid'[p] = pid[p]
                         \/ p \notin Live /\ call'[p] = NoCall
<1>1. ~Crash /\ ~Stop("hung") /\ ~Stop("halted")
  BY DEF Crash, Stop
<1>2. NoCall.num = "none" /\ call \in [PCB -> CallRecord]
  BY DEF NoCall, KernelInv, KernelTypeOK
<1>3. ASSUME NEW num, NEW arg, Trap(num, arg), num # "none", pid' = pid
      PROVE  goal
  <2>1. /\ call'[running] = [num |-> num, arg |-> arg]
        /\ \A p \in PCB : p # running => call'[p] = call[p]
    BY <1>3, TrapElsewhere
  <2>2. call'[running].num = num
    BY <2>1
  <2>3. call'[running] # NoCall
    BY <1>2, <1>3, <2>2
  <2> QED
    BY <1>3, <2>1, <2>3
<1>4. CASE Preempt \/ (\E cycles \in SleepTimes : Sleep(cycles))
  BY <1>3, <1>4 DEF Preempt, Sleep, Schedule
<1>5. CASE (\E arg \in WaitArgs : Wait(arg)) \/ Exit
  BY <1>1, <1>3, <1>5 DEF Wait, Exit
<1>6. CASE Spawn
  <2> DEFINE new == Head(pcb_free)
  <2>1. /\ pcb_free # <<>>
        /\ call' = [call EXCEPT ![running] = [num |-> "spawn", arg |-> 0], ![new] = NoCall]
        /\ pid' = [pid EXCEPT ![new] = last_pid] /\ pid \in [PCB -> Nat]
    BY <1>1, <1>6 DEF Spawn, NoBlockLeft, Alloc, KernelInv, KernelTypeOK
  <2>2. new \in PCB /\ new # running /\ new \notin Live
    BY <2>1, FreshBlock
  <2> HIDE DEF new
  <2>3. call'[running] = [num |-> "spawn", arg |-> 0]
    BY <1>2, <2>1, <2>2
  <2>4. \A p \in PCB : p # running => IF p = new THEN call'[p] = NoCall
                                      ELSE call'[p] = call[p] /\ pid'[p] = pid[p]
    BY <1>2, <2>1, <2>2
  <2>5. call'[running].num = "spawn"
    BY <2>3
  <2> QED
    BY <1>2, <2>2, <2>4, <2>5
<1> QED
  BY <1>1, <1>4, <1>5, <1>6 DEF KernelCall, Shutdown

-----------------------------------------------------------------------------
(* One lemma for each step *)

\* Through contexts, traps and handlers the kernel only makes its own steps.
LEMMA KernelStep == [ContextsNext]_allVars => [KernelNext]_kernelVars
<1> SUFFICES ASSUME [ContextsNext]_allVars PROVE [KernelNext]_kernelVars
  OBVIOUS
<1>1. CASE \/ Alarm \/ Deliver \/ HandlerReturns \/ disastrOS_syscall \/ Resume
           \/ UNCHANGED allVars
  BY <1>1 DEF Alarm, Deliver, HandlerReturns, disastrOS_syscall, Swap, Resume, allVars
<1>2. CASE timerHandler
  BY <1>2 DEF timerHandler, Swap, Undisturbed, Tick, KernelNext
<1>3. CASE timerInterrupt \/ disastrOS_trap \/ SyscallReturns \/ disastrOS_start \/ Stopped
  BY <1>3 DEF timerInterrupt, disastrOS_trap, SyscallReturns, disastrOS_start, KernelNext
<1> QED
  BY <1>1, <1>2, <1>3 DEF ContextsNext, Host

\* What every step keeps.
LEMMA KernelPartKept ==
    ASSUME ContextsInv, [ContextsNext]_allVars
    PROVE  KernelInv' /\ PidsDiffer'
<1>1. KernelInv /\ PidsDiffer /\ [KernelNext]_kernelVars
  BY KernelStep DEF ContextsInv
<1>2. KernelInv'
  BY <1>1, StepKeeps
<1>3. NoNewBlock \/ \E new \in PCB : NewBlock(new)
  BY <1>1, BlocksStep
<1> QED
  BY <1>1, <1>2, <1>3, PidsStep DEF KernelInv

\* The processes and their calls stay as they are.
LEMMA NoOtherCalls ==
    ASSUME ContextsInv, UNCHANGED <<pcb_free, zombie_list, call>>, system' = "up" => system = "up",
           cpu'.at # "trap",
           \A p \in Alive : ~(p = running /\ cpu.at = "trap") /\ PlaceOf(p)' = PlaceOf(p)
    PROVE  Alive' = Alive /\ CallsReturnOnce'
<1>1. Alive' = Alive
  BY DEF Alive, Live
<1> QED
  BY <1>1 DEF CallsReturnOnce, ContextsInv

\* The process that runs has the processor and holds a block.
LEMMA RunsAlive ==
    ASSUME KernelInv, running \in PCB
    PROVE  running \in Alive
  BY RunningElsewhere DEF Alive

\* A mask and a stack that are no part of the type of the whole.
LEMMA ContextParts ==
    ASSUME ContextsTypeOK
    PROVE  /\ cpu = [stack |-> cpu.stack, at |-> cpu.at, masked |-> cpu.masked]
           /\ cpu.stack \in Stacks /\ cpu.at \in CodePlaces /\ cpu.masked \in BOOLEAN
           /\ SYSTEM = NULL /\ SYSTEM = 0 /\ SYSTEM \notin PCB /\ Stacks = PCB \union {SYSTEM}
           /\ Alive \subseteq PCB /\ Live \subseteq PCB
<1>1. SYSTEM = 0 /\ PCB \subseteq 1 .. MAX_NUM_PROCESSES /\ NULL = 0
  BY DEF SYSTEM, NULL, PCB
<1> QED
  BY <1>1, KernelAssumption DEF ContextsTypeOK, Context, Stacks, Alive, Live

\* The timer expires, in time: only that is noted.
LEMMA AlarmKeeps ==
    ASSUME ContextsInv, InTime, Alarm
    PROVE  ContextsInv'
<1>1. KernelInv' /\ PidsDiffer'
  BY KernelPartKept DEF ContextsNext
<1>2. /\ UNCHANGED <<system, running, pcb_free, zombie_list, call, cpu, cpu_state, frame>>
      /\ pending' = TRUE /\ cpu.at \notin {"handler", "interrupt", "resume", "start"}
  BY DEF InTime, Alarm, kernelVars, poolVars, listVars
<1>3. Alive' = Alive
  BY <1>2 DEF Alive, Live
<1>4. ContextsTypeOK'
  BY <1>2 DEF ContextsInv, ContextsTypeOK
<1>5. SavedContexts'
  BY <1>2, <1>3 DEF ContextsInv, SavedContexts, Resumable, Interrupted
<1>6. CpuContext'
  BY <1>2 DEF ContextsInv, CpuContext, Interrupted, main_context
<1>7. TrapsOnce'
  BY <1>2 DEF ContextsInv, TrapsOnce
<1>8. CallsReturnOnce'
  BY <1>2, <1>3 DEF ContextsInv, CallsReturnOnce, PlaceOf
<1> QED
  BY <1>1, <1>4, <1>5, <1>6, <1>7, <1>8 DEF ContextsInv

\* The handler is called on the stack of the code it falls on, which may be that
\* of main with nobody running.
LEMMA DeliverKeeps ==
    ASSUME ContextsInv, Deliver
    PROVE  ContextsInv'
<1>1. KernelInv' /\ PidsDiffer'
  BY KernelPartKept DEF ContextsNext, Host
<1>2. /\ UNCHANGED <<system, running, pcb_free, zombie_list, call, cpu_state>>
      /\ pending /\ ~cpu.masked /\ pending' = FALSE
      /\ frame' = [frame EXCEPT ![cpu.stack] = cpu]
      /\ cpu' = [cpu EXCEPT !.at = "handler", !.masked = TRUE]
  BY DEF Deliver, kernelVars, poolVars, listVars
<1>3. /\ ContextsTypeOK /\ CpuContext /\ SavedContexts /\ CallsReturnOnce
      /\ frame \in [Stacks -> Context] /\ cpu \in Context
  BY DEF ContextsInv, ContextsTypeOK
<1>4. /\ cpu = [stack |-> cpu.stack, at |-> cpu.at, masked |-> cpu.masked]
      /\ cpu.stack \in Stacks /\ cpu.at \in CodePlaces /\ SYSTEM = NULL
      /\ SYSTEM \notin PCB /\ Stacks = PCB \union {SYSTEM} /\ Alive \subseteq PCB
  BY <1>3, ContextParts
<1>5. \/ cpu.at \in {"user", "returned"} /\ cpu.stack = running /\ running \in PCB
      \/ cpu.at = "start" /\ cpu = main_context /\ running = NULL
  BY <1>2, <1>3, <1>4 DEF CpuContext, CodePlaces
<1>6. cpu.stack = running
  BY <1>4, <1>5 DEF main_context
<1>7. /\ cpu'.stack = running /\ cpu'.at = "handler" /\ cpu'.masked
      /\ cpu' = [stack |-> running, at |-> "handler", masked |-> TRUE]
  BY <1>2, <1>4, <1>6
<1>8. /\ frame'[running] = cpu
      /\ \A s \in Stacks : s # running => frame'[s] = frame[s]
      /\ frame' \in [Stacks -> Context]
  BY <1>2, <1>3, <1>4, <1>6
<1>9. Alive' = Alive
  BY <1>2 DEF Alive, Live
<1>10. ContextsTypeOK'
  <2>1. cpu' \in Context
    BY <1>4, <1>6, <1>7 DEF Context, CodePlaces
  <2>2. \A p \in PCB : frame'[p].at \in {"user", "returned", "start"}
    BY <1>3, <1>4, <1>5, <1>8 DEF ContextsTypeOK
  <2>3. frame'[SYSTEM] = main_context
    BY <1>3, <1>4, <1>5, <1>8 DEF ContextsTypeOK
  <2> QED
    BY <1>2, <1>3, <1>8, <2>1, <2>2, <2>3 DEF ContextsTypeOK
<1>11. SavedContexts'
  BY <1>2, <1>3, <1>4, <1>6, <1>7, <1>8, <1>9 DEF SavedContexts, Resumable, Interrupted
<1>12. CpuContext'
  <2>1. running \in PCB => frame'[running].stack = running /\ frame'[running].at \in {"user", "returned"}
                             /\ ~frame'[running].masked
    BY <1>2, <1>4, <1>5, <1>6, <1>8
  <2> QED
    BY <1>2, <1>7, <2>1 DEF CpuContext, Interrupted
<1>13. TrapsOnce'
  BY <1>7 DEF TrapsOnce
<1>14. CallsReturnOnce'
  <2>1. \A p \in Alive : PlaceOf(p)' = PlaceOf(p)
    BY <1>2, <1>4, <1>5, <1>6, <1>7, <1>8 DEF PlaceOf
  <2>2. cpu.at # "trap" /\ cpu'.at # "trap"
    BY <1>5, <1>7
  <2> QED
    BY <1>2, <2>1, <2>2, NoOtherCalls
<1> QED
  BY <1>1, <1>10, <1>11, <1>12, <1>13, <1>14 DEF ContextsInv

\* timerHandler saves the process it interrupts behind its swapcontext, with the
\* frame below; with nobody running it faults.
LEMMA HandlerKeeps ==
    ASSUME ContextsInv, timerHandler
    PROVE  ContextsInv'
<1>1. KernelInv' /\ PidsDiffer'
  BY KernelPartKept DEF ContextsNext, Host
<1>2. /\ UNCHANGED <<running, pcb_free, zombie_list, call, frame, pending>>
      /\ system = "up" /\ cpu.at = "handler"
  BY DEF timerHandler, Crash, Stop, Swap, kernelVars, poolVars, listVars, contextVars, Undisturbed
<1>3. /\ ContextsTypeOK /\ CpuContext /\ SavedContexts /\ CallsReturnOnce /\ KernelInv
      /\ cpu_state \in [PCB -> Context] /\ cpu \in Context
  BY DEF ContextsInv, ContextsTypeOK
<1>4. Alive' = Alive
  BY <1>2 DEF Alive, Live
<1>5. CASE running = NULL
  <2>1. UNCHANGED <<cpu, cpu_state>> /\ system' = "crashed"
    BY <1>5 DEF timerHandler, Crash, Stop, contextVars
  <2>2. ContextsTypeOK'
    BY <1>2, <1>3, <2>1 DEF ContextsTypeOK
  <2>3. SavedContexts'
    BY <1>2, <1>3, <1>4, <2>1 DEF SavedContexts, Resumable, Interrupted
  <2>4. CpuContext'
    BY <1>2, <1>3, <2>1 DEF CpuContext, Interrupted, main_context
  <2> QED
    BY <1>1, <2>1, <2>2, <2>3, <2>4 DEF ContextsInv, TrapsOnce, CallsReturnOnce
<1>6. CASE running # NULL
  <2>1. /\ system' = system
        /\ cpu_state' = [cpu_state EXCEPT ![running] = [cpu EXCEPT !.at = "handled"]]
        /\ cpu' = interrupt_context
    BY <1>6 DEF timerHandler, Swap, kernelVars
  <2>2. running \in PCB
    BY <1>3, <1>6 DEF KernelInv, KernelTypeOK
  <2>3. /\ cpu = [stack |-> running, at |-> "handler", masked |-> TRUE]
        /\ SYSTEM \notin PCB /\ Stacks = PCB \union {SYSTEM} /\ Alive \subseteq PCB
        /\ Interrupted(running) /\ ~pending
    BY <1>2, <1>3, <2>2, ContextParts DEF CpuContext
  <2>4. /\ cpu_state'[running] = [stack |-> running, at |-> "handled", masked |-> TRUE]
        /\ \A p \in PCB : p # running => cpu_state'[p] = cpu_state[p]
        /\ cpu'.stack = SYSTEM /\ cpu'.at = "interrupt" /\ ~cpu'.masked
    BY <1>3, <2>1, <2>2, <2>3 DEF interrupt_context
  <2>5. ContextsTypeOK'
    <3>1. [stack |-> running, at |-> "handled", masked |-> TRUE] \in Context
          /\ interrupt_context \in Context
      BY <2>2, <2>3 DEF Context, CodePlaces, interrupt_context
    <3>2. cpu_state' \in [PCB -> Context]
      BY <1>3, <2>1, <2>3, <3>1
    <3> QED
      BY <1>2, <1>3, <2>1, <3>1, <3>2 DEF ContextsTypeOK
  <2>6. SavedContexts'
    BY <1>2, <1>3, <1>4, <2>3, <2>4 DEF SavedContexts, Resumable, Interrupted
  <2>7. CpuContext'
    BY <1>2, <2>3, <2>4 DEF CpuContext
  <2>8. TrapsOnce'
    BY <2>4 DEF TrapsOnce
  <2>9. CallsReturnOnce'
    <3>1. \A p \in Alive : PlaceOf(p)' = PlaceOf(p)
      BY <1>2, <2>3, <2>4 DEF PlaceOf
    <3>2. cpu'.at # "trap"
      BY <2>4
    <3> QED
      BY <1>2, <2>1, <3>1, <3>2, NoOtherCalls
  <2> QED
    BY <1>1, <2>5, <2>6, <2>7, <2>8, <2>9 DEF ContextsInv
<1> QED
  BY <1>5, <1>6

\* The frame leads the process back to where the alarm fell.
LEMMA HandlerReturnsKeeps ==
    ASSUME ContextsInv, HandlerReturns
    PROVE  ContextsInv'
<1>1. KernelInv' /\ PidsDiffer'
  BY KernelPartKept DEF ContextsNext, Host
<1>2. /\ UNCHANGED <<system, running, pcb_free, zombie_list, call, cpu_state, frame, pending>>
      /\ cpu.at = "handled" /\ cpu' = frame[cpu.stack]
  BY DEF HandlerReturns, kernelVars, poolVars, listVars
<1>3. /\ ContextsTypeOK /\ CpuContext /\ SavedContexts /\ CallsReturnOnce
      /\ frame \in [Stacks -> Context]
  BY DEF ContextsInv, ContextsTypeOK
<1>4. /\ cpu.stack = running /\ running \in PCB /\ Interrupted(running)
      /\ cpu' \in Context /\ Alive \subseteq PCB
  BY <1>2, <1>3, ContextParts DEF CpuContext
<1>5. /\ cpu' = frame[running] /\ cpu'.stack = running /\ cpu'.at \in {"user", "returned"}
      /\ ~cpu'.masked
  BY <1>2, <1>4 DEF Interrupted
<1>6. Alive' = Alive
  BY <1>2 DEF Alive, Live
<1>7. ContextsTypeOK'
  BY <1>2, <1>3, <1>4 DEF ContextsTypeOK
<1>8. SavedContexts'
  BY <1>2, <1>3, <1>4, <1>5, <1>6 DEF SavedContexts, Resumable, Interrupted
<1>9. CpuContext'
  BY <1>2, <1>4, <1>5 DEF CpuContext
<1>10. TrapsOnce'
  BY <1>5 DEF TrapsOnce
<1>11. CallsReturnOnce'
  <2>1. \A p \in Alive : PlaceOf(p)' = PlaceOf(p)
    BY <1>2, <1>4, <1>5 DEF PlaceOf
  <2>2. cpu'.at # "trap"
    BY <1>5
  <2> QED
    BY <1>2, <2>1, <2>2, NoOtherCalls
<1> QED
  BY <1>1, <1>7, <1>8, <1>9, <1>10, <1>11 DEF ContextsInv

\* internal_schedule runs on the system stack and changes nobody's context or call.
LEMMA InterruptKeeps ==
    ASSUME ContextsInv, timerInterrupt
    PROVE  ContextsInv'
<1>1. KernelInv' /\ PidsDiffer'
  BY KernelPartKept DEF ContextsNext, Host
<1>2. /\ UNCHANGED <<pcb_free, zombie_list, call, cpu_state, frame, pending>>
      /\ system = "up" /\ cpu.at = "interrupt" /\ cpu' = [cpu EXCEPT !.at = "resume"]
  BY DEF timerInterrupt, Tick, Crash, Stop, Schedule, poolVars, listVars
<1>3. /\ ContextsTypeOK /\ CpuContext /\ SavedContexts /\ CallsReturnOnce
  BY DEF ContextsInv
<1>4. /\ cpu = [stack |-> SYSTEM, at |-> "interrupt", masked |-> cpu.masked]
      /\ cpu.masked \in BOOLEAN
      /\ SYSTEM \notin PCB /\ SYSTEM \in Stacks /\ Alive \subseteq PCB /\ ~pending
  BY <1>2, <1>3, ContextParts DEF CpuContext
<1>5. cpu' = [stack |-> SYSTEM, at |-> "resume", masked |-> cpu.masked]
  BY <1>2, <1>4
<1>6. Alive' = Alive
  BY <1>2 DEF Alive, Live
<1>7. ContextsTypeOK'
  BY <1>2, <1>3, <1>4, <1>5 DEF ContextsTypeOK, Context, CodePlaces
<1>8. SavedContexts'
  BY <1>2, <1>3, <1>4, <1>5, <1>6 DEF SavedContexts, Resumable, Interrupted
<1>9. CpuContext'
  BY <1>2, <1>4, <1>5 DEF CpuContext
<1>10. TrapsOnce'
  BY <1>5 DEF TrapsOnce
<1>11. CallsReturnOnce'
  <2>1. \A p \in Alive : PlaceOf(p)' = PlaceOf(p)
    BY <1>2, <1>4, <1>5 DEF PlaceOf
  <2>2. cpu'.at # "trap"
    BY <1>5
  <2> QED
    BY <1>2, <2>1, <2>2, NoOtherCalls
<1> QED
  BY <1>1, <1>7, <1>8, <1>9, <1>10, <1>11 DEF ContextsInv

\* The caller is saved behind its swapcontext; it was in its program, so by what
\* held it had no call that has not returned.
LEMMA SyscallKeeps ==
    ASSUME ContextsInv, disastrOS_syscall
    PROVE  ContextsInv'
<1>1. KernelInv' /\ PidsDiffer'
  BY KernelPartKept DEF ContextsNext
<1>2. /\ UNCHANGED <<system, running, pcb_free, zombie_list, call, frame, pending>>
      /\ system = "up" /\ cpu.at = "user"
      /\ cpu_state' = [cpu_state EXCEPT ![running] = [cpu EXCEPT !.at = "returned"]]
      /\ cpu' = trap_context
  BY DEF disastrOS_syscall, Swap, kernelVars, poolVars, listVars, Undisturbed
<1>3. /\ ContextsTypeOK /\ CpuContext /\ SavedContexts /\ CallsReturnOnce /\ KernelInv
      /\ cpu_state \in [PCB -> Context] /\ cpu \in Context
  BY DEF ContextsInv, ContextsTypeOK
<1>4. /\ running \in PCB /\ running \in Alive
      /\ cpu = [stack |-> running, at |-> "user", masked |-> FALSE]
      /\ SYSTEM \notin PCB /\ Stacks = PCB \union {SYSTEM} /\ Alive \subseteq PCB
  BY <1>2, <1>3, ContextParts, RunsAlive DEF CpuContext
<1>5. /\ cpu_state'[running] = [stack |-> running, at |-> "returned", masked |-> FALSE]
      /\ \A p \in PCB : p # running => cpu_state'[p] = cpu_state[p]
      /\ cpu'.stack = SYSTEM /\ cpu'.at = "trap" /\ cpu'.masked
  BY <1>2, <1>3, <1>4 DEF trap_context
<1>6. Alive' = Alive
  BY <1>2 DEF Alive, Live
<1>7. ContextsTypeOK'
  <2>1. [stack |-> running, at |-> "returned", masked |-> FALSE] \in Context
        /\ trap_context \in Context
    BY <1>4 DEF Context, CodePlaces, trap_context
  <2>2. cpu_state' \in [PCB -> Context]
    BY <1>2, <1>3, <1>4, <2>1
  <2> QED
    BY <1>2, <1>3, <2>1, <2>2 DEF ContextsTypeOK
<1>8. SavedContexts'
  BY <1>2, <1>3, <1>4, <1>5, <1>6 DEF SavedContexts, Resumable, Interrupted
<1>9. CpuContext'
  BY <1>2, <1>4, <1>5 DEF CpuContext
<1>10. TrapsOnce'
  <2>1. PlaceOf(running) = "user"
    BY <1>4 DEF PlaceOf
  <2> QED
    BY <1>2, <1>3, <1>4, <2>1 DEF TrapsOnce, CallsReturnOnce
<1>11. CallsReturnOnce'
  <2>1. \A p \in Alive : p # running => PlaceOf(p)' = PlaceOf(p)
    BY <1>2, <1>4, <1>5 DEF PlaceOf
  <2> QED
    BY <1>2, <1>3, <1>5, <1>6, <2>1 DEF CallsReturnOnce
<1> QED
  BY <1>1, <1>7, <1>8, <1>9, <1>10, <1>11 DEF ContextsInv

\* The steps that allocate a PCB keep the context of everybody else and make one
\* for the new process.
LEMMA MadeContextsRight ==
    ASSUME ContextsInv, [ContextsNext]_allVars, cpu_state' = MadeContexts, frame' = frame
    PROVE  /\ cpu_state' \in [PCB -> Context]
           /\ \A p \in Alive' :
                 \/ p \in Alive /\ pid'[p] = pid[p] /\ cpu_state'[p] = cpu_state[p]
                 \/ p \in PCB \ Live /\ pid'[p] # pid[p] /\ cpu_state'[p] = NewContext(p)
           /\ cpu.stack = SYSTEM => SavedContexts'
<1>1. cpu_state' \in [PCB -> Context]
  <2>1. \A p \in PCB : NewContext(p) \in Context
    BY DEF NewContext, Context, Stacks, CodePlaces
  <2> QED
    BY <2>1 DEF MadeContexts, ContextsInv, ContextsTypeOK
<1>2. ASSUME NEW p \in Alive'
      PROVE  \/ p \in Alive /\ pid'[p] = pid[p] /\ cpu_state'[p] = cpu_state[p]
             \/ p \in PCB \ Live /\ pid'[p] # pid[p] /\ cpu_state'[p] = NewContext(p)
  <2>1. \/ p \in Alive /\ pid'[p] = pid[p]
        \/ p \in PCB /\ p \notin Live /\ pid'[p] # pid[p]
    BY KernelStep, AliveStep DEF ContextsInv
  <2>2. Alive \subseteq PCB
    BY DEF Alive, Live
  <2> QED
    BY <2>1, <2>2 DEF MadeContexts
<1>3. ASSUME cpu.stack = SYSTEM, NEW p \in Alive'
      PROVE  Resumable(p, cpu_state[p])'
  <2>1. CASE p \in Alive /\ cpu_state'[p] = cpu_state[p]
    <3>1. p \in PCB /\ p # cpu.stack
      BY <1>3, <2>1, ContextParts DEF ContextsInv
    <3>2. Resumable(p, cpu_state[p])
      BY <2>1, <3>1 DEF ContextsInv, SavedContexts
    <3> QED
      BY <2>1, <3>2 DEF Resumable, Interrupted
  <2>2. CASE cpu_state'[p] = NewContext(p)
    BY <2>2 DEF Resumable, NewContext
  <2> QED
    BY <1>2, <1>3, <2>1, <2>2
<1> QED
  BY <1>1, <1>2, <1>3 DEF SavedContexts

\* The trap runs the handler: the caller comes to be in its call, behind its
\* swapcontext, whoever runs now; a child starts in its program.
LEMMA TrapKeeps ==
    ASSUME ContextsInv, disastrOS_trap
    PROVE  ContextsInv'
<1>1. KernelInv' /\ PidsDiffer'
  BY KernelPartKept DEF ContextsNext, Host
<1>2. /\ UNCHANGED <<frame, pending>>
      /\ system = "up" /\ cpu.at = "trap" /\ cpu' = [cpu EXCEPT !.at = "leave"]
      /\ cpu_state' = MadeContexts /\ KernelCall
  BY DEF disastrOS_trap, Undisturbed
<1>3. /\ ContextsTypeOK /\ CpuContext /\ SavedContexts /\ CallsReturnOnce /\ KernelInv
  BY DEF ContextsInv
<1>4. /\ running \in PCB /\ running \in Alive /\ cpu_state[running].at = "returned"
      /\ cpu = [stack |-> SYSTEM, at |-> "trap", masked |-> TRUE]
      /\ SYSTEM \notin PCB /\ SYSTEM \in Stacks /\ Alive \subseteq PCB /\ Live \subseteq PCB
  BY <1>2, <1>3, ContextParts, RunsAlive DEF CpuContext
<1>5. cpu' = [stack |-> SYSTEM, at |-> "leave", masked |-> TRUE]
  BY <1>2, <1>4
<1>6. /\ cpu_state' \in [PCB -> Context]
      /\ SavedContexts'
      /\ \A p \in Alive' :
            \/ p \in Alive /\ pid'[p] = pid[p] /\ cpu_state'[p] = cpu_state[p]
            \/ p \in PCB \ Live /\ pid'[p] # pid[p] /\ cpu_state'[p] = NewContext(p)
  BY <1>2, <1>4, MadeContextsRight DEF ContextsNext, Host
<1>7. ContextsTypeOK'
  BY <1>2, <1>3, <1>4, <1>5, <1>6 DEF ContextsTypeOK, Context, CodePlaces
<1>8. SavedContexts'
  BY <1>6
<1>9. CpuContext'
  BY <1>2, <1>4, <1>5 DEF CpuContext
<1>10. TrapsOnce'
  BY <1>5 DEF TrapsOnce
<1>11. CallsReturnOnce'
  <2> SUFFICES ASSUME system' = "up", NEW p \in Alive'
               PROVE  PlaceOf(p)' = (IF call'[p] # NoCall THEN "returned" ELSE "user")
    BY DEF CallsReturnOnce
  <2>1. /\ call'[running] # NoCall
        /\ \A q \in PCB : q # running =>
              \/ call'[q] = call[q] /\ pid'[q] = pid[q]
              \/ q \notin Live /\ call'[q] = NoCall
    BY <1>2, <1>3, <1>4, CallStep
  <2>2. p \in PCB
    BY <1>4, <1>6
  <2>3. PlaceOf(p)' = IF cpu_state'[p].at \in {"handler", "handled"} THEN frame[p].at
                      ELSE cpu_state'[p].at
    BY <1>2, <1>4, <1>5, <2>2 DEF PlaceOf
  <2>4. CASE p = running
    BY <1>4, <1>6, <2>1, <2>3, <2>4 DEF Alive
  <2>5. CASE p # running /\ p \in Alive /\ cpu_state'[p] = cpu_state[p]
    <3>1. call'[p] = call[p]
      BY <2>1, <2>2, <2>5 DEF Alive
    <3>2. PlaceOf(p)' = PlaceOf(p)
      BY <1>4, <2>2, <2>3, <2>5 DEF PlaceOf
    <3> QED
      BY <1>2, <1>3, <2>5, <3>1, <3>2 DEF CallsReturnOnce
  <2>6. CASE p # running /\ p \in PCB \ Live /\ pid'[p] # pid[p] /\ cpu_state'[p] = NewContext(p)
    <3>1. PlaceOf(p)' = "user"
      BY <2>3, <2>6 DEF NewContext
    <3>2. call'[p] = NoCall
      BY <2>1, <2>6
    <3> QED
      BY <3>1, <3>2
  <2> QED
    BY <1>6, <2>4, <2>5, <2>6
<1> QED
  BY <1>1, <1>7, <1>8, <1>9, <1>10, <1>11 DEF ContextsInv

\* setcontext takes up whoever runs by now, with nobody running main.
LEMMA ResumeKeeps ==
    ASSUME ContextsInv, Resume
    PROVE  ContextsInv'
<1>1. KernelInv' /\ PidsDiffer'
  BY KernelPartKept DEF ContextsNext, Host
<1>2. /\ UNCHANGED <<system, running, pcb_free, zombie_list, call, cpu_state, frame, pending>>
      /\ cpu.at \in {"leave", "resume"}
      /\ cpu' = IF running = NULL THEN main_context ELSE cpu_state[running]
  BY DEF Resume, kernelVars, poolVars, listVars
<1>3. /\ ContextsTypeOK /\ CpuContext /\ SavedContexts /\ CallsReturnOnce /\ KernelInv
      /\ cpu_state \in [PCB -> Context]
  BY DEF ContextsInv, ContextsTypeOK
<1>4. /\ cpu.stack = SYSTEM /\ SYSTEM = NULL
      /\ SYSTEM \notin PCB /\ SYSTEM \in Stacks /\ Alive \subseteq PCB
  BY <1>2, <1>3, ContextParts DEF CpuContext
<1>5. Alive' = Alive
  BY <1>2 DEF Alive, Live
<1>6. SavedContexts'
  BY <1>2, <1>3, <1>4, <1>5 DEF SavedContexts, Resumable, Interrupted
<1>7. CASE running = NULL
  <2>1. cpu' = [stack |-> SYSTEM, at |-> "start", masked |-> FALSE] /\ cpu' = main_context
    BY <1>2, <1>7 DEF main_context
  <2>2. ContextsTypeOK'
    BY <1>2, <1>3, <1>4, <2>1 DEF ContextsTypeOK, Context, CodePlaces
  <2>3. CpuContext'
    <3>1. cpu'.stack = SYSTEM /\ cpu'.at = "start" /\ ~cpu'.masked
      BY <2>1
    <3> QED
      BY <1>2, <1>7, <2>1, <3>1 DEF CpuContext, main_context
  <2>4. TrapsOnce'
    BY <2>1 DEF TrapsOnce
  <2>5. CallsReturnOnce'
    <3>1. \A p \in Alive : PlaceOf(p)' = PlaceOf(p)
      BY <1>2, <1>4, <2>1 DEF PlaceOf
    <3>2. cpu'.at # "trap" /\ cpu.at # "trap"
      BY <1>2, <2>1
    <3> QED
      BY <1>2, <3>1, <3>2, NoOtherCalls
  <2> QED
    BY <1>1, <1>6, <2>2, <2>3, <2>4, <2>5 DEF ContextsInv
<1>8. CASE running # NULL
  <2>1. running \in PCB /\ running \in Alive /\ cpu' = cpu_state[running] /\ cpu' \in Context
    BY <1>2, <1>3, <1>8, RunsAlive DEF KernelInv, KernelTypeOK
  <2>2. Resumable(running, cpu')
    BY <1>3, <1>4, <2>1 DEF SavedContexts
  <2>3. ContextsTypeOK'
    BY <1>2, <1>3, <2>1 DEF ContextsTypeOK
  <2>4. CpuContext'
    BY <1>2, <2>1, <2>2 DEF CpuContext, Resumable, Interrupted
  <2>5. cpu'.stack = running /\ cpu'.at # "trap" /\ cpu.at # "trap"
    BY <1>2, <2>2 DEF Resumable
  <2>6. CallsReturnOnce'
    <3>1. \A p \in Alive : PlaceOf(p)' = PlaceOf(p)
      BY <1>2, <1>4, <2>1, <2>5 DEF PlaceOf
    <3> QED
      BY <1>2, <2>5, <3>1, NoOtherCalls
  <2> QED
    BY <1>1, <1>6, <2>3, <2>4, <2>5, <2>6 DEF ContextsInv, TrapsOnce
<1> QED
  BY <1>7, <1>8

\* The process reads its return value: its call has returned.
LEMMA ReturnsKeeps ==
    ASSUME ContextsInv, SyscallReturns
    PROVE  ContextsInv'
<1>1. KernelInv' /\ PidsDiffer'
  BY KernelPartKept DEF ContextsNext, Host
<1>2. /\ UNCHANGED <<system, running, pcb_free, zombie_list, cpu_state, frame, pending>>
      /\ system = "up" /\ cpu.at = "returned" /\ cpu' = [cpu EXCEPT !.at = "user"]
      /\ call' = [call EXCEPT ![running] = NoCall]
  BY DEF SyscallReturns, Return, Undisturbed, poolVars, listVars
<1>3. /\ ContextsTypeOK /\ CpuContext /\ SavedContexts /\ CallsReturnOnce /\ KernelInv
      /\ call \in [PCB -> CallRecord]
  BY DEF ContextsInv, KernelInv, KernelTypeOK
<1>4. /\ running \in PCB
      /\ cpu = [stack |-> running, at |-> "returned", masked |-> FALSE]
      /\ SYSTEM \notin PCB /\ Stacks = PCB \union {SYSTEM} /\ Alive \subseteq PCB
  BY <1>2, <1>3, ContextParts DEF CpuContext
<1>5. cpu' = [stack |-> running, at |-> "user", masked |-> FALSE]
  BY <1>2, <1>4
<1>6. Alive' = Alive
  BY <1>2 DEF Alive, Live
<1>7. ContextsTypeOK'
  BY <1>2, <1>3, <1>4, <1>5 DEF ContextsTypeOK, Context, CodePlaces
<1>8. SavedContexts'
  BY <1>2, <1>3, <1>4, <1>5, <1>6 DEF SavedContexts, Resumable, Interrupted
<1>9. CpuContext'
  BY <1>2, <1>4, <1>5 DEF CpuContext
<1>10. TrapsOnce'
  BY <1>5 DEF TrapsOnce
<1>11. CallsReturnOnce'
  <2>1. \A p \in Alive : p # running => PlaceOf(p)' = PlaceOf(p) /\ call'[p] = call[p]
    BY <1>2, <1>3, <1>4, <1>5 DEF PlaceOf
  <2>2. PlaceOf(running)' = "user" /\ call'[running] = NoCall
    BY <1>2, <1>3, <1>4, <1>5 DEF PlaceOf
  <2>3. cpu.at # "trap"
    BY <1>2
  <2> QED
    BY <1>2, <1>3, <1>6, <2>1, <2>2, <2>3 DEF CallsReturnOnce
<1> QED
  BY <1>1, <1>7, <1>8, <1>9, <1>10, <1>11 DEF ContextsInv

\* disastrOS_start once more, with a first process on a stack of its own.
LEMMA StartKeeps ==
    ASSUME ContextsInv, disastrOS_start
    PROVE  ContextsInv'
<1>1. KernelInv' /\ PidsDiffer'
  BY KernelPartKept DEF ContextsNext, Host
<1>2. /\ UNCHANGED <<frame, pending, zombie_list>>
      /\ system = "up" /\ running = NULL /\ cpu.at = "start" /\ cpu_state' = MadeContexts
      /\ cpu' = (IF system' = "up" THEN NewContext(running') ELSE cpu)
      /\ Restart
  BY DEF disastrOS_start, Restart, Crash, Stop, listVars, Undisturbed
<1>3. /\ ContextsTypeOK /\ CpuContext /\ SavedContexts /\ CallsReturnOnce /\ KernelInv
  BY DEF ContextsInv
<1>4. /\ cpu = main_context /\ cpu.stack = SYSTEM /\ SYSTEM = NULL
      /\ SYSTEM \notin PCB /\ Stacks = PCB \union {SYSTEM}
      /\ Alive \subseteq PCB /\ Live \subseteq PCB
  BY <1>2, <1>3, ContextParts DEF CpuContext
<1>5. /\ cpu_state' \in [PCB -> Context]
      /\ SavedContexts'
      /\ \A p \in Alive' :
            \/ p \in Alive /\ pid'[p] = pid[p] /\ cpu_state'[p] = cpu_state[p]
            \/ p \in PCB \ Live /\ pid'[p] # pid[p] /\ cpu_state'[p] = NewContext(p)
  BY <1>2, <1>4, MadeContextsRight DEF ContextsNext, Host
<1>6. CASE Crash
  <2>1. /\ system' = "crashed" /\ cpu' = cpu
        /\ running' = NULL /\ pending' = pending
    BY <1>2, <1>6 DEF Crash, Stop
  <2>2. ContextsTypeOK'
    BY <1>2, <1>3, <1>5, <2>1 DEF ContextsTypeOK
  <2>3. SavedContexts'
    BY <1>5
  <2>4. CpuContext'
    BY <1>2, <1>4, <2>1 DEF CpuContext, main_context
  <2> QED
    BY <1>1, <2>1, <2>2, <2>3, <2>4 DEF ContextsInv, TrapsOnce, CallsReturnOnce
<1>7. CASE ~Crash
  <2> DEFINE new == Head(pcb_free)
  <2>1. /\ pcb_free # <<>> /\ running' = new /\ system' = "up"
        /\ call' = [call EXCEPT ![new] = NoCall]
        /\ pid' = [pid EXCEPT ![new] = last_pid]
    BY <1>2, <1>7 DEF Restart, Alloc
  <2>2. new \in PCB /\ new \notin Live
    BY <1>3, <2>1, FreshBlock
  <2> HIDE DEF new
  <2>3. call \in [PCB -> CallRecord] /\ pid \in [PCB -> Nat]
    BY <1>3 DEF KernelInv, KernelTypeOK
  <2>4. /\ call'[new] = NoCall
        /\ \A p \in PCB : p # new => call'[p] = call[p] /\ pid'[p] = pid[p]
    BY <2>1, <2>2, <2>3
  <2>5. cpu' = [stack |-> new, at |-> "user", masked |-> FALSE]
    BY <1>2, <2>1 DEF NewContext
  <2>6. \A p \in Alive' : p # new => p \in Alive /\ cpu_state'[p] = cpu_state[p]
    BY <1>5, <2>4
  <2>7. ContextsTypeOK'
    <3>1. cpu' \in Context
      BY <1>4, <2>2, <2>5 DEF Context, CodePlaces
    <3> QED
      BY <1>2, <1>3, <1>5, <3>1 DEF ContextsTypeOK
  <2>8. SavedContexts'
    BY <1>5
  <2>9. CpuContext'
    BY <1>2, <2>1, <2>2, <2>5 DEF CpuContext
  <2>10. TrapsOnce'
    BY <2>5 DEF TrapsOnce
  <2>11. CallsReturnOnce'
    <3> SUFFICES ASSUME NEW p \in Alive'
                 PROVE  PlaceOf(p)' = (IF call'[p] # NoCall THEN "returned" ELSE "user")
      BY DEF CallsReturnOnce
    <3>1. CASE p = new
      <4>1. PlaceOf(p)' = "user"
        BY <2>5, <3>1 DEF PlaceOf
      <4> QED
        BY <2>4, <3>1, <4>1
    <3>2. CASE p # new
      <4>1. p \in Alive /\ call'[p] = call[p] /\ PlaceOf(p)' = PlaceOf(p)
        BY <1>2, <1>4, <2>4, <2>5, <2>6, <3>2 DEF PlaceOf
      <4> QED
        BY <1>2, <1>3, <4>1 DEF CallsReturnOnce
    <3> QED
      BY <3>1, <3>2
  <2> QED
    BY <1>1, <2>7, <2>8, <2>9, <2>10, <2>11 DEF ContextsInv
<1> QED
  BY <1>6, <1>7

\* A stopped system, and a step of others.
LEMMA SameContexts ==
    ASSUME ContextsInv, UNCHANGED allVars
    PROVE  ContextsInv'
<1>1. KernelInv' /\ PidsDiffer'
  BY KernelPartKept
<1>2. UNCHANGED <<system, running, pcb_free, zombie_list, call, cpu, cpu_state, frame, pending>>
  BY DEF allVars, kernelVars, contextVars, poolVars, listVars
<1>3. Alive' = Alive
  BY <1>2 DEF Alive, Live
<1> QED
  BY <1>1, <1>2, <1>3
     DEF ContextsInv, ContextsTypeOK, SavedContexts, Resumable, Interrupted, CpuContext,
         TrapsOnce, CallsReturnOnce, PlaceOf, main_context

\* In the first state one process is in its program, with nothing on any stack.
LEMMA ContextsStart == ContextsInit => ContextsInv
<1> SUFFICES ASSUME ContextsInit PROVE ContextsInv
  OBVIOUS
<1>1. KernelInv /\ PidsDiffer
  BY InitKeeps, InitPids DEF ContextsInit
<1>2. /\ running = 1 /\ cpu = NewContext(running)
      /\ cpu_state = [p \in PCB |-> NewContext(p)]
      /\ frame = [s \in Stacks |-> main_context] /\ pending = FALSE
      /\ call = [p \in PCB |-> NoCall]
  BY DEF ContextsInit, KernelInit
<1>3. /\ SYSTEM = 0 /\ 1 \in PCB /\ SYSTEM \notin PCB /\ Stacks = PCB \union {SYSTEM}
      /\ Alive \subseteq PCB
  BY KernelAssumption DEF SYSTEM, NULL, PCB, Stacks, Alive, Live
<1>4. ContextsTypeOK
  <2>1. /\ \A p \in PCB : NewContext(p) \in Context
        /\ main_context \in Context
    BY <1>3 DEF NewContext, main_context, Context, CodePlaces
  <2>2. \A p \in PCB : frame[p].at = "start"
    BY <1>2, <1>3 DEF main_context
  <2> QED
    BY <1>2, <1>3, <2>1, <2>2 DEF ContextsTypeOK
<1>5. SavedContexts
  BY <1>2, <1>3 DEF SavedContexts, Resumable, NewContext
<1>6. CpuContext
  BY <1>2, <1>3 DEF CpuContext, NewContext
<1>7. TrapsOnce
  BY <1>2 DEF TrapsOnce, NewContext
<1>8. CallsReturnOnce
  <2>1. \A p \in Alive : PlaceOf(p) = "user" /\ call[p] = NoCall
    BY <1>2, <1>3 DEF PlaceOf, NewContext
  <2> QED
    BY <2>1 DEF CallsReturnOnce
<1> QED
  BY <1>1, <1>4, <1>5, <1>6, <1>7, <1>8 DEF ContextsInv

\* One step of whatever kind.
LEMMA ContextsStep == ContextsInv /\ [ContextsNext]_allVars => ContextsInv'
<1> SUFFICES ASSUME ContextsInv, [ContextsNext]_allVars PROVE ContextsInv'
  OBVIOUS
<1>1. CASE UNCHANGED allVars \/ (Stopped /\ UNCHANGED contextVars)
  <2>1. UNCHANGED allVars
    BY <1>1 DEF Stopped, allVars
  <2> QED
    BY <2>1, SameContexts
<1>2. CASE (InTime /\ Alarm) \/ Deliver \/ timerHandler \/ timerInterrupt \/ HandlerReturns
  BY <1>2, AlarmKeeps, DeliverKeeps, HandlerKeeps, InterruptKeeps, HandlerReturnsKeeps
<1>3. CASE disastrOS_syscall \/ disastrOS_trap \/ Resume \/ SyscallReturns \/ disastrOS_start
  BY <1>3, SyscallKeeps, TrapKeeps, ResumeKeeps, ReturnsKeeps, StartKeeps
<1> QED
  BY <1>1, <1>2, <1>3 DEF ContextsNext, Host

-----------------------------------------------------------------------------
(* The theorems *)

\* The invariant of every reachable state of the machine under the kernel, if no
\* alarm falls between a handler and the end of its interrupt or into a restart,
\* and setcontext and swapcontext change mask and registers at once: as are all
\* theorems of ContextsSpec, this is one under those assumptions.
THEOREM ContextsInvariant == ContextsSpec => []ContextsInv
  BY ContextsStart, ContextsStep, PTL DEF ContextsSpec

\* With alarms in time, and mask and registers changed at once, the handler's frame
\* lies on the stack of a process or of main, above code an alarm may fall on: trap
\* and interrupt are never left in the middle.
THEOREM ContextsTypes == ContextsSpec => []ContextsTypeOK
<1>1. ContextsInv => ContextsTypeOK
  BY DEF ContextsInv
<1> QED
  BY <1>1, ContextsInvariant, PTL

\* Whatever alarms come during programs and traps, and whatever calls, switches and
\* restarts of the first process follow, the stack in use is that of the process
\* `running` names, or the system's, and everybody else goes on upon its own.  That
\* is so if an interrupt or restart is through before the next alarm, and setcontext
\* and swapcontext change mask and registers at once; the code ensures neither.
THEOREM StacksAreOwn == ContextsSpec => []OwnStack
<1>1. ContextsInv => OwnStack
  <2> SUFFICES ASSUME ContextsInv PROVE OwnStack
    OBVIOUS
  <2>1. /\ CpuContext /\ SavedContexts /\ cpu.at \in CodePlaces
    BY ContextParts DEF ContextsInv
  <2>2. cpu.stack # SYSTEM => cpu.stack = running
    BY <2>1 DEF CpuContext, CodePlaces
  <2> QED
    BY <2>1, <2>2 DEF OwnStack, SavedContexts, Resumable
<1> QED
  BY <1>1, ContextsInvariant, PTL

\* A call returns once, to its caller, and nobody comes back from a call it did
\* not make: through any number of interrupts and switches between, under the same
\* assumptions.
THEOREM EveryCallReturnsOnce == ContextsSpec => []CallsReturnOnce
<1>1. ContextsInv => CallsReturnOnce
  BY DEF ContextsInv
<1> QED
  BY <1>1, ContextsInvariant, PTL
=============================================================================
