-------------------------- MODULE KernelInvariants --------------------------
(***************************************************************************)
(* Every variable of the kernel keeps its type, for the helpers of the     *)
(* handlers give what their callers rely on.  Beyond types, the kernel     *)
(* keeps every process in one place, its status and its family right, and  *)
(* whoever waits with a cause.  None of these is inductive alone: that a   *)
(* woken process leaves waiting_list needs that timers are of sleepers,    *)
(* that exit finds its parent on waiting_list needs that the status tells  *)
(* the place, and that a reaped block is free once needs the family tree.  *)
(* What wait reports and the order the kernel keeps rest on that: timers   *)
(* by what they have left, so that the scheduler may look at the first     *)
(* ones only, and the ready list by who came first, except for those who   *)
(* wake.                                                                   *)
(***************************************************************************)
EXTENDS Kernel, ListLemmas

-----------------------------------------------------------------------------
(* Places that the handlers look for *)

\* TimerList_add finds a place in every list, sorted or not.
LEMMA TimerPlaceFound ==
    ASSUME NEW timers \in Seq(Timer), NEW left \in Int
    PROVE  LET k == TimerPlace(timers, left)
           IN /\ k \in 0 .. Len(timers)
              /\ \A i \in 1 .. k : timers[i].left <= left
              /\ k < Len(timers) => left < timers[k + 1].left
<1> DEFINE later(k) == k < Len(timers) => left < timers[k + 1].left
           T == {k \in 0 .. Len(timers) : later(k)}
<1>1. Len(timers) \in Nat /\ \A i \in 1 .. Len(timers) : timers[i] \in Timer
  BY LenProperties
<1>2. T \subseteq Nat /\ Len(timers) \in T
  BY <1>1
<1>3. PICK m \in T : \A k \in T : m <= k
  BY <1>2, Least
<1>4. ASSUME NEW j \in 0 .. m - 1
      PROVE  timers[j + 1].left <= left
  <2>1. j \in 0 .. Len(timers) /\ j < m /\ j < Len(timers) /\ j + 1 \in 1 .. Len(timers)
    BY <1>1, <1>3
  <2>2. ~later(j)
    BY <1>1, <1>3, <2>1
  <2>3. timers[j + 1].left \in Int
    BY <1>1, <2>1 DEF Timer
  <2> QED
    BY <2>1, <2>2, <2>3
<1>5. ASSUME NEW i \in 1 .. m
      PROVE  timers[i].left <= left
  <2>1. i - 1 \in 0 .. m - 1 /\ i - 1 + 1 = i
    BY <1>1, <1>3
  <2> QED
    BY <2>1, <1>4
<1>6. \E k \in 0 .. Len(timers) : /\ \A i \in 1 .. k : timers[i].left <= left
                                  /\ k < Len(timers) => left < timers[k + 1].left
  BY <1>3, <1>5
<1> QED
  BY <1>6 DEF TimerPlace

\* TimerList_current finds so many timers due one after the other.
LEMMA ElapsedCountFound ==
    ASSUME NEW timers \in Seq(Timer)
    PROVE  LET k == ElapsedCount(timers)
           IN /\ k \in 0 .. Len(timers)
              /\ \A i \in 1 .. k : timers[i].left <= 0
              /\ k < Len(timers) => timers[k + 1].left > 0
<1> DEFINE later(k) == k < Len(timers) => timers[k + 1].left > 0
           T == {k \in 0 .. Len(timers) : later(k)}
<1>1. Len(timers) \in Nat /\ \A i \in 1 .. Len(timers) : timers[i] \in Timer
  BY LenProperties
<1>2. T \subseteq Nat /\ Len(timers) \in T
  BY <1>1
<1>3. PICK m \in T : \A k \in T : m <= k
  BY <1>2, Least
<1>4. ASSUME NEW j \in 0 .. m - 1
      PROVE  timers[j + 1].left <= 0
  <2>1. j \in 0 .. Len(timers) /\ j < m /\ j < Len(timers) /\ j + 1 \in 1 .. Len(timers)
    BY <1>1, <1>3
  <2>2. ~later(j)
    BY <1>1, <1>3, <2>1
  <2>3. timers[j + 1].left \in Int
    BY <1>1, <2>1 DEF Timer
  <2> QED
    BY <2>1, <2>2, <2>3
<1>5. ASSUME NEW i \in 1 .. m
      PROVE  timers[i].left <= 0
  <2>1. i - 1 \in 0 .. m - 1 /\ i - 1 + 1 = i
    BY <1>1, <1>3
  <2> QED
    BY <2>1, <1>4
<1>6. \E k \in 0 .. Len(timers) : /\ \A i \in 1 .. k : timers[i].left <= 0
                                  /\ k < Len(timers) => timers[k + 1].left > 0
  BY <1>3, <1>5
<1> QED
  BY <1>6 DEF ElapsedCount

\* PCBPtr_byPID finds a process that is on the list.
LEMMA PtrPlaceFound ==
    ASSUME NEW s \in Seq(PCB), NEW q \in ToSet(s)
    PROVE  PtrPlace(s, q) \in DOMAIN s /\ s[PtrPlace(s, q)] = q
<1> DEFINE T == {i \in DOMAIN s : s[i] = q}
<1>1. DOMAIN s = 1 .. Len(s) /\ Len(s) \in Nat
  BY LenProperties
<1>2. T \subseteq Nat /\ T # {}
  BY <1>1 DEF ToSet
<1>3. PICK m \in T : \A k \in T : m <= k
  BY <1>2, Least
<1>4. \A j \in 1 .. m - 1 : s[j] # q
  BY <1>1, <1>3
<1>5. \E i \in DOMAIN s : s[i] = q /\ \A j \in 1 .. i - 1 : s[j] # q
  BY <1>3, <1>4
<1> QED
  BY <1>5 DEF PtrPlace

\* What wait's scan of the children stops for.
Hit(arg, c) == IF arg = 0 THEN status[c] = "Zombie" ELSE pid[c] = arg

\* wait's scan of a list of children that is not empty ends at one of them, the
\* first that it stops for or the last.
LEMMA AwaitedPlaceStops ==
    ASSUME NEW arg, children[running] \in Seq(PCB), children[running] # <<>>
    PROVE  LET kids == children[running]
               i == AwaitedPlace(arg)
           IN /\ i \in DOMAIN kids
              /\ \A j \in 1 .. i - 1 : ~Hit(arg, kids[j])
              /\ Hit(arg, kids[i]) \/ i = Len(kids)
<1> DEFINE kids == children[running]
           T == {i \in DOMAIN kids : Hit(arg, kids[i]) \/ i = Len(kids)}
<1>1. DOMAIN kids = 1 .. Len(kids) /\ Len(kids) \in Nat \ {0}
  BY LenProperties, EmptySeq
<1>2. T \subseteq Nat /\ Len(kids) \in T
  BY <1>1
<1>3. PICK m \in T : \A k \in T : m <= k
  BY <1>2, Least
<1>4. ASSUME NEW j \in 1 .. m - 1
      PROVE  ~Hit(arg, kids[j])
  <2>1. j \in DOMAIN kids /\ j < m
    BY <1>1, <1>3
  <2> QED
    BY <2>1, <1>1, <1>3
<1>5. \E i \in DOMAIN kids :
          (\A j \in 1 .. i - 1 : ~Hit(arg, kids[j])) /\ (Hit(arg, kids[i]) \/ i = Len(kids))
  BY <1>3, <1>4
<1>6. AwaitedPlace(arg) =
          CHOOSE i \in DOMAIN kids :
              (\A j \in 1 .. i - 1 : ~Hit(arg, kids[j])) /\ (Hit(arg, kids[i]) \/ i = Len(kids))
  BY Zenon DEF AwaitedPlace, Hit
<1> QED
  BY <1>5, <1>6

\* The scan ends inside the list.
LEMMA AwaitedPlaceFound ==
    ASSUME NEW arg, children[running] \in Seq(PCB), children[running] # <<>>
    PROVE  AwaitedPlace(arg) \in DOMAIN children[running]
  BY AwaitedPlaceStops

-----------------------------------------------------------------------------
(* Types of what the helpers give *)

\* TimerList_add makes a list of timers of a list of timers.
LEMMA AddedTyped ==
    ASSUME NEW timers \in Seq(Timer), NEW left \in Int, NEW p \in PCB
    PROVE  TimerList_add(timers, left, p) \in Seq(Timer)
<1> DEFINE k == TimerPlace(timers, left)
           e == [pcb |-> p, left |-> left]
<1>1. k \in 0 .. Len(timers)
  BY TimerPlaceFound
<1>2. e \in Timer
  BY DEF Timer
<1> HIDE DEF k, e
<1>3. InsertAt(timers, k + 1, e) \in Seq(Timer)
  BY <1>1, <1>2, Inserted
<1> QED
  BY <1>3 DEF TimerList_add, k, e

\* A tick leaves a list of timers.
LEMMA AgedTyped ==
    ASSUME NEW timers \in Seq(Timer)
    PROVE  Aged(timers) \in Seq(Timer)
<1>1. \A i \in 1 .. Len(timers) : timers[i] \in Timer
  BY LenProperties
<1>2. \A i \in 1 .. Len(timers) : [timers[i] EXCEPT !.left = timers[i].left - 1] \in Timer
  BY <1>1 DEF Timer
<1>3. [i \in 1 .. Len(timers) |-> [timers[i] EXCEPT !.left = timers[i].left - 1]] \in Seq(Timer)
  BY <1>2, LenProperties, IsASeq
<1>4. DOMAIN timers = 1 .. Len(timers)
  BY LenProperties
<1> QED
  BY <1>3, <1>4 DEF Aged

\* The processes woken are those of the first timers, and the others stay.
LEMMA WokenPending ==
    ASSUME NEW timers \in Seq(Timer)
    PROVE  LET k == ElapsedCount(timers)
           IN /\ Woken(timers) \in Seq(PCB)
              /\ Len(Woken(timers)) = k
              /\ \A i \in 1 .. k : Woken(timers)[i] = timers[i].pcb
              /\ Pending(timers) \in Seq(Timer)
              /\ Len(Pending(timers)) = Len(timers) - k
              /\ \A i \in 1 .. Len(timers) - k : Pending(timers)[i] = timers[k + i]
<1> DEFINE k == ElapsedCount(timers)
<1>1. k \in 0 .. Len(timers) /\ k \in Nat
  BY ElapsedCountFound, LenProperties
<1>2. \A i \in 1 .. Len(timers) : timers[i] \in Timer
  BY LenProperties
<1> HIDE DEF k
<1>3. \A i \in 1 .. k : timers[i].pcb \in PCB
  <2>1. \A i \in 1 .. k : i \in 1 .. Len(timers)
    BY <1>1, LenProperties
  <2> QED
    BY <2>1, <1>2 DEF Timer
<1>4. Woken(timers) = [i \in 1 .. k |-> timers[i].pcb]
  BY DEF Woken, k
<1>5. [i \in 1 .. k |-> timers[i].pcb] \in Seq(PCB)
  BY <1>1, <1>3, IsASeq
<1>6. Len([i \in 1 .. k |-> timers[i].pcb]) = k
  BY <1>1
<1>7. Pending(timers) = SubSeq(timers, k + 1, Len(timers))
  BY DEF Pending, k
<1>8. /\ SubSeq(timers, k + 1, Len(timers)) \in Seq(Timer)
      /\ Len(SubSeq(timers, k + 1, Len(timers))) = Len(timers) - k
      /\ \A i \in 1 .. Len(timers) - k : SubSeq(timers, k + 1, Len(timers))[i] = timers[k + i]
  BY <1>1, Suffix
<1> QED
  BY <1>4, <1>5, <1>6, <1>7, <1>8 DEF k

-----------------------------------------------------------------------------
(* Every action keeps the types *)

\* What the trap writes into a PCB is a call.
LEMMA CallTyped ==
    /\ NoCall \in CallRecord
    /\ \A num \in Syscalls, arg \in Int : [num |-> num, arg |-> arg] \in CallRecord
    /\ KernelTypeOK => call \in [PCB -> CallRecord]
  BY DEF NoCall, CallRecord, KernelTypeOK

\* The types hold at the start.
LEMMA InitTyped == KernelInit => KernelTypeOK
<1> SUFFICES ASSUME KernelInit PROVE KernelTypeOK
  OBVIOUS
<1>1. MAX_NUM_PROCESSES \in Nat \ {0} /\ 1 \in PCB /\ NULL = 0
  BY KernelAssumption DEF PCB, NULL
<1>2. pcb_free \in Seq(PCB)
  <2>1. MAX_NUM_PROCESSES - 1 \in Nat /\ \A i \in 1 .. MAX_NUM_PROCESSES - 1 : i + 1 \in PCB
    BY <1>1 DEF PCB
  <2>2. [i \in 1 .. MAX_NUM_PROCESSES - 1 |-> i + 1] \in Seq(PCB)
    BY <2>1, IsASeq
  <2> QED
    BY <2>2 DEF KernelInit
<1>3. status \in [PCB -> Statuses]
  BY DEF KernelInit, Statuses
<1>4. call \in [PCB -> CallRecord]
  BY CallTyped DEF KernelInit
<1>5. ready_list \in Seq(PCB) /\ timer_list \in Seq(Timer)
      /\ children \in [PCB -> Seq(PCB)]
  BY DEF KernelInit
<1> QED
  BY <1>1, <1>2, <1>3, <1>4, <1>5 DEF KernelInit, KernelTypeOK

\* internal_schedule takes processes to run from typed lists.
LEMMA ScheduleTyped ==
    ASSUME KernelTypeOK, running \in PCB, NEW timers \in Seq(Timer), Schedule(timers),
           call' \in [PCB -> CallRecord]
    PROVE  KernelTypeOK'
<1>1. Woken(timers) \in Seq(PCB) /\ Pending(timers) \in Seq(Timer)
  BY WokenPending
<1> DEFINE ready == AfterWakeUp(timers)
           awake == Awakened(timers)
<1>2. ready \in Seq(PCB)
  BY <1>1, Joined DEF AfterWakeUp, KernelTypeOK
<1>3. awake \in [PCB -> Statuses]
  BY DEF Awakened, KernelTypeOK, Statuses
<1>4. waiting_list' \subseteq PCB
  BY DEF Schedule, StillWaiting, KernelTypeOK
<1>5. timer_list' \in Seq(Timer)
  BY <1>1 DEF Schedule, Timer
<1> HIDE DEF ready, awake
<1>6. CASE ready = <<>>
  <2>1. status' = awake /\ running' = running /\ ready_list' = ready_list
    BY <1>6 DEF Schedule, ready, awake
  <2> QED
    BY <2>1, <1>3, <1>4, <1>5 DEF Schedule, KernelTypeOK, poolVars
<1>7. CASE ready # <<>>
  <2>1. /\ running' = Head(ready) /\ ready_list' = Append(Tail(ready), running)
        /\ status' = [awake EXCEPT ![running] = "Ready", ![Head(ready)] = "Running"]
    BY <1>7 DEF Schedule, Requeued, ready, awake
  <2>2. Head(ready) \in PCB /\ Tail(ready) \in Seq(PCB)
    BY <1>2, <1>7, Detached
  <2>3. ready_list' \in Seq(PCB)
    BY <2>1, <2>2, Appended
  <2>4. status' \in [PCB -> Statuses]
    BY <2>1, <2>2, <1>3 DEF Statuses
  <2> QED
    BY <2>1, <2>2, <2>3, <2>4, <1>4, <1>5 DEF Schedule, KernelTypeOK, poolVars
<1> QED
  BY <1>6, <1>7

\* The trap records calls only.
LEMMA TrapTyped ==
    ASSUME KernelTypeOK, running \in PCB, NEW num \in Syscalls, NEW arg \in Int, Trap(num, arg)
    PROVE  call' \in [PCB -> CallRecord]
<1>1. [num |-> num, arg |-> arg] \in CallRecord /\ call \in [PCB -> CallRecord]
  BY CallTyped
<1> QED
  BY <1>1 DEF Trap

\* A process in user code is a block, not NULL.
LEMMA UserRuns ==
    ASSUME KernelTypeOK, NEW num, User(num)
    PROVE  running \in PCB
  BY DEF User, KernelTypeOK

\* Ways to stop are values of system.
LEMMA StopTyped ==
    ASSUME KernelTypeOK, NEW how \in {"halted", "deadlock", "crashed", "hung"}, Stop(how)
    PROVE  KernelTypeOK'
  BY DEF Stop, KernelTypeOK, poolVars, pcbVars, listVars

\* disastrOS_start once more, from a block or into a fault.
LEMMA RestartTyped ==
    ASSUME KernelTypeOK, Restart
    PROVE  KernelTypeOK'
<1>1. CASE pcb_free = <<>>
  BY <1>1, StopTyped DEF Restart, Crash
<1>2. CASE pcb_free # <<>>
  <2> DEFINE new == Head(pcb_free)
  <2>1. new \in PCB /\ pcb_free' \in Seq(PCB)
    <3>1. pcb_free \in Seq(PCB) /\ pcb_free' = Tail(pcb_free)
      BY <1>2 DEF Restart, Alloc, KernelTypeOK
    <3> QED
      BY <1>2, <3>1, Detached
  <2> HIDE DEF new
  <2>2. /\ pid' = [pid EXCEPT ![new] = last_pid] /\ last_pid' = last_pid + 1
        /\ status' = [status EXCEPT ![new] = "Running"]
        /\ parent' = [parent EXCEPT ![new] = NULL]
        /\ signals' = [signals EXCEPT ![new] = {}]
        /\ children' = [children EXCEPT ![new] = <<>>]
        /\ call' = [call EXCEPT ![new] = NoCall]
        /\ running' = new /\ init_pcb' = new
        /\ UNCHANGED <<system, ptr_free, listVars, retvalue>>
    BY <1>2 DEF Restart, Alloc, new
  <2>3. call' \in [PCB -> CallRecord]
    BY <2>1, <2>2, CallTyped
  <2>4. status' \in [PCB -> Statuses]
    BY <2>1, <2>2 DEF KernelTypeOK, Statuses
  <2>5. children' \in [PCB -> Seq(PCB)] /\ signals' \in [PCB -> SUBSET Signals]
    <3>1. <<>> \in Seq(PCB) /\ {} \in SUBSET Signals
      OBVIOUS
    <3> QED
      BY <2>1, <2>2, <3>1 DEF KernelTypeOK
  <2>6. pid' \in [PCB -> Nat] /\ last_pid' \in Nat /\ parent' \in [PCB -> PCB \union {NULL}]
    BY <2>1, <2>2 DEF KernelTypeOK
  <2> QED
    BY <2>1, <2>2, <2>3, <2>4, <2>5, <2>6 DEF KernelTypeOK, listVars
<1> QED
  BY <1>1, <1>2

\* The timer interrupt.
LEMMA TickTyped ==
    ASSUME KernelTypeOK, Tick
    PROVE  KernelTypeOK'
<1>1. CASE running = NULL
  BY <1>1, StopTyped DEF Tick, Crash
<1>2. CASE running # NULL
  <2>1. running \in PCB /\ timer_list \in Seq(Timer)
    BY <1>2 DEF KernelTypeOK, Timer
  <2>2. Aged(timer_list) \in Seq(Timer)
    BY <2>1, AgedTyped
  <2>3. Schedule(Aged(timer_list)) /\ call' \in [PCB -> CallRecord]
    BY <1>2 DEF Tick, KernelTypeOK
  <2> QED
    BY <2>1, <2>2, <2>3, ScheduleTyped
<1> QED
  BY <1>1, <1>2

\* The return to user code.
LEMMA ReturnTyped ==
    ASSUME KernelTypeOK, Return
    PROVE  KernelTypeOK'
<1>1. call' \in [PCB -> CallRecord]
  BY CallTyped DEF Return
<1> QED
  BY <1>1 DEF Return, KernelTypeOK, poolVars, pcbVars, listVars

\* preempt.
LEMMA PreemptTyped ==
    ASSUME KernelTypeOK, Preempt
    PROVE  KernelTypeOK'
<1>1. running \in PCB /\ Trap("preempt", 0) /\ Schedule(timer_list) /\ "preempt" \in Syscalls
  BY UserRuns DEF Preempt, Syscalls
<1>2. call' \in [PCB -> CallRecord]
  BY <1>1, TrapTyped
<1>3. timer_list \in Seq(Timer)
  BY DEF KernelTypeOK, Timer
<1> QED
  BY <1>1, <1>2, <1>3, ScheduleTyped

\* spawn takes a block and a pointer only if there are some.
LEMMA SpawnTyped ==
    ASSUME KernelTypeOK, Spawn
    PROVE  KernelTypeOK'
<1>1. running \in PCB
  BY UserRuns DEF Spawn
<1>2. CASE NoBlockLeft
  BY <1>2, StopTyped DEF Spawn, Crash
<1>3. CASE ~NoBlockLeft
  <2> DEFINE new == Head(pcb_free)
  <2>1. pcb_free # <<>> /\ ptr_free # 0
    BY <1>3 DEF NoBlockLeft
  <2>2. new \in PCB /\ pcb_free' \in Seq(PCB)
    <3>1. pcb_free \in Seq(PCB) /\ pcb_free' = Tail(pcb_free)
      BY <1>3 DEF Spawn, Alloc, KernelTypeOK
    <3> QED
      BY <2>1, <3>1, Detached
  <2> HIDE DEF new
  <2>3. /\ pid' = [pid EXCEPT ![new] = last_pid] /\ last_pid' = last_pid + 1
        /\ status' = [status EXCEPT ![new] = "Ready"]
        /\ parent' = [parent EXCEPT ![new] = running]
        /\ signals' = [signals EXCEPT ![new] = {}]
        /\ children' = [children EXCEPT ![running] = Append(@, new), ![new] = <<>>]
        /\ ptr_free' = ptr_free - 1
        /\ ready_list' = Append(ready_list, new)
        /\ retvalue' = [retvalue EXCEPT ![running] = last_pid]
        /\ call' = [call EXCEPT ![running] = [num |-> "spawn", arg |-> 0], ![new] = NoCall]
        /\ UNCHANGED <<system, running, init_pcb, waiting_list, zombie_list, timer_list>>
    BY <1>3 DEF Spawn, Alloc, new
  <2>4. call' \in [PCB -> CallRecord]
    <3>1. [num |-> "spawn", arg |-> 0] \in CallRecord
      BY CallTyped DEF Syscalls
    <3> QED
      BY <1>1, <2>2, <2>3, <3>1, CallTyped
  <2>5. status' \in [PCB -> Statuses] /\ signals' \in [PCB -> SUBSET Signals]
    BY <2>2, <2>3 DEF KernelTypeOK, Statuses
  <2>6. children' \in [PCB -> Seq(PCB)]
    <3>1. Append(children[running], new) \in Seq(PCB) /\ <<>> \in Seq(PCB)
      BY <1>1, <2>2, Appended DEF KernelTypeOK
    <3> QED
      BY <1>1, <2>2, <2>3, <3>1 DEF KernelTypeOK
  <2>7. ready_list' \in Seq(PCB)
    BY <2>2, <2>3, Appended DEF KernelTypeOK
  <2>8. pid' \in [PCB -> Nat] /\ last_pid' \in Nat /\ ptr_free' \in Nat
    BY <2>1, <2>2, <2>3 DEF KernelTypeOK
  <2>9. parent' \in [PCB -> PCB \union {NULL}] /\ retvalue' \in [PCB -> Int]
    BY <1>1, <2>2, <2>3 DEF KernelTypeOK
  <2> QED
    BY <2>2, <2>3, <2>4, <2>5, <2>6, <2>7, <2>8, <2>9 DEF KernelTypeOK
<1> QED
  BY <1>2, <1>3

\* The first ready process takes the processor over.
LEMMA NextReadyTyped ==
    ASSUME KernelTypeOK, NextReady, ready_list # <<>>
    PROVE  running' \in PCB /\ ready_list' \in Seq(PCB)
  BY Detached DEF NextReady, KernelTypeOK

\* sleep adds a timer or returns an error.
LEMMA SleepTyped ==
    ASSUME KernelTypeOK, NEW cycles \in SleepTimes, Sleep(cycles)
    PROVE  KernelTypeOK'
<1>1. running \in PCB /\ cycles \in Int
  BY UserRuns, KernelAssumption DEF Sleep
<1>2. call' \in [PCB -> CallRecord]
  <2>1. "sleep" \in Syscalls /\ Trap("sleep", cycles)
    BY DEF Syscalls, Sleep
  <2> QED
    BY <1>1, <2>1, TrapTyped
<1>3. CASE Len(timer_list) = MAX_NUM_PROCESSES
  <2>1. retvalue' \in [PCB -> Int]
    BY <1>1, <1>3 DEF Sleep, KernelTypeOK, DSOS_ESLEEP
  <2> QED
    BY <1>2, <1>3, <2>1 DEF Sleep, KernelTypeOK, poolVars
<1>4. CASE Len(timer_list) # MAX_NUM_PROCESSES
  <2>1. timer_list' \in Seq(Timer)
    <3>1. timer_list \in Seq(Timer)
      BY DEF KernelTypeOK, Timer
    <3>2. timer_list' = TimerList_add(timer_list, cycles, running)
      BY <1>4 DEF Sleep
    <3> QED
      BY <1>1, <3>1, <3>2, AddedTyped DEF Timer
  <2>2. status' \in [PCB -> Statuses] /\ waiting_list' \subseteq PCB
    BY <1>1, <1>4 DEF Sleep, KernelTypeOK, Statuses
  <2>3. running' \in PCB \union {NULL} /\ ready_list' \in Seq(PCB)
        /\ system' \in {"up", "halted", "deadlock", "crashed", "hung"}
    <3>1. CASE ready_list # <<>>
      BY <1>4, <3>1, NextReadyTyped DEF Sleep, KernelTypeOK
    <3>2. CASE ready_list = <<>>
      BY <1>4, <3>2 DEF Sleep, KernelTypeOK
    <3> QED
      BY <3>1, <3>2
  <2> QED
    BY <1>2, <1>4, <2>1, <2>2, <2>3 DEF Sleep, KernelTypeOK, poolVars
<1> QED
  BY <1>3, <1>4

\* wait finds the place of the child that it looks at.
LEMMA WaitTyped ==
    ASSUME KernelTypeOK, NEW arg \in WaitArgs, Wait(arg)
    PROVE  KernelTypeOK'
<1> DEFINE kids == children[running]
           reapable == kids # <<>> /\ status[kids[AwaitedPlace(arg)]] = "Zombie"
<1>1. running \in PCB /\ arg \in Int /\ kids \in Seq(PCB)
  BY UserRuns, KernelAssumption DEF Wait, KernelTypeOK
<1>2. CASE kids # <<>> /\ ~reapable /\ ready_list = <<>>
  BY <1>2, StopTyped DEF Wait, Crash
<1>3. CASE ~(kids # <<>> /\ ~reapable /\ ready_list = <<>>)
  <2>1. /\ Trap("wait", arg)
        /\ UNCHANGED <<init_pcb, last_pid, pid, parent, signals, timer_list>>
    BY <1>3 DEF Wait
  <2>2. call' \in [PCB -> CallRecord]
    <3>1. "wait" \in Syscalls
      BY DEF Syscalls
    <3> QED
      BY <1>1, <2>1, <3>1, TrapTyped
  <2>3. CASE kids = <<>>
    <3>1. NoChildren
      BY <1>3, <2>3 DEF Wait
    <3>2. retvalue' \in [PCB -> Int]
      BY <1>1, <3>1 DEF NoChildren, KernelTypeOK, DSOS_EWAIT
    <3> QED
      BY <2>1, <2>2, <3>1, <3>2 DEF NoChildren, KernelTypeOK, poolVars
  <2>4. CASE kids # <<>> /\ reapable
    <3> DEFINE i == AwaitedPlace(arg)
               child == children[running][i]
    <3>1. Reap(i)
      BY <1>3, <2>4 DEF Wait
    <3>2. i \in DOMAIN children[running]
      BY <1>1, <2>4, AwaitedPlaceFound
    <3>3. child \in PCB
      BY <1>1, <3>2, LenProperties
    <3> HIDE DEF i
    <3>4. RemoveAt(children[running], i) \in Seq(PCB)
      BY <1>1, <3>2, Removed
    <3>5. children' \in [PCB -> Seq(PCB)]
      BY <1>1, <3>1, <3>4 DEF Reap, KernelTypeOK
    <3>6. pcb_free' \in Seq(PCB)
      BY <3>1, <3>3, PutInFront DEF Reap, Freed, KernelTypeOK
    <3>7. retvalue' \in [PCB -> Int]
      <4>1. pid[child] \in Int
        BY <3>3 DEF KernelTypeOK
      <4>2. retvalue' = [retvalue EXCEPT ![running] = pid[child]]
        BY <3>1 DEF Reap
      <4> QED
        BY <1>1, <4>1, <4>2 DEF KernelTypeOK
    <3>8. ptr_free' \in Nat /\ zombie_list' \subseteq PCB
      BY <3>1 DEF Reap, KernelTypeOK
    <3> QED
      BY <2>1, <2>2, <3>1, <3>5, <3>6, <3>7, <3>8 DEF Reap, KernelTypeOK
  <2>5. CASE kids # <<>> /\ ~reapable
    <3>1. Await /\ ready_list # <<>>
      BY <1>3, <2>5 DEF Wait
    <3>2. running' \in PCB /\ ready_list' \in Seq(PCB)
      BY <3>1, NextReadyTyped DEF Await
    <3>3. status' \in [PCB -> Statuses] /\ waiting_list' \subseteq PCB
      BY <1>1, <3>1 DEF Await, KernelTypeOK, Statuses
    <3> QED
      BY <2>1, <2>2, <3>1, <3>2, <3>3 DEF Await, KernelTypeOK
  <2> QED
    BY <2>3, <2>4, <2>5
<1> QED
  BY <1>2, <1>3

\* The lists of children after the orphans moved to init.
LEMMA ReparentedTyped ==
    ASSUME KernelTypeOK, running \in PCB
    PROVE  Reparented \in [PCB -> Seq(PCB)]
<1>1. children[init_pcb] \in Seq(PCB) /\ children[running] \in Seq(PCB) /\ <<>> \in Seq(PCB)
  BY DEF KernelTypeOK
<1>2. children[init_pcb] \o children[running] \in Seq(PCB)
  BY <1>1, ConcatProperties
<1> QED
  BY <1>1, <1>2 DEF Reparented, KernelTypeOK

\* exit into a waiting parent finds the place of the child in its list.
LEMMA ExitToParentTyped ==
    ASSUME KernelTypeOK, running \in PCB, NEW par \in PCB, running \in ToSet(Reparented[par]),
           ExitToParent(par), Trap("exit", 0), signals' = ExitSignals,
           UNCHANGED <<system, init_pcb, last_pid, ptr_free, pid, parent, timer_list>>
    PROVE  KernelTypeOK'
<1>1. call' \in [PCB -> CallRecord]
  BY TrapTyped DEF Syscalls
<1>2. children' \in [PCB -> Seq(PCB)]
  <2> DEFINE c == Reparented
             i == PtrPlace(c[par], running)
  <2>1. c \in [PCB -> Seq(PCB)]
    BY ReparentedTyped
  <2>2. children' = [c EXCEPT ![par] = RemoveAt(c[par], i)]
    BY DEF ExitToParent
  <2> HIDE DEF c
  <2>3. c[par] \in Seq(PCB) /\ running \in ToSet(c[par])
    BY <2>1 DEF c
  <2>4. i \in DOMAIN c[par]
    BY <2>3, PtrPlaceFound
  <2> HIDE DEF i
  <2>5. RemoveAt(c[par], i) \in Seq(PCB)
    BY <2>3, <2>4, Removed
  <2> QED
    BY <2>1, <2>2, <2>5
<1>3. status' \in [PCB -> Statuses] /\ waiting_list' \subseteq PCB
  BY DEF ExitToParent, KernelTypeOK, Statuses
<1>4. retvalue' \in [PCB -> Int]
  <2>1. pid[running] \in Int
    BY DEF KernelTypeOK
  <2> QED
    BY <2>1 DEF ExitToParent, KernelTypeOK
<1>5. pcb_free' \in Seq(PCB)
  BY PutInFront DEF ExitToParent, Freed, KernelTypeOK
<1>6. signals' \in [PCB -> SUBSET Signals]
  BY DEF ExitSignals, KernelTypeOK, Signals
<1> QED
  BY <1>1, <1>2, <1>3, <1>4, <1>5, <1>6 DEF ExitToParent, KernelTypeOK

\* exit with somebody ready.
LEMMA ExitToReadyTyped ==
    ASSUME KernelTypeOK, running \in PCB, ready_list # <<>>,
           ExitToReady, Trap("exit", 0), signals' = ExitSignals,
           UNCHANGED <<system, init_pcb, last_pid, ptr_free, pid, parent, timer_list>>
    PROVE  KernelTypeOK'
<1>1. call' \in [PCB -> CallRecord]
  BY TrapTyped DEF Syscalls
<1>2. children' \in [PCB -> Seq(PCB)]
  BY ReparentedTyped DEF ExitToReady
<1>3. running' \in PCB /\ ready_list' \in Seq(PCB) /\ Head(ready_list) \in PCB
  BY NextReadyTyped DEF ExitToReady, NextReady
<1>4. status' \in [PCB -> Statuses] /\ zombie_list' \subseteq PCB
  BY <1>3 DEF ExitToReady, KernelTypeOK, Statuses
<1>5. signals' \in [PCB -> SUBSET Signals]
  BY DEF ExitSignals, KernelTypeOK, Signals
<1> QED
  BY <1>1, <1>2, <1>3, <1>4, <1>5 DEF ExitToReady, KernelTypeOK

\* exit in all its ways.
LEMMA ExitTyped ==
    ASSUME KernelTypeOK, Exit
    PROVE  KernelTypeOK'
<1> DEFINE par == parent[running]
           rest == /\ Trap("exit", 0)
                   /\ signals' = ExitSignals
                   /\ UNCHANGED <<system, init_pcb, last_pid, ptr_free, pid, parent, timer_list>>
<1>1. running \in PCB /\ par \in PCB \union {NULL}
  BY UserRuns DEF Exit, KernelTypeOK
<1>2. CASE Stop("hung") \/ Crash
  BY <1>2, StopTyped DEF Crash
<1>3. CASE par # NULL /\ running \in ToSet(Reparented[par]) /\ ExitToParent(par) /\ rest
  BY <1>1, <1>3, ExitToParentTyped
<1>4. CASE ready_list # <<>> /\ ExitToReady /\ rest
  BY <1>1, <1>4, ExitToReadyTyped
<1> QED
  BY <1>2, <1>3, <1>4 DEF Exit

-----------------------------------------------------------------------------
(* The types of every reachable state *)

\* Every step of the kernel keeps the types.
LEMMA StepTyped == KernelTypeOK /\ [KernelNext]_kernelVars => KernelTypeOK'
<1> SUFFICES ASSUME KernelTypeOK, [KernelNext]_kernelVars
             PROVE  KernelTypeOK'
  OBVIOUS
<1>1. CASE UNCHANGED kernelVars
  BY <1>1 DEF kernelVars, poolVars, pcbVars, listVars, KernelTypeOK
<1>2. CASE Restart
  BY <1>2, RestartTyped
<1>3. CASE Tick
  BY <1>3, TickTyped
<1>4. CASE Return
  BY <1>4, ReturnTyped
<1>5. CASE Preempt
  BY <1>5, PreemptTyped
<1>6. CASE Shutdown
  BY <1>6, StopTyped DEF Shutdown
<1>7. CASE Spawn
  BY <1>7, SpawnTyped
<1>8. CASE \E cycles \in SleepTimes : Sleep(cycles)
  BY <1>8, SleepTyped
<1>9. CASE \E arg \in WaitArgs : Wait(arg)
  BY <1>9, WaitTyped
<1>10. CASE Exit
  BY <1>10, ExitTyped
<1> QED
  BY <1>1, <1>2, <1>3, <1>4, <1>5, <1>6, <1>7, <1>8, <1>9, <1>10
     DEF KernelNext, KernelCall, Stopped

\* Whatever the size of the pools and the arguments programs give, the kernel's
\* variables keep their types: no list holds a NULL, no place that a handler
\* looks for is missing, and no pool goes below zero.
THEOREM KernelTypes == KernelSpec => []KernelTypeOK
  BY InitTyped, StepTyped, PTL DEF KernelSpec

-----------------------------------------------------------------------------
(* The invariant *)

\* Exit reads the status of its parent, which may be a free block by then.
FreeBlocksIdle == \A p \in ToSet(pcb_free) : status[p] # "Waiting"

\* init holds its block and has nobody to exit to; whoever has a parent is a
\* child of somebody, not always of the process that its parent field names.
RootedTree ==
    /\ init_pcb \in Live \ zombie_list
    /\ parent[init_pcb] = NULL
    /\ \A p \in Live : parent[p] # NULL => \E q \in PCB : p \in ToSet(children[q])

\* What the handlers rely on of WaitersHaveCause: who sleeps has its timer, and who
\* waits has a child.  The modules over the kernel have other calls to wait in.
SoundCauses ==
    /\ \A p \in waiting_list : /\ call[p].num = "sleep" => p \in Asleep
                               /\ call[p].num = "wait" => children[p] # <<>>
    /\ \A i, j \in DOMAIN timer_list : timer_list[i].pcb = timer_list[j].pcb => i = j
    /\ \A p \in Asleep : p \in waiting_list /\ call[p].num = "sleep"

KernelInv ==
    /\ KernelTypeOK
    /\ OnePlace
    /\ StatusTellsPlace
    /\ FreeBlocksIdle
    /\ FamilyTree
    /\ RootedTree
    /\ SoundCauses

-----------------------------------------------------------------------------
(* Timers as the set of the processes that have one *)

SleepersOf(timers) == {timers[i].pcb : i \in DOMAIN timers}
OneEach(timers) == \A i, j \in DOMAIN timers : timers[i].pcb = timers[j].pcb => i = j

\* Time changes no timer's process.
LEMMA AgedSleepers ==
    ASSUME NEW timers \in Seq(Timer), OneEach(timers)
    PROVE  SleepersOf(Aged(timers)) = SleepersOf(timers) /\ OneEach(Aged(timers))
<1>1. DOMAIN Aged(timers) = DOMAIN timers
  BY DEF Aged
<1>2. \A i \in DOMAIN timers : timers[i] \in Timer
  BY LenProperties
<1>3. \A i \in DOMAIN timers : Aged(timers)[i].pcb = timers[i].pcb
  BY <1>2 DEF Aged, Timer
<1>4. SleepersOf(Aged(timers)) = SleepersOf(timers)
  BY <1>1, <1>3 DEF SleepersOf
<1>5. OneEach(Aged(timers))
  BY <1>1, <1>3 DEF OneEach
<1> QED
  BY <1>4, <1>5

\* Waking splits the sleepers in two.
LEMMA WokenSleepers ==
    ASSUME NEW timers \in Seq(Timer), OneEach(timers)
    PROVE  /\ IsInjective(Woken(timers))
           /\ ToSet(Woken(timers)) \subseteq SleepersOf(timers)
           /\ SleepersOf(Pending(timers)) = SleepersOf(timers) \ ToSet(Woken(timers))
           /\ OneEach(Pending(timers))
<1> DEFINE k == ElapsedCount(timers)
           w == Woken(timers)
           r == Pending(timers)
<1>1. k \in 0 .. Len(timers) /\ k \in Nat
  BY ElapsedCountFound, LenProperties
<1>2. /\ Len(w) = k /\ w \in Seq(PCB)
      /\ \A i \in 1 .. k : w[i] = timers[i].pcb
      /\ Len(r) = Len(timers) - k /\ r \in Seq(Timer)
      /\ \A i \in 1 .. Len(timers) - k : r[i] = timers[k + i]
  BY WokenPending
<1> HIDE DEF k, w, r
<1>3. /\ DOMAIN w = 1 .. k /\ DOMAIN r = 1 .. Len(timers) - k
      /\ DOMAIN timers = 1 .. Len(timers) /\ Len(timers) \in Nat
  BY <1>2, LenProperties
<1>4. 1 .. k \subseteq DOMAIN timers
  BY <1>1, <1>3
<1>5. IsInjective(w)
  BY <1>2, <1>3, <1>4 DEF IsInjective, OneEach
<1>6. ToSet(w) \subseteq SleepersOf(timers)
  <2>1. ASSUME NEW i \in 1 .. k
        PROVE  w[i] \in SleepersOf(timers)
    <3>1. i \in DOMAIN timers /\ w[i] = timers[i].pcb
      BY <1>2, <1>4
    <3> QED
      BY <3>1 DEF SleepersOf
  <2>2. ToSet(w) = {w[i] : i \in 1 .. k}
    BY <1>3 DEF ToSet
  <2> QED
    BY <2>1, <2>2
<1>7. \A i \in 1 .. Len(timers) - k : k + i \in DOMAIN timers /\ k + i \notin 1 .. k
  BY <1>1, <1>3
<1>8. SleepersOf(r) \subseteq SleepersOf(timers) \ ToSet(w)
  <2> SUFFICES ASSUME NEW i \in 1 .. Len(timers) - k
               PROVE  r[i].pcb \in SleepersOf(timers) /\ r[i].pcb \notin ToSet(w)
    BY <1>3 DEF SleepersOf
  <2>1. r[i].pcb = timers[k + i].pcb /\ k + i \in DOMAIN timers
    BY <1>2, <1>7
  <2>2. ASSUME NEW j \in 1 .. k
        PROVE  w[j] # timers[k + i].pcb
    <3>1. timers[j].pcb # timers[k + i].pcb
      BY <1>4, <1>7 DEF OneEach
    <3> QED
      BY <3>1, <1>2
  <2> QED
    BY <2>1, <2>2, <1>3 DEF SleepersOf, ToSet
<1>9. SleepersOf(timers) \ ToSet(w) \subseteq SleepersOf(r)
  <2> SUFFICES ASSUME NEW j \in DOMAIN timers, timers[j].pcb \notin ToSet(w)
               PROVE  timers[j].pcb \in SleepersOf(r)
    BY DEF SleepersOf
  <2>1. j \notin 1 .. k
    BY <1>2, <1>3 DEF ToSet
  <2>2. j - k \in 1 .. Len(timers) - k /\ k + (j - k) = j
    BY <2>1, <1>1, <1>3
  <2>3. r[j - k] = timers[j]
    BY <2>2, <1>2
  <2> QED
    BY <2>2, <2>3, <1>3 DEF SleepersOf
<1>10. OneEach(r)
  <2> SUFFICES ASSUME NEW i \in 1 .. Len(timers) - k, NEW j \in 1 .. Len(timers) - k,
                      r[i].pcb = r[j].pcb
               PROVE  i = j
    BY <1>3 DEF OneEach
  <2>1. k + i = k + j
    BY <1>2, <1>7 DEF OneEach
  <2> QED
    BY <2>1, <1>1
<1> QED
  BY <1>5, <1>6, <1>8, <1>9, <1>10 DEF w, r

\* List_insert on a list of timers.
LEMMA TimerInserted ==
    ASSUME NEW timers \in Seq(Timer), NEW k \in 0 .. Len(timers), NEW e \in Timer
    PROVE  /\ InsertAt(timers, k + 1, e) \in Seq(Timer)
           /\ Len(InsertAt(timers, k + 1, e)) = Len(timers) + 1
           /\ \A i \in 1 .. k : InsertAt(timers, k + 1, e)[i] = timers[i]
           /\ InsertAt(timers, k + 1, e)[k + 1] = e
           /\ \A i \in k + 2 .. Len(timers) + 1 :
                 InsertAt(timers, k + 1, e)[i] = timers[i - 1]
<1> DEFINE S == Timer
<1>1. timers \in Seq(S) /\ e \in S
  OBVIOUS
<1> HIDE DEF S
<1>2. InsertAt(timers, k + 1, e)[k + 1] = e
  BY <1>1, Inserted
<1>3. /\ InsertAt(timers, k + 1, e) \in Seq(S)
      /\ Len(InsertAt(timers, k + 1, e)) = Len(timers) + 1
      /\ \A i \in 1 .. k : InsertAt(timers, k + 1, e)[i] = timers[i]
      /\ \A i \in k + 2 .. Len(timers) + 1 :
            InsertAt(timers, k + 1, e)[i] = timers[i - 1]
  BY <1>1, Inserted
<1> QED
  BY <1>2, <1>3 DEF S

\* sleep adds one.
LEMMA AddedSleepers ==
    ASSUME NEW timers \in Seq(Timer), OneEach(timers),
           NEW left \in Int, NEW p \in PCB, p \notin SleepersOf(timers)
    PROVE  /\ SleepersOf(TimerList_add(timers, left, p)) = SleepersOf(timers) \union {p}
           /\ OneEach(TimerList_add(timers, left, p))
<1> DEFINE k == TimerPlace(timers, left)
           e == [pcb |-> p, left |-> left]
           t == InsertAt(timers, k + 1, e)
<1>1. k \in 0 .. Len(timers) /\ e \in Timer /\ e.pcb = p
  <2>1. k \in 0 .. Len(timers)
    BY TimerPlaceFound
  <2> QED
    BY <2>1 DEF Timer
<1>2. TimerList_add(timers, left, p) = t
  BY DEF TimerList_add
<1>3. Len(timers) \in Nat /\ DOMAIN timers = 1 .. Len(timers) /\ k \in Nat
  BY <1>1, LenProperties
<1> HIDE DEF k, e
<1>4. /\ t \in Seq(Timer) /\ Len(t) = Len(timers) + 1
      /\ \A i \in 1 .. k : t[i] = timers[i]
      /\ t[k + 1] = e
      /\ \A i \in k + 2 .. Len(timers) + 1 : t[i] = timers[i - 1]
  <2>1. k \in 0 .. Len(timers) /\ e \in Timer
    BY <1>1
  <2>2. /\ InsertAt(timers, k + 1, e) \in Seq(Timer)
        /\ Len(InsertAt(timers, k + 1, e)) = Len(timers) + 1
        /\ \A i \in 1 .. k : InsertAt(timers, k + 1, e)[i] = timers[i]
        /\ InsertAt(timers, k + 1, e)[k + 1] = e
        /\ \A i \in k + 2 .. Len(timers) + 1 :
              InsertAt(timers, k + 1, e)[i] = timers[i - 1]
    BY <2>1, TimerInserted, Zenon
  <2> QED
    BY <2>2
<1> HIDE DEF t
<1>5. DOMAIN t = 1 .. Len(timers) + 1
  BY <1>4, LenProperties
<1> DEFINE from(i) == IF i <= k THEN i ELSE i - 1
<1>6. ASSUME NEW i \in DOMAIN t, i # k + 1
      PROVE  from(i) \in DOMAIN timers /\ t[i] = timers[from(i)]
  <2>1. CASE i <= k
    BY <2>1, <1>1, <1>3, <1>4, <1>5
  <2>2. CASE ~(i <= k)
    <3>1. i \in k + 2 .. Len(timers) + 1 /\ i - 1 \in 1 .. Len(timers)
      BY <2>2, <1>1, <1>3, <1>5, <1>6
    <3> QED
      BY <3>1, <2>2, <1>3, <1>4
  <2> QED
    BY <2>1, <2>2
<1>7. \A i, j \in DOMAIN t : i # k + 1 /\ j # k + 1 /\ from(i) = from(j) => i = j
  BY <1>1, <1>3, <1>5
<1>8. ASSUME NEW j \in DOMAIN timers
      PROVE  \E i \in DOMAIN t : t[i] = timers[j]
  <2>1. CASE j <= k
    <3>1. j \in DOMAIN t /\ j \in 1 .. k
      BY <2>1, <1>3, <1>5
    <3> QED
      BY <3>1, <1>4
  <2>2. CASE ~(j <= k)
    <3>1. j + 1 \in DOMAIN t /\ j + 1 \in k + 2 .. Len(timers) + 1 /\ j + 1 - 1 = j
      BY <2>2, <1>3, <1>5
    <3> QED
      BY <3>1, <1>4
  <2> QED
    BY <2>1, <2>2
<1> HIDE DEF from
<1>9. k + 1 \in DOMAIN t
  BY <1>1, <1>3, <1>5
<1>10. SleepersOf(t) = SleepersOf(timers) \union {p}
  <2>1. SleepersOf(t) \subseteq SleepersOf(timers) \union {p}
    BY <1>1, <1>4, <1>6 DEF SleepersOf
  <2>2. SleepersOf(timers) \subseteq SleepersOf(t)
    BY <1>8 DEF SleepersOf
  <2>3. p \in SleepersOf(t)
    BY <1>1, <1>4, <1>9 DEF SleepersOf
  <2> QED
    BY <2>1, <2>2, <2>3
<1>11. OneEach(t)
  <2> SUFFICES ASSUME NEW i \in DOMAIN t, NEW j \in DOMAIN t, t[i].pcb = t[j].pcb
               PROVE  i = j
    BY DEF OneEach
  <2>1. \A m \in DOMAIN t : m # k + 1 => t[m].pcb # p
    BY <1>6 DEF SleepersOf
  <2>2. CASE i = k + 1 \/ j = k + 1
    BY <2>1, <2>2, <1>1, <1>4
  <2>3. CASE i # k + 1 /\ j # k + 1
    <3>1. timers[from(i)].pcb = timers[from(j)].pcb
      BY <2>3, <1>6
    <3>2. from(i) = from(j)
      BY <3>1, <2>3, <1>6 DEF OneEach
    <3> QED
      BY <3>2, <2>3, <1>7
  <2> QED
    BY <2>2, <2>3
<1> QED
  BY <1>2, <1>10, <1>11

-----------------------------------------------------------------------------
(* Steps *)

Kids(p) == ToSet(children[p])

\* The first process holds the first block, and all others are free.
LEMMA InitKeeps == KernelInit => KernelInv
<1> SUFFICES ASSUME KernelInit PROVE KernelInv
  OBVIOUS
<1>1. KernelTypeOK
  BY InitTyped
<1>2. /\ running = 1 /\ init_pcb = 1 /\ ready_list = <<>> /\ waiting_list = {} /\ zombie_list = {}
      /\ timer_list = <<>> /\ children = [p \in PCB |-> <<>>] /\ parent = [p \in PCB |-> NULL]
      /\ status = [p \in PCB |-> IF p = 1 THEN "Running" ELSE "Created"]
      /\ pcb_free = [i \in 1 .. MAX_NUM_PROCESSES - 1 |-> i + 1]
  BY DEF KernelInit
<1>3. PCB = 1 .. MAX_NUM_PROCESSES /\ MAX_NUM_PROCESSES \in Nat \ {0} /\ 1 \in PCB
  BY KernelAssumption DEF PCB
<1>4. ToSet(pcb_free) = PCB \ {1} /\ IsInjective(pcb_free)
  <2>1. DOMAIN pcb_free = 1 .. MAX_NUM_PROCESSES - 1
    BY <1>2
  <2>2. \A i \in DOMAIN pcb_free : pcb_free[i] = i + 1
    BY <1>2
  <2>3. ToSet(pcb_free) \subseteq PCB \ {1}
    BY <1>3, <2>1, <2>2 DEF ToSet
  <2>4. ASSUME NEW p \in PCB \ {1}
        PROVE  p \in ToSet(pcb_free)
    <3>1. p - 1 \in DOMAIN pcb_free /\ p - 1 + 1 = p
      BY <1>3, <2>1
    <3> QED
      BY <3>1, <2>2 DEF ToSet
  <2>5. IsInjective(pcb_free)
    BY <1>3, <2>1, <2>2 DEF IsInjective
  <2> QED
    BY <2>3, <2>4, <2>5
<1>5. ToSet(ready_list) = {} /\ IsInjective(ready_list) /\ Asleep = {} /\ DOMAIN timer_list = {}
  BY <1>2, NoneOnEmpty DEF Asleep
<1>6. Live = {1}
  BY <1>3, <1>4 DEF Live
<1>7. \A p \in PCB : children[p] = <<>> /\ Kids(p) = {} /\ IsInjective(children[p])
  BY <1>2, NoneOnEmpty DEF Kids
<1>8. OnePlace
  BY <1>2, <1>3, <1>4, <1>5 DEF OnePlace
<1>9. StatusTellsPlace /\ FreeBlocksIdle
  BY <1>2, <1>3, <1>4, <1>6 DEF StatusTellsPlace, FreeBlocksIdle
<1>10. FamilyTree
  BY <1>2, <1>7 DEF FamilyTree, Kids
<1>11. RootedTree /\ SoundCauses
  BY <1>2, <1>3, <1>5, <1>6 DEF RootedTree, SoundCauses
<1> QED
  BY <1>1, <1>8, <1>9, <1>10, <1>11 DEF KernelInv

\* Nothing of the invariant depends on the calls of those who do not wait.
LEMMA SameKeeps ==
    ASSUME KernelInv, KernelTypeOK',
           UNCHANGED <<running, init_pcb, pcb_free, status, parent, children, listVars>>,
           \A p \in waiting_list : call'[p] = call[p]
    PROVE  KernelInv'
<1>1. UNCHANGED <<running, init_pcb, pcb_free, status, parent, children,
                  ready_list, waiting_list, zombie_list, timer_list>>
  BY DEF listVars
<1>2. Asleep' = Asleep /\ Live' = Live
  BY <1>1 DEF Asleep, Live
<1>3. OnePlace' /\ StatusTellsPlace' /\ FreeBlocksIdle'
  BY <1>1, <1>2 DEF KernelInv, OnePlace, StatusTellsPlace, FreeBlocksIdle
<1>4. FamilyTree' /\ RootedTree'
  BY <1>1, <1>2 DEF KernelInv, FamilyTree, RootedTree
<1>5. SoundCauses'
  BY <1>1, <1>2 DEF KernelInv, SoundCauses
<1> QED
  BY <1>3, <1>4, <1>5 DEF KernelInv

\* A system that stops changes nothing but that.
LEMMA StopKeeps ==
    ASSUME KernelInv, NEW how \in {"halted", "deadlock", "crashed", "hung"}, Stop(how)
    PROVE  KernelInv'
<1>1. KernelTypeOK'
  BY StopTyped DEF KernelInv
<1> QED
  BY <1>1, SameKeeps DEF Stop, poolVars, pcbVars

\* Who runs is not waiting, so its calls are its own affair.
LEMMA TrapElsewhere ==
    ASSUME KernelInv, running \in PCB, NEW num, NEW arg, Trap(num, arg)
    PROVE  /\ \A p \in waiting_list : call'[p] = call[p]
           /\ \A p \in PCB : p # running => call'[p] = call[p]
           /\ call'[running] = [num |-> num, arg |-> arg]
  BY DEF KernelInv, KernelTypeOK, OnePlace, Trap

\* internal_schedule, after the tick or not: who wakes moves from waiting_list and
\* the timers to the ready list, and who ran goes behind it.
LEMMA ScheduleKeeps ==
    ASSUME KernelInv, KernelTypeOK', running \in PCB, NEW timers \in Seq(Timer),
           OneEach(timers), SleepersOf(timers) = Asleep, Schedule(timers),
           \A p \in waiting_list : call'[p] = call[p]
    PROVE  KernelInv'
<1> DEFINE w == Woken(timers)
           ready == AfterWakeUp(timers)
           awake == Awakened(timers)
           R == ToSet(ready_list)
<1>1. /\ w \in Seq(PCB) /\ IsInjective(w) /\ ToSet(w) \subseteq Asleep
      /\ SleepersOf(Pending(timers)) = Asleep \ ToSet(w) /\ OneEach(Pending(timers))
  BY WokenSleepers, WokenPending
<1>2. /\ waiting_list' = waiting_list \ ToSet(w)
      /\ timer_list' = Pending(timers)
      /\ UNCHANGED <<pcb_free, zombie_list, children, parent, init_pcb>>
  BY DEF Schedule, StillWaiting, poolVars
<1>3. Asleep' = Asleep \ ToSet(w) /\ OneEach(timer_list') /\ Live' = Live
  BY <1>1, <1>2 DEF Asleep, SleepersOf, Live
<1>4. /\ Asleep \subseteq waiting_list /\ ready_list \in Seq(PCB) /\ IsInjective(ready_list)
      /\ R \intersect waiting_list = {}
  BY DEF KernelInv, KernelTypeOK, SoundCauses, OnePlace
<1>5. ready \in Seq(PCB) /\ ToSet(ready) = ToSet(w) \union R /\ IsInjective(ready)
  <2>1. ToSet(w) \intersect R = {}
    BY <1>1, <1>4
  <2> QED
    BY <1>1, <1>4, <2>1, Joined DEF AfterWakeUp
<1>6. \A p \in PCB : /\ p \in ToSet(w) => awake[p] = "Ready"
                     /\ p \notin ToSet(w) => awake[p] = status[p]
  BY DEF Awakened
<1>7. \A p \in {running} \union R : p \in PCB /\ p \in Live /\ status[p] \notin {"Waiting", "Zombie"}
  <2>1. R \subseteq PCB
    BY <1>4, Places
  <2>2. \A p \in {running} \union R :
           p \notin waiting_list /\ p \notin zombie_list /\ p \notin ToSet(pcb_free)
    BY DEF KernelInv, OnePlace
  <2>3. \A p \in {running} \union R : p \in PCB /\ p \in Live
    BY <2>1, <2>2 DEF Live
  <2> QED
    BY <2>2, <2>3 DEF KernelInv, StatusTellsPlace
<1>8. running \notin ToSet(ready)
  BY <1>1, <1>4, <1>5 DEF KernelInv, OnePlace
<1> HIDE DEF w, ready, awake
<1>9. /\ running' \in PCB /\ ready_list' \in Seq(PCB) /\ IsInjective(ready_list')
      /\ {running'} \union ToSet(ready_list') = {running} \union ToSet(ready)
      /\ running' \notin ToSet(ready_list')
      /\ \A p \in {running} \union ToSet(ready) : status'[p] \notin {"Waiting", "Zombie"}
      /\ \A p \in PCB : p \notin {running} \union ToSet(ready) => status'[p] = status[p]
  <2>1. CASE ready = <<>>
    <3>1. status' = awake /\ running' = running /\ ready_list' = ready_list
      BY <2>1 DEF Schedule, ready, awake
    <3>2. ToSet(ready) = {} /\ ToSet(w) = {} /\ R = {}
      BY <2>1, <1>5, NoneOnEmpty
    <3> QED
      BY <3>1, <3>2, <1>4, <1>6, <1>7
  <2>2. CASE ready # <<>>
    <3> DEFINE h == Head(ready)
    <3>1. /\ running' = h /\ ready_list' = Append(Tail(ready), running)
          /\ status' = [awake EXCEPT ![running] = "Ready", ![h] = "Running"]
      BY <2>2 DEF Schedule, Requeued, ready, awake
    <3>2. /\ h \in PCB /\ Tail(ready) \in Seq(PCB) /\ h \in ToSet(ready)
          /\ ToSet(ready) = ToSet(Tail(ready)) \union {h}
          /\ IsInjective(Tail(ready)) /\ h \notin ToSet(Tail(ready))
      BY <2>2, <1>5, Detached
    <3> HIDE DEF h
    <3>3. /\ ready_list' \in Seq(PCB)
          /\ ToSet(ready_list') = ToSet(Tail(ready)) \union {running}
          /\ IsInjective(ready_list')
      <4>1. /\ Tail(ready) \in Seq(PCB) /\ IsInjective(Tail(ready))
            /\ running \in PCB /\ running \notin ToSet(Tail(ready))
        BY <3>2, <1>8
      <4>2. /\ Append(Tail(ready), running) \in Seq(PCB)
            /\ ToSet(Append(Tail(ready), running)) = ToSet(Tail(ready)) \union {running}
            /\ IsInjective(Append(Tail(ready), running))
        BY <4>1, Appended, Zenon
      <4> QED
        BY <4>2, <3>1
    <3>4. h # running
      BY <3>2, <1>8
    <3>5. \A p \in PCB : status'[p] = IF p = h THEN "Running" ELSE
                                      IF p = running THEN "Ready" ELSE awake[p]
      <4>1. awake = [p \in PCB |-> awake[p]]
        BY DEF Awakened, awake
      <4>2. status' = [awake EXCEPT ![running] = "Ready", ![h] = "Running"] /\ h \in PCB /\ h # running
        BY <3>1, <3>2, <3>4
      <4> QED
        BY <4>1, <4>2
    <3>6. ASSUME NEW p \in {running} \union ToSet(ready)
          PROVE  status'[p] \notin {"Waiting", "Zombie"}
      <4>1. p \in PCB
        BY <1>5, Places
      <4>2. status'[p] \in {"Running", "Ready", awake[p]}
        BY <4>1, <3>5
      <4>3. CASE p \in {running} \union R /\ p \notin ToSet(w)
        <5>1. awake[p] = status[p] /\ status[p] \notin {"Waiting", "Zombie"}
          BY <4>1, <4>3, <1>6, <1>7
        <5> QED
          BY <4>2, <5>1
      <4>4. CASE p \in ToSet(w)
        BY <4>1, <4>2, <4>4, <1>6
      <4> QED
        BY <4>3, <4>4, <1>5
    <3>7. \A p \in PCB : p \notin {running} \union ToSet(ready) => status'[p] = status[p]
      BY <3>2, <3>5, <1>5, <1>6
    <3> QED
      BY <3>1, <3>2, <3>3, <3>4, <3>6, <3>7
  <2> QED
    BY <2>1, <2>2
<1>10. OnePlace'
  BY <1>1, <1>2, <1>4, <1>5, <1>9 DEF KernelInv, OnePlace
<1>11. StatusTellsPlace' /\ FreeBlocksIdle'
  <2>1. StatusTellsPlace'
    <3> SUFFICES ASSUME NEW p \in Live
                 PROVE  /\ status'[p] = "Waiting" <=> p \in waiting_list'
                        /\ status'[p] = "Zombie" <=> p \in zombie_list'
      BY <1>3 DEF StatusTellsPlace
    <3>1. p \in PCB /\ (status[p] = "Waiting" <=> p \in waiting_list)
                    /\ (status[p] = "Zombie" <=> p \in zombie_list)
      BY DEF KernelInv, StatusTellsPlace, Live
    <3>2. CASE p \in {running} \union ToSet(ready)
      <4>1. p \notin waiting_list' /\ p \notin zombie_list'
        BY <3>2, <1>1, <1>2, <1>4, <1>5 DEF KernelInv, OnePlace
      <4> QED
        BY <4>1, <3>2, <1>9
    <3>3. CASE p \notin {running} \union ToSet(ready)
      BY <3>1, <3>3, <1>2, <1>5, <1>9
    <3> QED
      BY <3>2, <3>3
  <2>2. FreeBlocksIdle'
    <3> SUFFICES ASSUME NEW p \in ToSet(pcb_free)
                 PROVE  status'[p] # "Waiting"
      BY <1>2 DEF FreeBlocksIdle
    <3>1. p \in PCB /\ p \notin {running} \union ToSet(ready)
      BY <1>1, <1>4, <1>5, Places DEF KernelInv, OnePlace, KernelTypeOK
    <3> QED
      BY <3>1, <1>9 DEF KernelInv, FreeBlocksIdle
  <2> QED
    BY <2>1, <2>2
<1>12. FamilyTree' /\ RootedTree'
  BY <1>2, <1>3 DEF KernelInv, FamilyTree, RootedTree
<1>13. SoundCauses'
  <2>1. \A p \in waiting_list' : /\ call'[p].num = "sleep" => p \in Asleep'
                                 /\ call'[p].num = "wait" => children'[p] # <<>>
    BY <1>2, <1>3 DEF KernelInv, SoundCauses
  <2>2. \A p \in Asleep' : p \in waiting_list' /\ call'[p].num = "sleep"
    BY <1>2, <1>3 DEF KernelInv, SoundCauses
  <2> QED
    BY <1>3, <2>1, <2>2 DEF SoundCauses, OneEach
<1> QED
  BY <1>10, <1>11, <1>12, <1>13 DEF KernelInv

\* The timer interrupt, a fault of the host with nobody running included.
LEMMA TickKeeps ==
    ASSUME KernelInv, Tick
    PROVE  KernelInv'
<1>1. KernelTypeOK'
  BY TickTyped DEF KernelInv
<1>2. CASE running = NULL
  BY <1>2, StopKeeps DEF Tick, Crash
<1>3. CASE running # NULL
  <2>1. /\ running \in PCB /\ timer_list \in Seq(Timer) /\ OneEach(timer_list)
        /\ Asleep = SleepersOf(timer_list)
    BY <1>3 DEF KernelInv, KernelTypeOK, SoundCauses, OneEach, Asleep, SleepersOf
  <2>2. /\ Aged(timer_list) \in Seq(Timer) /\ OneEach(Aged(timer_list))
        /\ SleepersOf(Aged(timer_list)) = Asleep
    BY <2>1, AgedTyped, AgedSleepers
  <2>3. Schedule(Aged(timer_list)) /\ \A p \in waiting_list : call'[p] = call[p]
    BY <1>3 DEF Tick
  <2> QED
    BY <1>1, <2>1, <2>2, <2>3, ScheduleKeeps
<1> QED
  BY <1>2, <1>3

\* preempt schedules with the timers as they are.
LEMMA PreemptKeeps ==
    ASSUME KernelInv, Preempt
    PROVE  KernelInv'
<1>1. KernelTypeOK' /\ running \in PCB
  BY PreemptTyped, UserRuns DEF KernelInv, Preempt
<1>2. /\ timer_list \in Seq(Timer) /\ OneEach(timer_list) /\ SleepersOf(timer_list) = Asleep
  BY DEF KernelInv, KernelTypeOK, SoundCauses, OneEach, Asleep, SleepersOf
<1>3. Schedule(timer_list) /\ \A p \in waiting_list : call'[p] = call[p]
  BY <1>1, TrapElsewhere DEF Preempt
<1> QED
  BY <1>1, <1>2, <1>3, ScheduleKeeps

\* The caller is back in user code; those who wait keep their calls.
LEMMA ReturnKeeps ==
    ASSUME KernelInv, Return
    PROVE  KernelInv'
<1>1. KernelTypeOK'
  BY ReturnTyped DEF KernelInv
<1>2. \A p \in waiting_list : call'[p] = call[p]
  BY DEF Return, KernelInv, KernelTypeOK, OnePlace
<1> QED
  BY <1>1, <1>2, SameKeeps DEF Return, poolVars, pcbVars

\* The next block of the pool: nobody's child, and without children.
LEMMA FreshBlock ==
    ASSUME KernelInv, pcb_free # <<>>
    PROVE  LET new == Head(pcb_free)
           IN /\ new \in PCB /\ new # running
              /\ new \notin ToSet(ready_list) \union waiting_list \union zombie_list
              /\ IsInjective(Tail(pcb_free))
              /\ new \notin ToSet(Tail(pcb_free))
              /\ ToSet(pcb_free) = ToSet(Tail(pcb_free)) \union {new}
              /\ PCB \ ToSet(Tail(pcb_free)) = Live \union {new}
              /\ new \notin Live
              /\ children[new] = <<>>
              /\ \A q \in PCB : new \notin ToSet(children[q])
<1> DEFINE new == Head(pcb_free)
<1>1. /\ new \in PCB /\ new \in ToSet(pcb_free)
      /\ ToSet(pcb_free) = ToSet(Tail(pcb_free)) \union {new}
      /\ IsInjective(Tail(pcb_free)) /\ new \notin ToSet(Tail(pcb_free))
  BY Detached DEF KernelInv, KernelTypeOK, OnePlace
<1> HIDE DEF new
<1>2. new # running /\ new \notin ToSet(ready_list) \union waiting_list \union zombie_list
  BY <1>1 DEF KernelInv, OnePlace
<1>3. new \notin Live /\ PCB \ ToSet(Tail(pcb_free)) = Live \union {new}
  BY <1>1 DEF Live
<1>4. children[new] = <<>> /\ \A q \in PCB : new \notin ToSet(children[q])
  BY <1>1, <1>3 DEF KernelInv, FamilyTree
<1> QED
  BY <1>1, <1>2, <1>3, <1>4 DEF new

\* disastrOS_start over the old lists: the first free block is the new init.
LEMMA RestartKeeps ==
    ASSUME KernelInv, Restart
    PROVE  KernelInv'
<1>1. KernelTypeOK'
  BY RestartTyped DEF KernelInv
<1>2. CASE pcb_free = <<>>
  BY <1>2, StopKeeps DEF Restart, Crash
<1>3. CASE pcb_free # <<>>
  <2> DEFINE new == Head(pcb_free)
  <2>1. /\ new \in PCB /\ new # running
        /\ new \notin ToSet(ready_list) \union waiting_list \union zombie_list
        /\ IsInjective(Tail(pcb_free))
        /\ new \notin ToSet(Tail(pcb_free))
        /\ ToSet(pcb_free) = ToSet(Tail(pcb_free)) \union {new}
        /\ PCB \ ToSet(Tail(pcb_free)) = Live \union {new}
        /\ new \notin Live
        /\ children[new] = <<>>
        /\ \A q \in PCB : new \notin ToSet(children[q])
    BY <1>3, FreshBlock
  <2>2. /\ running = NULL /\ pcb_free' = Tail(pcb_free)
        /\ status' = [status EXCEPT ![new] = "Running"]
        /\ parent' = [parent EXCEPT ![new] = NULL]
        /\ children' = [children EXCEPT ![new] = <<>>]
        /\ call' = [call EXCEPT ![new] = NoCall]
        /\ running' = new /\ init_pcb' = new
        /\ UNCHANGED <<ready_list, waiting_list, zombie_list, timer_list>>
    BY <1>3 DEF Restart, Alloc, listVars
  <2> HIDE DEF new
  <2>3. Live' = Live \union {new} /\ Asleep' = Asleep
    BY <2>1, <2>2 DEF Live, Asleep
  <2>4. children' = children
    BY <2>1, <2>2 DEF KernelInv, KernelTypeOK
  <2>5. \A p \in PCB : p # new => /\ status'[p] = status[p] /\ parent'[p] = parent[p]
                                  /\ call'[p] = call[p]
    BY <2>1, <2>2 DEF KernelInv, KernelTypeOK
  <2>6. status'[new] = "Running" /\ parent'[new] = NULL
    BY <2>1, <2>2 DEF KernelInv, KernelTypeOK
  <2>7. OnePlace'
    <3>1. NULL \notin PCB
      BY KernelAssumption DEF PCB, NULL
    <3>2. PCB = ToSet(ready_list) \union waiting_list \union zombie_list \union ToSet(pcb_free)
      BY <2>2, <3>1 DEF KernelInv, OnePlace
    <3>3. PCB = {new} \union ToSet(ready_list) \union waiting_list \union zombie_list
                     \union ToSet(Tail(pcb_free))
      BY <2>1, <3>2
    <3> QED
      BY <2>1, <2>2, <3>3 DEF KernelInv, OnePlace
  <2>8. StatusTellsPlace'
    BY <2>1, <2>2, <2>3, <2>5, <2>6 DEF KernelInv, StatusTellsPlace, Live
  <2>9. FreeBlocksIdle'
    <3>1. ToSet(pcb_free) \subseteq PCB
      BY Places DEF KernelInv, KernelTypeOK
    <3> QED
      BY <3>1, <2>1, <2>2, <2>5 DEF KernelInv, FreeBlocksIdle
  <2>10. FamilyTree'
    BY <2>1, <2>2, <2>3, <2>4 DEF KernelInv, FamilyTree
  <2>11. RootedTree'
    BY <2>1, <2>2, <2>3, <2>4, <2>5, <2>6 DEF KernelInv, RootedTree, Live
  <2>12. SoundCauses'
    <3>1. \A p \in waiting_list : p \in PCB /\ p # new
      BY <2>1 DEF KernelInv, KernelTypeOK
    <3>2. \A p \in waiting_list : call'[p] = call[p]
      BY <3>1, <2>5
    <3> QED
      BY <3>2, <2>2, <2>3, <2>4 DEF KernelInv, SoundCauses
  <2> QED
    BY <1>1, <2>7, <2>8, <2>9, <2>10, <2>11, <2>12 DEF KernelInv
<1> QED
  BY <1>2, <1>3

\* spawn: a free block becomes ready and the last child of its parent.
LEMMA SpawnKeeps ==
    ASSUME KernelInv, Spawn
    PROVE  KernelInv'
<1>1. KernelTypeOK' /\ running \in PCB
  BY SpawnTyped, UserRuns DEF KernelInv, Spawn
<1>2. CASE NoBlockLeft
  BY <1>2, StopKeeps DEF Spawn, Crash
<1>3. CASE ~NoBlockLeft
  <2> DEFINE new == Head(pcb_free)
  <2>1. /\ new \in PCB /\ new # running
        /\ new \notin ToSet(ready_list) \union waiting_list \union zombie_list
        /\ IsInjective(Tail(pcb_free))
        /\ new \notin ToSet(Tail(pcb_free))
        /\ ToSet(pcb_free) = ToSet(Tail(pcb_free)) \union {new}
        /\ PCB \ ToSet(Tail(pcb_free)) = Live \union {new}
        /\ new \notin Live
        /\ children[new] = <<>>
        /\ \A q \in PCB : new \notin ToSet(children[q])
    BY <1>3, FreshBlock DEF NoBlockLeft
  <2>2. /\ pcb_free' = Tail(pcb_free)
        /\ status' = [status EXCEPT ![new] = "Ready"]
        /\ parent' = [parent EXCEPT ![new] = running]
        /\ children' = [children EXCEPT ![running] = Append(@, new), ![new] = <<>>]
        /\ call' = [call EXCEPT ![running] = [num |-> "spawn", arg |-> 0], ![new] = NoCall]
        /\ ready_list' = Append(ready_list, new)
        /\ UNCHANGED <<running, init_pcb, waiting_list, zombie_list, timer_list>>
    BY <1>3 DEF Spawn, Alloc
  <2> HIDE DEF new
  <2>3. Live' = Live \union {new} /\ Asleep' = Asleep
    BY <2>1, <2>2 DEF Live, Asleep
  <2>4. /\ \A p \in PCB : p # new => status'[p] = status[p] /\ parent'[p] = parent[p]
        /\ \A p \in PCB : p # new /\ p # running => call'[p] = call[p]
        /\ \A p \in PCB : p # running => children'[p] = children[p]
        /\ children'[running] = Append(children[running], new)
        /\ status'[new] = "Ready"
    <3>1. /\ status \in [PCB -> Statuses] /\ parent \in [PCB -> PCB \union {NULL}]
          /\ call \in [PCB -> CallRecord] /\ children \in [PCB -> Seq(PCB)]
      BY DEF KernelInv, KernelTypeOK
    <3>2. status' = [status EXCEPT ![new] = "Ready"] /\ parent' = [parent EXCEPT ![new] = running]
      BY <2>2
    <3>3. \A p \in PCB : p # new => status'[p] = status[p]
      BY <3>1, <3>2
    <3>4. \A p \in PCB : p # new => parent'[p] = parent[p]
      BY <3>1, <3>2
    <3>5. status'[new] = "Ready"
      BY <2>1, <3>1, <3>2
    <3>6. \A p \in PCB : p # new /\ p # running => call'[p] = call[p]
      <4>1. call' = [call EXCEPT ![running] = [num |-> "spawn", arg |-> 0], ![new] = NoCall]
        BY <2>2
      <4> QED
        BY <3>1, <4>1
    <3>7. /\ \A p \in PCB : p # new /\ p # running => children'[p] = children[p]
          /\ children'[new] = <<>>
          /\ children'[running] = Append(children[running], new)
      <4>1. children' = [children EXCEPT ![running] = Append(@, new), ![new] = <<>>]
        BY <2>2
      <4> QED
        BY <1>1, <2>1, <3>1, <4>1
    <3>8. \A p \in PCB : p # running => children'[p] = children[p]
      BY <2>1, <3>7
    <3> QED
      BY <3>3, <3>4, <3>5, <3>6, <3>7, <3>8
  <2>5. /\ ToSet(children'[running]) = ToSet(children[running]) \union {new}
        /\ IsInjective(children'[running])
    <3>1. /\ children[running] \in Seq(PCB) /\ IsInjective(children[running])
          /\ new \notin ToSet(children[running])
      BY <1>1, <2>1 DEF KernelInv, KernelTypeOK, FamilyTree
    <3>2. /\ ToSet(Append(children[running], new)) = ToSet(children[running]) \union {new}
          /\ IsInjective(Append(children[running], new))
      BY <3>1, <2>1, Appended
    <3> QED
      BY <3>2, <2>4
  <2>6. /\ ToSet(ready_list') = ToSet(ready_list) \union {new} /\ IsInjective(ready_list')
    <3>1. ready_list \in Seq(PCB) /\ IsInjective(ready_list) /\ new \notin ToSet(ready_list)
      BY <2>1 DEF KernelInv, KernelTypeOK, OnePlace
    <3>2. /\ ToSet(Append(ready_list, new)) = ToSet(ready_list) \union {new}
          /\ IsInjective(Append(ready_list, new))
      BY <3>1, <2>1, Appended
    <3> QED
      BY <3>2, <2>2
  <2>7. OnePlace'
    BY <2>1, <2>2, <2>6 DEF KernelInv, OnePlace
  <2>8. StatusTellsPlace'
    BY <2>1, <2>2, <2>3, <2>4 DEF KernelInv, StatusTellsPlace, Live
  <2>9. FreeBlocksIdle'
    <3>1. ToSet(pcb_free) \subseteq PCB
      BY Places DEF KernelInv, KernelTypeOK
    <3> QED
      BY <3>1, <2>1, <2>2, <2>4 DEF KernelInv, FreeBlocksIdle
  <2>10. running \in Live \ zombie_list
    BY <1>1 DEF KernelInv, OnePlace, Live
  <2>11. FamilyTree'
    <3>1. \A p \in PCB : IsInjective(children'[p])
      BY <2>4, <2>5 DEF KernelInv, FamilyTree
    <3>2. \A p, q \in PCB : p # q => ToSet(children'[p]) \intersect ToSet(children'[q]) = {}
      <4> SUFFICES ASSUME NEW p \in PCB, NEW q \in PCB, p # q
                   PROVE  ToSet(children'[p]) \intersect ToSet(children'[q]) = {}
        OBVIOUS
      <4>1. /\ ToSet(children[p]) \intersect ToSet(children[q]) = {}
            /\ new \notin ToSet(children[p]) /\ new \notin ToSet(children[q])
        BY <2>1 DEF KernelInv, FamilyTree
      <4>2. CASE p = running
        BY <4>1, <4>2, <2>4, <2>5
      <4>3. CASE q = running
        BY <4>1, <4>3, <2>4, <2>5
      <4>4. CASE p # running /\ q # running
        BY <4>1, <4>4, <2>4
      <4> QED
        BY <4>2, <4>3, <4>4
    <3>3. \A p \in PCB : children'[p] # <<>> => p \in Live' \ zombie_list'
      BY <2>2, <2>3, <2>4, <2>10 DEF KernelInv, FamilyTree
    <3>4. \A p \in PCB : ToSet(children'[p]) \subseteq Live'
      BY <2>3, <2>4, <2>5 DEF KernelInv, FamilyTree
    <3>5. \A z \in zombie_list' : \E p \in PCB : z \in ToSet(children'[p])
      BY <2>2, <2>4, <2>5 DEF KernelInv, FamilyTree
    <3> QED
      BY <3>1, <3>2, <3>3, <3>4, <3>5 DEF FamilyTree
  <2>12. RootedTree'
    <3>1. \A p \in Live' : parent'[p] # NULL => \E q \in PCB : p \in ToSet(children'[q])
      <4> SUFFICES ASSUME NEW p \in Live', parent'[p] # NULL
                   PROVE  \E q \in PCB : p \in ToSet(children'[q])
        OBVIOUS
      <4>1. CASE p = new
        BY <4>1, <1>1, <2>5
      <4>2. CASE p # new
        <5>1. p \in Live /\ parent[p] # NULL
          BY <4>2, <2>3, <2>4 DEF Live
        <5>2. PICK q \in PCB : p \in ToSet(children[q])
          BY <5>1 DEF KernelInv, RootedTree
        <5> QED
          BY <5>2, <2>4, <2>5
      <4> QED
        BY <4>1, <4>2
    <3>2. init_pcb' \in Live' \ zombie_list' /\ parent'[init_pcb'] = NULL
      BY <2>1, <2>2, <2>3, <2>4 DEF KernelInv, RootedTree, Live
    <3> QED
      BY <3>1, <3>2 DEF RootedTree
  <2>13. SoundCauses'
    <3>1. \A p \in waiting_list : p \in PCB /\ p # new /\ p # running
      BY <2>1 DEF KernelInv, KernelTypeOK, OnePlace
    <3>2. \A p \in waiting_list : call'[p] = call[p] /\ children'[p] = children[p]
      BY <3>1, <2>4
    <3> QED
      BY <3>2, <2>2, <2>3 DEF KernelInv, SoundCauses
  <2> QED
    BY <1>1, <2>7, <2>8, <2>9, <2>11, <2>12, <2>13 DEF KernelInv
<1> QED
  BY <1>2, <1>3

\* The process that runs is none of those on a list.
LEMMA RunningElsewhere ==
    ASSUME KernelInv, running \in PCB
    PROVE  /\ running \notin ToSet(ready_list) \union waiting_list \union zombie_list
           /\ running \notin ToSet(pcb_free)
           /\ running \in Live /\ running \notin Asleep
           /\ status[running] # "Waiting" /\ status[running] # "Zombie"
  BY DEF KernelInv, OnePlace, StatusTellsPlace, SoundCauses, Live

\* The first of the ready list takes over from one that does not go there.
LEMMA NextReadyPlaces ==
    ASSUME KernelInv, running \in PCB, ready_list # <<>>, NextReady
    PROVE  /\ running' \in ToSet(ready_list) /\ IsInjective(ready_list')
           /\ ToSet(ready_list) = ToSet(ready_list') \union {running'}
           /\ running' \notin ToSet(ready_list')
           /\ running' \in PCB /\ running' # running
           /\ running' \notin waiting_list /\ running' \notin zombie_list
           /\ running' \notin ToSet(pcb_free)
<1>1. /\ running' \in ToSet(ready_list) /\ running' \in PCB
      /\ IsInjective(ready_list')
      /\ ToSet(ready_list) = ToSet(ready_list') \union {running'}
      /\ running' \notin ToSet(ready_list')
  BY Detached DEF NextReady, KernelInv, KernelTypeOK, OnePlace
<1> QED
  BY <1>1 DEF KernelInv, OnePlace

\* sleep, with a free timer or none, with somebody ready or nobody.
LEMMA SleepKeeps ==
    ASSUME KernelInv, NEW cycles \in SleepTimes, Sleep(cycles)
    PROVE  KernelInv'
<1>1. KernelTypeOK' /\ running \in PCB /\ cycles \in Int
  BY SleepTyped, UserRuns, KernelAssumption DEF KernelInv, Sleep
<1>2. /\ \A p \in waiting_list : call'[p] = call[p]
      /\ \A p \in PCB : p # running => call'[p] = call[p]
      /\ call'[running] = [num |-> "sleep", arg |-> cycles]
  BY <1>1, TrapElsewhere DEF Sleep
<1>3. CASE Len(timer_list) = MAX_NUM_PROCESSES
  BY <1>1, <1>2, <1>3, SameKeeps DEF Sleep, listVars, poolVars
<1>4. CASE Len(timer_list) # MAX_NUM_PROCESSES
  <2>1. /\ timer_list' = TimerList_add(timer_list, cycles, running)
        /\ status' = [status EXCEPT ![running] = "Waiting"]
        /\ waiting_list' = waiting_list \union {running}
        /\ IF ready_list # <<>> THEN NextReady
                                ELSE running' = NULL /\ ready_list' = ready_list
        /\ UNCHANGED <<init_pcb, pcb_free, parent, children, zombie_list>>
    BY <1>4 DEF Sleep, poolVars
  <2>2. Live' = Live
    BY <2>1 DEF Live
  <2>3. Asleep' = Asleep \union {running} /\ OneEach(timer_list')
    <3>1. timer_list \in Seq(Timer) /\ OneEach(timer_list) /\ Asleep = SleepersOf(timer_list)
      BY DEF KernelInv, KernelTypeOK, SoundCauses, OneEach, Asleep, SleepersOf
    <3>2. running \notin SleepersOf(timer_list)
      BY <1>1, <3>1, RunningElsewhere
    <3>3. SleepersOf(timer_list') = Asleep \union {running} /\ OneEach(timer_list')
      BY <1>1, <2>1, <3>1, <3>2, AddedSleepers
    <3> QED
      BY <3>3 DEF Asleep, SleepersOf
  <2>4. /\ \A p \in PCB : p # running => status'[p] = status[p]
        /\ status'[running] = "Waiting"
    BY <1>1, <2>1 DEF KernelInv, KernelTypeOK
  <2>5. OnePlace'
    <3>1. CASE ready_list # <<>>
      <4>1. NextReady
        BY <2>1, <3>1
      <4> QED
        BY <1>1, <2>1, <3>1, <4>1, NextReadyPlaces DEF KernelInv, OnePlace
    <3>2. CASE ready_list = <<>>
      <4>1. running' = NULL /\ ready_list' = ready_list
        BY <2>1, <3>2
      <4>2. NULL \notin PCB
        BY KernelAssumption DEF PCB, NULL
      <4>3. /\ ToSet(ready_list) \subseteq PCB /\ waiting_list \subseteq PCB
            /\ zombie_list \subseteq PCB /\ ToSet(pcb_free) \subseteq PCB
        BY Places DEF KernelInv, KernelTypeOK
      <4>4. PCB = {running} \union ToSet(ready_list) \union waiting_list \union zombie_list
                            \union ToSet(pcb_free)
        BY <1>1 DEF KernelInv, OnePlace
      <4> QED
        BY <1>1, <2>1, <4>1, <4>2, <4>3, <4>4 DEF KernelInv, OnePlace
    <3> QED
      BY <3>1, <3>2
  <2>6. StatusTellsPlace'
    <3> SUFFICES ASSUME NEW p \in Live
                 PROVE  /\ status'[p] = "Waiting" <=> p \in waiting_list'
                        /\ status'[p] = "Zombie" <=> p \in zombie_list'
      BY <2>2 DEF StatusTellsPlace
    <3>1. p \in PCB /\ (status[p] = "Waiting" <=> p \in waiting_list)
                    /\ (status[p] = "Zombie" <=> p \in zombie_list)
      BY DEF KernelInv, StatusTellsPlace, Live
    <3>2. running \notin zombie_list
      BY <1>1, RunningElsewhere
    <3> QED
      BY <2>1, <2>4, <3>1, <3>2
  <2>7. FreeBlocksIdle'
    <3>1. ToSet(pcb_free) \subseteq PCB /\ running \notin ToSet(pcb_free)
      BY <1>1, RunningElsewhere, Places DEF KernelInv, KernelTypeOK
    <3> QED
      BY <3>1, <2>1, <2>4 DEF KernelInv, FreeBlocksIdle
  <2>8. FamilyTree' /\ RootedTree'
    BY <2>1, <2>2 DEF KernelInv, FamilyTree, RootedTree
  <2>9. SoundCauses'
    <3>1. \A p \in waiting_list' : /\ call'[p].num = "sleep" => p \in Asleep'
                                   /\ call'[p].num = "wait" => children'[p] # <<>>
      BY <1>2, <2>1, <2>3 DEF KernelInv, SoundCauses
    <3>2. \A p \in Asleep' : p \in waiting_list' /\ call'[p].num = "sleep"
      BY <1>2, <2>1, <2>3 DEF KernelInv, SoundCauses
    <3> QED
      BY <2>3, <3>1, <3>2 DEF SoundCauses, OneEach
  <2> QED
    BY <1>1, <2>5, <2>6, <2>7, <2>8, <2>9 DEF KernelInv
<1> QED
  BY <1>3, <1>4

\* wait reaps a zombie: its block is a live one, and it has no children.
LEMMA ReapKeeps ==
    ASSUME KernelInv, KernelTypeOK', running \in PCB, NEW i \in DOMAIN children[running],
           status[children[running][i]] = "Zombie", Reap(i),
           \A p \in waiting_list : call'[p] = call[p],
           UNCHANGED <<init_pcb, parent, timer_list>>
    PROVE  KernelInv'
<1> DEFINE child == children[running][i]
           kids == children[running]
<1>1. kids \in Seq(PCB) /\ IsInjective(kids)
  BY DEF KernelInv, KernelTypeOK, FamilyTree
<1>2. child \in PCB /\ child \in ToSet(kids) /\ child \in Live
  BY <1>1, LenProperties DEF KernelInv, FamilyTree, ToSet
<1>3. /\ child \in zombie_list /\ child # running
      /\ child \notin waiting_list /\ child \notin ToSet(ready_list)
      /\ child \notin ToSet(pcb_free)
  BY <1>2, RunningElsewhere DEF KernelInv, OnePlace, StatusTellsPlace, Live
<1>4. children[child] = <<>> /\ child # init_pcb
  BY <1>2, <1>3 DEF KernelInv, FamilyTree, RootedTree
<1>5. ToSet(RemoveAt(kids, i)) = ToSet(kids) \ {child} /\ IsInjective(RemoveAt(kids, i))
  BY <1>1, RemovedSet
<1>6. /\ children' = [children EXCEPT ![running] = RemoveAt(kids, i)]
      /\ zombie_list' = zombie_list \ {child}
      /\ pcb_free' = <<child>> \o pcb_free
      /\ UNCHANGED <<running, status, ready_list, waiting_list>>
  BY DEF Reap, Freed
<1> HIDE DEF child
<1>7. ToSet(pcb_free') = ToSet(pcb_free) \union {child} /\ IsInjective(pcb_free')
  <2>1. pcb_free \in Seq(PCB) /\ IsInjective(pcb_free) /\ child \in PCB /\ child \notin ToSet(pcb_free)
    BY <1>2, <1>3 DEF KernelInv, KernelTypeOK, OnePlace
  <2>2. /\ ToSet(<<child>> \o pcb_free) = ToSet(pcb_free) \union {child}
        /\ IsInjective(<<child>> \o pcb_free)
    BY <2>1, PutInFront
  <2> QED
    BY <2>2, <1>6
<1>8. Live' = Live \ {child} /\ Asleep' = Asleep
  BY <1>7 DEF Live, Asleep
<1>9. /\ \A p \in PCB : p # running => children'[p] = children[p]
      /\ children'[running] = RemoveAt(kids, i)
  BY <1>6 DEF KernelInv, KernelTypeOK
<1> HIDE DEF kids
<1>10. \A p \in PCB : /\ ToSet(children'[p]) = ToSet(children[p]) \ {child}
                      /\ IsInjective(children'[p])
  <2>1. /\ ToSet(children'[running]) = ToSet(children[running]) \ {child}
        /\ IsInjective(children'[running])
    BY <1>5, <1>9 DEF kids
  <2>2. ASSUME NEW p \in PCB, p # running
        PROVE  /\ ToSet(children'[p]) = ToSet(children[p]) \ {child}
               /\ IsInjective(children'[p])
    <3>1. child \notin ToSet(children[p]) /\ IsInjective(children[p])
      BY <1>2, <2>2 DEF KernelInv, FamilyTree, kids
    <3> QED
      BY <3>1, <2>2, <1>9
  <2> QED
    BY <2>1, <2>2
<1>11. OnePlace'
  BY <1>2, <1>3, <1>6, <1>7 DEF KernelInv, OnePlace
<1>12. StatusTellsPlace' /\ FreeBlocksIdle'
  <2>1. status[child] # "Waiting"
    BY DEF child
  <2> QED
    BY <2>1, <1>6, <1>7, <1>8 DEF KernelInv, StatusTellsPlace, FreeBlocksIdle
<1>13. FamilyTree'
  <2>1. \A p \in PCB : IsInjective(children'[p])
    BY <1>10
  <2>2. \A p, q \in PCB : p # q => ToSet(children'[p]) \intersect ToSet(children'[q]) = {}
    BY <1>10 DEF KernelInv, FamilyTree
  <2>3. \A p \in PCB : children'[p] # <<>> => p \in Live' \ zombie_list'
    <3>1. \A p \in PCB : children[p] # <<>> => p \in Live \ zombie_list /\ p # child
      BY <1>4 DEF KernelInv, FamilyTree
    <3>2. running \in Live' \ zombie_list'
      BY <1>3, <1>6, <1>8, RunningElsewhere
    <3> QED
      BY <1>6, <1>8, <1>9, <3>1, <3>2
  <2>4. \A p \in PCB : ToSet(children'[p]) \subseteq Live'
    BY <1>8, <1>10 DEF KernelInv, FamilyTree
  <2>5. \A z \in zombie_list' : \E p \in PCB : z \in ToSet(children'[p])
    BY <1>6, <1>10 DEF KernelInv, FamilyTree
  <2> QED
    BY <2>1, <2>2, <2>3, <2>4, <2>5 DEF FamilyTree
<1>14. RootedTree'
  BY <1>4, <1>6, <1>8, <1>10 DEF KernelInv, RootedTree, Live
<1>15. SoundCauses'
  <2>1. \A p \in waiting_list : p \in PCB /\ p # running
    BY RunningElsewhere DEF KernelInv, KernelTypeOK
  <2> QED
    BY <2>1, <1>6, <1>8, <1>9 DEF KernelInv, SoundCauses
<1> QED
  BY <1>11, <1>12, <1>13, <1>14, <1>15 DEF KernelInv

\* A caller that is added to those who wait, in wait without a zombie or in a call
\* of the modules over the kernel.
LEMMA BlockedKeeps ==
    ASSUME KernelInv, KernelTypeOK', running \in PCB, ready_list # <<>>, NextReady,
           status' = [status EXCEPT ![running] = "Waiting"],
           waiting_list' = waiting_list \union {running},
           UNCHANGED <<init_pcb, pcb_free, parent, children, zombie_list, timer_list>>,
           \A p \in waiting_list : call'[p] = call[p],
           call'[running].num # "sleep",
           call'[running].num = "wait" => children[running] # <<>>
    PROVE  KernelInv'
<1>1. /\ status' = [status EXCEPT ![running] = "Waiting"]
      /\ waiting_list' = waiting_list \union {running}
      /\ NextReady
      /\ UNCHANGED <<children, zombie_list, pcb_free>>
  OBVIOUS
<1>2. Live' = Live /\ Asleep' = Asleep
  BY <1>1 DEF Live, Asleep
<1>3. /\ \A p \in PCB : p # running => status'[p] = status[p]
      /\ status'[running] = "Waiting"
  BY <1>1 DEF KernelInv, KernelTypeOK
<1>4. OnePlace'
  BY <1>1, NextReadyPlaces DEF KernelInv, OnePlace
<1>5. StatusTellsPlace'
  <2> SUFFICES ASSUME NEW p \in Live
               PROVE  /\ status'[p] = "Waiting" <=> p \in waiting_list'
                      /\ status'[p] = "Zombie" <=> p \in zombie_list'
    BY <1>2 DEF StatusTellsPlace
  <2>1. p \in PCB /\ (status[p] = "Waiting" <=> p \in waiting_list)
                  /\ (status[p] = "Zombie" <=> p \in zombie_list)
    BY DEF KernelInv, StatusTellsPlace, Live
  <2>2. running \notin zombie_list
    BY RunningElsewhere
  <2> QED
    BY <1>1, <1>3, <2>1, <2>2
<1>6. FreeBlocksIdle'
  <2>1. ToSet(pcb_free) \subseteq PCB /\ running \notin ToSet(pcb_free)
    BY RunningElsewhere, Places DEF KernelInv, KernelTypeOK
  <2> QED
    BY <2>1, <1>1, <1>3 DEF KernelInv, FreeBlocksIdle
<1>7. FamilyTree' /\ RootedTree'
  BY <1>1, <1>2 DEF KernelInv, FamilyTree, RootedTree
<1>8. SoundCauses'
  BY <1>1, <1>2 DEF KernelInv, SoundCauses
<1> QED
  BY <1>4, <1>5, <1>6, <1>7, <1>8 DEF KernelInv

\* wait without children, with a zombie, with none, and without anyone ready.
LEMMA WaitKeeps ==
    ASSUME KernelInv, NEW arg \in WaitArgs, Wait(arg)
    PROVE  KernelInv'
<1> DEFINE kids == children[running]
           reapable == kids # <<>> /\ status[kids[AwaitedPlace(arg)]] = "Zombie"
<1>1. KernelTypeOK' /\ running \in PCB
  BY WaitTyped, UserRuns DEF KernelInv, Wait
<1>2. CASE kids # <<>> /\ ~reapable /\ ready_list = <<>>
  BY <1>2, StopKeeps DEF Wait, Crash
<1>3. CASE ~(kids # <<>> /\ ~reapable /\ ready_list = <<>>)
  <2>1. /\ Trap("wait", arg)
        /\ UNCHANGED <<init_pcb, last_pid, pid, parent, signals, timer_list>>
    BY <1>3 DEF Wait
  <2>2. /\ \A p \in waiting_list : call'[p] = call[p]
        /\ call'[running].num = "wait"
    <3>1. /\ \A p \in waiting_list : call'[p] = call[p]
          /\ call'[running] = [num |-> "wait", arg |-> arg]
      BY <1>1, <2>1, TrapElsewhere
    <3> QED
      BY <3>1
  <2>3. CASE kids = <<>>
    <3>1. NoChildren
      BY <1>3, <2>3 DEF Wait
    <3> QED
      BY <1>1, <2>1, <2>2, <3>1, SameKeeps DEF NoChildren, poolVars, listVars
  <2>4. CASE kids # <<>> /\ reapable
    <3>1. Reap(AwaitedPlace(arg))
      BY <1>3, <2>4 DEF Wait
    <3>2. AwaitedPlace(arg) \in DOMAIN children[running]
      BY <1>1, <2>4, AwaitedPlaceFound DEF KernelInv, KernelTypeOK
    <3> QED
      BY <1>1, <2>1, <2>2, <2>4, <3>1, <3>2, ReapKeeps
  <2>5. CASE kids # <<>> /\ ~reapable
    <3>1. Await /\ ready_list # <<>>
      BY <1>3, <2>5 DEF Wait
    <3> QED
      BY <1>1, <2>1, <2>2, <2>5, <3>1, BlockedKeeps DEF Await
  <2> QED
    BY <2>3, <2>4, <2>5
<1> QED
  BY <1>2, <1>3

-----------------------------------------------------------------------------
(* exit *)

\* The orphans go to init, and nobody else's children change.
LEMMA OrphansToInit ==
    ASSUME KernelInv, running \in PCB, running # init_pcb
    PROVE  /\ Reparented \in [PCB -> Seq(PCB)]
           /\ Reparented[running] = <<>>
           /\ ToSet(Reparented[running]) = {}
           /\ ToSet(Reparented[init_pcb]) = Kids(init_pcb) \union Kids(running)
           /\ \A p \in PCB : p # running /\ p # init_pcb => Reparented[p] = children[p]
           /\ \A p \in PCB : IsInjective(Reparented[p])
           /\ \A p, q \in PCB : p # q => ToSet(Reparented[p]) \intersect ToSet(Reparented[q]) = {}
           /\ \A x : (\E p \in PCB : x \in Kids(p)) => (\E p \in PCB : x \in ToSet(Reparented[p]))
           /\ \A p \in PCB : ToSet(Reparented[p]) \subseteq Live
           /\ \A p \in PCB : Reparented[p] # <<>> => p \in Live \ zombie_list /\ p # running
<1> DEFINE c == Reparented
           both == children[init_pcb] \o children[running]
<1>1. init_pcb \in PCB /\ children[init_pcb] \in Seq(PCB) /\ children[running] \in Seq(PCB)
  BY DEF KernelInv, KernelTypeOK
<1>2. /\ IsInjective(children[init_pcb]) /\ IsInjective(children[running])
      /\ ToSet(children[init_pcb]) \intersect ToSet(children[running]) = {}
  BY <1>1 DEF KernelInv, FamilyTree
<1>3. ToSet(both) = Kids(init_pcb) \union Kids(running) /\ IsInjective(both)
  BY <1>1, <1>2, Joined DEF Kids
<1>4. c \in [PCB -> Seq(PCB)]
  BY ReparentedTyped DEF KernelInv
<1>5. /\ c[running] = <<>>
      /\ c[init_pcb] = both
      /\ \A p \in PCB : p # running /\ p # init_pcb => c[p] = children[p]
  BY <1>1 DEF Reparented, KernelInv, KernelTypeOK
<1> HIDE DEF c, both
<1>6. ToSet(c[running]) = {} /\ ToSet(c[init_pcb]) = Kids(init_pcb) \union Kids(running)
  BY <1>3, <1>5, NoneOnEmpty
<1>7. \A p \in PCB : IsInjective(c[p])
  BY <1>3, <1>5, NoneOnEmpty DEF KernelInv, FamilyTree
<1>8. ASSUME NEW p \in PCB, NEW q \in PCB, p # q
      PROVE  ToSet(c[p]) \intersect ToSet(c[q]) = {}
  <2>1. \A r \in PCB : r # running /\ r # init_pcb => ToSet(c[r]) = Kids(r)
    BY <1>5 DEF Kids
  <2>2. \A r, t \in PCB : r # t => Kids(r) \intersect Kids(t) = {}
    BY DEF KernelInv, FamilyTree, Kids
  <2>3. CASE p = running \/ q = running
    BY <2>3, <1>6
  <2>4. CASE p = init_pcb /\ q # running
    BY <2>1, <2>2, <2>4, <1>1, <1>6, <1>8
  <2>5. CASE q = init_pcb /\ p # running
    BY <2>1, <2>2, <2>5, <1>1, <1>6, <1>8
  <2>6. CASE p \notin {running, init_pcb} /\ q \notin {running, init_pcb}
    BY <2>1, <2>2, <2>6, <1>8
  <2> QED
    BY <2>3, <2>4, <2>5, <2>6
<1>9. ASSUME NEW x, NEW p \in PCB, x \in Kids(p)
      PROVE  \E q \in PCB : x \in ToSet(c[q])
  <2>1. CASE p = running \/ p = init_pcb
    BY <2>1, <1>1, <1>6, <1>9
  <2>2. CASE p # running /\ p # init_pcb
    BY <2>2, <1>5, <1>9 DEF Kids
  <2> QED
    BY <2>1, <2>2
<1>10. ASSUME NEW p \in PCB
       PROVE  /\ ToSet(c[p]) \subseteq Live
              /\ c[p] # <<>> => p \in Live \ zombie_list /\ p # running
  <2>1. \A r \in PCB : Kids(r) \subseteq Live
    BY DEF KernelInv, FamilyTree, Kids
  <2>2. ToSet(c[p]) \subseteq Live
    BY <2>1, <1>1, <1>5, <1>6 DEF Kids
  <2>3. c[p] # <<>> => p \in Live \ zombie_list /\ p # running
    BY <1>5 DEF KernelInv, FamilyTree, RootedTree
  <2> QED
    BY <2>2, <2>3
<1> QED
  BY <1>4, <1>5, <1>6, <1>7, <1>8, <1>9, <1>10 DEF c

\* Whoever has children when another process exits still has some.
LEMMA ChildrenLeft ==
    ASSUME KernelInv, running \in PCB, running # init_pcb,
           NEW p \in PCB, p # running, children[p] # <<>>
    PROVE  Reparented[p] # <<>>
<1>1. children[p] \in Seq(PCB) /\ Reparented[p] \in Seq(PCB)
  BY OrphansToInit DEF KernelInv, KernelTypeOK
<1>2. CASE p = init_pcb
  <2>1. Kids(p) # {}
    BY <1>1, Places DEF Kids
  <2>2. ToSet(Reparented[p]) # {}
    BY <1>2, <2>1, OrphansToInit
  <2> QED
    BY <1>1, <2>2, Places
<1>3. CASE p # init_pcb
  BY <1>3, OrphansToInit
<1> QED
  BY <1>2, <1>3

\* exit with a parent that does not wait for it: a zombie more.
LEMMA ExitToReadyKeeps ==
    ASSUME KernelInv, KernelTypeOK', running \in PCB, running # init_pcb,
           parent[running] # NULL, ready_list # <<>>, ExitToReady,
           \A p \in waiting_list : call'[p] = call[p],
           UNCHANGED <<init_pcb, parent, timer_list>>
    PROVE  KernelInv'
<1>1. /\ children' = Reparented
      /\ zombie_list' = zombie_list \union {running}
      /\ status' = [status EXCEPT ![running] = "Zombie", ![Head(ready_list)] = "Running"]
      /\ NextReady
      /\ UNCHANGED <<waiting_list, pcb_free>>
  BY DEF ExitToReady
<1>2. Live' = Live /\ Asleep' = Asleep
  BY <1>1 DEF Live, Asleep
<1>3. /\ running' \in ToSet(ready_list) /\ IsInjective(ready_list')
      /\ ToSet(ready_list) = ToSet(ready_list') \union {running'}
      /\ running' \notin ToSet(ready_list')
      /\ running' \in PCB /\ running' # running
      /\ running' \notin waiting_list /\ running' \notin zombie_list
      /\ running' \notin ToSet(pcb_free)
  BY <1>1, NextReadyPlaces
<1>4. running' = Head(ready_list)
  BY <1>1 DEF NextReady
<1>5. /\ status'[running] = "Zombie" /\ status'[running'] = "Running"
      /\ \A p \in PCB : p # running /\ p # running' => status'[p] = status[p]
  BY <1>1, <1>3, <1>4 DEF KernelInv, KernelTypeOK
<1>6. OnePlace'
  BY <1>1, <1>3 DEF KernelInv, OnePlace
<1>7. StatusTellsPlace'
  <2> SUFFICES ASSUME NEW p \in Live
               PROVE  /\ status'[p] = "Waiting" <=> p \in waiting_list'
                      /\ status'[p] = "Zombie" <=> p \in zombie_list'
    BY <1>2 DEF StatusTellsPlace
  <2>1. p \in PCB /\ (status[p] = "Waiting" <=> p \in waiting_list)
                  /\ (status[p] = "Zombie" <=> p \in zombie_list)
    BY DEF KernelInv, StatusTellsPlace, Live
  <2>2. running \notin waiting_list
    BY RunningElsewhere
  <2> QED
    BY <1>1, <1>3, <1>5, <2>1, <2>2
<1>8. FreeBlocksIdle'
  <2>1. ToSet(pcb_free) \subseteq PCB /\ running \notin ToSet(pcb_free)
    BY RunningElsewhere, Places DEF KernelInv, KernelTypeOK
  <2> QED
    BY <2>1, <1>1, <1>3, <1>5 DEF KernelInv, FreeBlocksIdle
<1>9. \A p \in Live : parent[p] # NULL => \E q \in PCB : p \in ToSet(children'[q])
  BY <1>1, OrphansToInit DEF KernelInv, RootedTree, Kids
<1>10. FamilyTree'
  <2>1. \A p \in PCB : IsInjective(children'[p])
    BY <1>1, OrphansToInit
  <2>2. \A p, q \in PCB : p # q => ToSet(children'[p]) \intersect ToSet(children'[q]) = {}
    BY <1>1, OrphansToInit
  <2>3. \A p \in PCB : children'[p] # <<>> => p \in Live' \ zombie_list'
    BY <1>1, <1>2, OrphansToInit
  <2>4. \A p \in PCB : ToSet(children'[p]) \subseteq Live'
    BY <1>1, <1>2, OrphansToInit
  <2>5. \A z \in zombie_list' : \E p \in PCB : z \in ToSet(children'[p])
    <3>1. \E p \in PCB : running \in ToSet(children'[p])
      BY <1>9, RunningElsewhere
    <3>2. \A z \in zombie_list : \E p \in PCB : z \in Kids(p)
      BY DEF KernelInv, FamilyTree, Kids
    <3>3. \A z \in zombie_list : \E p \in PCB : z \in ToSet(children'[p])
      BY <1>1, <3>2, OrphansToInit
    <3> QED
      BY <1>1, <3>1, <3>3
  <2> QED
    BY <2>1, <2>2, <2>3, <2>4, <2>5 DEF FamilyTree
<1>11. RootedTree'
  BY <1>1, <1>2, <1>9 DEF KernelInv, RootedTree
<1>12. SoundCauses'
  <2>1. \A p \in waiting_list : p \in PCB /\ p # running
    BY RunningElsewhere DEF KernelInv, KernelTypeOK
  <2>2. \A p \in waiting_list : children[p] # <<>> => children'[p] # <<>>
    BY <1>1, <2>1, ChildrenLeft
  <2> QED
    BY <1>1, <1>2, <2>2 DEF KernelInv, SoundCauses
<1> QED
  BY <1>6, <1>7, <1>8, <1>10, <1>11, <1>12 DEF KernelInv

\* A parent that is found waiting for a child is on waiting_list, and not asleep.
LEMMA AwaitingParent ==
    ASSUME KernelInv, running \in PCB, NEW par \in PCB, ParentAwaits(par)
    PROVE  /\ par \in waiting_list /\ par \notin Asleep /\ par # running
           /\ par \notin ToSet(ready_list) \union zombie_list \union ToSet(pcb_free)
<1>1. status[par] = "Waiting" /\ call[par].num = "wait"
  BY DEF ParentAwaits
<1>2. par \in Live
  BY <1>1 DEF KernelInv, FreeBlocksIdle, Live
<1>3. par \in waiting_list /\ par \notin Asleep
  BY <1>1, <1>2 DEF KernelInv, StatusTellsPlace, SoundCauses
<1> QED
  BY <1>3 DEF KernelInv, OnePlace

\* exit into a parent that waits for it: the process is gone at once.
LEMMA ExitToParentKeeps ==
    ASSUME KernelInv, KernelTypeOK', running \in PCB, running # init_pcb,
           NEW par \in PCB, ParentAwaits(par), running \in ToSet(Reparented[par]),
           ExitToParent(par),
           \A p \in waiting_list : call'[p] = call[p],
           UNCHANGED <<init_pcb, parent, timer_list>>
    PROVE  KernelInv'
<1> DEFINE c == Reparented
           i == PtrPlace(c[par], running)
<1>1. /\ children' = [c EXCEPT ![par] = RemoveAt(c[par], i)]
      /\ waiting_list' = waiting_list \ {par}
      /\ status' = [status EXCEPT ![par] = "Running", ![running] = "Zombie"]
      /\ pcb_free' = <<running>> \o pcb_free
      /\ running' = par
      /\ UNCHANGED <<zombie_list, ready_list>>
  BY DEF ExitToParent, Freed
<1>2. /\ par \in waiting_list /\ par \notin Asleep /\ par # running
      /\ par \notin ToSet(ready_list) \union zombie_list \union ToSet(pcb_free)
  BY AwaitingParent
<1>3. /\ c \in [PCB -> Seq(PCB)]
      /\ c[running] = <<>>
      /\ \A p \in PCB : IsInjective(c[p])
      /\ \A p, q \in PCB : p # q => ToSet(c[p]) \intersect ToSet(c[q]) = {}
  BY OrphansToInit
<1>4. /\ \A x : (\E p \in PCB : x \in Kids(p)) => (\E p \in PCB : x \in ToSet(c[p]))
      /\ \A p \in PCB : ToSet(c[p]) \subseteq Live
      /\ \A p \in PCB : c[p] # <<>> => p \in Live \ zombie_list /\ p # running
  BY OrphansToInit
<1>5. \A p \in PCB : p # running /\ children[p] # <<>> => c[p] # <<>>
  BY ChildrenLeft
<1> HIDE DEF c
<1>6. running \in ToSet(c[par])
  BY DEF c
<1>7. i \in DOMAIN c[par] /\ c[par][i] = running
  BY <1>3, <1>6, PtrPlaceFound
<1> HIDE DEF i
<1>8. /\ ToSet(RemoveAt(c[par], i)) = ToSet(c[par]) \ {running}
      /\ IsInjective(RemoveAt(c[par], i))
      /\ RemoveAt(c[par], i) \in Seq(PCB)
  BY <1>3, <1>7, RemovedSet
<1>9. /\ children'[par] = RemoveAt(c[par], i)
      /\ \A p \in PCB : p # par => children'[p] = c[p]
  BY <1>1, <1>3
<1>10. \A p \in PCB : /\ ToSet(children'[p]) = ToSet(c[p]) \ {running}
                      /\ IsInjective(children'[p])
  <2>1. ASSUME NEW p \in PCB, p # par
        PROVE  /\ ToSet(children'[p]) = ToSet(c[p]) \ {running}
               /\ IsInjective(children'[p])
    <3>1. running \notin ToSet(c[p])
      BY <1>3, <1>6, <2>1
    <3> QED
      BY <1>3, <1>9, <2>1, <3>1
  <2> QED
    BY <1>8, <1>9, <2>1
<1>11. ToSet(pcb_free') = ToSet(pcb_free) \union {running} /\ IsInjective(pcb_free')
  <2>1. pcb_free \in Seq(PCB) /\ IsInjective(pcb_free) /\ running \notin ToSet(pcb_free)
    BY RunningElsewhere DEF KernelInv, KernelTypeOK, OnePlace
  <2>2. /\ ToSet(<<running>> \o pcb_free) = ToSet(pcb_free) \union {running}
        /\ IsInjective(<<running>> \o pcb_free)
    BY <2>1, PutInFront
  <2> QED
    BY <1>1, <2>2
<1>12. Live' = Live \ {running} /\ Asleep' = Asleep
  BY <1>11 DEF Live, Asleep
<1>13. /\ status'[running] = "Zombie" /\ status'[par] = "Running"
       /\ \A p \in PCB : p # running /\ p # par => status'[p] = status[p]
  BY <1>1, <1>2 DEF KernelInv, KernelTypeOK
<1>14. OnePlace'
  <2>1. running \notin ToSet(ready_list) \union waiting_list \union zombie_list
    BY RunningElsewhere
  <2> QED
    BY <1>1, <1>2, <1>11, <2>1 DEF KernelInv, OnePlace
<1>15. StatusTellsPlace'
  <2> SUFFICES ASSUME NEW p \in Live, p # running
               PROVE  /\ status'[p] = "Waiting" <=> p \in waiting_list'
                      /\ status'[p] = "Zombie" <=> p \in zombie_list'
    BY <1>12 DEF StatusTellsPlace
  <2>1. p \in PCB /\ (status[p] = "Waiting" <=> p \in waiting_list)
                  /\ (status[p] = "Zombie" <=> p \in zombie_list)
    BY DEF KernelInv, StatusTellsPlace, Live
  <2> QED
    BY <1>1, <1>2, <1>13, <2>1
<1>16. FreeBlocksIdle'
  <2>1. ToSet(pcb_free) \subseteq PCB
    BY Places DEF KernelInv, KernelTypeOK
  <2> QED
    BY <1>2, <1>11, <1>13, <2>1 DEF KernelInv, FreeBlocksIdle
<1>17. FamilyTree'
  <2>1. \A p \in PCB : IsInjective(children'[p])
    BY <1>10
  <2>2. \A p, q \in PCB : p # q => ToSet(children'[p]) \intersect ToSet(children'[q]) = {}
    BY <1>3, <1>10
  <2>3. \A p \in PCB : children'[p] # <<>> => p \in Live' \ zombie_list'
    <3>1. par \in Live' \ zombie_list'
      BY <1>1, <1>2, <1>12 DEF Live
    <3> QED
      BY <1>1, <1>4, <1>9, <1>12, <3>1
  <2>4. \A p \in PCB : ToSet(children'[p]) \subseteq Live'
    BY <1>4, <1>10, <1>12
  <2>5. \A z \in zombie_list' : \E p \in PCB : z \in ToSet(children'[p])
    <3>1. \A z \in zombie_list : z # running /\ \E p \in PCB : z \in Kids(p)
      BY RunningElsewhere DEF KernelInv, FamilyTree, Kids
    <3> QED
      BY <1>1, <1>4, <1>10, <3>1
  <2> QED
    BY <2>1, <2>2, <2>3, <2>4, <2>5 DEF FamilyTree
<1>18. RootedTree'
  <2>1. init_pcb \in Live' \ zombie_list' /\ parent'[init_pcb] = NULL /\ UNCHANGED <<init_pcb, parent>>
    BY <1>1, <1>12 DEF KernelInv, RootedTree
  <2>2. \A p \in Live : parent[p] # NULL => \E q \in PCB : p \in Kids(q)
    BY DEF KernelInv, RootedTree, Kids
  <2>3. \A p \in Live' : parent[p] # NULL => \E q \in PCB : p \in ToSet(children'[q])
    BY <1>4, <1>10, <1>12, <2>2
  <2> QED
    BY <2>1, <2>3 DEF RootedTree
<1>19. SoundCauses'
  <2>1. \A p \in waiting_list : p \in PCB /\ p # running
    BY RunningElsewhere DEF KernelInv, KernelTypeOK
  <2>2. \A p \in waiting_list' : children[p] # <<>> => children'[p] # <<>>
    BY <1>1, <1>5, <1>9, <2>1
  <2> QED
    BY <1>1, <1>2, <1>12, <2>2 DEF KernelInv, SoundCauses
<1> QED
  BY <1>14, <1>15, <1>16, <1>17, <1>18, <1>19 DEF KernelInv

\* exit in all its ways: init that has children, no parent, a parent that waits,
\* one that does not, and nobody ready.
LEMMA ExitKeeps ==
    ASSUME KernelInv, Exit
    PROVE  KernelInv'
<1> DEFINE par == parent[running]
<1>1. KernelTypeOK' /\ running \in PCB /\ par \in PCB \union {NULL}
  BY ExitTyped, UserRuns DEF KernelInv, KernelTypeOK, Exit
<1>2. CASE Stop("hung") \/ Crash
  BY <1>2, StopKeeps DEF Crash
<1>3. CASE ~(Stop("hung") \/ Crash)
  <2>1. par # NULL /\ running # init_pcb
    BY <1>3 DEF Exit, KernelInv, RootedTree
  <2>2. /\ Trap("exit", 0)
        /\ UNCHANGED <<init_pcb, parent, timer_list>>
        /\ \/ ParentAwaits(par) /\ running \in ToSet(Reparented[par]) /\ ExitToParent(par)
           \/ ready_list # <<>> /\ ExitToReady
    BY <1>3 DEF Exit
  <2>3. \A p \in waiting_list : call'[p] = call[p]
    BY <1>1, <2>2, TrapElsewhere
  <2>4. CASE ParentAwaits(par) /\ running \in ToSet(Reparented[par]) /\ ExitToParent(par)
    BY <1>1, <2>1, <2>2, <2>3, <2>4, ExitToParentKeeps
  <2>5. CASE ready_list # <<>> /\ ExitToReady
    BY <1>1, <2>1, <2>2, <2>3, <2>5, ExitToReadyKeeps
  <2> QED
    BY <2>2, <2>4, <2>5
<1> QED
  BY <1>2, <1>3

-----------------------------------------------------------------------------
(* Who comes to wait and who stops waiting *)

\* Waking takes sleepers off waiting_list, and nobody else's call is touched.
LEMMA ScheduleWaiters ==
    ASSUME KernelInv, NEW timers \in Seq(Timer), OneEach(timers), SleepersOf(timers) = Asleep,
           Schedule(timers)
    PROVE  /\ waiting_list' \subseteq waiting_list
           /\ \A p \in waiting_list \ waiting_list' : call[p].num = "sleep"
<1>1. ToSet(Woken(timers)) \subseteq Asleep
  BY WokenSleepers
<1>2. waiting_list' = waiting_list \ ToSet(Woken(timers))
  BY DEF Schedule, StillWaiting
<1> QED
  BY <1>1, <1>2 DEF KernelInv, SoundCauses

\* In a step of the kernel only the running process can come to wait, in sleep or
\* in wait, and only processes in sleep or in wait stop waiting.
LEMMA WaitersStep ==
    ASSUME KernelInv, [KernelNext]_kernelVars
    PROVE  /\ \A p \in waiting_list' : \/ p \in waiting_list /\ call'[p] = call[p]
                                       \/ p = running /\ call'[p].num \in {"sleep", "wait"}
           /\ \A p \in waiting_list \ waiting_list' : call[p].num \in {"sleep", "wait"}
<1> DEFINE goal == /\ \A p \in waiting_list' : \/ p \in waiting_list /\ call'[p] = call[p]
                                               \/ p = running /\ call'[p].num \in {"sleep", "wait"}
                   /\ \A p \in waiting_list \ waiting_list' : call[p].num \in {"sleep", "wait"}
           same == /\ waiting_list' = waiting_list
                   /\ \A p \in waiting_list : call'[p] = call[p]
<1>1. same => goal
  OBVIOUS
<1>2. /\ timer_list \in Seq(Timer) /\ OneEach(timer_list) /\ SleepersOf(timer_list) = Asleep
      /\ Aged(timer_list) \in Seq(Timer) /\ OneEach(Aged(timer_list))
      /\ SleepersOf(Aged(timer_list)) = Asleep
  <2>1. timer_list \in Seq(Timer) /\ OneEach(timer_list) /\ SleepersOf(timer_list) = Asleep
    BY DEF KernelInv, KernelTypeOK, SoundCauses, OneEach, Asleep, SleepersOf
  <2> QED
    BY <2>1, AgedTyped, AgedSleepers
<1>3. CASE UNCHANGED kernelVars \/ \E how \in {"halted", "deadlock", "crashed", "hung"} : Stop(how)
  <2>1. UNCHANGED <<waiting_list, call>>
    BY <1>3 DEF kernelVars, listVars, Stop
  <2> QED
    BY <2>1, <1>1
<1>4. CASE Tick /\ running # NULL
  <2>1. Schedule(Aged(timer_list)) /\ call' = call
    BY <1>4 DEF Tick
  <2> QED
    BY <2>1, <1>2, ScheduleWaiters
<1>5. CASE Preempt
  <2>1. Schedule(timer_list) /\ Trap("preempt", 0) /\ running \in PCB
    BY <1>5, UserRuns DEF Preempt, KernelInv
  <2>2. \A p \in waiting_list : call'[p] = call[p]
    BY <2>1, TrapElsewhere
  <2> QED
    BY <2>1, <2>2, <1>2, ScheduleWaiters
<1>6. CASE Return
  <2>1. running \in PCB /\ waiting_list' = waiting_list /\ call' = [call EXCEPT ![running] = NoCall]
    BY <1>6 DEF Return, listVars, KernelInv, KernelTypeOK
  <2>2. running \notin waiting_list /\ call \in [PCB -> CallRecord] /\ waiting_list \subseteq PCB
    BY <2>1, RunningElsewhere DEF KernelInv, KernelTypeOK
  <2> QED
    BY <2>1, <2>2, <1>1
<1>7. CASE (Restart \/ Spawn) /\ pcb_free # <<>> /\ ~Crash
  <2> DEFINE new == Head(pcb_free)
  <2>1. new \notin waiting_list /\ waiting_list \subseteq PCB
    BY <1>7, FreshBlock DEF KernelInv, KernelTypeOK
  <2>2. /\ waiting_list' = waiting_list
        /\ \A p \in PCB : p # new /\ p # running => call'[p] = call[p]
    <3>1. call \in [PCB -> CallRecord]
      BY DEF KernelInv, KernelTypeOK
    <3> HIDE DEF new
    <3>2. /\ waiting_list' = waiting_list
          /\ \/ call' = [call EXCEPT ![new] = NoCall]
             \/ call' = [call EXCEPT ![running] = [num |-> "spawn", arg |-> 0], ![new] = NoCall]
      BY <1>7 DEF Restart, Spawn, listVars, new
    <3> QED
      BY <3>1, <3>2
  <2>3. running \notin waiting_list
    BY DEF KernelInv, OnePlace
  <2> QED
    BY <2>1, <2>2, <2>3, <1>1
<1>8. ASSUME NEW cycles \in SleepTimes, Sleep(cycles)
      PROVE  goal
  <2>1. running \in PCB /\ Trap("sleep", cycles)
    BY <1>8, UserRuns DEF Sleep, KernelInv
  <2>2. (\A p \in waiting_list : call'[p] = call[p]) /\ call'[running].num = "sleep"
    <3>1. /\ \A p \in waiting_list : call'[p] = call[p]
          /\ call'[running] = [num |-> "sleep", arg |-> cycles]
      BY <2>1, TrapElsewhere
    <3> QED
      BY <3>1
  <2>3. waiting_list' \in {waiting_list, waiting_list \union {running}}
    BY <1>8 DEF Sleep
  <2> QED
    BY <2>2, <2>3
<1>9. ASSUME NEW arg \in WaitArgs, Wait(arg), ~Crash
      PROVE  goal
  <2>1. running \in PCB /\ Trap("wait", arg)
    BY <1>9, UserRuns DEF Wait, KernelInv
  <2>2. (\A p \in waiting_list : call'[p] = call[p]) /\ call'[running].num = "wait"
    <3>1. /\ \A p \in waiting_list : call'[p] = call[p]
          /\ call'[running] = [num |-> "wait", arg |-> arg]
      BY <2>1, TrapElsewhere
    <3> QED
      BY <3>1
  <2>3. waiting_list' \in {waiting_list, waiting_list \union {running}}
    BY <1>9 DEF Wait, NoChildren, Reap, Await
  <2> QED
    BY <2>2, <2>3
<1>10. CASE Exit /\ ~Crash /\ ~Stop("hung")
  <2> DEFINE par == parent[running]
  <2>1. running \in PCB /\ Trap("exit", 0) /\ par \in PCB
    BY <1>10, UserRuns DEF Exit, KernelInv, KernelTypeOK
  <2>2. \A p \in waiting_list : call'[p] = call[p]
    BY <2>1, TrapElsewhere
  <2>3. CASE ParentAwaits(par) /\ ExitToParent(par)
    <3>1. waiting_list' = waiting_list \ {par} /\ call[par].num = "wait"
      BY <2>3 DEF ExitToParent, ParentAwaits
    <3> QED
      BY <3>1, <2>2
  <2>4. CASE ExitToReady
    BY <2>2, <2>4, <1>1 DEF ExitToReady
  <2> QED
    BY <2>3, <2>4, <1>10 DEF Exit
<1>11. CASE ~ \E how \in {"halted", "deadlock", "crashed", "hung"} : Stop(how)
  <2>1. ~Crash /\ ~Stop("hung") /\ ~Stop("halted")
    BY <1>11 DEF Crash
  <2>2. Tick => running # NULL
    BY <2>1 DEF Tick
  <2>3. Restart \/ Spawn => pcb_free # <<>>
    BY <2>1 DEF Restart, Spawn, NoBlockLeft
  <2>4. ~Shutdown
    BY <2>1 DEF Shutdown
  <2> QED
    BY <1>3, <1>4, <1>5, <1>6, <1>7, <1>8, <1>9, <1>10, <2>1, <2>2, <2>3, <2>4
       DEF KernelNext, KernelCall, Stopped
<1> QED
  BY <1>3, <1>11

-----------------------------------------------------------------------------
(* The theorems *)

\* Every step of the kernel keeps the invariant.
LEMMA StepKeeps == KernelInv /\ [KernelNext]_kernelVars => KernelInv'
<1> SUFFICES ASSUME KernelInv, [KernelNext]_kernelVars
             PROVE  KernelInv'
  OBVIOUS
<1>1. CASE UNCHANGED kernelVars
  <2>1. KernelTypeOK'
    BY <1>1, StepTyped DEF KernelInv
  <2> QED
    BY <1>1, <2>1, SameKeeps DEF kernelVars, poolVars, pcbVars
<1>2. CASE Restart
  BY <1>2, RestartKeeps
<1>3. CASE Tick
  BY <1>3, TickKeeps
<1>4. CASE Return
  BY <1>4, ReturnKeeps
<1>5. CASE Preempt
  BY <1>5, PreemptKeeps
<1>6. CASE Shutdown
  BY <1>6, StopKeeps DEF Shutdown
<1>7. CASE Spawn
  BY <1>7, SpawnKeeps
<1>8. CASE \E cycles \in SleepTimes : Sleep(cycles)
  BY <1>8, SleepKeeps
<1>9. CASE \E arg \in WaitArgs : Wait(arg)
  BY <1>9, WaitKeeps
<1>10. CASE Exit
  BY <1>10, ExitKeeps
<1> QED
  BY <1>1, <1>2, <1>3, <1>4, <1>5, <1>6, <1>7, <1>8, <1>9, <1>10
     DEF KernelNext, KernelCall, Stopped

\* The invariant of every reachable state of the kernel.
THEOREM KernelInvariant == KernelSpec => []KernelInv
  BY InitKeeps, StepKeeps, PTL DEF KernelSpec

\* However many processes there are and whatever they call, every PCB block is
\* in exactly one place and on its list once: none is lost between two lists
\* and none is freed or reaped twice.
THEOREM OneBlockOnePlace == KernelSpec => []OnePlace
<1>1. KernelInv => OnePlace
  BY DEF KernelInv
<1> QED
  BY <1>1, KernelInvariant, PTL

\* The status of a process that holds a block always tells its list: exit and
\* wait, which look at the status alone, decide as if they had searched.
THEOREM StatusIsPlace == KernelSpec => []StatusTellsPlace
<1>1. KernelInv => StatusTellsPlace
  BY DEF KernelInv
<1> QED
  BY <1>1, KernelInvariant, PTL

\* Through spawns, exits with orphans, reaps and restarts of the first process,
\* everybody is child of at most one process that still runs or waits, and no
\* zombie is out of reach of every wait.
THEOREM OneFamily == KernelSpec => []FamilyTree
<1>1. KernelInv => FamilyTree
  BY DEF KernelInv
<1> QED
  BY <1>1, KernelInvariant, PTL

-----------------------------------------------------------------------------
(* What wait reports and who gets SIGHUP: pids tell live processes apart   *)
(* and are never given twice, so a pid that was reported is that of nobody *)
(* who lives, now or later; and the orphans of a process go to an init,    *)
(* which can neither exit nor lose them but to a wait.                     *)

\* A free block keeps its pid, which may be that of the process before it.
PidsDiffer ==
    /\ \A p \in PCB : pid[p] < last_pid
    /\ \A p, q \in Live : pid[p] = pid[q] => p = q

\* Who is in the call wait and was told a pid.
Reported == {p \in Live \ waiting_list : call[p].num = "wait" /\ retvalue[p] > 0}

ReportsInv ==
    /\ PidsDiffer
    /\ \A p \in Reported : retvalue[p] < last_pid
    /\ \A p \in Reported, q \in Live : pid[q] # retvalue[p]
    /\ \A p, q \in Reported : retvalue[p] = retvalue[q] => p = q

\* What the step of PCB_alloc does to the pids, seen from outside.
NewBlock(new) ==
    /\ new \notin Live /\ Live' = Live \union {new}
    /\ pid' = [pid EXCEPT ![new] = last_pid]
    /\ last_pid' = last_pid + 1

NoNewBlock == UNCHANGED <<pid, last_pid>> /\ Live' \subseteq Live

-----------------------------------------------------------------------------
(* Blocks that are taken and given back *)

\* A block that is given back is live no more, and all others are.
LEMMA FreedBlock ==
    ASSUME KernelInv, NEW p \in PCB, pcb_free' = Freed(p)
    PROVE  Live' = Live \ {p}
<1>1. ToSet(pcb_free') = ToSet(pcb_free) \union {p}
  BY PutInFront DEF Freed, KernelInv, KernelTypeOK
<1> QED
  BY <1>1 DEF Live

\* wait reaps a child that is a live block.
LEMMA ReapedBlock ==
    ASSUME KernelInv, running \in PCB, NEW i \in DOMAIN children[running], Reap(i)
    PROVE  /\ children[running][i] \in Live
           /\ Live' = Live \ {children[running][i]}
<1>1. children[running] \in Seq(PCB)
  BY DEF KernelInv, KernelTypeOK
<1>2. children[running][i] \in PCB /\ children[running][i] \in ToSet(children[running])
  BY <1>1, LenProperties DEF ToSet
<1>3. children[running][i] \in Live
  BY <1>2 DEF KernelInv, FamilyTree
<1>4. pcb_free' = Freed(children[running][i])
  BY DEF Reap
<1> QED
  BY <1>2, <1>3, <1>4, FreedBlock

\* spawn and disastrOS_start take one block.
LEMMA AllocatedBlock ==
    ASSUME KernelInv, pcb_free # <<>>, NEW st, NEW par, Alloc(Head(pcb_free), st, par)
    PROVE  Head(pcb_free) \in PCB /\ NewBlock(Head(pcb_free))
<1> DEFINE new == Head(pcb_free)
<1>1. new \in PCB /\ new \notin Live /\ PCB \ ToSet(Tail(pcb_free)) = Live \union {new}
  BY FreshBlock
<1>2. /\ pcb_free' = Tail(pcb_free) /\ pid' = [pid EXCEPT ![new] = last_pid]
      /\ last_pid' = last_pid + 1
  BY DEF Alloc
<1> HIDE DEF new
<1>3. Live' = Live \union {new}
  BY <1>1, <1>2 DEF Live
<1> QED
  BY <1>1, <1>2, <1>3 DEF NewBlock, new

\* In a step of the kernel one block at most is taken, and it gets the next pid.
LEMMA BlocksStep ==
    ASSUME KernelInv, [KernelNext]_kernelVars
    PROVE  NoNewBlock \/ \E new \in PCB : NewBlock(new)
<1>1. UNCHANGED <<pcb_free, pid, last_pid>> => NoNewBlock
  BY DEF NoNewBlock, Live
<1>2. CASE UNCHANGED kernelVars \/ \E how \in {"halted", "deadlock", "crashed", "hung"} : Stop(how)
  BY <1>2, <1>1 DEF kernelVars, poolVars, pcbVars, Stop
<1>3. CASE Tick \/ Preempt \/ Return
  BY <1>3, <1>1 DEF Tick, Preempt, Return, Schedule, Crash, Stop, poolVars, pcbVars
<1>4. CASE \E cycles \in SleepTimes : Sleep(cycles)
  BY <1>4, <1>1 DEF Sleep, poolVars
<1>5. CASE (Restart \/ Spawn) /\ ~Crash
  <2>1. pcb_free # <<>> /\ \E st, par : Alloc(Head(pcb_free), st, par)
    BY <1>5 DEF Restart, Spawn, NoBlockLeft
  <2> QED
    BY <2>1, AllocatedBlock
<1>6. ASSUME NEW arg \in WaitArgs, Wait(arg), ~Crash
      PROVE  NoNewBlock
  <2> DEFINE kids == children[running]
             reapable == kids # <<>> /\ status[kids[AwaitedPlace(arg)]] = "Zombie"
  <2>1. running \in PCB /\ kids \in Seq(PCB)
    BY <1>6, UserRuns DEF Wait, KernelInv, KernelTypeOK
  <2>2. CASE NoChildren \/ Await
    BY <1>6, <2>2, <1>1 DEF Wait, NoChildren, Await, poolVars
  <2>3. CASE kids # <<>> /\ Reap(AwaitedPlace(arg))
    <3>1. AwaitedPlace(arg) \in DOMAIN kids
      BY <2>1, <2>3, AwaitedPlaceFound
    <3>2. Live' \subseteq Live
      BY <2>1, <2>3, <3>1, ReapedBlock
    <3> QED
      BY <1>6, <3>2 DEF Wait, NoNewBlock
  <2> QED
    BY <1>6, <2>2, <2>3 DEF Wait
<1>7. CASE Exit /\ ~Crash /\ ~Stop("hung")
  <2>1. running \in PCB /\ UNCHANGED <<pid, last_pid>>
    BY <1>7, UserRuns DEF Exit, KernelInv
  <2>2. CASE ExitToParent(parent[running])
    BY <2>1, <2>2, FreedBlock DEF ExitToParent, NoNewBlock
  <2>3. CASE ExitToReady
    BY <2>1, <2>3, <1>1 DEF ExitToReady
  <2> QED
    BY <1>7, <2>2, <2>3 DEF Exit
<1>8. CASE ~ \E how \in {"halted", "deadlock", "crashed", "hung"} : Stop(how)
  <2>1. ~Crash /\ ~Stop("hung") /\ ~Stop("halted")
    BY <1>8 DEF Crash
  <2>2. ~Shutdown
    BY <2>1 DEF Shutdown
  <2> QED
    BY <1>2, <1>3, <1>4, <1>5, <1>6, <1>7, <2>1, <2>2 DEF KernelNext, KernelCall, Stopped
<1> QED
  BY <1>2, <1>8

-----------------------------------------------------------------------------
(* Pids *)

\* The first process has the pid 0, and the next is 1.
LEMMA InitPids == KernelInit => PidsDiffer
<1> SUFFICES ASSUME KernelInit PROVE PidsDiffer
  OBVIOUS
<1>1. pid = [p \in PCB |-> 0] /\ last_pid = 1
  BY DEF KernelInit
<1>2. Live = {1}
  <2>1. pcb_free = [i \in 1 .. MAX_NUM_PROCESSES - 1 |-> i + 1]
    BY DEF KernelInit
  <2>2. PCB = 1 .. MAX_NUM_PROCESSES /\ MAX_NUM_PROCESSES \in Nat \ {0}
    BY KernelAssumption DEF PCB
  <2>3. \A p \in PCB \ {1} : p - 1 \in DOMAIN pcb_free /\ pcb_free[p - 1] = p
    BY <2>1, <2>2
  <2>4. 1 \in PCB /\ \A i \in DOMAIN pcb_free : pcb_free[i] # 1
    BY <2>1, <2>2
  <2> QED
    BY <2>3, <2>4 DEF Live, ToSet
<1> QED
  BY <1>1, <1>2 DEF PidsDiffer

\* A pid is never given twice.
LEMMA PidsStep ==
    ASSUME KernelTypeOK, PidsDiffer, NoNewBlock \/ \E new \in PCB : NewBlock(new)
    PROVE  PidsDiffer'
<1>0. pid \in [PCB -> Nat] /\ last_pid \in Nat /\ Live \subseteq PCB
  BY DEF KernelTypeOK, Live
<1>1. CASE NoNewBlock
  BY <1>1 DEF NoNewBlock, PidsDiffer
<1>2. ASSUME NEW new \in PCB, NewBlock(new)
      PROVE  PidsDiffer'
  <2>1. /\ pid'[new] = last_pid /\ last_pid' = last_pid + 1
        /\ \A p \in PCB : p # new => pid'[p] = pid[p]
        /\ Live' = Live \union {new} /\ new \notin Live
    BY <1>0, <1>2 DEF NewBlock
  <2>2. \A p \in PCB : pid'[p] < last_pid'
    <3>1. \A p \in PCB : pid[p] < last_pid /\ pid[p] \in Nat
      BY <1>0 DEF PidsDiffer
    <3> QED
      BY <1>0, <2>1, <3>1
  <2>3. \A p, q \in Live' : pid'[p] = pid'[q] => p = q
    <3>1. \A p \in Live : p # new /\ pid'[p] = pid[p] /\ pid[p] # last_pid
      BY <1>0, <2>1 DEF PidsDiffer
    <3>2. \A p, q \in Live : pid[p] = pid[q] => p = q
      BY DEF PidsDiffer
    <3> QED
      BY <2>1, <3>1, <3>2
  <2> QED
    BY <2>2, <2>3 DEF PidsDiffer
<1> QED
  BY <1>1, <1>2

-----------------------------------------------------------------------------
(* Reports *)

\* A step that reports nothing.
LEMMA NothingReported ==
    ASSUME KernelTypeOK, ReportsInv, NoNewBlock \/ \E new \in PCB : NewBlock(new),
           \A p \in Reported' : p \in Reported /\ retvalue'[p] = retvalue[p]
    PROVE  ReportsInv'
<1>0. /\ pid \in [PCB -> Nat] /\ last_pid \in Nat /\ Live \subseteq PCB
      /\ retvalue \in [PCB -> Int] /\ Reported \subseteq PCB
  BY DEF KernelTypeOK, Live, Reported
<1>1. PidsDiffer'
  BY PidsStep DEF ReportsInv
<1>2. \A p, q \in Reported' : retvalue'[p] = retvalue'[q] => p = q
  BY DEF ReportsInv
<1>3. CASE NoNewBlock
  BY <1>1, <1>2, <1>3 DEF ReportsInv, NoNewBlock
<1>4. ASSUME NEW new \in PCB, NewBlock(new)
      PROVE  ReportsInv'
  <2>1. /\ pid'[new] = last_pid /\ last_pid' = last_pid + 1
        /\ \A p \in PCB : p # new => pid'[p] = pid[p]
        /\ Live' = Live \union {new} /\ new \notin Live
    BY <1>0, <1>4 DEF NewBlock
  <2>2. \A p \in Reported : retvalue[p] < last_pid /\ retvalue[p] \in Int
    BY <1>0 DEF ReportsInv
  <2>3. \A p \in Reported' : retvalue'[p] < last_pid'
    BY <1>0, <2>1, <2>2
  <2>4. \A p \in Reported', q \in Live' : pid'[q] # retvalue'[p]
    <3>1. \A p \in Reported : retvalue[p] # last_pid
      BY <1>0, <2>2
    <3>2. \A q \in Live : pid'[q] = pid[q]
      BY <1>0, <2>1
    <3> QED
      BY <2>1, <3>1, <3>2 DEF ReportsInv
  <2> QED
    BY <1>1, <1>2, <2>3, <2>4 DEF ReportsInv
<1> QED
  BY <1>3, <1>4

\* A step that reports a process, whose block is given back.
LEMMA OneReported ==
    ASSUME KernelTypeOK, ReportsInv, NEW p0, NEW gone \in Live,
           UNCHANGED <<pid, last_pid>>, Live' = Live \ {gone},
           retvalue'[p0] = pid[gone],
           \A p \in Reported' : p # p0 => p \in Reported /\ retvalue'[p] = retvalue[p]
    PROVE  ReportsInv'
<1>1. PidsDiffer'
  BY DEF ReportsInv, PidsDiffer
<1>2. \A p \in Reported' : retvalue'[p] < last_pid'
  BY DEF ReportsInv, PidsDiffer, Live
<1>3. \A p \in Reported', q \in Live' : pid'[q] # retvalue'[p]
  BY DEF ReportsInv, PidsDiffer
<1>4. \A p, q \in Reported' : retvalue'[p] = retvalue'[q] => p = q
  BY DEF ReportsInv
<1> QED
  BY <1>1, <1>2, <1>3, <1>4 DEF ReportsInv

\* wait reports the child that it reaps, or nobody.
LEMMA WaitReports ==
    ASSUME KernelInv, ReportsInv, NEW arg \in WaitArgs, Wait(arg), ~Crash
    PROVE  ReportsInv'
<1> DEFINE kids == children[running]
           reapable == kids # <<>> /\ status[kids[AwaitedPlace(arg)]] = "Zombie"
<1>1. /\ running \in PCB /\ kids \in Seq(PCB) /\ KernelTypeOK
      /\ retvalue \in [PCB -> Int] /\ Live \subseteq PCB
  BY UserRuns DEF Wait, KernelInv, KernelTypeOK, Live
<1>2. /\ UNCHANGED <<pid, last_pid>>
      /\ Trap("wait", arg)
  BY <1>1 DEF Wait
<1>3. \A p \in PCB : p # running => call'[p] = call[p]
  BY <1>1, <1>2, TrapElsewhere
<1>4. CASE NoChildren
  <2>1. /\ retvalue' = [retvalue EXCEPT ![running] = DSOS_EWAIT] /\ DSOS_EWAIT = -5
        /\ UNCHANGED <<waiting_list, pcb_free>>
    BY <1>4 DEF NoChildren, poolVars, DSOS_EWAIT
  <2>2. Live' = Live /\ running \notin Reported'
    BY <1>1, <2>1 DEF Live, Reported
  <2>3. \A p \in Reported' : p \in Reported /\ retvalue'[p] = retvalue[p]
    BY <1>1, <1>3, <2>1, <2>2 DEF Reported
  <2>4. NoNewBlock
    BY <1>2, <2>2 DEF NoNewBlock
  <2> QED
    BY <1>1, <2>3, <2>4, NothingReported
<1>5. CASE kids # <<>> /\ Reap(AwaitedPlace(arg))
  <2> DEFINE i == AwaitedPlace(arg)
             gone == kids[i]
  <2>1. i \in DOMAIN kids
    BY <1>1, <1>5, AwaitedPlaceFound
  <2>2. gone \in Live /\ Live' = Live \ {gone}
    BY <1>1, <1>5, <2>1, ReapedBlock
  <2>3. retvalue' = [retvalue EXCEPT ![running] = pid[gone]] /\ waiting_list' = waiting_list
    BY <1>5 DEF Reap
  <2> HIDE DEF gone
  <2>4. retvalue'[running] = pid[gone] /\ \A p \in PCB : p # running => retvalue'[p] = retvalue[p]
    BY <1>1, <2>3
  <2>5. \A p \in Reported' : p # running => p \in Reported /\ retvalue'[p] = retvalue[p]
    BY <1>1, <1>3, <2>2, <2>3, <2>4 DEF Reported
  <2> QED
    BY <1>1, <1>2, <2>2, <2>4, <2>5, OneReported
<1>6. CASE Await
  <2>1. /\ waiting_list' = waiting_list \union {running}
        /\ UNCHANGED <<pcb_free, retvalue>>
    BY <1>6 DEF Await
  <2>2. Live' = Live
    BY <2>1 DEF Live
  <2>3. \A p \in Reported' : p \in Reported /\ retvalue'[p] = retvalue[p]
    BY <1>1, <1>3, <2>1, <2>2 DEF Reported
  <2>4. NoNewBlock
    BY <1>2, <2>2 DEF NoNewBlock
  <2> QED
    BY <1>1, <2>3, <2>4, NothingReported
<1> QED
  BY <1>4, <1>5, <1>6 DEF Wait

\* exit reports the process that exits to a parent that waits, or nobody.
LEMMA ExitReports ==
    ASSUME KernelInv, ReportsInv, Exit, ~Crash, ~Stop("hung")
    PROVE  ReportsInv'
<1> DEFINE par == parent[running]
<1>1. /\ running \in PCB /\ KernelTypeOK /\ retvalue \in [PCB -> Int] /\ Live \subseteq PCB
      /\ UNCHANGED <<pid, last_pid>>
  BY UserRuns DEF Exit, KernelInv, KernelTypeOK, Live
<1>2. /\ \A p \in PCB : p # running => call'[p] = call[p]
      /\ call'[running].num = "exit"
  <2>1. /\ \A p \in PCB : p # running => call'[p] = call[p]
        /\ call'[running] = [num |-> "exit", arg |-> 0]
    BY <1>1, TrapElsewhere DEF Exit
  <2> QED
    BY <2>1
<1>3. CASE par \in PCB /\ ExitToParent(par)
  <2>1. /\ retvalue' = [retvalue EXCEPT ![par] = pid[running]]
        /\ waiting_list' = waiting_list \ {par}
        /\ pcb_free' = Freed(running)
    BY <1>3 DEF ExitToParent
  <2>2. running \in Live /\ Live' = Live \ {running}
    BY <1>1, <2>1, RunningElsewhere, FreedBlock
  <2> HIDE DEF par
  <2>3. retvalue'[par] = pid[running] /\ \A p \in PCB : p # par => retvalue'[p] = retvalue[p]
    BY <1>1, <1>3, <2>1
  <2>4. \A p \in Reported' : p # par => p \in Reported /\ retvalue'[p] = retvalue[p]
    BY <1>1, <1>2, <2>1, <2>2, <2>3 DEF Reported
  <2> QED
    BY <1>1, <2>2, <2>3, <2>4, OneReported
<1>4. CASE ExitToReady
  <2>1. UNCHANGED <<waiting_list, retvalue, pcb_free>>
    BY <1>4 DEF ExitToReady
  <2>2. Live' = Live
    BY <2>1 DEF Live
  <2>3. \A p \in Reported' : p \in Reported /\ retvalue'[p] = retvalue[p]
    BY <1>1, <1>2, <2>1, <2>2 DEF Reported
  <2>4. NoNewBlock
    BY <1>1, <2>2 DEF NoNewBlock
  <2> QED
    BY <1>1, <2>3, <2>4, NothingReported
<1>5. par \in PCB \/ par = NULL
  BY <1>1 DEF KernelTypeOK
<1> QED
  BY <1>3, <1>4, <1>5 DEF Exit

\* Every step keeps the reports right.
LEMMA ReportsStep ==
    ASSUME KernelInv, ReportsInv, [KernelNext]_kernelVars
    PROVE  ReportsInv'
<1>1. /\ KernelTypeOK /\ call \in [PCB -> CallRecord] /\ retvalue \in [PCB -> Int]
      /\ Live \subseteq PCB
  BY DEF KernelInv, KernelTypeOK, Live
<1>2. NoNewBlock \/ \E new \in PCB : NewBlock(new)
  BY BlocksStep
<1>3. (\A p \in Reported' : p \in Reported /\ retvalue'[p] = retvalue[p]) => ReportsInv'
  BY <1>1, <1>2, NothingReported
<1>4. \A p \in waiting_list \ waiting_list' : call[p].num \in {"sleep", "wait"}
  BY WaitersStep
<1>5. CASE UNCHANGED kernelVars \/ \E how \in {"halted", "deadlock", "crashed", "hung"} : Stop(how)
  <2>1. UNCHANGED <<pcb_free, waiting_list, call, retvalue>>
    BY <1>5 DEF kernelVars, poolVars, listVars, Stop
  <2> QED
    BY <2>1, <1>3 DEF Reported, Live
<1>6. CASE (Tick /\ running # NULL) \/ Preempt
  <2>1. /\ timer_list \in Seq(Timer) /\ OneEach(timer_list) /\ SleepersOf(timer_list) = Asleep
        /\ Aged(timer_list) \in Seq(Timer) /\ OneEach(Aged(timer_list))
        /\ SleepersOf(Aged(timer_list)) = Asleep
    <3>1. timer_list \in Seq(Timer) /\ OneEach(timer_list) /\ SleepersOf(timer_list) = Asleep
      BY DEF KernelInv, KernelTypeOK, SoundCauses, OneEach, Asleep, SleepersOf
    <3> QED
      BY <3>1, AgedTyped, AgedSleepers
  <2>2. /\ \A p \in waiting_list \ waiting_list' : call[p].num = "sleep"
        /\ UNCHANGED <<pcb_free, retvalue>>
    <3>1. Schedule(Aged(timer_list)) \/ Schedule(timer_list)
      BY <1>6 DEF Tick, Preempt
    <3> QED
      BY <3>1, <2>1, ScheduleWaiters DEF Schedule, poolVars
  <2>3. \A p \in PCB : call'[p].num = "wait" => call'[p] = call[p]
    <3>1. call' = call \/ call' = [call EXCEPT ![running] = [num |-> "preempt", arg |-> 0]]
      BY <1>6 DEF Tick, Preempt, Trap
    <3> QED
      BY <1>1, <3>1
  <2>4. \A p \in Reported' : p \in Reported /\ retvalue'[p] = retvalue[p]
    BY <1>1, <2>2, <2>3 DEF Reported, Live
  <2> QED
    BY <2>4, <1>3
<1>7. CASE Return
  <2>1. /\ UNCHANGED <<pcb_free, waiting_list, retvalue>>
        /\ call' = [call EXCEPT ![running] = NoCall] /\ NoCall.num = "none"
    BY <1>7 DEF Return, poolVars, listVars, NoCall
  <2>2. \A p \in PCB : call'[p].num = "wait" => call'[p] = call[p]
    BY <1>1, <2>1
  <2> QED
    BY <1>1, <1>3, <2>1, <2>2 DEF Reported, Live
<1>8. CASE (Restart \/ Spawn) /\ pcb_free # <<>> /\ ~Crash
  <2> DEFINE new == Head(pcb_free)
  <2>1. /\ waiting_list' = waiting_list
        /\ \/ call' = [call EXCEPT ![new] = NoCall] /\ retvalue' = retvalue
           \/ /\ call' = [call EXCEPT ![running] = [num |-> "spawn", arg |-> 0], ![new] = NoCall]
              /\ retvalue' = [retvalue EXCEPT ![running] = last_pid]
    BY <1>8 DEF Restart, Spawn, listVars
  <2>2. new \in PCB /\ NewBlock(new) /\ Head(pcb_free) = new
    <3>1. \E st, par : Alloc(Head(pcb_free), st, par)
      BY <1>8 DEF Restart, Spawn
    <3> QED
      BY <3>1, <1>8, AllocatedBlock
  <2> HIDE DEF new
  <2>3. NoCall.num = "none"
    BY DEF NoCall
  <2>4. \A p \in PCB : call'[p].num = "wait" => p # new /\ call'[p] = call[p] /\ retvalue'[p] = retvalue[p]
    BY <1>1, <2>1, <2>2, <2>3
  <2>5. Live' = Live \union {new}
    BY <2>2 DEF NewBlock
  <2>6. \A p \in Reported' : p \in PCB
    BY <1>1, <2>2, <2>5 DEF Reported
  <2>7. \A p \in Reported' : p \in Reported /\ retvalue'[p] = retvalue[p]
    BY <2>1, <2>4, <2>5, <2>6 DEF Reported
  <2> QED
    BY <2>7, <1>3
<1>9. ASSUME NEW cycles \in SleepTimes, Sleep(cycles)
      PROVE  ReportsInv'
  <2>1. /\ UNCHANGED pcb_free
        /\ waiting_list \subseteq waiting_list'
        /\ call' = [call EXCEPT ![running] = [num |-> "sleep", arg |-> cycles]]
        /\ retvalue' \in {retvalue, [retvalue EXCEPT ![running] = DSOS_ESLEEP]}
    BY <1>9 DEF Sleep, poolVars, Trap
  <2>2. \A p \in PCB : call'[p].num = "wait" => call'[p] = call[p] /\ retvalue'[p] = retvalue[p]
    BY <1>1, <2>1
  <2> QED
    BY <1>1, <1>3, <2>1, <2>2 DEF Reported, Live
<1>10. CASE ~ \E how \in {"halted", "deadlock", "crashed", "hung"} : Stop(how)
  <2>1. ~Crash /\ ~Stop("hung") /\ ~Stop("halted")
    BY <1>10 DEF Crash
  <2>2. Tick => running # NULL
    BY <2>1 DEF Tick
  <2>3. Restart \/ Spawn => pcb_free # <<>>
    BY <2>1 DEF Restart, Spawn, NoBlockLeft
  <2>4. ~Shutdown
    BY <2>1 DEF Shutdown
  <2>5. Exit => ReportsInv'
    BY <2>1, ExitReports
  <2>6. (\E arg \in WaitArgs : Wait(arg)) => ReportsInv'
    BY <2>1, WaitReports
  <2> QED
    BY <1>5, <1>6, <1>7, <1>8, <1>9, <2>1, <2>2, <2>3, <2>4, <2>5, <2>6
       DEF KernelNext, KernelCall, Stopped
<1> QED
  BY <1>5, <1>10

-----------------------------------------------------------------------------
(* Orphans *)

\* A step that hangs nobody up and takes no child away that lives on.
LEMMA NobodyHungUp ==
    ASSUME KernelTypeOK, HungUpAreInits,
           \A p \in Live' : "SIGHUP" \in signals'[p] => p \in Live /\ "SIGHUP" \in signals[p],
           \A p \in Live', q \in PCB : parent[q] = NULL /\ p \in ToSet(children[q]) =>
               parent'[q] = NULL /\ p \in ToSet(children'[q])
    PROVE  HungUpAreInits'
  BY DEF HungUpAreInits

\* Nobody loses a child to spawn and disastrOS_start.
LEMMA AllocHangsNobodyUp ==
    ASSUME KernelInv, HungUpAreInits, Restart \/ Spawn, pcb_free # <<>>, ~Crash
    PROVE  HungUpAreInits'
<1> DEFINE new == Head(pcb_free)
<1>1. new \in PCB /\ new # running /\ NewBlock(new) /\ children[new] = <<>>
  <2>1. \E st, par : Alloc(Head(pcb_free), st, par)
    BY DEF Restart, Spawn
  <2>2. new \in PCB /\ NewBlock(new)
    BY <2>1, AllocatedBlock
  <2> QED
    BY <2>2, FreshBlock
<1>2. /\ signals' = [signals EXCEPT ![new] = {}]
      /\ \E par : parent' = [parent EXCEPT ![new] = par]
      /\ \/ children' = [children EXCEPT ![new] = <<>>]
         \/ /\ running \in PCB
            /\ children' = [children EXCEPT ![running] = Append(@, new), ![new] = <<>>]
  <2>1. Spawn => running \in PCB
    BY UserRuns DEF Spawn, KernelInv
  <2> QED
    BY <2>1 DEF Restart, Spawn, Alloc
<1> HIDE DEF new
<1>3. /\ KernelTypeOK /\ signals \in [PCB -> SUBSET Signals]
      /\ parent \in [PCB -> PCB \union {NULL}] /\ children \in [PCB -> Seq(PCB)]
  BY DEF KernelInv, KernelTypeOK
<1>4. signals'[new] = {} /\ \A p \in PCB : p # new => signals'[p] = signals[p] /\ parent'[p] = parent[p]
  BY <1>1, <1>2, <1>3
<1>5. ASSUME NEW q \in PCB, q # new
      PROVE  ToSet(children[q]) \subseteq ToSet(children'[q])
  <2>1. CASE children'[q] = children[q]
    BY <2>1
  <2>2. CASE q = running /\ children'[q] = Append(children[q], new)
    BY <2>2, <1>1, <1>3, Appended
  <2>3. \/ children'[q] = children[q]
        \/ q = running /\ children'[q] = Append(children[q], new)
    <3>1. CASE children' = [children EXCEPT ![new] = <<>>]
      BY <3>1, <1>3, <1>5
    <3>2. CASE /\ running \in PCB
               /\ children' = [children EXCEPT ![running] = Append(@, new), ![new] = <<>>]
      BY <3>2, <1>3, <1>5
    <3> QED
      BY <3>1, <3>2, <1>2
  <2> QED
    BY <2>1, <2>2, <2>3
<1>6. Live' = Live \union {new} /\ Live \subseteq PCB /\ ToSet(children[new]) = {}
  BY <1>1, NoneOnEmpty DEF NewBlock, Live
<1> QED
  BY <1>1, <1>3, <1>4, <1>5, <1>6, NobodyHungUp

\* wait takes the child away whose block it gives back.
LEMMA ReapHangsNobodyUp ==
    ASSUME KernelInv, HungUpAreInits, running \in PCB, NEW i \in DOMAIN children[running],
           Reap(i), UNCHANGED <<parent, signals>>
    PROVE  HungUpAreInits'
<1> DEFINE kids == children[running]
           child == kids[i]
<1>1. Live' = Live \ {child}
  BY ReapedBlock
<1>2. kids \in Seq(PCB) /\ IsInjective(kids) /\ KernelTypeOK /\ children \in [PCB -> Seq(PCB)]
  BY DEF KernelInv, KernelTypeOK, FamilyTree
<1>3. ToSet(RemoveAt(kids, i)) = ToSet(kids) \ {child}
  BY <1>2, RemovedSet
<1>4. children' = [children EXCEPT ![running] = RemoveAt(kids, i)]
  BY DEF Reap
<1> HIDE DEF kids
<1>5. \A q \in PCB : ToSet(children[q]) \ {child} \subseteq ToSet(children'[q])
  BY <1>2, <1>3, <1>4 DEF kids
<1> HIDE DEF child
<1> QED
  BY <1>1, <1>2, <1>5, NobodyHungUp

\* The orphans that exit hangs up come to init, which has no parent, and neither
\* has the process that exits: another one than those who have orphans.
LEMMA ExitHangsUpOrphans ==
    ASSUME KernelInv, HungUpAreInits, Exit, ~Crash, ~Stop("hung")
    PROVE  HungUpAreInits'
<1> DEFINE par == parent[running]
           c == Reparented
<1>1. running \in PCB /\ KernelTypeOK
  BY UserRuns DEF Exit, KernelInv
<1>2. /\ par \in PCB /\ running # init_pcb
      /\ init_pcb \in PCB /\ parent[init_pcb] = NULL /\ par # NULL
  <2>1. par # NULL
    BY DEF Exit
  <2> QED
    BY <1>1, <2>1 DEF KernelInv, KernelTypeOK, RootedTree
<1>3. /\ c \in [PCB -> Seq(PCB)]
      /\ ToSet(c[init_pcb]) = ToSet(children[init_pcb]) \union ToSet(children[running])
      /\ \A p \in PCB : p # running /\ p # init_pcb => c[p] = children[p]
      /\ \A p \in PCB : IsInjective(c[p])
  <2>1. /\ c \in [PCB -> Seq(PCB)]
        /\ ToSet(c[init_pcb]) = Kids(init_pcb) \union Kids(running)
        /\ \A p \in PCB : p # running /\ p # init_pcb => c[p] = children[p]
        /\ \A p \in PCB : IsInjective(c[p])
    BY <1>1, <1>2, OrphansToInit
  <2> QED
    BY <2>1 DEF Kids
<1>4. parent' = parent /\ signals' = ExitSignals
  BY DEF Exit
<1>5. /\ Live' \subseteq Live
      /\ \A q \in PCB, p \in Live' : p \in ToSet(c[q]) => p \in ToSet(children'[q])
  <2>1. CASE ExitToReady
    BY <2>1 DEF ExitToReady, Live
  <2>2. CASE running \in ToSet(c[par]) /\ ExitToParent(par)
    <3> DEFINE i == PtrPlace(c[par], running)
    <3>1. Live' = Live \ {running}
      BY <1>1, <2>2, FreedBlock DEF ExitToParent
    <3>2. children' = [c EXCEPT ![par] = RemoveAt(c[par], i)]
      BY <2>2 DEF ExitToParent
    <3> HIDE DEF c
    <3>3. i \in DOMAIN c[par] /\ c[par][i] = running
      BY <1>2, <1>3, <2>2, PtrPlaceFound
    <3> HIDE DEF i
    <3>4. ToSet(RemoveAt(c[par], i)) = ToSet(c[par]) \ {running}
      BY <1>2, <1>3, <3>3, RemovedSet
    <3>5. \A q \in PCB : ToSet(c[q]) \ {running} \subseteq ToSet(children'[q])
      BY <1>3, <3>2, <3>4
    <3> QED
      BY <3>1, <3>5
  <2> QED
    BY <1>2, <2>1, <2>2 DEF Exit
<1> HIDE DEF c, par
<1> SUFFICES ASSUME NEW p \in Live', "SIGHUP" \in signals'[p]
             PROVE  \E q \in PCB : parent[q] = NULL /\ p \in ToSet(children'[q])
  BY <1>4 DEF HungUpAreInits
<1>6. p \in Live /\ p \in PCB
  BY <1>5 DEF Live
<1>7. p \in ToSet(children[running]) \/ "SIGHUP" \in signals[p]
  BY <1>4, <1>6 DEF ExitSignals
<1>8. CASE p \in ToSet(children[running])
  BY <1>8, <1>2, <1>3, <1>5
<1>9. CASE "SIGHUP" \in signals[p]
  <2>1. PICK q \in PCB : parent[q] = NULL /\ p \in ToSet(children[q])
    BY <1>6, <1>9 DEF HungUpAreInits
  <2>2. q # running
    BY <2>1, <1>2 DEF par
  <2>3. p \in ToSet(c[q])
    BY <2>1, <2>2, <1>3
  <2> QED
    BY <2>1, <2>3, <1>5
<1> QED
  BY <1>7, <1>8, <1>9

\* Every step keeps those that were hung up with an init.
LEMMA HungUpStep ==
    ASSUME KernelInv, HungUpAreInits, [KernelNext]_kernelVars
    PROVE  HungUpAreInits'
<1>1. UNCHANGED <<pcb_free, parent, signals, children>> => HungUpAreInits'
  BY DEF HungUpAreInits, Live
<1>2. CASE UNCHANGED kernelVars \/ \E how \in {"halted", "deadlock", "crashed", "hung"} : Stop(how)
  BY <1>2, <1>1 DEF kernelVars, poolVars, pcbVars, Stop
<1>3. CASE Tick \/ Preempt \/ Return
  BY <1>3, <1>1 DEF Tick, Preempt, Return, Schedule, Crash, Stop, poolVars, pcbVars
<1>4. CASE \E cycles \in SleepTimes : Sleep(cycles)
  BY <1>4, <1>1 DEF Sleep, poolVars
<1>5. CASE (Restart \/ Spawn) /\ ~Crash
  BY <1>5, AllocHangsNobodyUp DEF Restart, Spawn, NoBlockLeft
<1>6. ASSUME NEW arg \in WaitArgs, Wait(arg), ~Crash
      PROVE  HungUpAreInits'
  <2>1. /\ running \in PCB /\ children[running] \in Seq(PCB)
        /\ UNCHANGED <<parent, signals>>
    BY <1>6, UserRuns DEF Wait, KernelInv, KernelTypeOK
  <2>2. CASE NoChildren \/ Await
    BY <2>1, <2>2, <1>1 DEF NoChildren, Await, poolVars
  <2>3. CASE children[running] # <<>> /\ Reap(AwaitedPlace(arg))
    <3>1. AwaitedPlace(arg) \in DOMAIN children[running]
      BY <2>1, <2>3, AwaitedPlaceFound
    <3> QED
      BY <2>1, <2>3, <3>1, ReapHangsNobodyUp
  <2> QED
    BY <1>6, <2>2, <2>3 DEF Wait
<1>7. CASE ~ \E how \in {"halted", "deadlock", "crashed", "hung"} : Stop(how)
  <2>1. ~Crash /\ ~Stop("hung") /\ ~Stop("halted")
    BY <1>7 DEF Crash
  <2>2. ~Shutdown
    BY <2>1 DEF Shutdown
  <2>3. Exit => HungUpAreInits'
    BY <2>1, ExitHangsUpOrphans
  <2> QED
    BY <1>2, <1>3, <1>4, <1>5, <1>6, <2>1, <2>2, <2>3 DEF KernelNext, KernelCall, Stopped
<1> QED
  BY <1>2, <1>7

-----------------------------------------------------------------------------
(* The theorems *)

\* Pids are never given twice, and what wait reports is the pid of a process that
\* is gone and was reported to nobody else: the reuse of blocks, and that wait
\* takes another child when the one asked for is none, never show in a pid.
THEOREM ReportsAreTrue == KernelSpec => []ReportedAreGone
<1>1. KernelInit => ReportsInv
  <2> SUFFICES ASSUME KernelInit PROVE ReportsInv
    OBVIOUS
  <2>1. Reported = {}
    BY DEF KernelInit, Reported, NoCall, Live
  <2> QED
    BY <2>1, InitPids DEF ReportsInv
<1>2. KernelInv /\ ReportsInv /\ [KernelNext]_kernelVars => ReportsInv'
  BY ReportsStep
<1>3. ReportsInv => ReportedAreGone
  BY DEF ReportsInv, ReportedAreGone, Reported
<1> QED
  BY <1>1, <1>2, <1>3, KernelInvariant, PTL DEF KernelSpec

\* Whoever has SIGHUP is a child of a process without a parent, also after the
\* system began again with another init: nobody of those ever exits.
THEOREM OrphansHaveInit == KernelSpec => []HungUpAreInits
<1>1. KernelInit => HungUpAreInits
  BY DEF KernelInit, HungUpAreInits, Live
<1>2. KernelInv /\ HungUpAreInits /\ [KernelNext]_kernelVars => HungUpAreInits'
  BY HungUpStep
<1> QED
  BY <1>1, <1>2, KernelInvariant, PTL DEF KernelSpec

-----------------------------------------------------------------------------
(* What waiters wait for: no child that may still wake its parent is lost, *)
(* replaced or a zombie already, and the exit that wakes is the child's.   *)

\* Only a process without a parent, an init, has children whose parent field leads
\* elsewhere: orphans come to no one else.
ChildrenOwn ==
    \A q \in PCB : \A c \in ToSet(children[q]) : parent[c] = q \/ parent[q] = NULL

\* Of the children that a process waits for, none that would have awakened it has
\* exited.
AwaitedAlive ==
    \A p \in waiting_list : call[p].num = "wait" =>
        \A c \in Awaited(p) : parent[c] = p => c \notin zombie_list

CauseInv == PidsDiffer /\ ChildrenOwn /\ AwaitedAlive

\* What a step leaves of the wait of p: its children stay, and who comes to them
\* has another parent; whoever exits without waking p is not one that it waits for
\* and that would.
StillWaits(p) ==
    /\ p \in waiting_list' /\ call'[p] = call[p]
    /\ ToSet(children[p]) \subseteq ToSet(children'[p])
    /\ \A c \in ToSet(children'[p]) \ ToSet(children[p]) : parent'[c] # p
    /\ \A c \in ToSet(children[p]) : pid'[c] = pid[c] /\ parent'[c] = parent[c]
    /\ \A c \in Awaited(p) : c \in zombie_list' => c \in zombie_list \/ parent[c] # p

\* The exit of a child that p waits for, as p finds it afterwards.
IsAnswered(p) ==
    /\ running \in Awaited(p) /\ running' = p
    /\ retvalue'[p] = pid[running]
    /\ running \in ToSet(pcb_free') /\ running \notin ToSet(children'[p])

\* A step that changes no family and makes no zombie.
LEMMA FamilyKept ==
    ASSUME NEW p \in waiting_list, p \in waiting_list', call'[p] = call[p],
           UNCHANGED <<children, pid, parent>>, zombie_list' \subseteq zombie_list
    PROVE  StillWaits(p)
  BY DEF StillWaits

\* A new process is nobody's child but the running one's.
LEMMA AllocLeavesWaiters ==
    ASSUME KernelInv, Restart \/ Spawn, pcb_free # <<>>, ~Crash,
           NEW p \in waiting_list
    PROVE  StillWaits(p)
<1> DEFINE new == Head(pcb_free)
<1>1. /\ new \in PCB /\ new # running /\ new \notin waiting_list
      /\ \A q \in PCB : new \notin ToSet(children[q])
  BY FreshBlock
<1>2. /\ pid' = [pid EXCEPT ![new] = last_pid]
      /\ \E par : parent' = [parent EXCEPT ![new] = par]
      /\ \/ /\ children' = [children EXCEPT ![new] = <<>>]
            /\ call' = [call EXCEPT ![new] = NoCall]
         \/ /\ children' = [children EXCEPT ![running] = Append(@, new), ![new] = <<>>]
            /\ call' = [call EXCEPT ![running] = [num |-> "spawn", arg |-> 0], ![new] = NoCall]
      /\ UNCHANGED <<waiting_list, zombie_list>>
  BY DEF Restart, Spawn, Alloc, listVars
<1> HIDE DEF new
<1>3. /\ pid \in [PCB -> Nat] /\ parent \in [PCB -> PCB \union {NULL}]
      /\ children \in [PCB -> Seq(PCB)] /\ call \in [PCB -> CallRecord]
      /\ p \in PCB /\ p # running /\ p # new
  BY <1>1 DEF KernelInv, KernelTypeOK, OnePlace
<1>4. children'[p] = children[p] /\ call'[p] = call[p]
  <2>1. CASE /\ children' = [children EXCEPT ![new] = <<>>]
             /\ call' = [call EXCEPT ![new] = NoCall]
    BY <2>1, <1>3
  <2>2. CASE /\ children' = [children EXCEPT ![running] = Append(@, new), ![new] = <<>>]
             /\ call' = [call EXCEPT ![running] = [num |-> "spawn", arg |-> 0], ![new] = NoCall]
    BY <2>2, <1>3
  <2> QED
    BY <2>1, <2>2, <1>2
<1>5. \A c \in ToSet(children[p]) : c # new /\ c \in PCB
  BY <1>1, <1>3 DEF KernelInv, FamilyTree, Live
<1>6. \A c \in PCB : c # new => pid'[c] = pid[c] /\ parent'[c] = parent[c]
  BY <1>2, <1>3
<1> QED
  BY <1>2, <1>4, <1>5, <1>6 DEF StillWaits

\* An exit brings init the children of a process that has a parent itself, so they
\* name that process and not init.
LEMMA OrphansNameNoWaiter ==
    ASSUME KernelInv, ChildrenOwn, running \in PCB, running # init_pcb, parent[running] # NULL,
           NEW p \in PCB, p # running
    PROVE  /\ ToSet(children[p]) \subseteq ToSet(Reparented[p])
           /\ \A c \in ToSet(Reparented[p]) \ ToSet(children[p]) : parent[c] # p
<1>1. CASE p = init_pcb
  <2>1. ToSet(Reparented[p]) = ToSet(children[p]) \union ToSet(children[running])
    BY <1>1, OrphansToInit DEF Kids
  <2>2. \A c \in ToSet(children[running]) : parent[c] = running
    BY DEF ChildrenOwn
  <2> QED
    BY <2>1, <2>2
<1>2. CASE p # init_pcb
  BY <1>2, OrphansToInit
<1> QED
  BY <1>1, <1>2

\* An exit that wakes the parent is that of a child it waits for; it leaves all
\* others as they were, and an exit that wakes nobody is waited for by nobody whom
\* its parent field leads to.
LEMMA ExitAnswers ==
    ASSUME KernelInv, ChildrenOwn, Exit, ~Crash, ~Stop("hung"),
           NEW p \in waiting_list, call[p].num = "wait"
    PROVE  StillWaits(p) \/ IsAnswered(p)
<1> DEFINE par == parent[running]
           c == Reparented
<1>1. /\ running \in PCB /\ par \in PCB /\ par # NULL /\ running # init_pcb
      /\ Trap("exit", 0) /\ UNCHANGED <<pid, parent>>
  <2>1. running \in PCB /\ par # NULL
    BY UserRuns DEF Exit, KernelInv
  <2> QED
    BY <2>1 DEF Exit, KernelInv, KernelTypeOK, RootedTree
<1>2. p \in PCB /\ p # running /\ call'[p] = call[p] /\ p \in Live
  <2>1. p \in PCB /\ p # running /\ p \in Live
    BY <1>1 DEF KernelInv, KernelTypeOK, OnePlace, Live
  <2> QED
    BY <2>1, <1>1, TrapElsewhere
<1>3. /\ c \in [PCB -> Seq(PCB)] /\ IsInjective(c[par])
      /\ ToSet(children[p]) \subseteq ToSet(c[p])
      /\ \A x \in ToSet(c[p]) \ ToSet(children[p]) : parent[x] # p
  <2>1. c \in [PCB -> Seq(PCB)] /\ IsInjective(c[par])
    BY <1>1, OrphansToInit
  <2> QED
    BY <2>1, <1>1, <1>2, OrphansNameNoWaiter
<1> HIDE DEF c
<1>4. CASE ParentAwaits(par) /\ running \in ToSet(c[par]) /\ ExitToParent(par)
  <2> DEFINE i == PtrPlace(c[par], running)
  <2>1. /\ children' = [c EXCEPT ![par] = RemoveAt(c[par], i)]
        /\ waiting_list' = waiting_list \ {par} /\ zombie_list' = zombie_list
        /\ retvalue' = [retvalue EXCEPT ![par] = pid[running]]
        /\ pcb_free' = Freed(running) /\ running' = par
    BY <1>4 DEF ExitToParent, c
  <2> HIDE DEF i
  <2>2. CASE p = par
    <3>1. i \in DOMAIN c[par] /\ c[par][i] = running
      BY <1>1, <1>3, <1>4, PtrPlaceFound DEF i
    <3>2. ToSet(RemoveAt(c[par], i)) = ToSet(c[par]) \ {running}
      BY <1>1, <1>3, <3>1, RemovedSet
    <3>3. running \notin ToSet(children'[p])
      BY <1>1, <1>3, <2>1, <2>2, <3>2
    <3>4. running \in Awaited(p)
      <4>1. running \in ToSet(children[p])
        BY <1>3, <1>4, <2>2
      <4>2. call[p].arg \in {0, pid[running]}
        BY <1>4, <2>2 DEF ParentAwaits
      <4> QED
        BY <4>1, <4>2 DEF Awaited
    <3>5. retvalue'[p] = pid[running]
      BY <1>1, <2>1, <2>2 DEF KernelInv, KernelTypeOK
    <3>6. running \in ToSet(pcb_free')
      BY <1>1, <2>1, PutInFront DEF Freed, KernelInv, KernelTypeOK
    <3> QED
      BY <2>1, <2>2, <3>3, <3>4, <3>5, <3>6 DEF IsAnswered
  <2>3. CASE p # par
    <3>1. children'[p] = c[p] /\ p \in waiting_list'
      BY <1>2, <1>3, <2>1, <2>3
    <3> QED
      BY <1>1, <1>2, <1>3, <2>1, <3>1 DEF StillWaits
  <2> QED
    BY <2>2, <2>3
<1>5. CASE ~ParentAwaits(par) /\ ExitToReady
  <2>1. children' = c /\ waiting_list' = waiting_list /\ zombie_list' = zombie_list \union {running}
    BY <1>5 DEF ExitToReady, c
  <2>2. ASSUME running \in Awaited(p), par = p
        PROVE  FALSE
    <3>1. status[p] = "Waiting"
      BY <1>2 DEF KernelInv, StatusTellsPlace
    <3> QED
      BY <1>5, <2>2, <3>1 DEF ParentAwaits, Awaited
  <2> QED
    BY <1>1, <1>2, <1>3, <2>1, <2>2 DEF StillWaits
<1> QED
  BY <1>1, <1>4, <1>5 DEF Exit, c

\* Every step leaves a wait as it is, or it is the exit that answers it.
LEMMA WaiterSees ==
    ASSUME KernelInv, ChildrenOwn, [KernelNext]_kernelVars,
           NEW p \in waiting_list, call[p].num = "wait"
    PROVE  StillWaits(p) \/ IsAnswered(p)
<1>1. p \in PCB /\ p # running
  BY DEF KernelInv, KernelTypeOK, OnePlace
<1>2. CASE UNCHANGED kernelVars \/ \E how \in {"halted", "deadlock", "crashed", "hung"} : Stop(how)
  <2>1. UNCHANGED <<waiting_list, zombie_list, call, children, pid, parent>>
    BY <1>2 DEF kernelVars, pcbVars, listVars, Stop
  <2> QED
    BY <2>1, FamilyKept
<1>3. CASE (Tick /\ running # NULL) \/ Preempt
  <2>1. /\ timer_list \in Seq(Timer) /\ OneEach(timer_list) /\ SleepersOf(timer_list) = Asleep
        /\ Aged(timer_list) \in Seq(Timer) /\ OneEach(Aged(timer_list))
        /\ SleepersOf(Aged(timer_list)) = Asleep
    <3>1. timer_list \in Seq(Timer) /\ OneEach(timer_list) /\ SleepersOf(timer_list) = Asleep
      BY DEF KernelInv, KernelTypeOK, SoundCauses, OneEach, Asleep, SleepersOf
    <3> QED
      BY <3>1, AgedTyped, AgedSleepers
  <2>2. Schedule(Aged(timer_list)) \/ Schedule(timer_list)
    BY <1>3 DEF Tick, Preempt
  <2>3. \A q \in waiting_list \ waiting_list' : call[q].num = "sleep"
    BY <2>1, <2>2, ScheduleWaiters
  <2>4. p \in waiting_list'
    BY <2>3
  <2>5. UNCHANGED <<zombie_list, children, pid, parent>>
    BY <2>2 DEF Schedule
  <2>6. call'[p] = call[p]
    <3>1. call' = call \/ call' = [call EXCEPT ![running] = [num |-> "preempt", arg |-> 0]]
      BY <1>3 DEF Tick, Preempt, Trap
    <3> QED
      BY <1>1, <3>1 DEF KernelInv, KernelTypeOK
  <2> QED
    BY <2>4, <2>5, <2>6, FamilyKept
<1>4. CASE Return
  <2>1. /\ UNCHANGED <<waiting_list, zombie_list, children, pid, parent>>
        /\ call' = [call EXCEPT ![running] = NoCall]
    BY <1>4 DEF Return, listVars, pcbVars
  <2>2. call'[p] = call[p]
    BY <1>1, <2>1 DEF KernelInv, KernelTypeOK
  <2> QED
    BY <2>1, <2>2, FamilyKept
<1>5. CASE (Restart \/ Spawn) /\ pcb_free # <<>> /\ ~Crash
  BY <1>5, AllocLeavesWaiters
<1>6. ASSUME NEW cycles \in SleepTimes, Sleep(cycles)
      PROVE  StillWaits(p)
  <2>1. /\ running \in PCB /\ Trap("sleep", cycles) /\ waiting_list \subseteq waiting_list'
        /\ UNCHANGED <<zombie_list, children, pid, parent>>
    BY <1>6, UserRuns DEF Sleep, KernelInv
  <2>2. call'[p] = call[p]
    BY <2>1, TrapElsewhere
  <2> QED
    BY <2>1, <2>2, FamilyKept
<1>7. ASSUME NEW arg \in WaitArgs, Wait(arg), ~Crash
      PROVE  StillWaits(p)
  <2> DEFINE kids == children[running]
  <2>1. /\ running \in PCB /\ Trap("wait", arg) /\ children \in [PCB -> Seq(PCB)]
        /\ UNCHANGED <<pid, parent>>
    BY <1>7, UserRuns DEF Wait, KernelInv, KernelTypeOK
  <2>2. call'[p] = call[p]
    BY <2>1, TrapElsewhere
  <2>3. CASE NoChildren \/ Await
    <3>1. waiting_list \subseteq waiting_list' /\ UNCHANGED <<zombie_list, children>>
      BY <2>3 DEF NoChildren, Await
    <3> QED
      BY <2>1, <2>2, <3>1, FamilyKept
  <2>4. CASE Reap(AwaitedPlace(arg))
    <3>1. /\ children' = [children EXCEPT ![running] = RemoveAt(@, AwaitedPlace(arg))]
          /\ waiting_list' = waiting_list /\ zombie_list' \subseteq zombie_list
      BY <2>4 DEF Reap
    <3>2. children'[p] = children[p]
      BY <1>1, <2>1, <3>1
    <3> QED
      BY <2>1, <2>2, <3>1, <3>2 DEF StillWaits
  <2> QED
    BY <1>7, <2>3, <2>4 DEF Wait
<1>8. CASE ~ \E how \in {"halted", "deadlock", "crashed", "hung"} : Stop(how)
  <2>1. ~Crash /\ ~Stop("hung") /\ ~Stop("halted")
    BY <1>8 DEF Crash
  <2>2. Tick => running # NULL
    BY <2>1 DEF Tick
  <2>3. Restart \/ Spawn => pcb_free # <<>>
    BY <2>1 DEF Restart, Spawn, NoBlockLeft
  <2>4. ~Shutdown
    BY <2>1 DEF Shutdown
  <2>5. Exit => StillWaits(p) \/ IsAnswered(p)
    BY <2>1, ExitAnswers
  <2> QED
    BY <1>2, <1>3, <1>4, <1>5, <1>6, <1>7, <2>1, <2>2, <2>3, <2>4, <2>5
       DEF KernelNext, KernelCall, Stopped
<1> QED
  BY <1>2, <1>8

-----------------------------------------------------------------------------
(* The invariant of waiters *)

\* Families grow by children of the running process and shrink by exits and reaps;
\* only init comes to children of others.
LEMMA ChildrenOwnStep ==
    ASSUME KernelInv, ChildrenOwn, [KernelNext]_kernelVars
    PROVE  ChildrenOwn'
<1>0. /\ children \in [PCB -> Seq(PCB)] /\ parent \in [PCB -> PCB \union {NULL}]
      /\ \A q \in PCB : IsInjective(children[q]) /\ ToSet(children[q]) \subseteq PCB
  BY DEF KernelInv, KernelTypeOK, FamilyTree, Live
<1>1. ASSUME parent' = parent,
             \A q \in PCB : ToSet(children'[q]) \subseteq ToSet(children[q]) \/ parent[q] = NULL
      PROVE  ChildrenOwn'
  BY <1>1 DEF ChildrenOwn
<1>2. CASE UNCHANGED kernelVars \/ \E how \in {"halted", "deadlock", "crashed", "hung"} : Stop(how)
  BY <1>2, <1>1 DEF kernelVars, pcbVars, Stop
<1>3. CASE Tick \/ Preempt \/ Return
  BY <1>3, <1>1 DEF Tick, Preempt, Return, Schedule, Crash, Stop, pcbVars
<1>4. CASE \E cycles \in SleepTimes : Sleep(cycles)
  BY <1>4, <1>1 DEF Sleep
<1>5. CASE (Restart \/ Spawn) /\ pcb_free # <<>> /\ ~Crash
  <2> DEFINE new == Head(pcb_free)
  <2>1. /\ new \in PCB /\ new # running /\ children[new] = <<>>
        /\ \A q \in PCB : new \notin ToSet(children[q])
    BY <1>5, FreshBlock
  <2>2. \/ /\ children' = [children EXCEPT ![new] = <<>>]
           /\ parent' = [parent EXCEPT ![new] = NULL]
        \/ /\ running \in PCB
           /\ children' = [children EXCEPT ![running] = Append(@, new), ![new] = <<>>]
           /\ parent' = [parent EXCEPT ![new] = running]
    <3>1. Spawn => running \in PCB
      BY UserRuns DEF Spawn, KernelInv
    <3> QED
      BY <3>1, <1>5 DEF Restart, Spawn, Alloc
  <2> HIDE DEF new
  <2>3. \A x \in PCB : x # new => parent'[x] = parent[x]
    BY <1>0, <2>2
  <2>4. ToSet(children'[new]) = {}
    <3>1. children'[new] = <<>>
      BY <1>0, <2>1, <2>2
    <3> QED
      BY <3>1, NoneOnEmpty
  <2>5. ASSUME NEW q \in PCB, q # new
        PROVE  \A c \in ToSet(children'[q]) : parent'[c] = q \/ parent'[q] = NULL
    <3>1. CASE children'[q] = children[q]
      BY <3>1, <1>0, <2>1, <2>3, <2>5 DEF ChildrenOwn
    <3>2. CASE q = running /\ children'[q] = Append(children[q], new) /\ parent'[new] = running
      <4>1. ToSet(children'[q]) = ToSet(children[q]) \union {new}
        BY <3>2, <1>0, <2>1, Appended
      <4> QED
        BY <3>2, <4>1, <1>0, <2>1, <2>3, <2>5 DEF ChildrenOwn
    <3>3. CASE /\ children' = [children EXCEPT ![new] = <<>>]
               /\ parent' = [parent EXCEPT ![new] = NULL]
      BY <3>3, <3>1, <1>0, <2>5
    <3>4. CASE /\ running \in PCB
               /\ children' = [children EXCEPT ![running] = Append(@, new), ![new] = <<>>]
               /\ parent' = [parent EXCEPT ![new] = running]
      <4>1. parent'[new] = running
        BY <3>4, <1>0, <2>1
      <4>2. children'[q] = IF q = running THEN Append(children[q], new) ELSE children[q]
        BY <3>4, <1>0, <2>5
      <4> QED
        BY <4>1, <4>2, <3>1, <3>2
    <3> QED
      BY <3>3, <3>4, <2>2
  <2> QED
    BY <2>4, <2>5 DEF ChildrenOwn
<1>6. ASSUME NEW arg \in WaitArgs, Wait(arg), ~Crash
      PROVE  ChildrenOwn'
  <2> DEFINE kids == children[running]
  <2>1. running \in PCB /\ kids \in Seq(PCB) /\ parent' = parent
    BY <1>6, <1>0, UserRuns DEF Wait, KernelInv
  <2>2. CASE NoChildren \/ Await
    BY <2>1, <2>2, <1>1 DEF NoChildren, Await
  <2>3. CASE kids # <<>> /\ Reap(AwaitedPlace(arg))
    <3> DEFINE i == AwaitedPlace(arg)
    <3>1. i \in DOMAIN kids
      BY <2>1, <2>3, AwaitedPlaceFound
    <3>2. children' = [children EXCEPT ![running] = RemoveAt(kids, i)]
      BY <2>3 DEF Reap
    <3> HIDE DEF i
    <3>3. ToSet(RemoveAt(kids, i)) \subseteq ToSet(kids)
      BY <1>0, <2>1, <3>1, RemovedSet
    <3>4. \A q \in PCB : ToSet(children'[q]) \subseteq ToSet(children[q])
      BY <1>0, <2>1, <3>2, <3>3
    <3> QED
      BY <2>1, <3>4, <1>1
  <2> QED
    BY <1>6, <2>2, <2>3 DEF Wait
<1>7. CASE Exit /\ ~Crash /\ ~Stop("hung")
  <2> DEFINE par == parent[running]
             c == Reparented
  <2>1. /\ running \in PCB /\ par \in PCB /\ running # init_pcb
        /\ parent[init_pcb] = NULL /\ parent' = parent
    <3>1. running \in PCB /\ par # NULL
      BY <1>7, UserRuns DEF Exit, KernelInv
    <3> QED
      BY <3>1, <1>7 DEF Exit, KernelInv, KernelTypeOK, RootedTree
  <2>2. /\ c \in [PCB -> Seq(PCB)] /\ \A q \in PCB : IsInjective(c[q])
        /\ ToSet(c[running]) = {}
        /\ \A q \in PCB : q # running /\ q # init_pcb => c[q] = children[q]
    BY <2>1, OrphansToInit
  <2>3. \A q \in PCB : ToSet(c[q]) \subseteq ToSet(children[q]) \/ parent[q] = NULL
    BY <2>1, <2>2
  <2>4. CASE ExitToReady
    BY <2>1, <2>3, <2>4, <1>1 DEF ExitToReady
  <2>5. CASE running \in ToSet(c[par]) /\ ExitToParent(par)
    <3> DEFINE i == PtrPlace(c[par], running)
    <3>1. children' = [c EXCEPT ![par] = RemoveAt(c[par], i)]
      BY <2>5 DEF ExitToParent
    <3> HIDE DEF c
    <3>2. i \in DOMAIN c[par]
      BY <2>1, <2>2, <2>5, PtrPlaceFound
    <3> HIDE DEF i
    <3>3. ToSet(RemoveAt(c[par], i)) \subseteq ToSet(c[par])
      BY <2>1, <2>2, <3>2, RemovedSet
    <3>4. \A q \in PCB : ToSet(children'[q]) \subseteq ToSet(c[q])
      BY <2>1, <2>2, <3>1, <3>3
    <3>5. \A q \in PCB : ToSet(children'[q]) \subseteq ToSet(children[q]) \/ parent[q] = NULL
      BY <2>3, <3>4
    <3> QED
      BY <2>1, <3>5, <1>1
  <2> QED
    BY <2>1, <2>4, <2>5, <1>7 DEF Exit
<1>8. CASE ~ \E how \in {"halted", "deadlock", "crashed", "hung"} : Stop(how)
  <2>1. ~Crash /\ ~Stop("hung") /\ ~Stop("halted")
    BY <1>8 DEF Crash
  <2>2. Restart \/ Spawn => pcb_free # <<>>
    BY <2>1 DEF Restart, Spawn, NoBlockLeft
  <2>3. ~Shutdown
    BY <2>1 DEF Shutdown
  <2> QED
    BY <1>2, <1>3, <1>4, <1>5, <1>6, <1>7, <2>1, <2>2, <2>3 DEF KernelNext, KernelCall, Stopped
<1> QED
  BY <1>2, <1>8

\* wait blocks only when no child that it asks for is a zombie: its scan stops at the
\* first such child, and pids tell children apart.
LEMMA AwaitsTheLiving ==
    ASSUME KernelInv, PidsDiffer, NEW arg \in WaitArgs, running \in PCB,
           children[running] # <<>>, status[children[running][AwaitedPlace(arg)]] # "Zombie"
    PROVE  \A c \in ToSet(children[running]) : arg \in {0, pid[c]} => c \notin zombie_list
<1> DEFINE kids == children[running]
           m == AwaitedPlace(arg)
<1>1. kids \in Seq(PCB) /\ ToSet(kids) \subseteq Live
  BY DEF KernelInv, KernelTypeOK, FamilyTree
<1>2. /\ m \in DOMAIN kids
      /\ \A j \in 1 .. m - 1 : ~Hit(arg, kids[j])
      /\ Hit(arg, kids[m]) \/ m = Len(kids)
  BY <1>1, AwaitedPlaceStops
<1>3. DOMAIN kids = 1 .. Len(kids) /\ Len(kids) \in Nat
  BY <1>1, LenProperties
<1> HIDE DEF m, kids
<1> SUFFICES ASSUME NEW j \in DOMAIN kids, arg \in {0, pid[kids[j]]}, kids[j] \in zombie_list
             PROVE  FALSE
  BY DEF ToSet, kids
<1>4. kids[j] \in Live /\ kids[m] \in Live
  BY <1>1, <1>2 DEF ToSet
<1>5. status[kids[j]] = "Zombie" /\ status[kids[m]] # "Zombie"
  BY <1>4 DEF KernelInv, StatusTellsPlace, kids, m
<1>6. Hit(arg, kids[j])
  BY <1>5 DEF Hit
<1>7. m < j
  <2>1. ~(j \in 1 .. m - 1) /\ j # m
    BY <1>2, <1>5, <1>6
  <2> QED
    BY <2>1, <1>2, <1>3
<1>8. Hit(arg, kids[m])
  BY <1>2, <1>3, <1>7
<1>9. CASE arg = 0
  BY <1>5, <1>8, <1>9 DEF Hit
<1>10. CASE arg # 0
  <2>1. pid[kids[m]] = pid[kids[j]]
    BY <1>8, <1>10 DEF Hit
  <2>2. kids[m] = kids[j]
    BY <1>4, <2>1 DEF PidsDiffer
  <2> QED
    BY <1>5, <2>2
<1> QED
  BY <1>9, <1>10

\* Whoever comes to waiting_list in wait blocked in it.
LEMMA AwaitedAliveStep ==
    ASSUME KernelInv, KernelInv', CauseInv, [KernelNext]_kernelVars
    PROVE  AwaitedAlive'
<1> SUFFICES ASSUME NEW p \in waiting_list', call'[p].num = "wait",
                    NEW c \in ToSet(children'[p]), call'[p].arg \in {0, pid'[c]}, parent'[c] = p
             PROVE  c \notin zombie_list'
  BY DEF AwaitedAlive, Awaited
<1>0. running' \notin waiting_list' /\ running \notin waiting_list
  BY DEF KernelInv, OnePlace
<1>1. \/ p \in waiting_list /\ call'[p] = call[p]
      \/ p = running /\ p \notin waiting_list
  BY <1>0, WaitersStep
<1>2. CASE p \in waiting_list /\ call'[p] = call[p]
  <2>1. ~IsAnswered(p)
    BY <1>0 DEF IsAnswered
  <2>2. StillWaits(p)
    BY <1>2, <2>1, WaiterSees DEF CauseInv
  <2>3. c \in ToSet(children[p]) /\ parent[c] = p /\ pid'[c] = pid[c]
    BY <2>2 DEF StillWaits
  <2>4. c \in Awaited(p)
    BY <1>2, <2>3 DEF Awaited
  <2>5. c \notin zombie_list
    BY <1>2, <2>3, <2>4 DEF CauseInv, AwaitedAlive
  <2> QED
    BY <2>2, <2>3, <2>4, <2>5 DEF StillWaits
<1>3. CASE p = running /\ p \notin waiting_list
  <2>1. PICK arg \in WaitArgs : Wait(arg) /\ ~Crash
    <3>1. waiting_list' # waiting_list /\ ~Crash /\ ~Stop("hung") /\ ~Stop("halted")
      BY <1>3 DEF Crash, Stop, listVars
    <3>2. ~(Schedule(timer_list) \/ Schedule(Aged(timer_list)))
      BY <1>3 DEF Schedule, StillWaiting
    <3>3. ~(Restart \/ Tick \/ Return \/ Preempt \/ Shutdown \/ Spawn \/ UNCHANGED kernelVars)
      BY <3>1, <3>2 DEF Restart, Tick, Return, Preempt, Shutdown, Spawn, listVars, kernelVars
    <3>4. ASSUME NEW cycles \in SleepTimes
          PROVE  ~Sleep(cycles)
      <4>1. SUFFICES ASSUME Sleep(cycles) PROVE FALSE
        OBVIOUS
      <4>2. running \in PCB /\ Trap("sleep", cycles)
        BY <4>1, UserRuns DEF Sleep, KernelInv
      <4>3. call'[running] = [num |-> "sleep", arg |-> cycles]
        BY <4>2, TrapElsewhere
      <4> QED
        BY <4>3, <1>3
    <3>5. ~Exit
      BY <3>1, <1>3 DEF Exit, ExitToParent, ExitToReady
    <3> QED
      BY <3>1, <3>3, <3>4, <3>5 DEF KernelNext, KernelCall, Stopped
  <2>2. /\ running \in PCB /\ Trap("wait", arg) /\ UNCHANGED <<pid, parent>>
    BY <2>1, UserRuns DEF Wait, KernelInv
  <2>3. /\ UNCHANGED <<children, zombie_list>> /\ children[running] # <<>>
        /\ status[children[running][AwaitedPlace(arg)]] # "Zombie"
    BY <1>3, <2>1 DEF Wait, NoChildren, Reap, Await
  <2>4. call'[p].arg = arg
    <3>1. call'[running] = [num |-> "wait", arg |-> arg]
      BY <2>2, TrapElsewhere
    <3> QED
      BY <3>1, <1>3
  <2> QED
    BY <1>3, <2>2, <2>3, <2>4, AwaitsTheLiving DEF CauseInv
<1> QED
  BY <1>1, <1>2, <1>3

\* The invariant of waiters in every reachable state.
THEOREM CausesHold == KernelSpec => []CauseInv
<1>1. KernelInit => CauseInv
  <2> SUFFICES ASSUME KernelInit PROVE CauseInv
    OBVIOUS
  <2>1. waiting_list = {} /\ children = [p \in PCB |-> <<>>]
    BY DEF KernelInit
  <2>2. ChildrenOwn /\ AwaitedAlive
    BY <2>1, NoneOnEmpty DEF ChildrenOwn, AwaitedAlive
  <2> QED
    BY <2>2, InitPids DEF CauseInv
<1>2. KernelInv /\ KernelInv' /\ CauseInv /\ [KernelNext]_kernelVars => CauseInv'
  <2> SUFFICES ASSUME KernelInv, KernelInv', CauseInv, [KernelNext]_kernelVars PROVE CauseInv'
    OBVIOUS
  <2>1. PidsDiffer'
    BY BlocksStep, PidsStep DEF CauseInv, KernelInv
  <2>2. ChildrenOwn'
    BY ChildrenOwnStep DEF CauseInv
  <2>3. AwaitedAlive'
    BY AwaitedAliveStep
  <2> QED
    BY <2>1, <2>2, <2>3 DEF CauseInv
<1> QED
  BY <1>1, <1>2, KernelInvariant, PTL DEF KernelSpec

\* Whoever is on waiting_list is asleep with a timer of its own or waits in wait, for
\* any child only if it has one, and every child it waits for will wake it when it
\* exits: none has exited yet, and all name it as their parent, but for the orphans
\* of an init.  A wait for the pid of no child waits for nobody.
THEOREM NobodyMissedTheirChild == KernelSpec => []WaitersHaveCause
<1> DEFINE twoCalls == \A p \in waiting_list : call[p].num \in {"sleep", "wait"}
<1>1. KernelInit => twoCalls
  BY DEF KernelInit
<1>2. KernelInv /\ twoCalls /\ [KernelNext]_kernelVars => twoCalls'
  BY WaitersStep
<1>3. KernelInv /\ CauseInv /\ twoCalls => WaitersHaveCause
  <2> SUFFICES ASSUME KernelInv, CauseInv, twoCalls PROVE WaitersHaveCause
    OBVIOUS
  <2>1. ASSUME NEW p \in waiting_list, call[p].num = "wait"
        PROVE  /\ call[p].arg = 0 => Awaited(p) # {}
               /\ \A c \in Awaited(p) : WillWake(c, p) \/ (parent[p] = NULL /\ parent[c] # p)
    <3>1. p \in PCB /\ children[p] \in Seq(PCB) /\ children[p] # <<>>
      BY <2>1 DEF KernelInv, KernelTypeOK, SoundCauses
    <3>2. call[p].arg = 0 => Awaited(p) = ToSet(children[p])
      BY DEF Awaited
    <3>3. ToSet(children[p]) # {}
      BY <3>1, Places
    <3>4. ASSUME NEW c \in Awaited(p)
          PROVE  WillWake(c, p) \/ (parent[p] = NULL /\ parent[c] # p)
      <4>1. c \in ToSet(children[p]) /\ call[p].arg \in {0, pid[c]}
        BY DEF Awaited
      <4>2. parent[c] = p \/ parent[p] = NULL
        BY <3>1, <4>1 DEF CauseInv, ChildrenOwn
      <4>3. parent[c] = p => c \notin zombie_list
        BY <2>1 DEF CauseInv, AwaitedAlive
      <4> QED
        BY <4>1, <4>2, <4>3 DEF WillWake
    <3> QED
      BY <3>2, <3>3, <3>4
  <2>2. \A p \in waiting_list : call[p].num = "sleep" => p \in Asleep
    BY DEF KernelInv, SoundCauses
  <2>3. /\ \A i, j \in DOMAIN timer_list : timer_list[i].pcb = timer_list[j].pcb => i = j
        /\ \A p \in Asleep : p \in waiting_list /\ call[p].num = "sleep"
    BY DEF KernelInv, SoundCauses
  <2>4. ASSUME NEW p \in waiting_list
        PROVE  \/ call[p].num = "sleep" /\ p \in Asleep
               \/ /\ call[p].num = "wait"
                  /\ call[p].arg = 0 => Awaited(p) # {}
                  /\ \A c \in Awaited(p) : WillWake(c, p) \/ (parent[p] = NULL /\ parent[c] # p)
    BY <2>1, <2>2
  <2> QED
    BY <2>3, <2>4 DEF WaitersHaveCause
<1> QED
  BY <1>1, <1>2, <1>3, KernelInvariant, CausesHold, PTL DEF KernelSpec

\* In every step, who is in wait keeps its children of the pid it asked for, or one of
\* them has just exited, handed it the processor with its pid, and is gone.
THEOREM WaitsAreAnswered == KernelSpec => WaitersAreAnswered
<1> DEFINE answered ==
               \A p \in waiting_list : call[p].num = "wait" =>
                   \/ p \in waiting_list' /\ Awaited(p) \subseteq Awaited(p)'
                   \/ /\ running \in Awaited(p) /\ running' = p
                      /\ retvalue'[p] = pid[running]
                      /\ running \in ToSet(pcb_free') /\ running \notin ToSet(children'[p])
<1>1. KernelInv /\ CauseInv /\ [KernelNext]_kernelVars => answered
  <2> SUFFICES ASSUME KernelInv, CauseInv, [KernelNext]_kernelVars,
                      NEW p \in waiting_list, call[p].num = "wait"
               PROVE  \/ p \in waiting_list' /\ Awaited(p) \subseteq Awaited(p)'
                      \/ IsAnswered(p)
    BY DEF IsAnswered
  <2>1. StillWaits(p) \/ IsAnswered(p)
    BY WaiterSees DEF CauseInv
  <2>2. ASSUME StillWaits(p)
        PROVE  p \in waiting_list' /\ Awaited(p) \subseteq Awaited(p)'
    BY <2>2 DEF StillWaits, Awaited
  <2> QED
    BY <2>1, <2>2
<1>2. KernelInv /\ CauseInv /\ [KernelNext]_kernelVars => [answered]_kernelVars
  BY <1>1
<1> QED
  BY <1>2, KernelInvariant, CausesHold, PTL DEF KernelSpec, WaitersAreAnswered

-----------------------------------------------------------------------------
(* Timers in order *)

InOrder(timers) == \A i, j \in DOMAIN timers : i < j => timers[i].left <= timers[j].left
AllAhead(timers) == \A i \in DOMAIN timers : timers[i].left > 0

\* What a place of a list of timers holds.
LEMMA TimersHold ==
    ASSUME NEW timers \in Seq(Timer)
    PROVE  /\ DOMAIN timers = 1 .. Len(timers) /\ Len(timers) \in Nat
           /\ \A i \in DOMAIN timers : timers[i] \in Timer /\ timers[i].left \in Int
<1>1. /\ DOMAIN timers = 1 .. Len(timers) /\ Len(timers) \in Nat
      /\ \A i \in DOMAIN timers : timers[i] \in Timer
  BY LenProperties
<1>2. \A e \in Timer : e.left \in Int
  BY DEF Timer
<1> QED
  BY <1>1, <1>2

\* Time passes alike for all.
LEMMA AgedInOrder ==
    ASSUME NEW timers \in Seq(Timer), InOrder(timers)
    PROVE  InOrder(Aged(timers))
<1>1. DOMAIN Aged(timers) = DOMAIN timers
  BY DEF Aged
<1>2. \A i \in DOMAIN timers : Aged(timers)[i].left = timers[i].left - 1
  BY TimersHold DEF Aged, Timer
<1> QED
  BY <1>1, <1>2, TimersHold DEF InOrder

\* What is left after the wake up is in order and not yet due, for the first one
\* is not.
LEMMA PendingInOrder ==
    ASSUME NEW timers \in Seq(Timer), InOrder(timers)
    PROVE  InOrder(Pending(timers)) /\ AllAhead(Pending(timers))
<1> DEFINE k == ElapsedCount(timers)
           r == Pending(timers)
<1>1. k < Len(timers) => timers[k + 1].left > 0
  BY ElapsedCountFound
<1>2. /\ r \in Seq(Timer) /\ Len(r) = Len(timers) - k
      /\ \A i \in 1 .. Len(timers) - k : r[i] = timers[k + i]
  BY WokenPending
<1>3. k \in 0 .. Len(timers)
  BY ElapsedCountFound
<1> HIDE DEF k, r
<1>4. /\ DOMAIN timers = 1 .. Len(timers) /\ Len(timers) \in Nat
      /\ DOMAIN r = 1 .. Len(timers) - k
  BY <1>2, LenProperties
<1>5. \A i \in DOMAIN r : k + i \in DOMAIN timers /\ r[i] = timers[k + i]
  BY <1>2, <1>3, <1>4
<1>6. InOrder(r)
  <2> SUFFICES ASSUME NEW i \in DOMAIN r, NEW j \in DOMAIN r, i < j
               PROVE  r[i].left <= r[j].left
    BY DEF InOrder
  <2>1. k + i < k + j
    BY <1>3, <1>4
  <2> QED
    BY <2>1, <1>5 DEF InOrder
<1>7. AllAhead(r)
  <2> SUFFICES ASSUME NEW i \in DOMAIN r
               PROVE  r[i].left > 0
    BY DEF AllAhead
  <2>1. k < Len(timers) /\ k + 1 \in DOMAIN timers /\ k + i \in DOMAIN timers
    BY <1>3, <1>4
  <2>2. timers[k + 1].left > 0
    BY <2>1, <1>1
  <2>3. timers[k + 1].left <= timers[k + i].left
    <3>1. CASE i = 1
      BY <3>1, <2>1, TimersHold
    <3>2. CASE i # 1
      <4>1. k + 1 < k + i
        BY <3>2, <1>3, <1>4
      <4> QED
        BY <4>1, <2>1 DEF InOrder
    <3> QED
      BY <3>1, <3>2
  <2>4. timers[k + 1].left \in Int /\ timers[k + i].left \in Int
    BY <2>1, TimersHold
  <2>5. timers[k + i].left > 0
    BY <2>2, <2>3, <2>4
  <2> QED
    BY <2>5, <1>5
<1> QED
  BY <1>6, <1>7 DEF r

\* TimerList_add puts the new timer where the order wants it.
LEMMA AddedInOrder ==
    ASSUME NEW timers \in Seq(Timer), InOrder(timers), NEW left \in Int, NEW p \in PCB
    PROVE  /\ InOrder(TimerList_add(timers, left, p))
           /\ left > 0 /\ AllAhead(timers) => AllAhead(TimerList_add(timers, left, p))
<1> DEFINE k == TimerPlace(timers, left)
           e == [pcb |-> p, left |-> left]
           t == InsertAt(timers, k + 1, e)
<1>1. /\ k \in 0 .. Len(timers)
      /\ \A i \in 1 .. k : timers[i].left <= left
      /\ k < Len(timers) => left < timers[k + 1].left
  BY TimerPlaceFound
<1>2. e \in Timer /\ e.left = left
  BY DEF Timer
<1>3. TimerList_add(timers, left, p) = t
  BY DEF TimerList_add
<1>4. Len(timers) \in Nat /\ DOMAIN timers = 1 .. Len(timers) /\ k \in Nat
  BY <1>1, LenProperties
<1> HIDE DEF k, e
<1>5. /\ t \in Seq(Timer) /\ Len(t) = Len(timers) + 1
      /\ \A i \in 1 .. k : t[i] = timers[i]
      /\ t[k + 1] = e
      /\ \A i \in k + 2 .. Len(timers) + 1 : t[i] = timers[i - 1]
  BY <1>1, <1>2, TimerInserted, Zenon
<1> HIDE DEF t
<1>6. DOMAIN t = 1 .. Len(timers) + 1
  BY <1>5, LenProperties
<1>7. ASSUME NEW i \in DOMAIN timers, i >= k + 1
      PROVE  left < timers[i].left
  <2>1. k < Len(timers) /\ k + 1 \in DOMAIN timers
    BY <1>4, <1>7
  <2>2. left < timers[k + 1].left
    BY <2>1, <1>1
  <2>3. timers[k + 1].left <= timers[i].left
    <3>1. CASE i = k + 1
      BY <3>1, <2>1, TimersHold
    <3>2. CASE i > k + 1
      BY <3>2, <2>1 DEF InOrder
    <3> QED
      BY <3>1, <3>2, <1>4, <1>7
  <2>4. timers[k + 1].left \in Int /\ timers[i].left \in Int
    BY <2>1, TimersHold
  <2> QED
    BY <2>2, <2>3, <2>4
<1>8. ASSUME NEW i \in DOMAIN t
      PROVE  \/ i \in 1 .. k /\ i \in DOMAIN timers /\ t[i] = timers[i]
             \/ i = k + 1 /\ t[i].left = left
             \/ i >= k + 2 /\ i - 1 \in DOMAIN timers /\ t[i] = timers[i - 1]
  <2>1. CASE i \in 1 .. k
    BY <2>1, <1>1, <1>4, <1>5
  <2>2. CASE i = k + 1
    BY <2>2, <1>2, <1>5
  <2>3. CASE i \in k + 2 .. Len(timers) + 1
    <3>1. i - 1 \in DOMAIN timers /\ i >= k + 2
      BY <2>3, <1>4
    <3> QED
      BY <3>1, <2>3, <1>5
  <2> QED
    BY <2>1, <2>2, <2>3, <1>4, <1>6
<1>9. \A i \in DOMAIN t : t[i].left \in Int /\ i \in Int
  BY <1>5, <1>6, TimersHold
<1>10. ASSUME NEW i \in DOMAIN t, NEW j \in DOMAIN t, i < j
       PROVE  t[i].left <= t[j].left
  <2>1. CASE i \in 1 .. k /\ i \in DOMAIN timers /\ t[i] = timers[i]
    <3>1. CASE j \in 1 .. k /\ j \in DOMAIN timers /\ t[j] = timers[j]
      BY <2>1, <3>1, <1>10 DEF InOrder
    <3>2. CASE j = k + 1 /\ t[j].left = left
      BY <2>1, <3>2, <1>1
    <3>3. CASE j >= k + 2 /\ j - 1 \in DOMAIN timers /\ t[j] = timers[j - 1]
      <4>1. i < j - 1
        BY <2>1, <3>3, <1>4, <1>9
      <4> QED
        BY <4>1, <2>1, <3>3 DEF InOrder
    <3> QED
      BY <3>1, <3>2, <3>3, <1>8
  <2>2. CASE i = k + 1 /\ t[i].left = left
    <3>1. j >= k + 2 /\ j - 1 \in DOMAIN timers /\ t[j] = timers[j - 1] /\ j - 1 >= k + 1
      BY <2>2, <1>4, <1>8, <1>9, <1>10
    <3>2. left < timers[j - 1].left /\ timers[j - 1].left \in Int
      BY <3>1, <1>7, TimersHold
    <3> QED
      BY <2>2, <3>1, <3>2
  <2>3. CASE i >= k + 2 /\ i - 1 \in DOMAIN timers /\ t[i] = timers[i - 1]
    <3>1. j >= k + 2 /\ j - 1 \in DOMAIN timers /\ t[j] = timers[j - 1] /\ i - 1 < j - 1
      BY <2>3, <1>4, <1>8, <1>9, <1>10
    <3> QED
      BY <2>3, <3>1 DEF InOrder
  <2> QED
    BY <2>1, <2>2, <2>3, <1>8
<1>11. left > 0 /\ AllAhead(timers) => AllAhead(t)
  BY <1>8 DEF AllAhead
<1> QED
  BY <1>3, <1>10, <1>11 DEF InOrder

\* What a step does to the timers: nothing, or a wake up, with a tick or
\* without, or one more.
LEMMA TimersStep ==
    ASSUME KernelTypeOK, [KernelNext]_kernelVars
    PROVE  \/ timer_list' = timer_list
           \/ timer_list' = Pending(Aged(timer_list))
           \/ timer_list' = Pending(timer_list)
           \/ /\ running \in PCB
              /\ \E cycles \in SleepTimes :
                    timer_list' = TimerList_add(timer_list, cycles, running)
<1>1. CASE UNCHANGED kernelVars
  BY <1>1 DEF kernelVars, listVars
<1>2. CASE Restart \/ Return \/ Stopped
  BY <1>2 DEF Restart, Return, Stopped, Crash, Stop, kernelVars, listVars
<1>3. CASE Tick
  BY <1>3 DEF Tick, Crash, Stop, listVars, Schedule
<1>4. CASE Preempt
  BY <1>4 DEF Preempt, Schedule
<1>5. CASE Shutdown \/ Spawn
  BY <1>5 DEF Shutdown, Spawn, Crash, Stop, listVars
<1>6. ASSUME NEW cycles \in SleepTimes, Sleep(cycles)
      PROVE  \/ timer_list' = timer_list
             \/ running \in PCB /\ timer_list' = TimerList_add(timer_list, cycles, running)
  BY <1>6, UserRuns DEF Sleep
<1>7. ASSUME NEW arg \in WaitArgs, Wait(arg)
      PROVE  timer_list' = timer_list
  BY <1>7 DEF Wait, Crash, Stop, listVars
<1>8. CASE Exit
  BY <1>8 DEF Exit, Crash, Stop, listVars
<1> QED
  BY <1>1, <1>2, <1>3, <1>4, <1>5, <1>6, <1>7, <1>8 DEF KernelNext, KernelCall

\* Every step keeps the timers in order and none overdue.
LEMMA OnTimeStep ==
    ASSUME KernelTypeOK, SleepersOnTime, [KernelNext]_kernelVars
    PROVE  SleepersOnTime'
<1> DEFINE sound(timers) == InOrder(timers) /\ (SleepTimes \subseteq Nat \ {0} => AllAhead(timers))
<1>1. SleepersOnTime <=> sound(timer_list)
  BY DEF SleepersOnTime, InOrder, AllAhead
<1>2. SleepersOnTime' <=> sound(timer_list')
  BY DEF SleepersOnTime, InOrder, AllAhead
<1>3. timer_list \in Seq(Timer) /\ Aged(timer_list) \in Seq(Timer)
  <2>1. timer_list \in Seq(Timer)
    BY DEF KernelTypeOK
  <2> QED
    BY <2>1, AgedTyped
<1>4. InOrder(timer_list)
  BY <1>1
<1>5. CASE timer_list' = timer_list
  BY <1>1, <1>2, <1>5
<1>6. CASE timer_list' = Pending(Aged(timer_list))
  <2>1. InOrder(Aged(timer_list))
    BY <1>3, <1>4, AgedInOrder
  <2> QED
    BY <2>1, <1>2, <1>3, <1>6, PendingInOrder
<1>7. CASE timer_list' = Pending(timer_list)
  BY <1>2, <1>3, <1>4, <1>7, PendingInOrder
<1>8. ASSUME NEW cycles \in SleepTimes, running \in PCB,
             timer_list' = TimerList_add(timer_list, cycles, running)
      PROVE  SleepersOnTime'
  <2>1. cycles \in Int
    BY KernelAssumption
  <2>2. /\ InOrder(timer_list')
        /\ cycles > 0 /\ AllAhead(timer_list) => AllAhead(timer_list')
    BY <2>1, <1>3, <1>4, <1>8, AddedInOrder
  <2>3. SleepTimes \subseteq Nat \ {0} => cycles > 0 /\ AllAhead(timer_list)
    BY <1>1
  <2> QED
    BY <2>2, <2>3, <1>2
<1> QED
  BY <1>5, <1>6, <1>7, <1>8, TimersStep

\* However many sleep and whatever for, the first timer is the next one due, and
\* with positive times none is ever overdue: TimerList_current loses no wake up
\* by looking at the first entry only.
THEOREM NobodyOversleeps == KernelSpec => []SleepersOnTime
<1>1. KernelInit => SleepersOnTime
  BY DEF KernelInit, SleepersOnTime
<1>2. KernelTypeOK /\ SleepersOnTime /\ [KernelNext]_kernelVars => SleepersOnTime'
  BY OnTimeStep
<1> QED
  BY <1>1, <1>2, KernelTypes, PTL DEF KernelSpec

-----------------------------------------------------------------------------
(* Turns *)

\* What InTurn says of one step.
TurnKept ==
    /\ \A p \in ToSet(ready_list), q \in PCB :
         Before(ready_list', q, p) => Before(ready_list, q, p) \/ q \in Asleep
    /\ running' \in ToSet(ready_list) => running' = Head(ready_list)

\* The ways a step may change the ready list: not at all, one more at the end,
\* the first one runs, or the woken come to the front, the first of all runs, and
\* the one who ran goes to the end.
SameTurns == ready_list' = ready_list /\ running' \notin ToSet(ready_list)

OneMore(p) ==
    /\ p \in PCB \ ToSet(ready_list)
    /\ ready_list' = Append(ready_list, p)
    /\ running' \notin ToSet(ready_list)

FirstRuns == ready_list # <<>> /\ NextReady

TakesTurns(woken) ==
    /\ woken \in Seq(PCB) /\ ToSet(woken) \subseteq Asleep
    /\ woken \o ready_list # <<>>
    /\ running \in PCB
    /\ running' = Head(woken \o ready_list)
    /\ ready_list' = Append(Tail(woken \o ready_list), running)

\* The end of the list is behind everybody.
LEMMA OneMoreKeepsTurns ==
    ASSUME KernelTypeOK, NEW p, OneMore(p)
    PROVE  TurnKept
<1> DEFINE r == ready_list
           t == Append(r, p)
<1>1. r \in Seq(PCB) /\ p \in PCB /\ p \notin ToSet(r) /\ ready_list' = t
  BY DEF OneMore, KernelTypeOK
<1>2. /\ DOMAIN r = 1 .. Len(r) /\ Len(r) \in Nat
      /\ DOMAIN t = 1 .. Len(r) + 1
      /\ \A i \in 1 .. Len(r) : t[i] = r[i]
      /\ t[Len(r) + 1] = p
  BY <1>1, AppendProperties, LenProperties
<1> HIDE DEF r, t
<1>3. ASSUME NEW i \in DOMAIN t, NEW j \in DOMAIN t, i < j, t[j] \in ToSet(r)
      PROVE  i \in DOMAIN r /\ j \in DOMAIN r /\ t[i] = r[i] /\ t[j] = r[j]
  <2>1. j # Len(r) + 1
    BY <1>1, <1>2, <1>3
  <2> QED
    BY <2>1, <1>2, <1>3
<1>4. \A a \in ToSet(r), q \in PCB : Before(t, q, a) => Before(r, q, a)
  BY <1>3 DEF Before
<1> QED
  BY <1>1, <1>4 DEF TurnKept, OneMore, r

\* Without the first one the others follow one another as before.
LEMMA FirstRunsKeepsTurns ==
    ASSUME KernelTypeOK, FirstRuns
    PROVE  TurnKept
<1> DEFINE r == ready_list
           t == Tail(r)
<1>1. r \in Seq(PCB) /\ r # <<>> /\ ready_list' = t /\ running' = Head(r)
  BY DEF FirstRuns, NextReady, KernelTypeOK
<1>2. /\ DOMAIN r = 1 .. Len(r) /\ Len(r) \in Nat
      /\ DOMAIN t = 1 .. Len(r) - 1
      /\ \A i \in 1 .. Len(r) - 1 : t[i] = r[i + 1]
  <2>1. t \in Seq(PCB) /\ Len(t) = Len(r) - 1 /\ \A i \in 1 .. Len(t) : t[i] = r[i + 1]
    BY <1>1, HeadTailProperties
  <2> QED
    BY <1>1, <2>1, LenProperties
<1> HIDE DEF r, t
<1>3. ASSUME NEW i \in DOMAIN t, NEW j \in DOMAIN t, i < j
      PROVE  i + 1 \in DOMAIN r /\ j + 1 \in DOMAIN r /\ i + 1 < j + 1
             /\ t[i] = r[i + 1] /\ t[j] = r[j + 1]
  BY <1>2, <1>3
<1>4. \A a, q : Before(t, q, a) => Before(r, q, a)
  BY <1>3 DEF Before
<1> QED
  BY <1>1, <1>4 DEF TurnKept, r

\* Only the woken get in front.
LEMMA TakesTurnsKeepsTurns ==
    ASSUME KernelInv, NEW woken, TakesTurns(woken)
    PROVE  TurnKept
<1> DEFINE r == ready_list
           f == woken \o r
           n == Len(woken)
           m == n + Len(r)
           t == Append(Tail(f), running)
<1>1. /\ r \in Seq(PCB) /\ woken \in Seq(PCB) /\ f # <<>> /\ running \in PCB
      /\ ready_list' = t /\ running' = Head(f)
      /\ ToSet(woken) \subseteq Asleep
  BY DEF TakesTurns, KernelInv, KernelTypeOK
<1>2. running \notin ToSet(r) /\ Asleep \intersect ToSet(r) = {}
  BY DEF KernelInv, SoundCauses, OnePlace
<1>3. /\ f \in Seq(PCB) /\ Len(f) = m
      /\ \A i \in 1 .. m : f[i] = IF i <= n THEN woken[i] ELSE r[i - n]
  BY <1>1, ConcatProperties
<1>4. /\ n \in Nat /\ DOMAIN woken = 1 .. n
      /\ Len(r) \in Nat /\ DOMAIN r = 1 .. Len(r)
      /\ \A i \in 1 .. n : woken[i] \in Asleep
  <2>1. n \in Nat /\ DOMAIN woken = 1 .. n /\ Len(r) \in Nat /\ DOMAIN r = 1 .. Len(r)
    BY <1>1, LenProperties
  <2> QED
    BY <2>1, <1>1 DEF ToSet
<1>5. m \in Nat /\ n <= m /\ Len(r) = m - n /\ DOMAIN r = 1 .. m - n
  BY <1>4
<1> HIDE DEF r, n, m, t, f
<1>6. f[1] = Head(f) /\ m >= 1
  BY <1>1, <1>3, <1>4, <1>5, EmptySeq
<1>7. /\ DOMAIN t = 1 .. m
      /\ \A i \in 1 .. m - 1 : t[i] = f[i + 1]
      /\ t[m] = running
  <2> DEFINE u == Tail(f)
  <2>1. u \in Seq(PCB) /\ Len(u) = m - 1 /\ \A i \in 1 .. Len(u) : u[i] = f[i + 1]
    <3>1. u \in Seq(PCB) /\ Len(u) = Len(f) - 1 /\ \A i \in 1 .. Len(u) : u[i] = f[i + 1]
      BY <1>1, <1>3, HeadTailProperties
    <3> QED
      BY <3>1, <1>3, <1>5
  <2>2. t = Append(u, running)
    BY DEF t
  <2> HIDE DEF u
  <2>3. /\ t \in Seq(PCB) /\ Len(t) = Len(u) + 1
        /\ \A i \in 1 .. Len(u) : t[i] = u[i]
        /\ t[Len(u) + 1] = running
    BY <2>1, <2>2, <1>1, AppendProperties
  <2>4. Len(t) = m /\ Len(u) + 1 = m
    BY <2>1, <2>3, <1>5
  <2> QED
    BY <2>1, <2>3, <2>4, LenProperties
<1>8. ASSUME NEW i \in DOMAIN t, NEW j \in DOMAIN t, i < j, t[j] \in ToSet(r)
      PROVE  \/ t[i] \in Asleep
             \/ \E k, l \in DOMAIN r : k < l /\ t[i] = r[k] /\ t[j] = r[l]
  <2>1. j # m
    BY <1>2, <1>7, <1>8
  <2>2. /\ i + 1 \in 1 .. m /\ t[i] = f[i + 1]
        /\ j + 1 \in 1 .. m /\ t[j] = f[j + 1]
    <3>1. /\ i \in 1 .. m - 1 /\ i + 1 \in 1 .. m
          /\ j \in 1 .. m - 1 /\ j + 1 \in 1 .. m
      BY <2>1, <1>5, <1>7, <1>8
    <3> QED
      BY <3>1, <1>7
  <2>3. CASE i + 1 <= n
    <3>1. t[i] = woken[i + 1] /\ i + 1 \in 1 .. n
      BY <2>2, <2>3, <1>3
    <3> QED
      BY <3>1, <1>4
  <2>4. CASE ~(i + 1 <= n)
    <3> DEFINE a == i + 1
               b == j + 1
               k == a - n
               l == b - n
    <3>1. /\ a \in 1 .. m /\ b \in 1 .. m /\ ~(a <= n) /\ a < b
          /\ t[i] = f[a] /\ t[j] = f[b]
      BY <2>2, <2>4, <1>5, <1>7, <1>8
    <3> HIDE DEF a, b
    <3>2. k \in 1 .. m - n /\ l \in 1 .. m - n /\ ~(b <= n) /\ k < l
      BY <3>1, <1>4, <1>5
    <3>3. f[a] = r[k] /\ f[b] = r[l]
      BY <3>1, <3>2, <1>3
    <3> HIDE DEF k, l
    <3>4. k \in DOMAIN r /\ l \in DOMAIN r
      BY <3>2, <1>5
    <3> QED
      BY <3>1, <3>2, <3>3, <3>4
  <2> QED
    BY <2>3, <2>4
<1>9. \A p \in ToSet(r), q \in PCB : Before(t, q, p) => Before(r, q, p) \/ q \in Asleep
  BY <1>8 DEF Before
<1>10. ASSUME Head(f) \in ToSet(r)
      PROVE  Head(f) = Head(r)
  <2>1. ~(1 <= n)
    BY <1>2, <1>3, <1>4, <1>5, <1>6, <1>10
  <2>2. n = 0 /\ 1 - n = 1 /\ Len(r) # 0
    BY <2>1, <1>4, <1>5, <1>6
  <2>3. Head(f) = r[1]
    BY <2>1, <2>2, <1>3, <1>5, <1>6
  <2> QED
    BY <2>2, <2>3, <1>1, HeadTailProperties, EmptySeq
<1> QED
  BY <1>1, <1>9, <1>10 DEF TurnKept, r

-----------------------------------------------------------------------------
(* Every step is one of these *)

\* Where the processor goes besides the ready list: nowhere, to a new first
\* process or to a waiting parent.
LEMMA ElsewhereKeepsTurns ==
    ASSUME KernelInv, SameTurns
    PROVE  TurnKept
  BY DEF SameTurns, TurnKept

\* internal_schedule wakes sleepers and gives turns.
LEMMA ScheduleTurns ==
    ASSUME KernelInv, running \in PCB, NEW timers \in Seq(Timer), Schedule(timers),
           SleepersOf(timers) = Asleep, OneEach(timers)
    PROVE  SameTurns \/ \E woken : TakesTurns(woken)
<1> DEFINE woken == Woken(timers)
<1>1. woken \in Seq(PCB) /\ ToSet(woken) \subseteq Asleep
  BY WokenPending, WokenSleepers
<1>2. AfterWakeUp(timers) = woken \o ready_list
  BY DEF AfterWakeUp
<1> HIDE DEF woken
<1>3. CASE woken \o ready_list = <<>>
  <2>1. UNCHANGED <<running, ready_list>>
    BY <1>2, <1>3 DEF Schedule
  <2>2. running \notin ToSet(ready_list)
    BY DEF KernelInv, OnePlace
  <2> QED
    BY <2>1, <2>2 DEF SameTurns
<1>4. CASE woken \o ready_list # <<>>
  <2>1. TakesTurns(woken)
    BY <1>1, <1>2, <1>4 DEF Schedule, Requeued, TakesTurns
  <2> QED
    BY <2>1
<1> QED
  BY <1>3, <1>4

\* sleep takes the first ready one, or nobody.
LEMMA SleepTurns ==
    ASSUME KernelInv, NEW cycles \in SleepTimes, Sleep(cycles)
    PROVE  SameTurns \/ FirstRuns
<1>1. running \in PCB /\ running \notin ToSet(ready_list) /\ NULL \notin PCB
  BY UserRuns, RunningElsewhere DEF Sleep, KernelInv, PCB, NULL
<1>2. ToSet(ready_list) \subseteq PCB
  BY Places DEF KernelInv, KernelTypeOK
<1>3. CASE Len(timer_list) = MAX_NUM_PROCESSES
  BY <1>1, <1>3 DEF Sleep, SameTurns
<1>4. CASE Len(timer_list) # MAX_NUM_PROCESSES /\ ready_list # <<>>
  BY <1>4 DEF Sleep, FirstRuns
<1>5. CASE Len(timer_list) # MAX_NUM_PROCESSES /\ ready_list = <<>>
  BY <1>1, <1>2, <1>5 DEF Sleep, SameTurns
<1> QED
  BY <1>3, <1>4, <1>5

\* exit gives the processor to the parent that waits, or to the first ready one.
LEMMA ExitTurns ==
    ASSUME KernelInv, Exit, ~Crash, ~Stop("hung")
    PROVE  SameTurns \/ FirstRuns
<1> DEFINE par == parent[running]
<1>1. running \in PCB /\ par # NULL
  BY UserRuns DEF Exit, KernelInv
<1>2. par \in PCB
  BY <1>1 DEF KernelInv, KernelTypeOK
<1>3. CASE ParentAwaits(par)
  <2>1. par \notin ToSet(ready_list)
    BY <1>1, <1>2, <1>3, AwaitingParent
  <2>2. ExitToParent(par)
    BY <1>1, <1>3 DEF Exit
  <2> QED
    BY <2>1, <2>2 DEF ExitToParent, SameTurns
<1>4. CASE ~ParentAwaits(par)
  BY <1>1, <1>4 DEF Exit, ExitToReady, FirstRuns
<1> QED
  BY <1>3, <1>4

\* Every step keeps the turns.
LEMMA TurnsStep ==
    ASSUME KernelInv, [KernelNext]_kernelVars
    PROVE  TurnKept \/ UNCHANGED kernelVars
<1> DEFINE turns == SameTurns \/ FirstRuns \/ (\E p : OneMore(p)) \/ \E woken : TakesTurns(woken)
<1>0. /\ SameTurns => turns
      /\ FirstRuns => turns
      /\ \A p : OneMore(p) => turns
      /\ (\E woken : TakesTurns(woken)) => turns
  OBVIOUS
<1>1. turns => TurnKept
  BY ElsewhereKeepsTurns, FirstRunsKeepsTurns, OneMoreKeepsTurns, TakesTurnsKeepsTurns
     DEF KernelInv
<1> HIDE DEF turns
<1>2. running \notin ToSet(ready_list)
  BY DEF KernelInv, OnePlace
<1>3. ASSUME UNCHANGED <<running, ready_list>>
      PROVE  turns
  BY <1>0, <1>2, <1>3 DEF SameTurns
<1>4. ASSUME NEW how, Stop(how)
      PROVE  turns
  BY <1>3, <1>4 DEF Stop, listVars
<1>5. /\ timer_list \in Seq(Timer) /\ OneEach(timer_list) /\ SleepersOf(timer_list) = Asleep
  BY DEF KernelInv, KernelTypeOK, SoundCauses, OneEach, Asleep, SleepersOf
<1>6. ASSUME Tick
      PROVE  turns
  <2>1. CASE running = NULL
    BY <2>1, <1>6, <1>4 DEF Tick, Crash
  <2>2. CASE running # NULL
    <3>1. running \in PCB /\ Schedule(Aged(timer_list))
      BY <2>2, <1>6 DEF Tick, KernelInv, KernelTypeOK
    <3>2. /\ Aged(timer_list) \in Seq(Timer) /\ OneEach(Aged(timer_list))
          /\ SleepersOf(Aged(timer_list)) = Asleep
      BY <1>5, AgedTyped, AgedSleepers
    <3> QED
      BY <3>1, <3>2, <1>0, ScheduleTurns
  <2> QED
    BY <2>1, <2>2
<1>7. ASSUME Preempt
      PROVE  turns
  <2>1. running \in PCB /\ Schedule(timer_list)
    BY <1>7, UserRuns DEF Preempt, KernelInv
  <2> QED
    BY <2>1, <1>0, <1>5, ScheduleTurns
<1>8. ASSUME Return \/ Shutdown
      PROVE  turns
  BY <1>8, <1>3, <1>4 DEF Return, Shutdown, listVars
<1>9. ASSUME Restart
      PROVE  turns
  <2>1. CASE pcb_free = <<>>
    BY <2>1, <1>9, <1>4 DEF Restart, Crash
  <2>2. CASE pcb_free # <<>>
    <3>1. Head(pcb_free) \notin ToSet(ready_list)
      BY <2>2, FreshBlock
    <3> QED
      BY <3>1, <2>2, <1>0, <1>9 DEF Restart, SameTurns, listVars
  <2> QED
    BY <2>1, <2>2
<1>10. ASSUME Spawn
       PROVE  turns
  <2>1. CASE NoBlockLeft
    BY <2>1, <1>10, <1>4 DEF Spawn, Crash
  <2>2. CASE ~NoBlockLeft
    <3>1. Head(pcb_free) \in PCB /\ Head(pcb_free) \notin ToSet(ready_list)
      BY <2>2, FreshBlock DEF NoBlockLeft
    <3>2. ready_list' = Append(ready_list, Head(pcb_free)) /\ running' = running
      BY <2>2, <1>10 DEF Spawn
    <3>3. OneMore(Head(pcb_free))
      BY <3>1, <3>2, <1>2 DEF OneMore
    <3> QED
      BY <3>3, <1>0
  <2> QED
    BY <2>1, <2>2
<1>11. ASSUME NEW cycles \in SleepTimes, Sleep(cycles)
       PROVE  turns
  BY <1>0, <1>11, SleepTurns
<1>12. ASSUME NEW arg \in WaitArgs, Wait(arg)
       PROVE  turns
  <2>1. CASE Crash
    BY <2>1, <1>4 DEF Crash
  <2>2. CASE NoChildren \/ \E i : Reap(i)
    BY <2>2, <1>3 DEF NoChildren, Reap
  <2>3. CASE Await /\ ready_list # <<>>
    BY <2>3, <1>0 DEF Await, FirstRuns
  <2> QED
    BY <2>1, <2>2, <2>3, <1>12 DEF Wait
<1>13. ASSUME Exit
       PROVE  turns
  BY <1>0, <1>4, <1>13, ExitTurns DEF Crash
<1> QED
  BY <1>1, <1>6, <1>7, <1>8, <1>9, <1>10, <1>11, <1>12, <1>13
     DEF KernelNext, KernelCall, Stopped

\* Whatever is called and whenever the alarm falls, nobody overtakes on the ready
\* list but a sleeper that wakes, and of the ready ones the first runs first.
THEOREM TurnsAreKept == KernelSpec => InTurn
<1>1. KernelInv /\ [KernelNext]_kernelVars =>
          [ /\ \A p \in ToSet(ready_list), q \in PCB :
                 Before(ready_list', q, p) => Before(ready_list, q, p) \/ q \in Asleep
            /\ running' \in ToSet(ready_list) => running' = Head(ready_list)
          ]_kernelVars
  BY TurnsStep DEF TurnKept
<1> QED
  BY <1>1, KernelInvariant, PTL DEF KernelSpec, InTurn
=============================================================================
