------------------------- MODULE SemaphoreInvariants -------------------------
(***************************************************************************)
(* The semaphores keep their descriptors, their queues and their counts in *)
(* step, and implement counting semaphores.  The queue of a semaphore, the *)
(* status of those in it, waiting_list and the descriptors of the waiting  *)
(* processes are four pieces of state that semWait, semPost, semClose and  *)
(* the kernel's own calls change one after the other: the invariant is     *)
(* about all of them, and about the kernel's below.                        *)
(***************************************************************************)
EXTENDS Semaphores, KernelInvariants

SemTypeOK ==
    /\ semaphores_list \subseteq SemNum
    /\ count \in [SemNum -> Int]
    /\ descriptors \in [SemNum -> SUBSET [pid : Nat, fd : Nat]]
    /\ waiting_descriptors \in [SemNum -> Seq(PCB)]
    /\ sem_descriptors \in [PCB -> SUBSET [fd : Nat, sem : SemNum]]
    /\ last_sem_fd \in [PCB -> Nat]
    /\ dsc_free \in Nat
    /\ dsc_ptr_free \in Nat

\* DescriptorsAgree with the descriptors one by one.
DescriptorsPair ==
    \A p \in Live :
        /\ \A s \in SemNum, f \in Nat :
              [pid |-> pid[p], fd |-> f] \in descriptors[s] <=>
              [fd |-> f, sem |-> s] \in sem_descriptors[p]
        /\ \A d, e \in sem_descriptors[p] : d.fd = e.fd <=> d.sem = e.sem
        /\ \A d \in sem_descriptors[p] : d.sem \in semaphores_list /\ d.fd < last_sem_fd[p]

\* Exit leaves descriptors behind, but none with a pid that is still to be given.
NoneOfTheFuture == \A s \in SemNum : \A d \in descriptors[s] : d.pid < last_pid

SemInv ==
    /\ KernelInv
    /\ PidsDiffer
    /\ SemTypeOK
    /\ DescriptorsPair
    /\ NoneOfTheFuture
    /\ UnlinkedIsQuiet
    /\ WaitersBlocked
    /\ WaitersExact

-----------------------------------------------------------------------------
(* Descriptors *)

\* What semClose, semWait and semPost find by fd is a descriptor of the caller,
\* and the only one with that fd.
LEMMA OwnDescriptor ==
    ASSUME SemInv, running \in PCB, NEW fd, Holds(fd)
    PROVE  /\ SemOf(fd) \in SemNum /\ fd \in Nat
           /\ ByFd(fd) = {[fd |-> fd, sem |-> SemOf(fd)]}
           /\ [fd |-> fd, sem |-> SemOf(fd)] \in sem_descriptors[running]
           /\ SemOf(fd) \in semaphores_list
           /\ [pid |-> pid[running], fd |-> fd] \in descriptors[SemOf(fd)]
<1>1. PICK d \in ByFd(fd) : SemOf(fd) = d.sem
  BY DEF Holds, SemOf
<1>2. running \in Live
  BY RunningElsewhere DEF SemInv
<1>3. \A e \in ByFd(fd) : e \in sem_descriptors[running] /\ e.fd = fd
  BY DEF ByFd
<1>4. \A e \in sem_descriptors[running] :
          e.fd \in Nat /\ e.sem \in SemNum /\ e = [fd |-> e.fd, sem |-> e.sem]
  BY DEF SemInv, SemTypeOK
<1>5. \A e \in ByFd(fd) : e.sem = d.sem
  BY <1>1, <1>2, <1>3 DEF SemInv, DescriptorsPair
<1>6. \A e \in ByFd(fd) : e = [fd |-> fd, sem |-> SemOf(fd)]
  BY <1>1, <1>3, <1>4, <1>5
<1>7. /\ SemOf(fd) \in SemNum /\ fd \in Nat
      /\ [fd |-> fd, sem |-> SemOf(fd)] \in sem_descriptors[running]
      /\ ByFd(fd) = {[fd |-> fd, sem |-> SemOf(fd)]}
  BY <1>1, <1>3, <1>4, <1>6
<1>8. SemOf(fd) \in semaphores_list
  BY <1>2, <1>7 DEF SemInv, DescriptorsPair
<1>9. [pid |-> pid[running], fd |-> fd] \in descriptors[SemOf(fd)]
  BY <1>2, <1>7 DEF SemInv, DescriptorsPair
<1> QED
  BY <1>7, <1>8, <1>9

\* A process waits for one semaphore at a time.
LEMMA OneQueue ==
    ASSUME SemInv, NEW s \in SemNum, NEW t \in SemNum,
           NEW p \in ToSet(waiting_descriptors[s]), p \in ToSet(waiting_descriptors[t])
    PROVE  s = t
<1>1. /\ p \in waiting_list
      /\ [fd |-> call[p].arg, sem |-> s] \in sem_descriptors[p]
      /\ [fd |-> call[p].arg, sem |-> t] \in sem_descriptors[p]
  BY DEF SemInv, WaitersBlocked
<1>2. p \in Live
  BY <1>1 DEF SemInv, KernelInv, KernelTypeOK, OnePlace, Live
<1>3. \A d, e \in sem_descriptors[p] : d.fd = e.fd => d.sem = e.sem
  BY <1>2 DEF SemInv, DescriptorsPair
<1> DEFINE d == [fd |-> call[p].arg, sem |-> s]
           e == [fd |-> call[p].arg, sem |-> t]
<1>4. d.fd = e.fd /\ d.sem = s /\ e.sem = t
  OBVIOUS
<1> HIDE DEF d, e
<1>5. d \in sem_descriptors[p] /\ e \in sem_descriptors[p]
  BY <1>1 DEF d, e
<1> QED
  BY <1>3, <1>4, <1>5

-----------------------------------------------------------------------------
(* What the calls do to the kernel *)

\* A call that answers at once.
LEMMA AnswerKeeps ==
    ASSUME KernelInv, running \in PCB, NEW num \in Syscalls, NEW arg \in Int, NEW value \in Int,
           Trap(num, arg), Answer(value), SameProcesses, SameFamily
    PROVE  KernelInv'
<1>1. call' \in [PCB -> CallRecord]
  BY TrapTyped DEF KernelInv
<1>2. retvalue' \in [PCB -> Int]
  BY DEF Answer, KernelInv, KernelTypeOK
<1>3. KernelTypeOK'
  BY <1>1, <1>2 DEF KernelInv, KernelTypeOK, SameProcesses, SameFamily, poolVars
<1>4. \A p \in waiting_list : call'[p] = call[p]
  BY TrapElsewhere
<1> QED
  BY <1>3, <1>4, SameKeeps DEF SameProcesses, SameFamily, poolVars, listVars

\* semWait of a semaphore without anything to take.
LEMMA BlockKeepsKernel ==
    ASSUME KernelInv, running \in PCB, NEW fd \in Int, NEW semnum,
           ready_list # <<>>, Trap("semWait", fd), SameFamily, Block(semnum)
    PROVE  KernelInv'
<1>1. call' \in [PCB -> CallRecord]
  BY TrapTyped DEF KernelInv, Syscalls
<1>2. Head(ready_list) \in PCB /\ Tail(ready_list) \in Seq(PCB)
  BY Detached DEF KernelInv, KernelTypeOK
<1>3. /\ retvalue' \in [PCB -> Int]
      /\ status' \in [PCB -> Statuses]
      /\ waiting_list' \subseteq PCB
  BY DEF Block, KernelInv, KernelTypeOK, Statuses
<1>4. running' \in PCB /\ ready_list' \in Seq(PCB)
  BY <1>2 DEF Block, NextReady
<1>5. KernelTypeOK'
  BY <1>1, <1>3, <1>4 DEF KernelInv, KernelTypeOK, Block, SameFamily, poolVars
<1>6. /\ \A p \in waiting_list : call'[p] = call[p]
      /\ call'[running].num = "semWait"
  <2>1. /\ \A p \in waiting_list : call'[p] = call[p]
        /\ call'[running] = [num |-> "semWait", arg |-> fd]
    BY TrapElsewhere
  <2> QED
    BY <2>1
<1> QED
  BY <1>5, <1>6, BlockedKeeps DEF Block, SameFamily, poolVars

\* semPost hands over to a process that is blocked in a call of these.
LEMMA WakeKeepsKernel ==
    ASSUME KernelInv, running \in PCB, NEW fd \in Int, NEW head \in waiting_list,
           call[head].num = "semWait",
           Trap("semPost", fd), SameFamily, Answer(0), UNCHANGED <<system, running>>,
           waiting_list' = Unblocked(head), ready_list' = Append(ready_list, head),
           status' = [status EXCEPT ![head] = "Ready"]
    PROVE  KernelInv'
<1>1. call' \in [PCB -> CallRecord]
  BY TrapTyped DEF KernelInv, Syscalls
<1>2. /\ head \in PCB /\ head # running /\ ready_list \in Seq(PCB)
      /\ head \notin ToSet(ready_list) /\ head \notin zombie_list
      /\ head \notin ToSet(pcb_free) /\ IsInjective(ready_list)
      /\ head \in Live
  BY DEF KernelInv, KernelTypeOK, OnePlace, Live
<1>3. /\ ready_list' \in Seq(PCB) /\ IsInjective(ready_list')
      /\ ToSet(ready_list') = ToSet(ready_list) \union {head}
  BY <1>2, Appended
<1>4. /\ retvalue' \in [PCB -> Int] /\ status' \in [PCB -> Statuses]
      /\ waiting_list' \subseteq PCB /\ waiting_list' = waiting_list \ {head}
  BY DEF KernelInv, KernelTypeOK, Answer, Unblocked, Statuses
<1>5. KernelTypeOK'
  BY <1>1, <1>3, <1>4 DEF KernelInv, KernelTypeOK, SameFamily, poolVars
<1>6. UNCHANGED <<running, init_pcb, pcb_free, parent, children, zombie_list, timer_list>>
  BY DEF SameFamily, poolVars
<1>7. Live' = Live /\ Asleep' = Asleep
  BY <1>6 DEF Live, Asleep
<1>8. head \notin Asleep
  BY DEF KernelInv, SoundCauses
<1>9. \A p \in PCB : status'[p] = IF p = head THEN "Ready" ELSE status[p]
  BY <1>2 DEF KernelInv, KernelTypeOK
<1>10. \A p \in waiting_list : call'[p] = call[p]
  BY TrapElsewhere
<1>11. OnePlace'
  BY <1>2, <1>3, <1>4, <1>6 DEF KernelInv, OnePlace
<1>12. StatusTellsPlace'
  BY <1>2, <1>4, <1>6, <1>7, <1>9 DEF KernelInv, StatusTellsPlace, Live
<1>13. FreeBlocksIdle'
  <2>1. ToSet(pcb_free) \subseteq PCB
    BY Places DEF KernelInv, KernelTypeOK
  <2> QED
    BY <2>1, <1>2, <1>6, <1>9 DEF KernelInv, FreeBlocksIdle
<1>14. FamilyTree' /\ RootedTree'
  BY <1>6, <1>7 DEF KernelInv, FamilyTree, RootedTree
<1>15. SoundCauses'
  BY <1>4, <1>6, <1>7, <1>8, <1>10 DEF KernelInv, SoundCauses
<1> QED
  BY <1>5, <1>11, <1>12, <1>13, <1>14, <1>15 DEF KernelInv

-----------------------------------------------------------------------------
(* The start, and the steps of the kernel *)

\* No semaphore is linked at the start.
LEMMA SemInit == Init => SemInv
<1> SUFFICES ASSUME Init PROVE SemInv
  OBVIOUS
<1>1. KernelInit
  BY DEF Init
<1>2. KernelInv /\ PidsDiffer
  BY <1>1, InitKeeps, InitPids
<1>3. /\ semaphores_list = {} /\ count = [s \in SemNum |-> 0]
      /\ descriptors = [s \in SemNum |-> {}]
      /\ waiting_descriptors = [s \in SemNum |-> <<>>]
      /\ sem_descriptors = [p \in PCB |-> {}] /\ last_sem_fd = [p \in PCB |-> 0]
      /\ dsc_free = MAX_NUM_PROCESSES /\ dsc_ptr_free = MAX_NUM_PROCESSES
      /\ waiting_list = {}
  BY DEF Init, KernelInit
<1>4. SemTypeOK
  BY <1>3, KernelAssumption DEF SemTypeOK
<1>5. DescriptorsPair /\ NoneOfTheFuture /\ UnlinkedIsQuiet
  BY <1>3 DEF DescriptorsPair, NoneOfTheFuture, UnlinkedIsQuiet, Live
<1>6. WaitersBlocked /\ WaitersExact
  <2>1. \A s \in SemNum : /\ waiting_descriptors[s] = <<>> /\ Len(waiting_descriptors[s]) = 0
                          /\ count[s] = 0
    BY <1>3
  <2> QED
    BY <2>1, <1>3, NoneOnEmpty DEF WaitersBlocked, WaitersExact
<1> QED
  BY <1>2, <1>4, <1>5, <1>6 DEF SemInv

\* PCB_alloc empties the holder's fields of the new block, which has no pid of
\* before, and no other block's.
LEMMA FreshOnly ==
    ASSUME SemInv, FreshHolders, NoNewBlock \/ \E new \in PCB : NewBlock(new)
    PROVE  \/ NoNewBlock /\ UNCHANGED <<sem_descriptors, last_sem_fd>>
           \/ \E new \in PCB : /\ NewBlock(new)
                               /\ sem_descriptors' = [sem_descriptors EXCEPT ![new] = {}]
                               /\ last_sem_fd' = [last_sem_fd EXCEPT ![new] = 0]
<1> DEFINE fresh == {p \in PCB : pid'[p] # pid[p]}
<1>1. /\ pid \in [PCB -> Nat] /\ last_pid \in Nat
      /\ \A p \in PCB : pid[p] < last_pid
      /\ sem_descriptors \in [PCB -> SUBSET [fd : Nat, sem : SemNum]]
      /\ last_sem_fd \in [PCB -> Nat]
  BY DEF SemInv, SemTypeOK, KernelInv, KernelTypeOK, PidsDiffer
<1>2. /\ sem_descriptors' = [p \in PCB |-> IF p \in fresh THEN {} ELSE sem_descriptors[p]]
      /\ last_sem_fd' = [p \in PCB |-> IF p \in fresh THEN 0 ELSE last_sem_fd[p]]
  BY DEF FreshHolders
<1>3. CASE NoNewBlock
  <2>1. fresh = {}
    BY <1>3 DEF NoNewBlock
  <2> HIDE DEF fresh
  <2>2. UNCHANGED <<sem_descriptors, last_sem_fd>>
    BY <2>1, <1>1, <1>2
  <2> QED
    BY <2>2, <1>3
<1>4. ASSUME NEW new \in PCB, NewBlock(new)
      PROVE  /\ sem_descriptors' = [sem_descriptors EXCEPT ![new] = {}]
             /\ last_sem_fd' = [last_sem_fd EXCEPT ![new] = 0]
  <2>1. pid[new] # last_pid
    BY <1>1
  <2>2. fresh = {new}
    BY <2>1, <1>1, <1>4 DEF NewBlock
  <2> HIDE DEF fresh
  <2> QED
    BY <2>2, <1>1, <1>2
<1> QED
  BY <1>3, <1>4

\* Those who wait are not fresh.
LEMMA WaitersSame ==
    ASSUME SemInv, UNCHANGED waiting_descriptors,
           \A p \in waiting_list' : \/ p \in waiting_list /\ call'[p] = call[p]
                                    \/ call'[p].num # "semWait",
           \A p \in waiting_list : call[p].num = "semWait" =>
               p \in waiting_list' /\ call'[p] = call[p] /\ sem_descriptors'[p] = sem_descriptors[p]
    PROVE  WaitersBlocked'
<1>1. ASSUME NEW s \in SemNum
      PROVE  /\ IsInjective(waiting_descriptors'[s])
             /\ \A p \in ToSet(waiting_descriptors'[s]) :
                   /\ p \in waiting_list' /\ call'[p].num = "semWait"
                   /\ [fd |-> call'[p].arg, sem |-> s] \in sem_descriptors'[p]
  <2>1. /\ IsInjective(waiting_descriptors[s])
        /\ \A p \in ToSet(waiting_descriptors[s]) :
              /\ p \in waiting_list /\ call[p].num = "semWait"
              /\ [fd |-> call[p].arg, sem |-> s] \in sem_descriptors[p]
    BY DEF SemInv, WaitersBlocked
  <2>2. \A p \in ToSet(waiting_descriptors[s]) :
            p \in waiting_list' /\ call'[p] = call[p] /\ sem_descriptors'[p] = sem_descriptors[p]
    BY <2>1
  <2> QED
    BY <2>1, <2>2
<1>2. ASSUME NEW p \in waiting_list', call'[p].num = "semWait"
      PROVE  \E s \in SemNum : p \in ToSet(waiting_descriptors'[s])
  BY <1>2 DEF SemInv, WaitersBlocked
<1> QED
  BY <1>1, <1>2 DEF WaitersBlocked

\* Whatever the kernel does beneath them, the semaphores stay in step with it.
LEMMA KernelStepKeeps ==
    ASSUME SemInv, [KernelNext]_kernelVars, FreshHolders, UNCHANGED <<semaphoreVars, dscVars>>
    PROVE  SemInv'
<1>1. KernelInv' /\ (NoNewBlock \/ \E new \in PCB : NewBlock(new))
  BY StepKeeps, BlocksStep DEF SemInv
<1>2. PidsDiffer'
  BY <1>1, PidsStep DEF SemInv, KernelInv
<1>3. UNCHANGED <<semaphores_list, count, descriptors, waiting_descriptors, dsc_free, dsc_ptr_free>>
  BY DEF semaphoreVars, dscVars
<1>4. /\ pid \in [PCB -> Nat] /\ last_pid \in Nat /\ Live \subseteq PCB
      /\ sem_descriptors \in [PCB -> SUBSET [fd : Nat, sem : SemNum]]
      /\ last_sem_fd \in [PCB -> Nat]
  BY DEF SemInv, SemTypeOK, KernelInv, KernelTypeOK, Live
<1>5. \/ NoNewBlock /\ UNCHANGED <<sem_descriptors, last_sem_fd>>
      \/ \E new \in PCB : /\ NewBlock(new)
                          /\ sem_descriptors' = [sem_descriptors EXCEPT ![new] = {}]
                          /\ last_sem_fd' = [last_sem_fd EXCEPT ![new] = 0]
  BY <1>1, FreshOnly
<1>6. SemTypeOK'
  <2>1. /\ sem_descriptors' \in [PCB -> SUBSET [fd : Nat, sem : SemNum]]
        /\ last_sem_fd' \in [PCB -> Nat]
    <3> DEFINE Holder == SUBSET [fd : Nat, sem : SemNum]
    <3>1. {} \in Holder /\ sem_descriptors \in [PCB -> Holder]
      BY <1>4
    <3> HIDE DEF Holder
    <3>2. sem_descriptors' \in [PCB -> Holder] /\ last_sem_fd' \in [PCB -> Nat]
      <4>1. CASE UNCHANGED <<sem_descriptors, last_sem_fd>>
        BY <4>1, <3>1, <1>4
      <4>2. ASSUME NEW new \in PCB, sem_descriptors' = [sem_descriptors EXCEPT ![new] = {}],
                   last_sem_fd' = [last_sem_fd EXCEPT ![new] = 0]
            PROVE  sem_descriptors' \in [PCB -> Holder] /\ last_sem_fd' \in [PCB -> Nat]
        BY <4>2, <3>1, <1>4
      <4> QED
        BY <4>1, <4>2, <1>5
    <3> QED
      BY <3>2 DEF Holder
  <2> QED
    BY <2>1, <1>3 DEF SemInv, SemTypeOK
<1>7. \A p \in Live : sem_descriptors'[p] = sem_descriptors[p]
  BY <1>4, <1>5 DEF NewBlock
<1>8. DescriptorsPair' /\ NoneOfTheFuture'
  <2>1. CASE NoNewBlock /\ UNCHANGED <<sem_descriptors, last_sem_fd>>
    BY <2>1, <1>3 DEF SemInv, DescriptorsPair, NoneOfTheFuture, NoNewBlock
  <2>2. ASSUME NEW new \in PCB, NewBlock(new),
               sem_descriptors' = [sem_descriptors EXCEPT ![new] = {}],
               last_sem_fd' = [last_sem_fd EXCEPT ![new] = 0]
        PROVE  DescriptorsPair' /\ NoneOfTheFuture'
    <3>1. /\ new \notin Live /\ Live' = Live \union {new} /\ last_pid' = last_pid + 1
          /\ \A p \in Live : pid'[p] = pid[p] /\ last_sem_fd'[p] = last_sem_fd[p]
          /\ pid'[new] = last_pid /\ sem_descriptors'[new] = {}
      BY <2>2, <1>4 DEF NewBlock
    <3>2. \A s \in SemNum, f \in Nat : [pid |-> last_pid, fd |-> f] \notin descriptors[s]
      <4> SUFFICES ASSUME NEW s \in SemNum, NEW f \in Nat,
                          [pid |-> last_pid, fd |-> f] \in descriptors[s]
                   PROVE  FALSE
        OBVIOUS
      <4> DEFINE d == [pid |-> last_pid, fd |-> f]
      <4>1. d.pid = last_pid
        OBVIOUS
      <4>2. d.pid < last_pid
        <5> HIDE DEF d
        <5>1. d \in descriptors[s]
          BY DEF d
        <5> QED
          BY <5>1 DEF SemInv, NoneOfTheFuture
      <4> QED
        BY <4>1, <4>2, <1>4
    <3>3. DescriptorsPair'
      BY <3>1, <3>2, <1>3, <1>7 DEF SemInv, DescriptorsPair
    <3>4. NoneOfTheFuture'
      <4> SUFFICES ASSUME NEW s \in SemNum, NEW d \in descriptors[s]
                   PROVE  d.pid < last_pid'
        BY <1>3 DEF NoneOfTheFuture
      <4>1. d.pid < last_pid /\ d.pid \in Nat
        BY DEF SemInv, NoneOfTheFuture, SemTypeOK
      <4> QED
        BY <4>1, <3>1, <1>4
    <3> QED
      BY <3>3, <3>4
  <2> QED
    BY <2>1, <2>2, <1>5
<1>9. UnlinkedIsQuiet' /\ WaitersExact'
  BY <1>3 DEF SemInv, UnlinkedIsQuiet, WaitersExact
<1>10. WaitersBlocked'
  <2>1. /\ \A p \in waiting_list' : \/ p \in waiting_list /\ call'[p] = call[p]
                                    \/ p = running /\ call'[p].num \in {"sleep", "wait"}
        /\ \A p \in waiting_list \ waiting_list' : call[p].num \in {"sleep", "wait"}
    BY WaitersStep DEF SemInv
  <2>2. waiting_list \subseteq Live /\ running \notin waiting_list
    BY DEF SemInv, KernelInv, KernelTypeOK, OnePlace, Live
  <2> QED
    BY <2>1, <2>2, <1>3, <1>7, WaitersSame
<1> QED
  BY <1>1, <1>2, <1>6, <1>8, <1>9, <1>10 DEF SemInv

-----------------------------------------------------------------------------
(* semOpen *)

\* Who makes a call holds its block and does not wait.
LEMMA CallerFacts ==
    ASSUME SemInv, NEW num, User(num)
    PROVE  /\ running \in PCB /\ running \in Live /\ running \notin waiting_list
           /\ pid \in [PCB -> Nat] /\ last_pid \in Nat /\ Live \subseteq PCB
           /\ pid[running] < last_pid
           /\ \A p \in Live : pid[p] = pid[running] => p = running
<1>1. running \in PCB
  BY UserRuns DEF SemInv, KernelInv
<1>2. running \in Live /\ running \notin waiting_list
  BY <1>1, RunningElsewhere DEF SemInv
<1> QED
  BY <1>1, <1>2 DEF SemInv, PidsDiffer, KernelInv, KernelTypeOK, Live

\* No call gives or takes a pid or a block.
LEMMA FamilyStays ==
    ASSUME SemInv, SameFamily
    PROVE  PidsDiffer' /\ Live' = Live /\ UNCHANGED <<pid, last_pid>>
  BY DEF SameFamily, poolVars, SemInv, PidsDiffer, Live

\* A call that is refused.
LEMMA RefusedKeeps ==
    ASSUME SemInv, KernelInv', SameFamily, UNCHANGED waiting_list,
           \A p \in waiting_list : call'[p] = call[p],
           UNCHANGED <<semaphoreVars, holderVars, dscVars>>
    PROVE  SemInv'
<1>1. PidsDiffer' /\ Live' = Live /\ UNCHANGED <<pid, last_pid>>
  BY FamilyStays
<1>2. UNCHANGED <<semaphores_list, count, descriptors, waiting_descriptors,
                  sem_descriptors, last_sem_fd, dsc_free, dsc_ptr_free>>
  BY DEF semaphoreVars, holderVars, dscVars
<1>3. SemTypeOK' /\ UnlinkedIsQuiet' /\ WaitersExact'
  BY <1>2 DEF SemInv, SemTypeOK, UnlinkedIsQuiet, WaitersExact
<1>4. DescriptorsPair' /\ NoneOfTheFuture'
  BY <1>1, <1>2 DEF SemInv, DescriptorsPair, NoneOfTheFuture
<1>5. WaitersBlocked'
  BY <1>2, WaitersSame
<1> QED
  BY <1>1, <1>3, <1>4, <1>5 DEF SemInv

\* The value that semOpen gives a semaphore is for one with nobody in its queue.
LEMMA LinkKeeps ==
    ASSUME SemInv, NEW semnum \in SemNum, NEW value \in InitialValues, Link(semnum, value),
           UNCHANGED waiting_descriptors,
           \A s \in SemNum \ {semnum} : descriptors'[s] = descriptors[s]
    PROVE  /\ semaphores_list' = semaphores_list \union {semnum}
           /\ semaphores_list' \subseteq SemNum
           /\ count' \in [SemNum -> Int]
           /\ UnlinkedIsQuiet' /\ WaitersExact'
<1>1. /\ semaphores_list' = semaphores_list \union {semnum}
      /\ count' = [count EXCEPT ![semnum] = IF semnum \in semaphores_list THEN @ ELSE value]
  BY DEF Link
<1>2. value \in Int /\ count \in [SemNum -> Int] /\ semaphores_list \subseteq SemNum
  BY SemaphoresAssumption DEF SemInv, SemTypeOK
<1>3. count' \in [SemNum -> Int] /\ semaphores_list' \subseteq SemNum
  BY <1>1, <1>2
<1>4. UnlinkedIsQuiet'
  BY <1>1 DEF SemInv, UnlinkedIsQuiet
<1>5. WaitersExact'
  <2> SUFFICES ASSUME InitialValues \subseteq Nat, NEW s \in SemNum
               PROVE  Len(waiting_descriptors[s]) = IF count'[s] < 0 THEN -count'[s] ELSE 0
    BY DEF WaitersExact
  <2>1. CASE s # semnum \/ semnum \in semaphores_list
    <3>1. count'[s] = count[s]
      BY <2>1, <1>1, <1>2
    <3> QED
      BY <3>1 DEF SemInv, WaitersExact
  <2>2. CASE s = semnum /\ semnum \notin semaphores_list
    <3>1. count'[s] = value /\ value \in Nat
      BY <2>2, <1>1, <1>2
    <3>2. waiting_descriptors[s] = <<>>
      BY <2>2 DEF SemInv, UnlinkedIsQuiet
    <3>3. Len(waiting_descriptors[s]) = 0
      BY <3>2
    <3> QED
      BY <3>1, <3>3
  <2> QED
    BY <2>1, <2>2
<1> QED
  BY <1>1, <1>3, <1>4, <1>5

\* Both lists of descriptors get the new one, with a fd of its own, or neither.
LEMMA DescribeKeeps ==
    ASSUME SemInv, NEW num, User(num), NEW semnum \in SemNum, BySem(semnum) = {},
           semaphores_list' = semaphores_list \union {semnum},
           SameFamily, Describe(semnum)
    PROVE  /\ descriptors' \in [SemNum -> SUBSET [pid : Nat, fd : Nat]]
           /\ sem_descriptors' \in [PCB -> SUBSET [fd : Nat, sem : SemNum]]
           /\ last_sem_fd' \in [PCB -> Nat] /\ dsc_free' \in Nat /\ dsc_ptr_free' \in Nat
           /\ \A s \in SemNum \ {semnum} : descriptors'[s] = descriptors[s]
           /\ \A p \in PCB \ {running} : sem_descriptors'[p] = sem_descriptors[p]
           /\ DescriptorsPair' /\ NoneOfTheFuture'
           /\ \E value \in Int : Answer(value)
<1> DEFINE fd == last_sem_fd[running]
           new == [pid |-> pid[running], fd |-> fd]
           own == [fd |-> fd, sem |-> semnum]
<1>1. /\ running \in PCB /\ running \in Live /\ running \notin waiting_list
      /\ pid \in [PCB -> Nat] /\ last_pid \in Nat /\ Live \subseteq PCB
      /\ pid[running] < last_pid
      /\ \A p \in Live : pid[p] = pid[running] => p = running
  BY CallerFacts
<1>2. Live' = Live /\ UNCHANGED <<pid, last_pid>>
  BY FamilyStays
<1>3. /\ descriptors \in [SemNum -> SUBSET [pid : Nat, fd : Nat]]
      /\ sem_descriptors \in [PCB -> SUBSET [fd : Nat, sem : SemNum]]
      /\ last_sem_fd \in [PCB -> Nat] /\ dsc_free \in Nat /\ dsc_ptr_free \in Nat
  BY DEF SemInv, SemTypeOK
<1>4. fd \in Nat /\ new \in [pid : Nat, fd : Nat] /\ own \in [fd : Nat, sem : SemNum]
  BY <1>1, <1>3
<1>5. \A d \in sem_descriptors[running] : d.sem # semnum
  BY DEF BySem
<1>6. CASE UNCHANGED <<sem_descriptors, descriptors>>
  <2>1. /\ last_sem_fd' \in [PCB -> Nat] /\ dsc_free' \in Nat /\ dsc_ptr_free' \in Nat
        /\ \A p \in PCB : last_sem_fd[p] <= last_sem_fd'[p]
        /\ \E value \in Int : Answer(value)
    <3>1. CASE dsc_free = 0
      BY <3>1, <1>3 DEF Describe, dscVars, holderVars, DSOS_ECREATEFD
    <3>2. CASE dsc_free # 0
      <4>1. /\ dsc_free' = dsc_free - 1 /\ last_sem_fd' = [last_sem_fd EXCEPT ![running] = fd + 1]
            /\ \/ dsc_ptr_free' = 0 /\ Answer(DSOS_ECREATEPTR)
               \/ ~(dsc_ptr_free < 2) /\ dsc_ptr_free' = dsc_ptr_free - 2 /\ Answer(fd)
        BY <3>2 DEF Describe, NextFd, NoPtrsLeft
      <4>2. DSOS_ECREATEPTR \in Int
        BY DEF DSOS_ECREATEPTR
      <4> HIDE DEF fd
      <4>3. dsc_free' \in Nat /\ dsc_ptr_free' \in Nat
        BY <4>1, <3>2, <1>3
      <4>4. \E value \in Int : Answer(value)
        BY <4>1, <4>2, <1>4
      <4>5. last_sem_fd' \in [PCB -> Nat] /\ \A p \in PCB : last_sem_fd[p] <= last_sem_fd'[p]
        <5>1. fd \in Nat /\ fd + 1 \in Nat /\ fd <= fd + 1 /\ fd = last_sem_fd[running]
          BY <1>4 DEF fd
        <5>2. \A p \in PCB : last_sem_fd'[p] = IF p = running THEN fd + 1 ELSE last_sem_fd[p]
          BY <4>1, <1>3
        <5>3. \A p \in PCB : last_sem_fd[p] <= last_sem_fd'[p]
          BY <5>1, <5>2, <1>3
        <5> QED
          BY <4>1, <5>1, <5>3, <1>3
      <4> QED
        BY <4>3, <4>4, <4>5
    <3> QED
      BY <3>1, <3>2
  <2>2. DescriptorsPair'
    <3>1. \A p \in Live : \A d \in sem_descriptors[p] :
              d.sem \in semaphores_list' /\ d.fd < last_sem_fd'[p]
      <4> SUFFICES ASSUME NEW p \in Live, NEW d \in sem_descriptors[p]
                   PROVE  d.sem \in semaphores_list' /\ d.fd < last_sem_fd'[p]
        OBVIOUS
      <4>1. d.fd < last_sem_fd[p] /\ d.fd \in Nat /\ d.sem \in semaphores_list
        BY <1>1, <1>3 DEF SemInv, DescriptorsPair
      <4>2. last_sem_fd[p] <= last_sem_fd'[p] /\ last_sem_fd[p] \in Nat /\ last_sem_fd'[p] \in Nat
        BY <2>1, <1>1, <1>3
      <4> QED
        BY <4>1, <4>2
    <3> QED
      BY <3>1, <1>2, <1>6 DEF SemInv, DescriptorsPair
  <2>3. NoneOfTheFuture'
    BY <1>2, <1>6 DEF SemInv, NoneOfTheFuture
  <2> QED
    BY <2>1, <2>2, <2>3, <1>3, <1>6
<1>7. CASE ~UNCHANGED <<sem_descriptors, descriptors>>
  <2>1. /\ dsc_free # 0 /\ dsc_free' = dsc_free - 1
        /\ last_sem_fd' = [last_sem_fd EXCEPT ![running] = fd + 1]
        /\ ~(dsc_ptr_free < 2) /\ dsc_ptr_free' = dsc_ptr_free - 2
        /\ sem_descriptors' = [sem_descriptors EXCEPT ![running] = @ \union {own}]
        /\ descriptors' = [descriptors EXCEPT ![semnum] = @ \union {new}]
        /\ Answer(fd)
    BY <1>7 DEF Describe, NextFd, NoPtrsLeft, holderVars
  <2>2. fd \in Nat /\ fd = last_sem_fd[running]
    BY <1>4
  <2>3. /\ new.pid = pid[running] /\ new.fd = fd /\ own.fd = fd /\ own.sem = semnum
        /\ \A n, f : [pid |-> n, fd |-> f] = new <=> n = pid[running] /\ f = fd
        /\ \A f, s : [fd |-> f, sem |-> s] = own <=> f = fd /\ s = semnum
    OBVIOUS
  <2> HIDE DEF fd, new, own
  <2>4. /\ last_sem_fd' \in [PCB -> Nat] /\ dsc_free' \in Nat /\ dsc_ptr_free' \in Nat
        /\ last_sem_fd'[running] = fd + 1
        /\ \A p \in PCB \ {running} : last_sem_fd'[p] = last_sem_fd[p]
    BY <2>1, <2>2, <1>1, <1>3
  <2>5. /\ descriptors' \in [SemNum -> SUBSET [pid : Nat, fd : Nat]]
        /\ \A s \in SemNum \ {semnum} : descriptors'[s] = descriptors[s]
        /\ descriptors'[semnum] = descriptors[semnum] \union {new}
    <3> DEFINE D == [pid : Nat, fd : Nat]
    <3>1. descriptors \in [SemNum -> SUBSET D] /\ new \in D
      BY <1>3, <1>4
    <3> HIDE DEF D
    <3>2. /\ descriptors' \in [SemNum -> SUBSET D]
          /\ \A s \in SemNum \ {semnum} : descriptors'[s] = descriptors[s]
          /\ descriptors'[semnum] = descriptors[semnum] \union {new}
      BY <3>1, <2>1
    <3> QED
      BY <3>2 DEF D
  <2>6. /\ sem_descriptors' \in [PCB -> SUBSET [fd : Nat, sem : SemNum]]
        /\ \A p \in PCB \ {running} : sem_descriptors'[p] = sem_descriptors[p]
        /\ sem_descriptors'[running] = sem_descriptors[running] \union {own}
    <3> DEFINE D == [fd : Nat, sem : SemNum]
    <3>1. sem_descriptors \in [PCB -> SUBSET D] /\ own \in D
      BY <1>3, <1>4
    <3> HIDE DEF D
    <3>2. /\ sem_descriptors' \in [PCB -> SUBSET D]
          /\ \A p \in PCB \ {running} : sem_descriptors'[p] = sem_descriptors[p]
          /\ sem_descriptors'[running] = sem_descriptors[running] \union {own}
      BY <3>1, <2>1, <1>1
    <3> QED
      BY <3>2 DEF D
  <2>7. DescriptorsPair'
    <3> SUFFICES ASSUME NEW p \in Live
                 PROVE  /\ \A s \in SemNum, f \in Nat :
                              [pid |-> pid[p], fd |-> f] \in descriptors'[s] <=>
                              [fd |-> f, sem |-> s] \in sem_descriptors'[p]
                        /\ \A d, e \in sem_descriptors'[p] : d.fd = e.fd <=> d.sem = e.sem
                        /\ \A d \in sem_descriptors'[p] :
                              d.sem \in semaphores_list' /\ d.fd < last_sem_fd'[p]
      BY <1>2 DEF DescriptorsPair
    <3>1. /\ \A s \in SemNum, f \in Nat :
                [pid |-> pid[p], fd |-> f] \in descriptors[s] <=>
                [fd |-> f, sem |-> s] \in sem_descriptors[p]
          /\ \A d, e \in sem_descriptors[p] : d.fd = e.fd <=> d.sem = e.sem
          /\ \A d \in sem_descriptors[p] : d.sem \in semaphores_list /\ d.fd < last_sem_fd[p]
      BY DEF SemInv, DescriptorsPair
    <3>2. \A s \in SemNum, f \in Nat :
              [pid |-> pid[p], fd |-> f] \in descriptors'[s] <=>
              [fd |-> f, sem |-> s] \in sem_descriptors'[p]
      <4> SUFFICES ASSUME NEW s \in SemNum, NEW f \in Nat
                   PROVE  [pid |-> pid[p], fd |-> f] \in descriptors'[s] <=>
                          [fd |-> f, sem |-> s] \in sem_descriptors'[p]
        OBVIOUS
      <4>1. [pid |-> pid[p], fd |-> f] \in descriptors'[s] <=>
                \/ [pid |-> pid[p], fd |-> f] \in descriptors[s]
                \/ s = semnum /\ p = running /\ f = fd
        BY <2>3, <2>5, <1>1
      <4>2. [fd |-> f, sem |-> s] \in sem_descriptors'[p] <=>
                \/ [fd |-> f, sem |-> s] \in sem_descriptors[p]
                \/ s = semnum /\ p = running /\ f = fd
        BY <2>3, <2>6, <1>1
      <4> QED
        BY <4>1, <4>2, <3>1
    <3>3. CASE p = running
      <4>1. \A d \in sem_descriptors[p] : d.fd # fd /\ d.sem # semnum /\ d.fd \in Nat
        BY <3>1, <3>3, <2>2, <1>1, <1>3, <1>5
      <4>2. \A d, e \in sem_descriptors'[p] : d.fd = e.fd <=> d.sem = e.sem
        BY <4>1, <3>1, <3>3, <2>3, <2>6
      <4>3. \A d \in sem_descriptors'[p] :
                d.sem \in semaphores_list' /\ d.fd < last_sem_fd'[p]
        <5> SUFFICES ASSUME NEW d \in sem_descriptors'[p]
                     PROVE  d.sem \in semaphores_list' /\ d.fd < last_sem_fd'[p]
          OBVIOUS
        <5>1. CASE d = own
          BY <5>1, <3>3, <2>2, <2>3, <2>4
        <5>2. CASE d \in sem_descriptors[p]
          <6>1. d.sem \in semaphores_list /\ d.fd < fd /\ d.fd \in Nat
            BY <5>2, <4>1, <3>1, <3>3, <2>2
          <6> QED
            BY <6>1, <3>3, <2>2, <2>4
        <5> QED
          BY <5>1, <5>2, <3>3, <2>6
      <4> QED
        BY <3>2, <4>2, <4>3
    <3>4. CASE p # running
      BY <3>1, <3>2, <3>4, <2>4, <2>6, <1>1
    <3> QED
      BY <3>3, <3>4
  <2>8. NoneOfTheFuture'
    <3> SUFFICES ASSUME NEW s \in SemNum, NEW d \in descriptors'[s]
                 PROVE  d.pid < last_pid
      BY <1>2 DEF NoneOfTheFuture
    <3>1. d \in descriptors[s] \/ d = new
      BY <2>5
    <3> QED
      BY <3>1, <2>3, <1>1 DEF SemInv, NoneOfTheFuture
  <2> QED
    BY <2>1, <2>2, <2>4, <2>5, <2>6, <2>7, <2>8
<1> QED
  BY <1>6, <1>7

\* semOpen, of a semaphore that the caller has open, of a linked one and of a new
\* one, with blocks for it or without.
LEMMA SemOpenKeeps ==
    ASSUME SemInv, NEW semnum \in SemNum, NEW value \in InitialValues, SemOpen(semnum, value)
    PROVE  SemInv'
<1>1. /\ User("semOpen") /\ Trap("semOpen", semnum) /\ SameProcesses /\ SameFamily
      /\ semnum \in Int /\ "semOpen" \in Syscalls
  BY SemaphoresAssumption DEF SemOpen, Syscalls
<1>2. running \in PCB /\ running \notin waiting_list /\ waiting_list \subseteq PCB
  BY <1>1, CallerFacts DEF SemInv, KernelInv, KernelTypeOK
<1>3. /\ \A p \in waiting_list : call'[p] = call[p]
      /\ UNCHANGED waiting_list
  BY <1>1, <1>2, TrapElsewhere DEF SemInv, SameProcesses
<1>4. ASSUME \E answer \in Int : Answer(answer)
      PROVE  KernelInv'
  BY <1>1, <1>2, <1>4, AnswerKeeps DEF SemInv
<1>5. CASE BySem(semnum) # {}
  <2>1. PICK d \in BySem(semnum) : d = CHOOSE e \in BySem(semnum) : TRUE
    BY <1>5
  <2>2. d.fd \in Int
    BY <1>2 DEF BySem, SemInv, SemTypeOK
  <2>3. Answer(d.fd) /\ UNCHANGED <<semaphoreVars, holderVars, dscVars>>
    BY <2>1, <1>5 DEF SemOpen
  <2> QED
    BY <2>2, <2>3, <1>1, <1>3, <1>4, RefusedKeeps
<1>6. CASE BySem(semnum) = {} /\ semnum \notin semaphores_list /\ NoSemaphoreLeft
  <2>1. Answer(DSOS_ECREATESEM) /\ UNCHANGED <<semaphoreVars, holderVars, dscVars>>
    BY <1>6 DEF SemOpen
  <2>2. DSOS_ECREATESEM \in Int
    BY DEF DSOS_ECREATESEM
  <2> QED
    BY <2>1, <2>2, <1>1, <1>3, <1>4, RefusedKeeps
<1>7. CASE BySem(semnum) = {} /\ ~(semnum \notin semaphores_list /\ NoSemaphoreLeft)
  <2>1. Link(semnum, value) /\ Describe(semnum) /\ UNCHANGED waiting_descriptors
    BY <1>7 DEF SemOpen
  <2>2. semaphores_list' = semaphores_list \union {semnum}
    BY <2>1 DEF Link
  <2>3. /\ descriptors' \in [SemNum -> SUBSET [pid : Nat, fd : Nat]]
        /\ sem_descriptors' \in [PCB -> SUBSET [fd : Nat, sem : SemNum]]
        /\ last_sem_fd' \in [PCB -> Nat] /\ dsc_free' \in Nat /\ dsc_ptr_free' \in Nat
        /\ \A s \in SemNum \ {semnum} : descriptors'[s] = descriptors[s]
        /\ \A p \in PCB \ {running} : sem_descriptors'[p] = sem_descriptors[p]
        /\ DescriptorsPair' /\ NoneOfTheFuture'
        /\ \E answer \in Int : Answer(answer)
    BY <2>1, <2>2, <1>1, <1>7, DescribeKeeps
  <2>4. /\ semaphores_list' \subseteq SemNum /\ count' \in [SemNum -> Int]
        /\ UnlinkedIsQuiet' /\ WaitersExact'
    BY <2>1, <2>3, LinkKeeps
  <2>5. KernelInv' /\ PidsDiffer'
    BY <2>3, <1>1, <1>4, FamilyStays
  <2>6. SemTypeOK'
    BY <2>1, <2>3, <2>4 DEF SemInv, SemTypeOK
  <2>7. WaitersBlocked'
    BY <2>1, <2>3, <1>2, <1>3, WaitersSame
  <2> QED
    BY <2>3, <2>4, <2>5, <2>6, <2>7 DEF SemInv
<1> QED
  BY <1>5, <1>6, <1>7

-----------------------------------------------------------------------------
(* semClose *)

\* Who waits for a semaphore holds a descriptor for it, so that nobody is left in
\* the queue when the last one goes.
LEMMA LastOneOut ==
    ASSUME SemInv, NEW num, User(num), NEW fd, Holds(fd),
           descriptors[SemOf(fd)] \ {[pid |-> pid[running], fd |-> fd]} = {}
    PROVE  waiting_descriptors[SemOf(fd)] = <<>>
<1> DEFINE s == SemOf(fd)
<1>1. s \in SemNum /\ running \in PCB
  BY CallerFacts, OwnDescriptor
<1>2. waiting_descriptors[s] \in Seq(PCB)
  BY <1>1 DEF SemInv, SemTypeOK
<1>3. ASSUME NEW p \in ToSet(waiting_descriptors[s])
      PROVE  FALSE
  <2>1. p \in waiting_list /\ [fd |-> call[p].arg, sem |-> s] \in sem_descriptors[p]
    BY <1>1 DEF SemInv, WaitersBlocked
  <2>2. p \in Live /\ p # running
    BY <2>1, CallerFacts DEF SemInv, KernelInv, KernelTypeOK, OnePlace, Live
  <2>3. call[p].arg \in Nat
    BY <2>1, <2>2 DEF SemInv, SemTypeOK, Live
  <2>4. [pid |-> pid[p], fd |-> call[p].arg] \in descriptors[s]
    BY <2>1, <2>2, <2>3, <1>1 DEF SemInv, DescriptorsPair
  <2>5. pid[p] # pid[running]
    BY <2>2, CallerFacts
  <2> QED
    BY <2>4, <2>5
<1> QED
  BY <1>2, <1>3, Places

\* semClose takes one descriptor from both lists and looks whether there are more.
LEMMA SemCloseKeeps ==
    ASSUME SemInv, NEW fd \in Int, SemClose(fd)
    PROVE  SemInv'
<1>1. /\ User("semClose") /\ Trap("semClose", fd) /\ SameFamily
      /\ fd \in Int /\ "semClose" \in Syscalls
  BY SemaphoresAssumption DEF SemClose, Syscalls
<1>2. /\ running \in PCB /\ running \in Live /\ running \notin waiting_list
      /\ pid \in [PCB -> Nat] /\ last_pid \in Nat /\ Live \subseteq PCB
      /\ \A p \in Live : pid[p] = pid[running] => p = running
  BY <1>1, CallerFacts
<1>3. /\ \A p \in waiting_list : call'[p] = call[p]
      /\ waiting_list \subseteq PCB
  BY <1>1, <1>2, TrapElsewhere DEF SemInv, KernelInv, KernelTypeOK
<1>4. ASSUME NEW answer \in Int, Answer(answer), SameProcesses
      PROVE  KernelInv' /\ UNCHANGED waiting_list
  BY <1>1, <1>2, <1>4, AnswerKeeps DEF SemInv, SameProcesses
<1>5. CASE ~Holds(fd)
  <2>1. Answer(DSOS_ENOTMYSEM) /\ SameProcesses /\ UNCHANGED <<semaphoreVars, holderVars, dscVars>>
    BY <1>5 DEF SemClose, NotMySem
  <2>2. DSOS_ENOTMYSEM \in Int
    BY DEF DSOS_ENOTMYSEM
  <2> QED
    BY <2>1, <2>2, <1>1, <1>3, <1>4, RefusedKeeps
<1>6. CASE Holds(fd)
  <2> DEFINE s == SemOf(fd)
             gone == [pid |-> pid[running], fd |-> fd]
             own == [fd |-> fd, sem |-> s]
             left == descriptors[s] \ {gone}
  <2>1. /\ s \in SemNum /\ fd \in Nat /\ s \in semaphores_list
        /\ ByFd(fd) = {own} /\ own \in sem_descriptors[running]
    BY <1>2, <1>6, OwnDescriptor
  <2>2. /\ sem_descriptors' = [sem_descriptors EXCEPT ![running] = @ \ ByFd(fd)]
        /\ descriptors' = [descriptors EXCEPT ![s] = left]
        /\ dsc_free' = dsc_free + 1
        /\ dsc_ptr_free' = dsc_ptr_free + 2
        /\ semaphores_list' = IF left = {} THEN semaphores_list \ {s} ELSE semaphores_list
        /\ Answer(0) /\ SameProcesses
        /\ UNCHANGED <<count, waiting_descriptors, last_sem_fd>>
    BY <1>6 DEF SemClose, Unlink
  <2>3. left = {} => waiting_descriptors[s] = <<>>
    BY <1>1, <1>6, LastOneOut
  <2>4. /\ \A n, f : [pid |-> n, fd |-> f] = gone <=> n = pid[running] /\ f = fd
        /\ \A f, t : [fd |-> f, sem |-> t] = own <=> f = fd /\ t = s
    OBVIOUS
  <2> HIDE DEF s, gone, own
  <2>5. /\ descriptors \in [SemNum -> SUBSET [pid : Nat, fd : Nat]]
        /\ sem_descriptors \in [PCB -> SUBSET [fd : Nat, sem : SemNum]]
        /\ dsc_free \in Nat /\ dsc_ptr_free \in Nat
        /\ semaphores_list \subseteq SemNum
    BY DEF SemInv, SemTypeOK
  <2>6. /\ descriptors' \in [SemNum -> SUBSET [pid : Nat, fd : Nat]]
        /\ descriptors'[s] = descriptors[s] \ {gone}
        /\ \A t \in SemNum \ {s} : descriptors'[t] = descriptors[t]
    BY <2>1, <2>2, <2>5
  <2>7. /\ sem_descriptors' \in [PCB -> SUBSET [fd : Nat, sem : SemNum]]
        /\ sem_descriptors'[running] = sem_descriptors[running] \ {own}
        /\ \A p \in PCB \ {running} : sem_descriptors'[p] = sem_descriptors[p]
    BY <2>1, <2>2, <2>5, <1>2
  <2>8. KernelInv' /\ UNCHANGED waiting_list
    BY <2>2, <1>4
  <2>9. PidsDiffer' /\ Live' = Live /\ UNCHANGED <<pid, last_pid>>
    BY <1>1, FamilyStays
  <2>10. SemTypeOK'
    BY <2>2, <2>5, <2>6, <2>7 DEF SemInv, SemTypeOK
  <2>11. DescriptorsPair'
    <3> SUFFICES ASSUME NEW p \in Live
                 PROVE  /\ \A t \in SemNum, f \in Nat :
                              [pid |-> pid[p], fd |-> f] \in descriptors'[t] <=>
                              [fd |-> f, sem |-> t] \in sem_descriptors'[p]
                        /\ \A d, e \in sem_descriptors'[p] : d.fd = e.fd <=> d.sem = e.sem
                        /\ \A d \in sem_descriptors'[p] :
                              d.sem \in semaphores_list' /\ d.fd < last_sem_fd[p]
      BY <2>2, <2>9 DEF DescriptorsPair
    <3>1. /\ \A t \in SemNum, f \in Nat :
                [pid |-> pid[p], fd |-> f] \in descriptors[t] <=>
                [fd |-> f, sem |-> t] \in sem_descriptors[p]
          /\ \A d, e \in sem_descriptors[p] : d.fd = e.fd <=> d.sem = e.sem
          /\ \A d \in sem_descriptors[p] : d.sem \in semaphores_list /\ d.fd < last_sem_fd[p]
      BY DEF SemInv, DescriptorsPair
    <3>2. sem_descriptors'[p] \subseteq sem_descriptors[p]
      BY <2>7, <1>2
    <3>3. ASSUME NEW t \in SemNum, NEW f \in Nat
          PROVE  [pid |-> pid[p], fd |-> f] \in descriptors'[t] <=>
                 [fd |-> f, sem |-> t] \in sem_descriptors'[p]
      <4>1. [pid |-> pid[p], fd |-> f] \in descriptors'[t] <=>
                /\ [pid |-> pid[p], fd |-> f] \in descriptors[t]
                /\ ~(t = s /\ p = running /\ f = fd)
        BY <2>4, <2>6, <1>2
      <4>2. [fd |-> f, sem |-> t] \in sem_descriptors'[p] <=>
                /\ [fd |-> f, sem |-> t] \in sem_descriptors[p]
                /\ ~(t = s /\ p = running /\ f = fd)
        BY <2>4, <2>7, <1>2
      <4> QED
        BY <4>1, <4>2, <3>1
    <3>4. ASSUME NEW d \in sem_descriptors'[p]
          PROVE  d.sem \in semaphores_list' /\ d.fd < last_sem_fd[p]
      <4>1. d.sem \in semaphores_list /\ d.fd < last_sem_fd[p]
        BY <3>1, <3>2
      <4>2. d.fd \in Nat /\ d.sem \in SemNum /\ d = [fd |-> d.fd, sem |-> d.sem]
        BY <2>7, <1>2
      <4>3. [pid |-> pid[p], fd |-> d.fd] \in descriptors'[d.sem]
        BY <4>2, <3>3
      <4>4. left = {} => d.sem # s
        BY <4>3, <2>6
      <4> QED
        BY <4>1, <4>4, <2>2
    <3>5. \A d, e \in sem_descriptors'[p] : d.fd = e.fd <=> d.sem = e.sem
      BY <3>1, <3>2
    <3> QED
      BY <3>3, <3>4, <3>5
  <2>12. NoneOfTheFuture'
    <3>1. \A t \in SemNum : descriptors'[t] \subseteq descriptors[t]
      BY <2>6
    <3> QED
      BY <3>1, <2>9 DEF SemInv, NoneOfTheFuture
  <2>13. UnlinkedIsQuiet'
    <3> SUFFICES ASSUME NEW t \in SemNum, t \notin semaphores_list'
                 PROVE  descriptors'[t] = {} /\ waiting_descriptors[t] = <<>>
      BY <2>2 DEF UnlinkedIsQuiet
    <3>1. CASE t = s
      BY <3>1, <2>1, <2>2, <2>3, <2>6
    <3>2. CASE t # s
      BY <3>2, <2>2, <2>6 DEF SemInv, UnlinkedIsQuiet
    <3> QED
      BY <3>1, <3>2
  <2>14. WaitersExact'
    BY <2>2 DEF SemInv, WaitersExact
  <2>15. WaitersBlocked'
    BY <2>2, <2>7, <2>8, <1>2, <1>3, WaitersSame
  <2> QED
    BY <2>8, <2>9, <2>10, <2>11, <2>12, <2>13, <2>14, <2>15 DEF SemInv
<1> QED
  BY <1>5, <1>6

-----------------------------------------------------------------------------
(* semWait and semPost *)

\* Both leave the descriptors alone.
LEMMA DescriptorsStay ==
    ASSUME SemInv, SameFamily, UNCHANGED <<semaphores_list, descriptors, holderVars>>,
           \A s \in SemNum : waiting_descriptors'[s] # <<>> => s \in semaphores_list
    PROVE  DescriptorsPair' /\ NoneOfTheFuture' /\ UnlinkedIsQuiet'
<1>1. Live' = Live /\ UNCHANGED <<pid, last_pid>>
  BY FamilyStays
<1>2. UNCHANGED <<semaphores_list, descriptors, sem_descriptors, last_sem_fd>>
  BY DEF holderVars
<1> QED
  BY <1>1, <1>2 DEF SemInv, DescriptorsPair, NoneOfTheFuture, UnlinkedIsQuiet

\* Only a linked semaphore has a queue.
LEMMA QueueIsLinked ==
    ASSUME SemInv, NEW s \in SemNum, waiting_descriptors[s] # <<>>
    PROVE  s \in semaphores_list
  BY DEF SemInv, UnlinkedIsQuiet

\* The caller is in no queue, and joins the one it has a descriptor for.
LEMMA BlockedWaits ==
    ASSUME SemInv, running \in PCB, NEW fd \in Int, Holds(fd), Trap("semWait", fd),
           Block(SemOf(fd)), UNCHANGED holderVars
    PROVE  WaitersBlocked'
<1> DEFINE s == SemOf(fd)
           q == waiting_descriptors[s]
<1>1. s \in SemNum /\ [fd |-> fd, sem |-> s] \in sem_descriptors[running]
  BY OwnDescriptor
<1>2. /\ \A p \in waiting_list : call'[p] = call[p]
      /\ call'[running] = [num |-> "semWait", arg |-> fd]
      /\ running \notin waiting_list
  BY TrapElsewhere, RunningElsewhere DEF SemInv
<1>3. /\ waiting_descriptors \in [SemNum -> Seq(PCB)]
      /\ \A t \in SemNum :
            /\ IsInjective(waiting_descriptors[t])
            /\ \A p \in ToSet(waiting_descriptors[t]) :
                  /\ p \in waiting_list /\ call[p].num = "semWait"
                  /\ [fd |-> call[p].arg, sem |-> t] \in sem_descriptors[p]
      /\ \A p \in waiting_list : call[p].num = "semWait" =>
            \E t \in SemNum : p \in ToSet(waiting_descriptors[t])
  BY DEF SemInv, SemTypeOK, WaitersBlocked
<1>4. /\ waiting_descriptors' = [waiting_descriptors EXCEPT ![s] = Append(q, running)]
      /\ waiting_list' = waiting_list \union {running}
      /\ sem_descriptors' = sem_descriptors
  BY DEF Block, Enqueued, holderVars
<1>5. q \in Seq(PCB) /\ running \notin ToSet(q) /\ IsInjective(q)
  BY <1>1, <1>2, <1>3
<1> HIDE DEF s, q
<1>6. /\ ToSet(Append(q, running)) = ToSet(q) \union {running}
      /\ IsInjective(Append(q, running))
  BY <1>5, Appended
<1>7. ASSUME NEW t \in SemNum
      PROVE  IF t = s THEN /\ waiting_descriptors'[t] = Append(q, running)
                           /\ waiting_descriptors[t] = q
                      ELSE waiting_descriptors'[t] = waiting_descriptors[t]
  BY <1>1, <1>3, <1>4 DEF q
<1>8. ASSUME NEW t \in SemNum
      PROVE  /\ IsInjective(waiting_descriptors'[t])
             /\ \A p \in ToSet(waiting_descriptors'[t]) :
                   p \in ToSet(waiting_descriptors[t]) \/ (p = running /\ t = s)
             /\ ToSet(waiting_descriptors[t]) \subseteq ToSet(waiting_descriptors'[t])
  BY <1>3, <1>6, <1>7
<1>9. ASSUME NEW t \in SemNum, NEW p \in ToSet(waiting_descriptors'[t])
      PROVE  /\ p \in waiting_list' /\ call'[p].num = "semWait"
             /\ [fd |-> call'[p].arg, sem |-> t] \in sem_descriptors'[p]
  <2>1. CASE p \in ToSet(waiting_descriptors[t])
    <3>1. /\ p \in waiting_list /\ call[p].num = "semWait" /\ call'[p] = call[p]
          /\ [fd |-> call[p].arg, sem |-> t] \in sem_descriptors[p]
      BY <2>1, <1>2, <1>3
    <3> QED
      BY <3>1, <1>4
  <2>2. CASE p = running /\ t = s
    BY <2>2, <1>1, <1>2, <1>4 DEF s
  <2> QED
    BY <2>1, <2>2, <1>8
<1>10. ASSUME NEW p \in waiting_list', call'[p].num = "semWait"
       PROVE  \E t \in SemNum : p \in ToSet(waiting_descriptors'[t])
  <2>1. CASE p \in waiting_list
    BY <2>1, <1>2, <1>3, <1>8, <1>10
  <2>2. CASE p = running
    BY <2>2, <1>1, <1>6, <1>7 DEF s
  <2> QED
    BY <2>1, <2>2, <1>4
<1> QED
  BY <1>8, <1>9, <1>10 DEF WaitersBlocked

\* semWait takes from the count first, and blocks if there was nothing.
LEMMA SemWaitKeeps ==
    ASSUME SemInv, NEW fd \in Int, SemWait(fd)
    PROVE  SemInv'
<1> DEFINE s == SemOf(fd)
<1>1. User("semWait") /\ fd \in Int /\ "semWait" \in Syscalls
  BY SemaphoresAssumption DEF SemWait, Syscalls
<1>2. running \in PCB /\ running \notin waiting_list
  BY <1>1, CallerFacts
<1>3. ASSUME Trap("semWait", fd)
      PROVE  \A p \in waiting_list : call'[p] = call[p]
  BY <1>2, <1>3, TrapElsewhere DEF SemInv
<1>4. ASSUME NEW answer \in Int, Answer(answer), Trap("semWait", fd), SameFamily, SameProcesses
      PROVE  KernelInv' /\ UNCHANGED waiting_list
  BY <1>1, <1>2, <1>4, AnswerKeeps DEF SemInv, SameProcesses
<1>5. CASE ~Holds(fd)
  <2>1. /\ Answer(DSOS_ENOTMYSEM) /\ SameProcesses /\ Trap("semWait", fd) /\ SameFamily
        /\ UNCHANGED <<semaphoreVars, holderVars, dscVars>>
    BY <1>5 DEF SemWait, NotMySem
  <2>2. DSOS_ENOTMYSEM \in Int
    BY DEF DSOS_ENOTMYSEM
  <2> QED
    BY <2>1, <2>2, <1>3, <1>4, RefusedKeeps
<1>6. CASE Holds(fd) /\ MustWait(s) /\ ready_list = <<>>
  <2>1. Stop("deadlock") /\ UNCHANGED <<semaphoreVars, holderVars, dscVars>>
    BY <1>6 DEF SemWait
  <2>2. KernelInv'
    BY <2>1, StopKeeps DEF SemInv
  <2>3. SameFamily /\ UNCHANGED <<waiting_list, call>>
    BY <2>1 DEF Stop, SameFamily, pcbVars, listVars
  <2> QED
    BY <2>1, <2>2, <2>3, RefusedKeeps
<1>7. CASE Holds(fd) /\ ~(MustWait(s) /\ ready_list = <<>>)
  <2>1. /\ Trap("semWait", fd) /\ SameFamily
        /\ count' = [count EXCEPT ![s] = @ - 1]
        /\ UNCHANGED <<semaphores_list, descriptors, holderVars, dscVars>>
        /\ MustWait(s) => Block(s)
        /\ ~MustWait(s) => Answer(0) /\ SameProcesses /\ UNCHANGED waiting_descriptors
    BY <1>7 DEF SemWait
  <2>2. s \in SemNum /\ s \in semaphores_list
    BY <1>2, <1>7, OwnDescriptor
  <2>3. /\ count \in [SemNum -> Int] /\ waiting_descriptors \in [SemNum -> Seq(PCB)]
    BY DEF SemInv, SemTypeOK
  <2> HIDE DEF s
  <2>4. PidsDiffer'
    BY <2>1, FamilyStays
  <2>5. CASE MustWait(s)
    <3> DEFINE q == waiting_descriptors[s]
    <3>1. Block(s) /\ ready_list # <<>>
      BY <2>1, <2>5, <1>7 DEF s
    <3>2. KernelInv'
      BY <3>1, <2>1, <1>1, <1>2, BlockKeepsKernel DEF SemInv
    <3>3. waiting_descriptors' = [waiting_descriptors EXCEPT ![s] = Append(q, running)]
      BY <3>1 DEF Block, Enqueued
    <3>4. q \in Seq(PCB)
      BY <2>2, <2>3
    <3> HIDE DEF q
    <3>5. Append(q, running) \in Seq(PCB) /\ Len(Append(q, running)) = Len(q) + 1 /\ Len(q) \in Nat
      BY <3>4, <1>2, AppendProperties, LenProperties
    <3>6. /\ waiting_descriptors' \in [SemNum -> Seq(PCB)]
          /\ waiting_descriptors'[s] = Append(q, running) /\ waiting_descriptors[s] = q
          /\ \A t \in SemNum \ {s} : waiting_descriptors'[t] = waiting_descriptors[t]
      BY <3>3, <3>5, <2>2, <2>3 DEF q
    <3>7. SemTypeOK'
      BY <3>6, <2>1, <2>2, <2>3 DEF SemInv, SemTypeOK, holderVars, dscVars
    <3>8. DescriptorsPair' /\ NoneOfTheFuture' /\ UnlinkedIsQuiet'
      <4>1. \A t \in SemNum : waiting_descriptors'[t] # <<>> => t \in semaphores_list
        BY <3>6, <2>2, QueueIsLinked
      <4> QED
        BY <4>1, <2>1, DescriptorsStay
    <3>9. WaitersExact'
      <4> SUFFICES ASSUME InitialValues \subseteq Nat, NEW t \in SemNum
                   PROVE  Len(waiting_descriptors'[t]) = IF count'[t] < 0 THEN -count'[t] ELSE 0
        BY DEF WaitersExact
      <4>1. Len(waiting_descriptors[t]) = IF count[t] < 0 THEN -count[t] ELSE 0
        BY DEF SemInv, WaitersExact
      <4>2. CASE t = s
        <5>1. /\ count[s] <= 0 /\ count[s] \in Int /\ count'[s] = count[s] - 1
          BY <2>1, <2>2, <2>3, <2>5 DEF MustWait
        <5>2. Len(waiting_descriptors'[s]) = Len(q) + 1 /\ Len(q) = -count[s]
          BY <4>1, <4>2, <5>1, <3>5, <3>6
        <5> QED
          BY <5>1, <5>2, <4>2
      <4>3. CASE t # s
        BY <4>1, <4>3, <3>6, <2>1, <2>3
      <4> QED
        BY <4>2, <4>3
    <3>10. WaitersBlocked'
      BY <3>1, <2>1, <1>1, <1>2, <1>7, BlockedWaits DEF s
    <3> QED
      BY <3>2, <3>7, <3>8, <3>9, <3>10, <2>4 DEF SemInv
  <2>6. CASE ~MustWait(s)
    <3>1. KernelInv' /\ UNCHANGED waiting_list
      BY <2>1, <2>6, <1>4
    <3>2. UNCHANGED waiting_descriptors
      BY <2>1, <2>6
    <3>3. SemTypeOK'
      BY <3>2, <2>1, <2>2, <2>3 DEF SemInv, SemTypeOK, holderVars, dscVars
    <3>4. DescriptorsPair' /\ NoneOfTheFuture' /\ UnlinkedIsQuiet'
      BY <3>2, <2>1, QueueIsLinked, DescriptorsStay
    <3>5. WaitersExact'
      <4> SUFFICES ASSUME InitialValues \subseteq Nat, NEW t \in SemNum
                   PROVE  Len(waiting_descriptors[t]) = IF count'[t] < 0 THEN -count'[t] ELSE 0
        BY <3>2 DEF WaitersExact
      <4>1. Len(waiting_descriptors[t]) = IF count[t] < 0 THEN -count[t] ELSE 0
        BY DEF SemInv, WaitersExact
      <4>2. CASE t = s
        BY <4>1, <4>2, <2>1, <2>3, <2>6 DEF MustWait
      <4>3. CASE t # s
        BY <4>1, <4>3, <2>1, <2>3
      <4> QED
        BY <4>2, <4>3
    <3>6. WaitersBlocked'
      BY <3>1, <3>2, <2>1, <1>3, WaitersSame DEF holderVars
    <3> QED
      BY <3>1, <3>3, <3>4, <3>5, <3>6, <2>4 DEF SemInv
  <2> QED
    BY <2>5, <2>6
<1> QED
  BY <1>5, <1>6, <1>7

\* The process that has waited longest leaves its queue and is in no other.
LEMMA WokenWaitsNoMore ==
    ASSUME SemInv, NEW s \in SemNum, waiting_descriptors[s] # <<>>, Wake(s),
           \A p \in waiting_list : call'[p] = call[p], UNCHANGED holderVars
    PROVE  /\ WaitersBlocked'
           /\ Head(waiting_descriptors[s]) \in waiting_list
           /\ call[Head(waiting_descriptors[s])].num = "semWait"
<1> DEFINE q == waiting_descriptors[s]
           head == Head(q)
<1>1. /\ waiting_descriptors \in [SemNum -> Seq(PCB)]
      /\ \A t \in SemNum :
            /\ IsInjective(waiting_descriptors[t])
            /\ \A p \in ToSet(waiting_descriptors[t]) :
                  /\ p \in waiting_list /\ call[p].num = "semWait"
                  /\ [fd |-> call[p].arg, sem |-> t] \in sem_descriptors[p]
      /\ \A p \in waiting_list : call[p].num = "semWait" =>
            \E t \in SemNum : p \in ToSet(waiting_descriptors[t])
  BY DEF SemInv, SemTypeOK, WaitersBlocked
<1>2. /\ waiting_descriptors' = [waiting_descriptors EXCEPT ![s] = Tail(q)]
      /\ waiting_list' = waiting_list \ {head}
      /\ sem_descriptors' = sem_descriptors
  BY DEF Wake, Dequeued, Unblocked, holderVars
<1>3. q \in Seq(PCB) /\ q # <<>> /\ IsInjective(q)
  BY <1>1
<1>4. /\ head \in ToSet(q) /\ ToSet(q) = ToSet(Tail(q)) \union {head}
      /\ IsInjective(Tail(q)) /\ head \notin ToSet(Tail(q))
  BY <1>3, Detached
<1>5. \A t \in SemNum : t # s => head \notin ToSet(waiting_descriptors[t])
  BY <1>4, OneQueue
<1>6. head \in waiting_list /\ call[head].num = "semWait"
  BY <1>1, <1>4
<1> HIDE DEF head
<1>7. ASSUME NEW t \in SemNum
      PROVE  /\ IsInjective(waiting_descriptors'[t])
             /\ ToSet(waiting_descriptors'[t]) = ToSet(waiting_descriptors[t]) \ {head}
  <2>1. CASE t = s
    BY <2>1, <1>1, <1>2, <1>4
  <2>2. CASE t # s
    BY <2>2, <1>1, <1>2, <1>5
  <2> QED
    BY <2>1, <2>2
<1>8. ASSUME NEW t \in SemNum, NEW p \in ToSet(waiting_descriptors'[t])
      PROVE  /\ p \in waiting_list' /\ call'[p].num = "semWait"
             /\ [fd |-> call'[p].arg, sem |-> t] \in sem_descriptors'[p]
  <2>1. p \in ToSet(waiting_descriptors[t]) /\ p # head
    BY <1>7
  <2>2. /\ p \in waiting_list /\ call[p].num = "semWait" /\ call'[p] = call[p]
        /\ [fd |-> call[p].arg, sem |-> t] \in sem_descriptors[p]
    BY <2>1, <1>1
  <2> QED
    BY <2>1, <2>2, <1>2
<1>9. ASSUME NEW p \in waiting_list', call'[p].num = "semWait"
      PROVE  \E t \in SemNum : p \in ToSet(waiting_descriptors'[t])
  <2>1. p \in waiting_list /\ p # head /\ call[p].num = "semWait"
    BY <1>2, <1>9
  <2> QED
    BY <2>1, <1>1, <1>7
<1>10. WaitersBlocked'
  BY <1>7, <1>8, <1>9 DEF WaitersBlocked
<1> QED
  BY <1>6, <1>10 DEF head

\* semPost adds to the count and wakes one if it was below zero.
LEMMA SemPostKeeps ==
    ASSUME SemInv, NEW fd \in Int, SemPost(fd)
    PROVE  SemInv'
<1> DEFINE s == SemOf(fd)
           q == waiting_descriptors[s]
<1>1. /\ User("semPost") /\ Trap("semPost", fd) /\ SameFamily
      /\ fd \in Int /\ "semPost" \in Syscalls
  BY SemaphoresAssumption DEF SemPost, Syscalls
<1>2. running \in PCB
  BY <1>1, CallerFacts
<1>3. \A p \in waiting_list : call'[p] = call[p]
  BY <1>1, <1>2, TrapElsewhere DEF SemInv
<1>4. ASSUME NEW answer \in Int, Answer(answer), SameProcesses
      PROVE  KernelInv' /\ UNCHANGED waiting_list
  BY <1>1, <1>2, <1>4, AnswerKeeps DEF SemInv, SameProcesses
<1>5. CASE ~Holds(fd)
  <2>1. Answer(DSOS_ENOTMYSEM) /\ SameProcesses /\ UNCHANGED <<semaphoreVars, holderVars, dscVars>>
    BY <1>5 DEF SemPost, NotMySem
  <2>2. DSOS_ENOTMYSEM \in Int
    BY DEF DSOS_ENOTMYSEM
  <2> QED
    BY <2>1, <2>2, <1>1, <1>3, <1>4, RefusedKeeps
<1>6. CASE Holds(fd)
  <2>1. /\ count' = [count EXCEPT ![s] = @ + 1]
        /\ SomeoneWaits(s) => Wake(s)
        /\ ~SomeoneWaits(s) => UNCHANGED <<waiting_descriptors, waiting_list, ready_list, status>>
        /\ Answer(0)
        /\ UNCHANGED <<system, running, semaphores_list, descriptors, holderVars, dscVars>>
    BY <1>6 DEF SemPost
  <2>2. s \in SemNum /\ s \in semaphores_list
    BY <1>2, <1>6, OwnDescriptor
  <2>3. /\ count \in [SemNum -> Int] /\ waiting_descriptors \in [SemNum -> Seq(PCB)]
        /\ \A t \in SemNum \ {s} : count'[t] = count[t]
        /\ count[s] \in Int /\ count'[s] = count[s] + 1 /\ count' \in [SemNum -> Int]
        /\ q \in Seq(PCB)
    BY <2>1, <2>2 DEF SemInv, SemTypeOK
  <2> HIDE DEF s
  <2>4. PidsDiffer'
    BY <1>1, FamilyStays
  <2>5. InitialValues \subseteq Nat => \A t \in SemNum :
            Len(waiting_descriptors[t]) = IF count[t] < 0 THEN -count[t] ELSE 0
    BY DEF SemInv, WaitersExact
  <2>6. CASE SomeoneWaits(s)
    <3>1. Wake(s) /\ q # <<>> /\ count[s] < 0
      BY <2>1, <2>6 DEF SomeoneWaits
    <3>2. /\ WaitersBlocked'
          /\ Head(q) \in waiting_list /\ call[Head(q)].num = "semWait"
      BY <3>1, <2>1, <2>2, <1>3, WokenWaitsNoMore
    <3>3. /\ waiting_descriptors' = [waiting_descriptors EXCEPT ![s] = Tail(q)]
          /\ waiting_list' = Unblocked(Head(q)) /\ ready_list' = Append(ready_list, Head(q))
          /\ status' = [status EXCEPT ![Head(q)] = "Ready"]
      BY <3>1 DEF Wake, Dequeued
    <3>4. KernelInv'
      BY <3>2, <3>3, <2>1, <1>1, <1>2, WakeKeepsKernel DEF SemInv
    <3>5. Tail(q) \in Seq(PCB) /\ Len(Tail(q)) = Len(q) - 1 /\ Len(q) \in Nat
      BY <3>1, <2>3, HeadTailProperties, LenProperties
    <3>6. /\ waiting_descriptors' \in [SemNum -> Seq(PCB)]
          /\ waiting_descriptors'[s] = Tail(q)
          /\ \A t \in SemNum \ {s} : waiting_descriptors'[t] = waiting_descriptors[t]
      BY <3>3, <3>5, <2>2, <2>3
    <3>7. SemTypeOK'
      BY <3>6, <2>1, <2>3 DEF SemInv, SemTypeOK, holderVars, dscVars
    <3>8. DescriptorsPair' /\ NoneOfTheFuture' /\ UnlinkedIsQuiet'
      <4>1. \A t \in SemNum : waiting_descriptors'[t] # <<>> => t \in semaphores_list
        BY <3>6, <2>2, QueueIsLinked
      <4> QED
        BY <4>1, <2>1, <1>1, DescriptorsStay
    <3>9. WaitersExact'
      <4> SUFFICES ASSUME InitialValues \subseteq Nat, NEW t \in SemNum
                   PROVE  Len(waiting_descriptors'[t]) = IF count'[t] < 0 THEN -count'[t] ELSE 0
        BY DEF WaitersExact
      <4>1. CASE t = s
        <5>1. Len(q) = -count[s]
          BY <3>1, <2>2, <2>5
        <5>2. Len(waiting_descriptors'[s]) = -count[s] - 1
          BY <5>1, <3>5, <3>6
        <5> QED
          BY <5>2, <4>1, <3>1, <2>3
      <4>2. CASE t # s
        BY <4>2, <3>6, <2>3, <2>5
      <4> QED
        BY <4>1, <4>2
    <3> QED
      BY <3>2, <3>4, <3>7, <3>8, <3>9, <2>4 DEF SemInv
  <2>7. CASE ~SomeoneWaits(s)
    <3>1. UNCHANGED <<waiting_descriptors, waiting_list>> /\ SameProcesses
      BY <2>1, <2>7 DEF SameProcesses
    <3>2. KernelInv'
      BY <3>1, <2>1, <1>4
    <3>3. SemTypeOK'
      BY <3>1, <2>1, <2>3 DEF SemInv, SemTypeOK, holderVars, dscVars
    <3>4. DescriptorsPair' /\ NoneOfTheFuture' /\ UnlinkedIsQuiet'
      BY <3>1, <2>1, <1>1, QueueIsLinked, DescriptorsStay
    <3>5. WaitersExact'
      <4> SUFFICES ASSUME InitialValues \subseteq Nat, NEW t \in SemNum
                   PROVE  Len(waiting_descriptors[t]) = IF count'[t] < 0 THEN -count'[t] ELSE 0
        BY <3>1 DEF WaitersExact
      <4>1. CASE t = s
        <5>1. Len(q) = IF count[s] < 0 THEN -count[s] ELSE 0
          BY <2>2, <2>5
        <5>2. ~(count[s] < 0)
          <6>1. q = <<>> => Len(q) = 0
            BY <2>3
          <6> QED
            BY <6>1, <5>1, <2>3, <2>7 DEF SomeoneWaits
        <5> QED
          BY <5>1, <5>2, <4>1, <2>3
      <4>2. CASE t # s
        BY <4>2, <2>3, <2>5
      <4> QED
        BY <4>1, <4>2
    <3>6. WaitersBlocked'
      BY <3>1, <2>1, <1>3, WaitersSame DEF holderVars
    <3> QED
      BY <3>2, <3>3, <3>4, <3>5, <3>6, <2>4 DEF SemInv
  <2> QED
    BY <2>6, <2>7
<1> QED
  BY <1>5, <1>6

-----------------------------------------------------------------------------
(* The theorems *)

\* Nothing happens.
LEMMA SemStutters ==
    ASSUME SemInv, UNCHANGED vars
    PROVE  SemInv'
<1>1. UNCHANGED <<kernelVars, semaphoreVars, holderVars, dscVars>>
  BY DEF vars
<1>2. KernelInv'
  BY <1>1, StepKeeps DEF SemInv
<1>3. SameFamily /\ UNCHANGED <<waiting_list, call>>
  BY <1>1 DEF kernelVars, SameFamily, pcbVars, listVars
<1> QED
  BY <1>1, <1>2, <1>3, RefusedKeeps

\* The calls with any descriptor, also one that no open ever answered.
AnySemCall ==
    \/ \E s \in SemNum, v \in InitialValues : SemOpen(s, v)
    \/ \E fd \in Int : SemClose(fd) \/ SemWait(fd) \/ SemPost(fd)

LEMMA AnyCallKeeps ==
    ASSUME SemInv, AnySemCall
    PROVE  SemInv'
BY SemOpenKeeps, SemCloseKeeps, SemWaitKeeps, SemPostKeeps DEF AnySemCall

LEMMA OneOfAnyCalls ==
    ASSUME SemCall
    PROVE  AnySemCall
<1>1. \A fd \in Fds : fd \in Int
  BY SemaphoresAssumption DEF Fds
<1> QED
  BY <1>1 DEF SemCall, AnySemCall

\* Every step keeps the invariant.
LEMMA SemStepKeeps == SemInv /\ [Next]_vars => SemInv'
<1>1. SemInv /\ KernelStep => SemInv'
  BY KernelStepKeeps DEF KernelStep
<1> QED
  BY <1>1, OneOfAnyCalls, SemStutters, AnyCallKeeps DEF Next

\* The invariant of every reachable state of the kernel with its semaphores.
THEOREM SemaphoreInvariant == Spec => []SemInv
  BY SemInit, SemStepKeeps, PTL DEF Spec

\* The variables of the semaphores and of the kernel below keep their types: no
\* pool of descriptors goes below zero, whichever block was the last one.
THEOREM SemaphoreTypes == Spec => []TypeOK
<1>1. SemInv => TypeOK
  BY DEF SemInv, SemTypeOK, KernelInv, TypeOK
<1> QED
  BY <1>1, SemaphoreInvariant, PTL

\* With semWait and semPost moving processes too, every PCB block is in one place.
THEOREM StillOnePlace == Spec => []OnePlace
<1>1. SemInv => OnePlace
  BY DEF SemInv, KernelInv
<1> QED
  BY <1>1, SemaphoreInvariant, PTL

\* However many processes block, and however semaphores are closed and opened
\* again meanwhile, the count alone tells how many wait: deciding by it, semPost
\* never wakes a process too few or looks into an empty queue.
THEOREM CountsAreExact == Spec => []WaitersExact
<1>1. SemInv => WaitersExact
  BY DEF SemInv
<1> QED
  BY <1>1, SemaphoreInvariant, PTL

\* A process is in the queue of a semaphore iff it is blocked on a descriptor of
\* its own for it, so that nobody else's post, exit or wake up takes it out.
THEOREM QueuesHoldTheBlocked == Spec => []WaitersBlocked
<1>1. SemInv => WaitersBlocked
  BY DEF SemInv
<1> QED
  BY <1>1, SemaphoreInvariant, PTL

\* A semaphore that was unlinked has nobody in its queue: the pool's next user of
\* the number starts with an empty one though Semaphore_alloc does not empty it.
THEOREM UnlinkedStayQuiet == Spec => []UnlinkedIsQuiet
<1>1. SemInv => UnlinkedIsQuiet
  BY DEF SemInv
<1> QED
  BY <1>1, SemaphoreInvariant, PTL

\* The two lists of descriptors as sets, from their descriptors one by one.
LEMMA ListsOfDescriptors ==
    ASSUME SemInv
    PROVE  DescriptorsAgree
<1> SUFFICES ASSUME NEW p \in Live
             PROVE  /\ \A s \in SemNum : {d.fd : d \in {e \in descriptors[s] : e.pid = pid[p]}} =
                                         {d.fd : d \in {e \in sem_descriptors[p] : e.sem = s}}
                    /\ \A d, e \in sem_descriptors[p] : d.fd = e.fd <=> d.sem = e.sem
                    /\ \A d \in sem_descriptors[p] :
                          d.sem \in semaphores_list /\ d.fd < last_sem_fd[p]
  BY DEF DescriptorsAgree
<1>1. /\ \A s \in SemNum : descriptors[s] \in SUBSET [pid : Nat, fd : Nat]
      /\ sem_descriptors[p] \in SUBSET [fd : Nat, sem : SemNum]
  BY DEF SemInv, SemTypeOK, Live
<1>2. ASSUME NEW s \in SemNum
      PROVE  {d.fd : d \in {e \in descriptors[s] : e.pid = pid[p]}} =
             {d.fd : d \in {e \in sem_descriptors[p] : e.sem = s}}
  <2> DEFINE D == descriptors[s]
             H == sem_descriptors[p]
             n == pid[p]
  <2>1. \A f \in Nat : [pid |-> n, fd |-> f] \in D <=> [fd |-> f, sem |-> s] \in H
    BY DEF SemInv, DescriptorsPair
  <2>2. /\ \A d \in D : d.fd \in Nat /\ d = [pid |-> d.pid, fd |-> d.fd]
        /\ \A d \in H : d.fd \in Nat /\ d = [fd |-> d.fd, sem |-> d.sem]
    BY <1>1
  <2> HIDE DEF D, H, n
  <2>3. ASSUME NEW d \in D, d.pid = n
        PROVE  \E e \in H : e.sem = s /\ e.fd = d.fd
    <3> DEFINE e == [fd |-> d.fd, sem |-> s]
    <3>1. e \in H
      BY <2>1, <2>2, <2>3
    <3>2. e.sem = s /\ e.fd = d.fd
      OBVIOUS
    <3> QED
      BY <3>1, <3>2
  <2>4. ASSUME NEW d \in H, d.sem = s
        PROVE  \E e \in D : e.pid = n /\ e.fd = d.fd
    <3> DEFINE e == [pid |-> n, fd |-> d.fd]
    <3>1. e \in D
      BY <2>1, <2>2, <2>4
    <3>2. e.pid = n /\ e.fd = d.fd
      OBVIOUS
    <3> QED
      BY <3>1, <3>2
  <2>5. {d.fd : d \in {e \in D : e.pid = n}} = {d.fd : d \in {e \in H : e.sem = s}}
    BY <2>3, <2>4
  <2> QED
    BY <2>5 DEF D, H, n
<1>3. /\ \A d, e \in sem_descriptors[p] : d.fd = e.fd <=> d.sem = e.sem
      /\ \A d \in sem_descriptors[p] :
            d.sem \in semaphores_list /\ d.fd < last_sem_fd[p]
  BY DEF SemInv, DescriptorsPair
<1> QED
  BY <1>2, <1>3

\* For whoever is not gone, what the process lists and what the semaphore lists is
\* the same, through exits that leave descriptors behind, blocks that pass on to
\* new processes and semaphores that are unlinked and opened again.
THEOREM BothListsAgree == Spec => []DescriptorsAgree
  BY ListsOfDescriptors, SemaphoreInvariant, PTL

-----------------------------------------------------------------------------
(* The semaphores implement counting semaphores *)

\* What the abstract semaphore has to give: nothing while the count is negative.
Value == [s \in SemNum |-> IF count[s] > 0 THEN count[s] ELSE 0]

\* A step of the detailed specification is one of the abstract one, or none.
AbstractStep == Abstract!Next \/ UNCHANGED <<semaphores_list, Value, waiting_descriptors>>

\* The kernel's own steps, and calls that change no semaphore, are no steps of it.
LEMMA NoAbstractStep ==
    ASSUME UNCHANGED <<semaphores_list, count, waiting_descriptors>>
    PROVE  AbstractStep
  BY DEF AbstractStep, Value

\* Every action of the abstract semaphores is a step of theirs.
LEMMA OneAbstractStep ==
    ASSUME NEW s \in SemNum,
           \/ Abstract!Create(s)
           \/ Abstract!Destroy(s)
           \/ Abstract!Take(s)
           \/ \E p \in PCB : Abstract!Enqueue(s, p)
           \/ Abstract!HandOver(s)
           \/ Abstract!Give(s)
    PROVE  AbstractStep
<1>1. Abstract!Next
  BY Zenon DEF Abstract!Next
<1> QED
  BY <1>1 DEF AbstractStep

\* The value follows the count of the one semaphore whose count changes.
LEMMA ValueOfOne ==
    ASSUME SemInv, NEW s \in SemNum, NEW c \in Int, count' = [count EXCEPT ![s] = c]
    PROVE  Value' = [Value EXCEPT ![s] = IF c > 0 THEN c ELSE 0]
<1>1. count \in [SemNum -> Int]
  BY DEF SemInv, SemTypeOK
<1>2. \A t \in SemNum : count'[t] = IF t = s THEN c ELSE count[t]
  BY <1>1
<1> QED
  BY <1>2 DEF Value

\* semOpen of a semaphore that is not linked creates it; any other, and one that
\* fails before Link, creates nothing.
LEMMA OpenImplements ==
    ASSUME SemInv, InitialValues \subseteq Nat,
           NEW s \in SemNum, NEW v \in InitialValues, SemOpen(s, v)
    PROVE  AbstractStep
<1>1. \/ UNCHANGED semaphoreVars
      \/ Link(s, v) /\ UNCHANGED waiting_descriptors
  BY DEF SemOpen
<1>2. CASE UNCHANGED semaphoreVars
  BY <1>2, NoAbstractStep DEF semaphoreVars
<1>3. CASE Link(s, v) /\ UNCHANGED waiting_descriptors /\ s \in semaphores_list
  <2>1. semaphores_list' = semaphores_list /\ count' = count
    BY <1>3 DEF Link, SemInv, SemTypeOK
  <2> QED
    BY <2>1, <1>3, NoAbstractStep
<1>4. CASE Link(s, v) /\ UNCHANGED waiting_descriptors /\ s \notin semaphores_list
  <2>1. semaphores_list' = semaphores_list \union {s} /\ count' = [count EXCEPT ![s] = v]
    BY <1>4 DEF Link
  <2>2. v \in Int /\ (IF v > 0 THEN v ELSE 0) = v
    OBVIOUS
  <2>3. Value' = [Value EXCEPT ![s] = v]
    BY <2>1, <2>2, ValueOfOne
  <2>4. waiting_descriptors[s] = <<>>
    BY <1>4 DEF SemInv, UnlinkedIsQuiet
  <2>5. Abstract!Create(s)
    BY <2>1, <2>3, <2>4, <1>4 DEF Abstract!Create, Value
  <2> QED
    BY <2>5, OneAbstractStep
<1> QED
  BY <1>1, <1>2, <1>3, <1>4

\* semClose of the last descriptor destroys the semaphore, with nobody in its queue.
LEMMA CloseImplements ==
    ASSUME SemInv, NEW fd \in Int, SemClose(fd)
    PROVE  AbstractStep
<1>1. User("semClose") /\ running \in PCB
  BY CallerFacts DEF SemClose
<1>2. CASE ~Holds(fd)
  <2>1. UNCHANGED semaphoreVars
    BY <1>2 DEF SemClose, NotMySem
  <2> QED
    BY <2>1, NoAbstractStep DEF semaphoreVars
<1>3. CASE Holds(fd)
  <2> DEFINE s == SemOf(fd)
             left == descriptors[s] \ {[pid |-> pid[running], fd |-> fd]}
  <2>1. s \in SemNum /\ s \in semaphores_list
    BY <1>1, <1>3, OwnDescriptor
  <2>2. /\ semaphores_list' = IF left = {} THEN semaphores_list \ {s} ELSE semaphores_list
        /\ UNCHANGED <<count, waiting_descriptors>>
    BY <1>3 DEF SemClose, Unlink
  <2>3. left = {} => waiting_descriptors[s] = <<>>
    BY <1>1, <1>3, LastOneOut
  <2> HIDE DEF s, left
  <2>4. CASE left # {}
    BY <2>2, <2>4, NoAbstractStep
  <2>5. CASE left = {}
    <3>1. Abstract!Destroy(s)
      BY <2>1, <2>2, <2>3, <2>5 DEF Abstract!Destroy
    <3> QED
      BY <3>1, <2>1, OneAbstractStep
  <2> QED
    BY <2>4, <2>5
<1> QED
  BY <1>2, <1>3

\* semWait takes one of a positive count and queues its caller up otherwise,
\* however far below zero the count is already.
LEMMA WaitImplements ==
    ASSUME SemInv, NEW fd \in Int, SemWait(fd)
    PROVE  AbstractStep
<1>1. running \in PCB /\ running \notin waiting_list
  BY CallerFacts DEF SemWait
<1>2. CASE \/ ~Holds(fd)
           \/ MustWait(SemOf(fd)) /\ ready_list = <<>>
  <2>1. UNCHANGED semaphoreVars
    BY <1>2 DEF SemWait, NotMySem
  <2> QED
    BY <2>1, NoAbstractStep DEF semaphoreVars
<1>3. CASE Holds(fd) /\ ~(MustWait(SemOf(fd)) /\ ready_list = <<>>)
  <2>0. SemOf(fd) \in SemNum /\ SemOf(fd) \in semaphores_list
    BY <1>1, <1>3, OwnDescriptor
  <2> PICK s \in SemNum : s = SemOf(fd)
    BY <2>0
  <2>1. /\ count' = [count EXCEPT ![s] = @ - 1]
        /\ UNCHANGED semaphores_list
        /\ MustWait(s) => Block(s)
        /\ ~MustWait(s) => UNCHANGED waiting_descriptors
    BY <1>3 DEF SemWait
  <2>2. s \in SemNum /\ s \in semaphores_list
    BY <2>0
  <2>3. count[s] \in Int
    BY <2>2 DEF SemInv, SemTypeOK
  <2> DEFINE c == count[s] - 1
  <2>4. Value' = [Value EXCEPT ![s] = IF c > 0 THEN c ELSE 0]
    <3>1. c \in Int /\ count' = [count EXCEPT ![s] = c]
      BY <2>1, <2>3
    <3> HIDE DEF c
    <3> QED
      BY <3>1, <2>2, ValueOfOne
  <2>5. CASE ~MustWait(s)
    <3>1. Value[s] = count[s] /\ Value[s] > 0
      BY <2>2, <2>3, <2>5 DEF MustWait, Value
    <3>2. Value' = [Value EXCEPT ![s] = @ - 1]
      <4>1. (IF c > 0 THEN c ELSE 0) = Value[s] - 1
        BY <3>1, <2>3
      <4> QED
        BY <4>1, <2>4
    <3>3. Abstract!Take(s)
      BY <3>1, <3>2, <2>1, <2>2, <2>5 DEF Abstract!Take, Value
    <3> QED
      BY <3>3, <2>2, OneAbstractStep
  <2>6. CASE MustWait(s)
    <3>1. Value[s] = 0
      BY <2>2, <2>3, <2>6 DEF MustWait, Value
    <3>2. Value' = Value
      <4>1. (IF c > 0 THEN c ELSE 0) = Value[s]
        BY <3>1, <2>3, <2>6 DEF MustWait
      <4> QED
        BY <4>1, <2>4 DEF Value
    <3>3. waiting_descriptors' = [waiting_descriptors EXCEPT ![s] = Append(@, running)]
      BY <2>1, <2>6 DEF Block, Enqueued
    <3>4. ASSUME NEW t \in SemNum, NEW i \in DOMAIN waiting_descriptors[t]
          PROVE  waiting_descriptors[t][i] # running
      <4>1. waiting_descriptors[t][i] \in ToSet(waiting_descriptors[t])
        BY DEF ToSet
      <4> QED
        BY <4>1, <1>1 DEF SemInv, WaitersBlocked
    <3>5. Abstract!Enqueue(s, running)
      BY <3>1, <3>2, <3>3, <3>4, <2>1, <2>2 DEF Abstract!Enqueue, Value
    <3> QED
      BY <3>5, <2>2, <1>1, OneAbstractStep
  <2> QED
    BY <2>5, <2>6
<1> QED
  BY <1>2, <1>3

\* semPost hands over to the first in the queue if the count says that there is
\* one, and adds to the value otherwise: the count and the queue never disagree.
LEMMA PostImplements ==
    ASSUME SemInv, InitialValues \subseteq Nat, NEW fd \in Int, SemPost(fd)
    PROVE  AbstractStep
<1>1. running \in PCB
  BY CallerFacts DEF SemPost
<1>2. CASE ~Holds(fd)
  <2>1. UNCHANGED semaphoreVars
    BY <1>2 DEF SemPost, NotMySem
  <2> QED
    BY <2>1, NoAbstractStep DEF semaphoreVars
<1>3. CASE Holds(fd)
  <2>0. SemOf(fd) \in SemNum /\ SemOf(fd) \in semaphores_list
    BY <1>1, <1>3, OwnDescriptor
  <2> PICK s \in SemNum : s = SemOf(fd)
    BY <2>0
  <2> DEFINE q == waiting_descriptors[s]
  <2>1. /\ count' = [count EXCEPT ![s] = @ + 1]
        /\ SomeoneWaits(s) => Wake(s)
        /\ ~SomeoneWaits(s) => UNCHANGED waiting_descriptors
        /\ UNCHANGED semaphores_list
    BY <1>3 DEF SemPost
  <2>2. s \in SemNum /\ s \in semaphores_list
    BY <2>0
  <2>3. count[s] \in Int /\ q \in Seq(PCB)
    BY <2>2 DEF SemInv, SemTypeOK
  <2> DEFINE c == count[s] + 1
  <2>4. Value' = [Value EXCEPT ![s] = IF c > 0 THEN c ELSE 0]
    <3>1. c \in Int /\ count' = [count EXCEPT ![s] = c]
      BY <2>1, <2>3
    <3> HIDE DEF c
    <3> QED
      BY <3>1, <2>2, ValueOfOne
  <2>5. CASE SomeoneWaits(s)
    <3>1. Value[s] = 0 /\ (IF c > 0 THEN c ELSE 0) = 0
      BY <2>2, <2>3, <2>5 DEF SomeoneWaits, Value
    <3>2. Value' = Value
      BY <3>1, <2>4 DEF Value
    <3>3. q # <<>> /\ waiting_descriptors' = [waiting_descriptors EXCEPT ![s] = Tail(@)]
      BY <2>1, <2>5 DEF SomeoneWaits, Wake, Dequeued
    <3>4. Abstract!HandOver(s)
      BY <3>2, <3>3, <2>1, <2>2 DEF Abstract!HandOver, Value
    <3> QED
      BY <3>4, <2>2, OneAbstractStep
  <2>6. CASE ~SomeoneWaits(s)
    <3>1. count[s] >= 0 /\ q = <<>>
      <4>1. Len(q) = IF count[s] < 0 THEN -count[s] ELSE 0
        BY <2>2 DEF SemInv, WaitersExact
      <4>2. q = <<>> <=> Len(q) = 0
        BY <2>3
      <4> QED
        BY <4>1, <4>2, <2>3, <2>6 DEF SomeoneWaits
    <3>2. Value' = [Value EXCEPT ![s] = @ + 1]
      <4>1. (IF c > 0 THEN c ELSE 0) = Value[s] + 1
        BY <3>1, <2>2, <2>3 DEF Value
      <4> QED
        BY <4>1, <2>4
    <3>3. Abstract!Give(s)
      BY <3>1, <3>2, <2>1, <2>2, <2>6 DEF Abstract!Give, Value
    <3> QED
      BY <3>3, <2>2, OneAbstractStep
  <2> QED
    BY <2>5, <2>6
<1> QED
  BY <1>2, <1>3

\* A call with any descriptor is a step of the counting semaphores or leaves them
\* alone, and so is every step.
LEMMA AnyCallImplements ==
    ASSUME SemInv, InitialValues \subseteq Nat, AnySemCall
    PROVE  AbstractStep
BY OpenImplements, CloseImplements, WaitImplements, PostImplements DEF AnySemCall

LEMMA StepImplements ==
    ASSUME SemInv, InitialValues \subseteq Nat, [Next]_vars
    PROVE  AbstractStep
<1>1. CASE UNCHANGED vars
  BY <1>1, NoAbstractStep DEF vars, semaphoreVars
<1>2. CASE KernelStep
  BY <1>2, NoAbstractStep DEF KernelStep, semaphoreVars
<1>3. CASE SemCall
  BY <1>3, OneOfAnyCalls, AnyCallImplements
<1> QED
  BY <1>1, <1>2, <1>3 DEF Next

\* semOpen, semClose, semWait and semPost, with their counts below zero, their
\* descriptors, their full pools and the scheduler in between, do what counting
\* semaphores that are opened with no negative value do.
THEOREM SemaphoresImplement ==
    ASSUME InitialValues \subseteq Nat
    PROVE  Spec => ImplementsCountingSemaphore
<1>1. Init => Abstract!Init
  BY DEF Init, Abstract!Init
<1>2. SemInv /\ [Next]_vars => [Abstract!Next]_(Abstract!abstractVars)
  BY StepImplements DEF AbstractStep, Value, Abstract!abstractVars
<1> QED
  BY <1>1, <1>2, SemaphoreInvariant, PTL DEF Spec, ImplementsCountingSemaphore, Abstract!Spec
=============================================================================
