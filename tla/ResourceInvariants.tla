------------------------- MODULE ResourceInvariants -------------------------
(***************************************************************************)
(* The resources keep their descriptors on two lists in step, and lose no  *)
(* block of the two pools, whatever the kernel does with the processes:    *)
(* exit releases the descriptors in one of its two ways only, wait gives a *)
(* PCB block back that may still be listed as a holder, and the block's    *)
(* next process starts with fd 0 again.                                    *)
(***************************************************************************)
EXTENDS Resources, KernelInvariants, FiniteSetTheorems

ResTypeOK ==
    /\ DOMAIN resources_list \subseteq ResourceId
    /\ resources_list \in [DOMAIN resources_list -> ResourceType]
    /\ resource_descriptors \in [ResourceId -> SUBSET [pid : Nat, fd : Nat]]
    /\ pcb_descriptors \in [PCB -> SUBSET [fd : Nat, res : ResourceId]]
    /\ last_fd \in [PCB -> Nat]
    /\ dsc_free \in Nat
    /\ dsc_ptr_free \in Nat

\* DescriptorsAgree with the descriptors one by one; and the next fd is new.
OwnDescriptors ==
    \A p \in Live :
        /\ \A r \in ResourceId, f \in Nat :
              [pid |-> pid[p], fd |-> f] \in resource_descriptors[r] <=>
              [fd |-> f, res |-> r] \in pcb_descriptors[p]
        /\ \A d, e \in pcb_descriptors[p] : d.fd = e.fd => d = e
        /\ \A d \in pcb_descriptors[p] : d.fd < last_fd[p]

\* The dead may hold descriptors, but not those who are still to come.
NoneOfTheFuture == \A r \in ResourceId : \A d \in resource_descriptors[r] : d.pid < last_pid

OpenExist == \A r \in ResourceId \ DOMAIN resources_list : resource_descriptors[r] = {}

ResInv ==
    /\ KernelInv
    /\ PidsDiffer
    /\ ResTypeOK
    /\ OwnDescriptors
    /\ NoneOfTheFuture
    /\ OpenExist
    /\ IsFiniteSet(Described)
    /\ BlocksAccounted

-----------------------------------------------------------------------------
(* How many descriptors there are *)

\* The pairs of a resource and one of its descriptors.
LEMMA DescribedPairs ==
    ASSUME NEW r \in ResourceId, NEW d
    PROVE  <<r, d>> \in Described <=> d \in resource_descriptors[r]
  BY DEF Described

\* A descriptor that a resource gets is one more.
LEMMA OneMoreDescribed ==
    ASSUME NEW id \in ResourceId, NEW x, x \notin resource_descriptors[id], IsFiniteSet(Described),
           resource_descriptors \in [ResourceId -> SUBSET [pid : Nat, fd : Nat]],
           resource_descriptors' = [resource_descriptors EXCEPT ![id] = @ \union {x}]
    PROVE  /\ IsFiniteSet(Described')
           /\ Cardinality(Described') = Cardinality(Described) + 1
<1>1. \A r \in ResourceId : resource_descriptors'[r] =
          IF r = id THEN resource_descriptors[r] \union {x} ELSE resource_descriptors[r]
  OBVIOUS
<1>2. Described' = Described \union {<<id, x>>}
  BY <1>1 DEF Described
<1>3. <<id, x>> \notin Described
  BY DescribedPairs
<1> QED
  BY <1>2, <1>3, FS_AddElement

\* A descriptor that a resource loses is one less.
LEMMA OneLessDescribed ==
    ASSUME NEW id \in ResourceId, NEW x \in resource_descriptors[id], IsFiniteSet(Described),
           resource_descriptors \in [ResourceId -> SUBSET [pid : Nat, fd : Nat]],
           resource_descriptors' = [resource_descriptors EXCEPT ![id] = @ \ {x}]
    PROVE  /\ IsFiniteSet(Described')
           /\ Cardinality(Described') = Cardinality(Described) - 1
<1>1. \A r \in ResourceId : resource_descriptors'[r] =
          IF r = id THEN resource_descriptors[r] \ {x} ELSE resource_descriptors[r]
  OBVIOUS
<1>2. Described' = Described \ {<<id, x>>}
  BY <1>1 DEF Described
<1>3. <<id, x>> \in Described
  BY DescribedPairs
<1> QED
  BY <1>2, <1>3, FS_RemoveElement

\* What a process holds is as much as the resources have of it.
LEMMA HeldDescribed ==
    ASSUME ResInv, NEW p \in Live, NEW n, n = pid[p],
           \A r \in ResourceId : resource_descriptors'[r] = resource_descriptors[r] \
               {[pid |-> n, fd |-> d.fd] : d \in {e \in pcb_descriptors[p] : e.res = r}}
    PROVE  /\ IsFiniteSet(Described')
           /\ Cardinality(pcb_descriptors[p]) \in Nat
           /\ Cardinality(Described') = Cardinality(Described) - Cardinality(pcb_descriptors[p])
<1> DEFINE H == pcb_descriptors[p]
           pair(d) == <<d.res, [pid |-> n, fd |-> d.fd]>>
           Gone == {pair(d) : d \in H}
<1>1. /\ \A d \in H : d.fd \in Nat /\ d.res \in ResourceId /\ d = [fd |-> d.fd, res |-> d.res]
      /\ \A d, e \in H : d.fd = e.fd => d = e
      /\ \A d \in H : [pid |-> n, fd |-> d.fd] \in resource_descriptors[d.res]
  <2>1. p \in PCB /\ H \in SUBSET [fd : Nat, res : ResourceId]
    BY DEF Live, ResInv, ResTypeOK
  <2>2. \A d \in H : d.fd \in Nat /\ d.res \in ResourceId /\ d = [fd |-> d.fd, res |-> d.res]
    BY <2>1
  <2> QED
    BY <2>2 DEF ResInv, OwnDescriptors
<1> HIDE DEF H
<1>2. Gone \subseteq Described
  BY <1>1, DescribedPairs
<1>3. Described' = Described \ Gone
  <2>1. \A r \in ResourceId : resource_descriptors'[r] = resource_descriptors[r] \
            {[pid |-> n, fd |-> d.fd] : d \in {e \in H : e.res = r}}
    BY DEF H
  <2>2. \A r \in ResourceId : \A x :
            x \in resource_descriptors'[r] <=>
            /\ x \in resource_descriptors[r]
            /\ ~ \E d \in H : d.res = r /\ x = [pid |-> n, fd |-> d.fd]
    BY <2>1
  <2>3. \A r \in ResourceId : \A x :
            <<r, x>> \in Gone <=> \E d \in H : d.res = r /\ x = [pid |-> n, fd |-> d.fd]
    OBVIOUS
  <2> HIDE DEF Gone
  <2>4. \A r \in ResourceId : \A x :
            x \in resource_descriptors'[r] <=> x \in resource_descriptors[r] /\ <<r, x>> \notin Gone
    <3> TAKE r \in ResourceId
    <3> TAKE x
    <3>1. <<r, x>> \in Gone <=> \E d \in H : d.res = r /\ x = [pid |-> n, fd |-> d.fd]
      BY <2>3
    <3> QED
      BY <2>2, <3>1
  <2>5. \A y : y \in Described' <=> \E r \in ResourceId : \E x \in resource_descriptors'[r] : y = <<r, x>>
    BY DEF Described
  <2>6. \A y : y \in Described <=> \E r \in ResourceId : \E x \in resource_descriptors[r] : y = <<r, x>>
    BY DEF Described
  <2>7. \A y : y \in Described' <=> y \in Described /\ y \notin Gone
    BY <2>4, <2>5, <2>6
  <2> QED
    BY <2>7
<1>4. IsFiniteSet(Gone) /\ IsFiniteSet(Described')
  BY <1>2, <1>3, FS_Subset, FS_Difference DEF ResInv
<1>5. IsFiniteSet(H) /\ Cardinality(H) = Cardinality(Gone)
  <2> DEFINE f == [d \in H |-> pair(d)]
  <2>1. f \in [H -> Gone] /\ DOMAIN f = H
    OBVIOUS
  <2>2. \A d, e \in H : f[d] = f[e] => d = e
    <3>1. \A d, e \in H : pair(d) = pair(e) => d.fd = e.fd
      OBVIOUS
    <3> QED
      BY <3>1, <1>1
  <2>3. \A y \in Gone : \E d \in H : f[d] = y
    OBVIOUS
  <2> HIDE DEF f, Gone
  <2>4. f \in Injection(H, Gone)
    BY <2>1, <2>2 DEF Injection, IsInjective
  <2>5. f \in Surjection(H, Gone)
    BY <2>1, <2>3 DEF Surjection
  <2> QED
    BY <2>4, <2>5, <1>4, FS_Injection
<1> HIDE DEF Gone
<1>6. Described \intersect Gone = Gone
  BY <1>2
<1>7. Cardinality(Described') = Cardinality(Described) - Cardinality(Gone)
  <2>1. Cardinality(Described \ Gone) = Cardinality(Described) - Cardinality(Described \intersect Gone)
    BY FS_Difference DEF ResInv
  <2> QED
    BY <2>1, <1>3, <1>6
<1>8. Cardinality(H) \in Nat
  BY <1>5, FS_CardinalityType
<1> QED
  BY <1>4, <1>5, <1>7, <1>8 DEF H

-----------------------------------------------------------------------------
(* The start, and the steps of the kernel *)

\* Nothing is open at the start.
LEMMA ResInit == Init => ResInv
<1> SUFFICES ASSUME Init PROVE ResInv
  OBVIOUS
<1>1. KernelInv /\ PidsDiffer
  BY InitKeeps, InitPids DEF Init
<1>2. /\ resources_list = <<>> /\ DOMAIN resources_list = {}
      /\ resource_descriptors = [r \in ResourceId |-> {}]
      /\ pcb_descriptors = [p \in PCB |-> {}] /\ last_fd = [p \in PCB |-> 0]
      /\ dsc_free = MAX_NUM_PROCESSES /\ dsc_ptr_free = MAX_NUM_PROCESSES
      /\ MAX_NUM_PROCESSES \in Nat
  BY KernelAssumption DEF Init
<1>3. ResTypeOK
  BY <1>2 DEF ResTypeOK
<1>4. OwnDescriptors /\ NoneOfTheFuture /\ OpenExist
  BY <1>2 DEF OwnDescriptors, NoneOfTheFuture, OpenExist, Live
<1>5. Described = {}
  BY <1>2 DEF Described
<1>6. IsFiniteSet(Described) /\ BlocksAccounted
  BY <1>2, <1>5, FS_EmptySet DEF BlocksAccounted
<1> QED
  BY <1>1, <1>3, <1>4, <1>6 DEF ResInv

\* A step of the kernel that frees the block of its running process allocates none.
LEMMA Buried ==
    ASSUME KernelInv, NoNewBlock \/ \E new \in PCB : NewBlock(new),
           running \in ToSet(pcb_free'), running \in PCB
    PROVE  running \in Live /\ running \notin Live' /\ NoNewBlock
<1>1. running \in Live /\ running \notin Live'
  BY RunningElsewhere DEF Live
<1> QED
  BY <1>1 DEF NewBlock

\* The lists of a new process are empty, and nothing that is left behind by the
\* dead bears its pid.
LEMMA NewcomerOwnsNothing ==
    ASSUME ResInv, NEW new \in PCB, NewBlock(new), UNCHANGED resource_descriptors,
           \A p \in Live : pcb_descriptors'[p] = pcb_descriptors[p] /\ last_fd'[p] = last_fd[p],
           pcb_descriptors'[new] = {}
    PROVE  OwnDescriptors' /\ NoneOfTheFuture'
<1>1. pid \in [PCB -> Nat] /\ last_pid \in Nat /\ Live \subseteq PCB
  BY DEF ResInv, KernelInv, KernelTypeOK, Live
<1>2. /\ new \notin Live /\ Live' = Live \union {new} /\ last_pid' = last_pid + 1
      /\ \A p \in Live : pid'[p] = pid[p]
      /\ pid'[new] = last_pid
  BY <1>1 DEF NewBlock
<1>3. \A r \in ResourceId, f \in Nat : [pid |-> last_pid, fd |-> f] \notin resource_descriptors[r]
  <2> SUFFICES ASSUME NEW r \in ResourceId, NEW f \in Nat,
                      [pid |-> last_pid, fd |-> f] \in resource_descriptors[r]
               PROVE  FALSE
    OBVIOUS
  <2> DEFINE d == [pid |-> last_pid, fd |-> f]
  <2>1. d.pid = last_pid /\ d \in resource_descriptors[r]
    OBVIOUS
  <2> HIDE DEF d
  <2>2. d.pid < last_pid
    BY <2>1 DEF ResInv, NoneOfTheFuture
  <2> QED
    BY <2>1, <2>2, <1>1
<1>4. OwnDescriptors'
  <2>1. ASSUME NEW p \in Live
        PROVE  /\ \A r \in ResourceId, f \in Nat :
                     [pid |-> pid'[p], fd |-> f] \in resource_descriptors'[r] <=>
                     [fd |-> f, res |-> r] \in pcb_descriptors'[p]
               /\ \A d, e \in pcb_descriptors'[p] : d.fd = e.fd => d = e
               /\ \A d \in pcb_descriptors'[p] : d.fd < last_fd'[p]
    BY <1>2 DEF ResInv, OwnDescriptors
  <2> QED
    BY <2>1, <1>2, <1>3 DEF OwnDescriptors
<1>5. NoneOfTheFuture'
  <2> SUFFICES ASSUME NEW r \in ResourceId, NEW d \in resource_descriptors[r]
               PROVE  d.pid < last_pid'
    BY DEF NoneOfTheFuture
  <2>1. d.pid < last_pid /\ d.pid \in Nat
    BY DEF ResInv, NoneOfTheFuture, ResTypeOK
  <2> QED
    BY <2>1, <1>1, <1>2
<1> QED
  BY <1>4, <1>5

\* The kernel beneath frees blocks of processes with descriptors and without.
LEMMA KernelStepKeeps ==
    ASSUME ResInv, KernelStep
    PROVE  ResInv'
<1> DEFINE fresh == {p \in PCB : pid'[p] # pid[p]}
           buried == {running} \intersect (ToSet(pcb_free') \ ToSet(pcb_free))
           held == UNION {pcb_descriptors[p] : p \in buried}
<1>1. KernelInv' /\ (NoNewBlock \/ \E new \in PCB : NewBlock(new))
  BY StepKeeps, BlocksStep DEF ResInv, KernelStep
<1>2. PidsDiffer'
  BY <1>1, PidsStep DEF ResInv, KernelInv
<1>3. /\ pcb_descriptors' = [p \in PCB |-> IF p \in fresh \union buried THEN {}
                                           ELSE pcb_descriptors[p]]
      /\ last_fd' = [p \in PCB |-> IF p \in fresh THEN 0 ELSE last_fd[p]]
      /\ resource_descriptors' = [r \in ResourceId |-> resource_descriptors[r] \
             {[pid |-> pid[running], fd |-> d.fd] : d \in {e \in held : e.res = r}}]
      /\ dsc_free' = dsc_free + Cardinality(held)
      /\ dsc_ptr_free' = dsc_ptr_free + Cardinality(held)
      /\ resources_list' = resources_list
  BY DEF KernelStep, PtrsOf
<1>4. /\ resource_descriptors \in [ResourceId -> SUBSET [pid : Nat, fd : Nat]]
      /\ pcb_descriptors \in [PCB -> SUBSET [fd : Nat, res : ResourceId]]
      /\ last_fd \in [PCB -> Nat] /\ dsc_free \in Nat /\ dsc_ptr_free \in Nat
      /\ pid \in [PCB -> Nat] /\ last_pid \in Nat /\ Live \subseteq PCB
  BY DEF ResInv, ResTypeOK, KernelInv, KernelTypeOK, Live
<1>5. ToSet(pcb_free') \subseteq PCB
  BY <1>1, Places DEF KernelInv, KernelTypeOK
<1> HIDE DEF fresh, buried, held
<1>6. /\ pcb_descriptors' \in [PCB -> SUBSET [fd : Nat, res : ResourceId]]
      /\ last_fd' \in [PCB -> Nat]
  BY <1>3, <1>4
<1>7. /\ \A r \in ResourceId : resource_descriptors'[r] \subseteq resource_descriptors[r]
      /\ resource_descriptors' \in [ResourceId -> SUBSET [pid : Nat, fd : Nat]]
  BY <1>3, <1>4
<1>8. OpenExist'
  BY <1>3, <1>7 DEF ResInv, OpenExist
<1>9. CASE buried = {}
  <2>1. held = {} /\ Cardinality(held) = 0
    BY <1>9, FS_EmptySet DEF held
  <2>2. UNCHANGED <<resource_descriptors, resources_list, dsc_free, dsc_ptr_free>>
    BY <2>1, <1>3, <1>4
  <2>3. ResTypeOK'
    BY <2>2, <1>6 DEF ResInv, ResTypeOK
  <2>4. Described' = Described /\ BlocksAccounted'
    BY <2>2 DEF ResInv, Described, BlocksAccounted
  <2>5. CASE NoNewBlock
    <3>1. /\ fresh = {} /\ UNCHANGED <<pid, last_pid>> /\ Live' \subseteq Live
      BY <2>5 DEF fresh, NoNewBlock
    <3>2. UNCHANGED <<pcb_descriptors, last_fd>>
      BY <3>1, <1>3, <1>4, <1>9
    <3>3. OwnDescriptors' /\ NoneOfTheFuture'
      BY <3>1, <3>2, <2>2 DEF ResInv, OwnDescriptors, NoneOfTheFuture
    <3> QED
      BY <3>3, <2>3, <2>4, <1>1, <1>2, <1>8 DEF ResInv
  <2>6. ASSUME NEW new \in PCB, NewBlock(new)
        PROVE  ResInv'
    <3>1. \A p \in PCB : pid[p] # last_pid
      BY <1>4 DEF ResInv, PidsDiffer
    <3>2. fresh = {new}
      BY <3>1, <2>6, <1>4 DEF NewBlock, fresh
    <3>3. /\ pcb_descriptors'[new] = {}
          /\ \A p \in Live : pcb_descriptors'[p] = pcb_descriptors[p] /\ last_fd'[p] = last_fd[p]
      BY <3>2, <2>6, <1>3, <1>4, <1>9 DEF NewBlock
    <3>4. OwnDescriptors' /\ NoneOfTheFuture'
      BY <3>3, <2>2, <2>6, NewcomerOwnsNothing
    <3> QED
      BY <3>4, <2>3, <2>4, <1>1, <1>2, <1>8 DEF ResInv
  <2> QED
    BY <2>5, <2>6, <1>1
<1>10. CASE buried # {}
  <2>1. buried = {running} /\ running \in ToSet(pcb_free')
    BY <1>10 DEF buried
  <2>2. running \in Live /\ running \notin Live' /\ NoNewBlock /\ running \in PCB
    BY <2>1, <1>1, <1>5, Buried DEF ResInv
  <2>3. held = pcb_descriptors[running]
    BY <2>1 DEF held
  <2>4. fresh = {} /\ UNCHANGED <<pid, last_pid>> /\ Live' \subseteq Live
    BY <2>2 DEF fresh, NoNewBlock
  <2>5. /\ IsFiniteSet(Described')
        /\ Cardinality(held) \in Nat
        /\ Cardinality(Described') = Cardinality(Described) - Cardinality(held)
    <3>1. \A r \in ResourceId : resource_descriptors'[r] = resource_descriptors[r] \
              {[pid |-> pid[running], fd |-> d.fd] :
                   d \in {e \in pcb_descriptors[running] : e.res = r}}
      BY <1>3, <2>3
    <3> QED
      BY <3>1, <2>2, <2>3, HeldDescribed
  <2>6. ResTypeOK'
    BY <2>5, <1>3, <1>4, <1>6, <1>7 DEF ResInv, ResTypeOK
  <2>7. BlocksAccounted'
    <3>1. Cardinality(Described) \in Nat
      BY FS_CardinalityType DEF ResInv
    <3> QED
      BY <3>1, <2>5, <1>3, <1>4 DEF ResInv, BlocksAccounted
  <2>8. NoneOfTheFuture'
    BY <2>4, <1>7 DEF ResInv, NoneOfTheFuture
  <2>9. OwnDescriptors'
    <3> SUFFICES ASSUME NEW p \in Live'
                 PROVE  /\ \A r \in ResourceId, f \in Nat :
                              [pid |-> pid[p], fd |-> f] \in resource_descriptors'[r] <=>
                              [fd |-> f, res |-> r] \in pcb_descriptors'[p]
                        /\ \A d, e \in pcb_descriptors'[p] : d.fd = e.fd => d = e
                        /\ \A d \in pcb_descriptors'[p] : d.fd < last_fd'[p]
      BY <2>4 DEF OwnDescriptors
    <3>1. p \in Live /\ p \in PCB /\ p # running /\ pid[p] # pid[running]
      BY <2>2, <2>4, <1>4 DEF ResInv, PidsDiffer
    <3>2. pcb_descriptors'[p] = pcb_descriptors[p] /\ last_fd'[p] = last_fd[p]
      BY <3>1, <2>1, <2>4, <1>3
    <3>3. ASSUME NEW r \in ResourceId, NEW f \in Nat
          PROVE  [pid |-> pid[p], fd |-> f] \in resource_descriptors'[r] <=>
                 [pid |-> pid[p], fd |-> f] \in resource_descriptors[r]
      <4>1. \A d : [pid |-> pid[p], fd |-> f] # [pid |-> pid[running], fd |-> d.fd]
        BY <3>1
      <4> QED
        BY <4>1, <1>3
    <3> QED
      BY <3>1, <3>2, <3>3 DEF ResInv, OwnDescriptors
  <2> QED
    BY <2>5, <2>6, <2>7, <2>8, <2>9, <1>1, <1>2, <1>8 DEF ResInv
<1> QED
  BY <1>9, <1>10

-----------------------------------------------------------------------------
(* Calls *)

\* Who makes a call holds its block, and its pid is its own.
LEMMA CallerFacts ==
    ASSUME ResInv, NEW num, User(num)
    PROVE  /\ running \in PCB /\ running \in Live
           /\ pid \in [PCB -> Nat] /\ last_pid \in Nat /\ Live \subseteq PCB
           /\ pid[running] < last_pid
           /\ \A p \in Live : pid[p] = pid[running] => p = running
<1>1. running \in PCB
  BY UserRuns DEF ResInv, KernelInv
<1>2. running \in Live
  BY <1>1, RunningElsewhere DEF ResInv
<1> QED
  BY <1>1, <1>2 DEF ResInv, PidsDiffer, KernelInv, KernelTypeOK, Live

\* The calls move no process.
LEMMA CallKeepsKernel ==
    ASSUME ResInv, running \in PCB, NEW num \in Syscalls, NEW arg \in Int, Trap(num, arg),
           \E value \in Int : Answer(value), SameProcesses
    PROVE  KernelInv'
<1>1. call' \in [PCB -> CallRecord]
  BY TrapTyped DEF ResInv, KernelInv
<1>2. retvalue' \in [PCB -> Int]
  BY DEF Answer, ResInv, KernelInv, KernelTypeOK
<1>3. KernelTypeOK'
  BY <1>1, <1>2 DEF ResInv, KernelInv, KernelTypeOK, SameProcesses, poolVars, pcbVars, listVars
<1>4. \A p \in waiting_list : call'[p] = call[p]
  BY TrapElsewhere DEF ResInv
<1> QED
  BY <1>3, <1>4, SameKeeps DEF ResInv, SameProcesses, poolVars, pcbVars

\* Nor do they give or take a pid or a block.
LEMMA FamilyStays ==
    ASSUME ResInv, UNCHANGED <<pid, last_pid, pcb_free>>
    PROVE  PidsDiffer' /\ Live' = Live
  BY DEF ResInv, PidsDiffer, Live

\* A call that is refused.
LEMMA RefusedKeeps ==
    ASSUME ResInv, KernelInv', UNCHANGED <<pid, last_pid, pcb_free>>,
           UNCHANGED <<resourceVars, holderVars, dscVars>>
    PROVE  ResInv'
<1>1. PidsDiffer' /\ Live' = Live
  BY FamilyStays
<1>2. UNCHANGED <<resources_list, resource_descriptors, pcb_descriptors, last_fd,
                  dsc_free, dsc_ptr_free>>
  BY DEF resourceVars, holderVars, dscVars
<1>3. Described' = Described
  BY <1>2 DEF Described
<1>4. ResTypeOK' /\ OpenExist' /\ BlocksAccounted'
  BY <1>2, <1>3 DEF ResInv, ResTypeOK, OpenExist, BlocksAccounted
<1>5. OwnDescriptors' /\ NoneOfTheFuture'
  BY <1>1, <1>2 DEF ResInv, OwnDescriptors, NoneOfTheFuture
<1> QED
  BY <1>1, <1>3, <1>4, <1>5 DEF ResInv

\* A resource that is new joins the others, which keep their types.
LEMMA Created ==
    ASSUME ResInv, NEW id \in ResourceId, NEW t \in ResourceType,
           id \notin DOMAIN resources_list, Create(id, t)
    PROVE  /\ DOMAIN resources_list' = DOMAIN resources_list \union {id}
           /\ resources_list' \in [DOMAIN resources_list' -> ResourceType]
           /\ \A r \in DOMAIN resources_list : resources_list'[r] = resources_list[r]
<1>1. resources_list' = [r \in DOMAIN resources_list \union {id} |->
                            IF r = id THEN t ELSE resources_list[r]]
  BY DEF Create, WithResource
<1>2. resources_list \in [DOMAIN resources_list -> ResourceType]
  BY DEF ResInv, ResTypeOK
<1> QED
  BY <1>1, <1>2

\* A descriptor takes the next fd of its process, which no other has, and a block
\* from each pool; the one for the pointer is there though nobody looked.
LEMMA DescribeKeeps ==
    ASSUME ResInv, NEW num, User(num), NEW id \in ResourceId, Describe(id), dsc_free # 0,
           UNCHANGED <<pid, last_pid, pcb_free>>,
           DOMAIN resources_list \union {id} \subseteq DOMAIN resources_list'
    PROVE  /\ resource_descriptors' \in [ResourceId -> SUBSET [pid : Nat, fd : Nat]]
           /\ pcb_descriptors' \in [PCB -> SUBSET [fd : Nat, res : ResourceId]]
           /\ last_fd' \in [PCB -> Nat] /\ dsc_free' \in Nat /\ dsc_ptr_free' \in Nat
           /\ OwnDescriptors' /\ NoneOfTheFuture' /\ OpenExist'
           /\ IsFiniteSet(Described') /\ BlocksAccounted'
<1> DEFINE fd == last_fd[running]
           own == [fd |-> fd, res |-> id]
           new == [pid |-> pid[running], fd |-> fd]
<1>1. /\ running \in PCB /\ running \in Live
      /\ pid \in [PCB -> Nat] /\ last_pid \in Nat /\ Live \subseteq PCB
      /\ pid[running] < last_pid
      /\ \A p \in Live : pid[p] = pid[running] => p = running
  BY CallerFacts
<1>2. PidsDiffer' /\ Live' = Live
  BY FamilyStays
<1>3. /\ resource_descriptors \in [ResourceId -> SUBSET [pid : Nat, fd : Nat]]
      /\ pcb_descriptors \in [PCB -> SUBSET [fd : Nat, res : ResourceId]]
      /\ last_fd \in [PCB -> Nat] /\ dsc_free \in Nat
      /\ dsc_ptr_free = dsc_free
      /\ dsc_free + Cardinality(Described) = MAX_NUM_PROCESSES
      /\ IsFiniteSet(Described) /\ Cardinality(Described) \in Nat
  BY FS_CardinalityType DEF ResInv, ResTypeOK, BlocksAccounted
<1>4. fd \in Nat /\ pid[running] \in Nat /\ dsc_free - 1 \in Nat
  BY <1>1, <1>3
<1>5. /\ dsc_free' = dsc_free - 1 /\ dsc_ptr_free' = dsc_ptr_free - 1
      /\ last_fd' = [last_fd EXCEPT ![running] = fd + 1]
      /\ pcb_descriptors' = [pcb_descriptors EXCEPT ![running] = @ \union {own}]
      /\ resource_descriptors' = [resource_descriptors EXCEPT ![id] = @ \union {new}]
  BY DEF Describe
<1>6. \A d \in pcb_descriptors[running] :
          /\ d.fd < fd /\ d.fd \in Nat /\ d.res \in ResourceId
          /\ d = [fd |-> d.fd, res |-> d.res]
  BY <1>1, <1>3 DEF ResInv, OwnDescriptors
<1>7. \A r \in ResourceId : new \notin resource_descriptors[r]
  <2> SUFFICES ASSUME NEW r \in ResourceId, new \in resource_descriptors[r]
               PROVE  FALSE
    OBVIOUS
  <2> DEFINE d == [fd |-> fd, res |-> r]
  <2>1. d \in pcb_descriptors[running] /\ d.fd = fd
    BY <1>1, <1>4 DEF ResInv, OwnDescriptors
  <2> HIDE DEF d
  <2> QED
    BY <2>1, <1>4, <1>6
<1>8. /\ own \in [fd : Nat, res : ResourceId] /\ own.fd = fd
      /\ new \in [pid : Nat, fd : Nat] /\ new.pid = pid[running]
      /\ \A n, f : [pid |-> n, fd |-> f] = new <=> n = pid[running] /\ f = fd
      /\ \A f, r : [fd |-> f, res |-> r] = own <=> f = fd /\ r = id
  BY <1>4
<1> HIDE DEF fd, own, new
<1>9. /\ resource_descriptors' \in [ResourceId -> SUBSET [pid : Nat, fd : Nat]]
      /\ \A r \in ResourceId : resource_descriptors'[r] =
             IF r = id THEN resource_descriptors[r] \union {new} ELSE resource_descriptors[r]
  BY <1>3, <1>5, <1>8
<1>10. /\ pcb_descriptors' \in [PCB -> SUBSET [fd : Nat, res : ResourceId]]
       /\ \A p \in PCB : pcb_descriptors'[p] =
              IF p = running THEN pcb_descriptors[p] \union {own} ELSE pcb_descriptors[p]
  <2> DEFINE D == [fd : Nat, res : ResourceId]
  <2>1. own \in D /\ pcb_descriptors \in [PCB -> SUBSET D]
    BY <1>3, <1>8
  <2> HIDE DEF D
  <2>2. /\ pcb_descriptors' \in [PCB -> SUBSET D]
        /\ \A p \in PCB : pcb_descriptors'[p] =
               IF p = running THEN pcb_descriptors[p] \union {own} ELSE pcb_descriptors[p]
    BY <2>1, <1>1, <1>5
  <2> QED
    BY <2>2 DEF D
<1>11. last_fd' \in [PCB -> Nat] /\ dsc_free' \in Nat /\ dsc_ptr_free' \in Nat
  <2>1. dsc_free' = dsc_free - 1 /\ dsc_ptr_free' = dsc_free - 1
    BY <1>3, <1>5
  <2>2. last_fd' \in [PCB -> Nat]
    <3> DEFINE next == fd + 1
    <3>1. next \in Nat
      BY <1>4
    <3>2. last_fd' = [last_fd EXCEPT ![running] = next]
      BY <1>5
    <3> HIDE DEF next
    <3> QED
      BY <3>1, <3>2, <1>3
  <2> QED
    BY <2>1, <2>2, <1>4
<1>12. OwnDescriptors'
  <2> SUFFICES ASSUME NEW p \in Live
               PROVE  /\ \A r \in ResourceId, f \in Nat :
                            [pid |-> pid[p], fd |-> f] \in resource_descriptors'[r] <=>
                            [fd |-> f, res |-> r] \in pcb_descriptors'[p]
                      /\ \A d, e \in pcb_descriptors'[p] : d.fd = e.fd => d = e
                      /\ \A d \in pcb_descriptors'[p] : d.fd < last_fd'[p]
    BY <1>2 DEF OwnDescriptors
  <2>1. /\ \A r \in ResourceId, f \in Nat :
              [pid |-> pid[p], fd |-> f] \in resource_descriptors[r] <=>
              [fd |-> f, res |-> r] \in pcb_descriptors[p]
        /\ \A d, e \in pcb_descriptors[p] : d.fd = e.fd => d = e
        /\ \A d \in pcb_descriptors[p] : d.fd < last_fd[p]
        /\ p \in PCB
    BY <1>1 DEF ResInv, OwnDescriptors
  <2>2. ASSUME NEW r \in ResourceId, NEW f \in Nat
        PROVE  [pid |-> pid[p], fd |-> f] \in resource_descriptors'[r] <=>
               [fd |-> f, res |-> r] \in pcb_descriptors'[p]
    <3>1. [pid |-> pid[p], fd |-> f] \in resource_descriptors'[r] <=>
              \/ [pid |-> pid[p], fd |-> f] \in resource_descriptors[r]
              \/ r = id /\ p = running /\ f = fd
      BY <1>1, <1>8, <1>9
    <3>2. [fd |-> f, res |-> r] \in pcb_descriptors'[p] <=>
              \/ [fd |-> f, res |-> r] \in pcb_descriptors[p]
              \/ r = id /\ p = running /\ f = fd
      BY <2>1, <1>8, <1>10
    <3> QED
      BY <3>1, <3>2, <2>1
  <2>3. CASE p # running
    BY <2>1, <2>2, <2>3, <1>3, <1>5, <1>10
  <2>4. CASE p = running
    <3>1. last_fd'[p] = fd + 1
      BY <2>1, <2>4, <1>3, <1>5
    <3>2. \A d \in pcb_descriptors'[p] :
              \/ d = own
              \/ d \in pcb_descriptors[p] /\ d.fd < fd /\ d.fd \in Nat
      BY <2>1, <2>4, <1>6, <1>10
    <3>3. \A d, e \in pcb_descriptors'[p] : d.fd = e.fd => d = e
      BY <3>2, <2>1, <1>4, <1>8
    <3>4. \A d \in pcb_descriptors'[p] : d.fd < last_fd'[p]
      BY <3>1, <3>2, <1>4, <1>8
    <3> QED
      BY <3>3, <3>4, <2>2
  <2> QED
    BY <2>3, <2>4
<1>13. NoneOfTheFuture'
  BY <1>1, <1>8, <1>9 DEF ResInv, NoneOfTheFuture
<1>14. OpenExist'
  BY <1>9 DEF ResInv, OpenExist
<1>15. /\ IsFiniteSet(Described')
       /\ Cardinality(Described') = Cardinality(Described) + 1
  BY <1>3, <1>5, <1>7, OneMoreDescribed
<1>16. BlocksAccounted'
  BY <1>3, <1>5, <1>15 DEF BlocksAccounted
<1> QED
  BY <1>9, <1>10, <1>11, <1>12, <1>13, <1>14, <1>15, <1>16

\* open, refused for one of its reasons, or of a new resource or an old one.
LEMMA OpenKeeps ==
    ASSUME ResInv, NEW id \in ResourceId, NEW t \in ResourceType, NEW mode \in OpenModes,
           OpenResource(id, t, mode)
    PROVE  ResInv'
<1> DEFINE exists == id \in DOMAIN resources_list
           opens == IF Creates(mode) THEN ~exists ELSE exists /\ resources_list[id] = t
           refused == Excludes(mode) /\ resource_descriptors[id] # {}
           faults == /\ opens
                     /\ \/ Creates(mode) /\ NoResourceLeft
                        \/ ~refused /\ dsc_free > 0 /\ dsc_ptr_free = 0
<1>1. User("openResource")
  BY DEF OpenResource
<1>2. running \in PCB /\ id \in Int /\ "openResource" \in Syscalls
  BY <1>1, CallerFacts, ResourcesAssumption DEF Syscalls
<1>3. CASE faults
  <2>1. Stop("crashed") /\ UNCHANGED <<resourceVars, holderVars, dscVars>>
    BY <1>3 DEF OpenResource, Crash
  <2>2. KernelInv'
    BY <2>1, StopKeeps DEF ResInv
  <2>3. UNCHANGED <<pid, last_pid, pcb_free>>
    BY <2>1 DEF Stop, poolVars, pcbVars
  <2> QED
    BY <2>1, <2>2, <2>3, RefusedKeeps
<1>4. CASE ~faults
  <2>1. Trap("openResource", id) /\ SameProcesses
    BY <1>4 DEF OpenResource
  <2>2. UNCHANGED <<pid, last_pid, pcb_free>>
    BY <2>1 DEF SameProcesses, poolVars, pcbVars
  <2>3. ASSUME \E value \in Int : Answer(value)
        PROVE  KernelInv'
    BY <2>1, <2>3, <1>2, CallKeepsKernel
  <2>4. CASE ~opens \/ refused
    <3>1. \E error \in {DSOS_ERESOURCECREATE, DSOS_ERESOURCEOPEN, DSOS_ERESOURCENOEXCL} :
              Refuse(error)
      BY <1>4, <2>4 DEF OpenResource
    <3>2. /\ \E value \in Int : Answer(value)
          /\ UNCHANGED <<resourceVars, holderVars, dscVars>>
      BY <3>1 DEF Refuse, DSOS_ERESOURCECREATE, DSOS_ERESOURCEOPEN, DSOS_ERESOURCENOEXCL
    <3> QED
      BY <3>2, <2>2, <2>3, RefusedKeeps
  <2>5. CASE opens /\ ~refused
    <3>1. /\ IF Creates(mode) THEN Create(id, t) ELSE UNCHANGED resources_list
          /\ IF dsc_free = 0
             THEN /\ Answer(DSOS_ERESOURCENOFD)
                  /\ UNCHANGED <<resource_descriptors, holderVars, dscVars>>
             ELSE Describe(id)
      BY <1>4, <2>5 DEF OpenResource
    <3>2. /\ DOMAIN resources_list' = DOMAIN resources_list \union {id}
          /\ resources_list' \in [DOMAIN resources_list' -> ResourceType]
      <4>1. CASE Creates(mode)
        BY <4>1, <3>1, <2>5, Created
      <4>2. CASE ~Creates(mode)
        BY <4>2, <3>1, <2>5 DEF ResInv, ResTypeOK
      <4> QED
        BY <4>1, <4>2
    <3>3. DOMAIN resources_list' \subseteq ResourceId
      BY <3>2 DEF ResInv, ResTypeOK
    <3>4. PidsDiffer' /\ Live' = Live
      BY <2>2, FamilyStays
    <3>5. CASE dsc_free = 0
      <4>1. /\ UNCHANGED <<resource_descriptors, pcb_descriptors, last_fd, dsc_free, dsc_ptr_free>>
            /\ \E value \in Int : Answer(value)
        BY <3>1, <3>5 DEF holderVars, dscVars, DSOS_ERESOURCENOFD
      <4>2. Described' = Described
        BY <4>1 DEF Described
      <4>3. ResTypeOK' /\ BlocksAccounted'
        BY <4>1, <4>2, <3>2, <3>3 DEF ResInv, ResTypeOK, BlocksAccounted
      <4>4. OwnDescriptors' /\ NoneOfTheFuture' /\ OpenExist'
        BY <4>1, <3>2, <3>4, <2>2 DEF ResInv, OwnDescriptors, NoneOfTheFuture, OpenExist
      <4> QED
        BY <4>1, <4>2, <4>3, <4>4, <3>4, <2>3 DEF ResInv
    <3>6. CASE dsc_free # 0
      <4>1. Describe(id) /\ DOMAIN resources_list \union {id} \subseteq DOMAIN resources_list'
        BY <3>1, <3>2, <3>6
      <4>2. /\ resource_descriptors' \in [ResourceId -> SUBSET [pid : Nat, fd : Nat]]
            /\ pcb_descriptors' \in [PCB -> SUBSET [fd : Nat, res : ResourceId]]
            /\ last_fd' \in [PCB -> Nat] /\ dsc_free' \in Nat /\ dsc_ptr_free' \in Nat
            /\ OwnDescriptors' /\ NoneOfTheFuture' /\ OpenExist'
            /\ IsFiniteSet(Described') /\ BlocksAccounted'
        BY <4>1, <3>6, <2>2, <1>1, DescribeKeeps
      <4>3. ResTypeOK'
        BY <4>2, <3>2, <3>3 DEF ResTypeOK
      <4>4. \E value \in Int : Answer(value)
        <5>1. last_fd[running] \in Int /\ Answer(last_fd[running])
          BY <4>1, <1>2 DEF Describe, ResInv, ResTypeOK
        <5> QED
          BY <5>1
      <4> QED
        BY <4>2, <4>3, <4>4, <3>4, <2>3 DEF ResInv
    <3> QED
      BY <3>5, <3>6
  <2> QED
    BY <2>4, <2>5
<1> QED
  BY <1>3, <1>4

\* close takes one descriptor from both lists and gives two blocks back.
LEMMA CloseKeeps ==
    ASSUME ResInv, NEW fd \in 0 .. LastFd, CloseResource(fd)
    PROVE  ResInv'
<1>1. User("closeResource") /\ Trap("closeResource", fd) /\ SameProcesses
  BY DEF CloseResource
<1>2. /\ running \in PCB /\ running \in Live
      /\ pid \in [PCB -> Nat] /\ last_pid \in Nat /\ Live \subseteq PCB
      /\ \A p \in Live : pid[p] = pid[running] => p = running
      /\ fd \in Int /\ "closeResource" \in Syscalls
  BY <1>1, CallerFacts, ResourcesAssumption DEF Syscalls
<1>3. UNCHANGED <<pid, last_pid, pcb_free>>
  BY <1>1 DEF SameProcesses, poolVars, pcbVars
<1>4. ASSUME \E value \in Int : Answer(value)
      PROVE  KernelInv'
  BY <1>1, <1>2, <1>4, CallKeepsKernel
<1>5. CASE ByFd(fd) = {}
  <2>1. Refuse(DSOS_ERESOURCECLOSE)
    BY <1>5 DEF CloseResource
  <2>2. /\ \E value \in Int : Answer(value)
        /\ UNCHANGED <<resourceVars, holderVars, dscVars>>
    BY <2>1 DEF Refuse, DSOS_ERESOURCECLOSE
  <2> QED
    BY <2>2, <1>3, <1>4, RefusedKeeps
<1>6. CASE ByFd(fd) # {}
  <2>1. PICK own \in ByFd(fd) :
            /\ pcb_descriptors' = [pcb_descriptors EXCEPT ![running] = @ \ {own}]
            /\ resource_descriptors' = WithoutDescriptor(own)
            /\ dsc_free' = dsc_free + 1 /\ dsc_ptr_free' = dsc_ptr_free + 1
            /\ Answer(0)
            /\ UNCHANGED <<resources_list, last_fd>>
    BY <1>6 DEF CloseResource
  <2> DEFINE id == own.res
             n == pid[running]
             gone == [pid |-> n, fd |-> fd]
  <2>2. /\ resource_descriptors \in [ResourceId -> SUBSET [pid : Nat, fd : Nat]]
        /\ pcb_descriptors \in [PCB -> SUBSET [fd : Nat, res : ResourceId]]
        /\ last_fd \in [PCB -> Nat] /\ dsc_free \in Nat
        /\ dsc_ptr_free = dsc_free
        /\ dsc_free + Cardinality(Described) = MAX_NUM_PROCESSES
        /\ IsFiniteSet(Described) /\ Cardinality(Described) \in Nat
    BY FS_CardinalityType DEF ResInv, ResTypeOK, BlocksAccounted
  <2>3. own \in pcb_descriptors[running] /\ own.fd = fd
    BY DEF ByFd
  <2>4. id \in ResourceId /\ fd \in Nat /\ own = [fd |-> fd, res |-> id]
    BY <2>2, <2>3, <1>2
  <2>5. resource_descriptors' = [resource_descriptors EXCEPT ![id] = @ \ {gone}]
    BY <2>1, <2>3 DEF WithoutDescriptor
  <2>6. gone \in resource_descriptors[id]
    BY <2>3, <2>4, <1>2 DEF ResInv, OwnDescriptors
  <2>7. /\ \A m, f : [pid |-> m, fd |-> f] = gone <=> m = n /\ f = fd
        /\ \A f, r : [fd |-> f, res |-> r] = own <=> f = fd /\ r = id
    BY <2>4
  <2> HIDE DEF id, gone
  <2>8. /\ resource_descriptors' \in [ResourceId -> SUBSET [pid : Nat, fd : Nat]]
        /\ \A r \in ResourceId : resource_descriptors'[r] =
               IF r = id THEN resource_descriptors[r] \ {gone} ELSE resource_descriptors[r]
    BY <2>2, <2>5
  <2>9. /\ pcb_descriptors' \in [PCB -> SUBSET [fd : Nat, res : ResourceId]]
        /\ \A p \in PCB : pcb_descriptors'[p] =
               IF p = running THEN pcb_descriptors[p] \ {own} ELSE pcb_descriptors[p]
    BY <2>1, <2>2, <1>2
  <2>10. PidsDiffer' /\ Live' = Live
    BY <1>3, FamilyStays
  <2>11. ResTypeOK'
    BY <2>1, <2>2, <2>8, <2>9 DEF ResInv, ResTypeOK
  <2>12. OwnDescriptors'
    <3> SUFFICES ASSUME NEW p \in Live
                 PROVE  /\ \A r \in ResourceId, f \in Nat :
                              [pid |-> pid[p], fd |-> f] \in resource_descriptors'[r] <=>
                              [fd |-> f, res |-> r] \in pcb_descriptors'[p]
                        /\ \A d, e \in pcb_descriptors'[p] : d.fd = e.fd => d = e
                        /\ \A d \in pcb_descriptors'[p] : d.fd < last_fd'[p]
      BY <2>10, <1>3 DEF OwnDescriptors
    <3>1. /\ \A r \in ResourceId, f \in Nat :
                [pid |-> pid[p], fd |-> f] \in resource_descriptors[r] <=>
                [fd |-> f, res |-> r] \in pcb_descriptors[p]
          /\ \A d, e \in pcb_descriptors[p] : d.fd = e.fd => d = e
          /\ \A d \in pcb_descriptors[p] : d.fd < last_fd[p]
          /\ p \in PCB
      BY <1>2 DEF ResInv, OwnDescriptors
    <3>2. ASSUME NEW r \in ResourceId, NEW f \in Nat
          PROVE  [pid |-> pid[p], fd |-> f] \in resource_descriptors'[r] <=>
                 [fd |-> f, res |-> r] \in pcb_descriptors'[p]
      <4>1. [pid |-> pid[p], fd |-> f] \in resource_descriptors'[r] <=>
                /\ [pid |-> pid[p], fd |-> f] \in resource_descriptors[r]
                /\ ~(r = id /\ p = running /\ f = fd)
        BY <2>7, <2>8, <1>2
      <4>2. [fd |-> f, res |-> r] \in pcb_descriptors'[p] <=>
                /\ [fd |-> f, res |-> r] \in pcb_descriptors[p]
                /\ ~(r = id /\ p = running /\ f = fd)
        BY <2>7, <2>9, <3>1
      <4> QED
        BY <4>1, <4>2, <3>1
    <3>3. pcb_descriptors'[p] \subseteq pcb_descriptors[p]
      BY <2>9, <3>1
    <3> QED
      BY <3>1, <3>2, <3>3, <2>1
  <2>13. NoneOfTheFuture' /\ OpenExist'
    <3>1. \A r \in ResourceId : resource_descriptors'[r] \subseteq resource_descriptors[r]
      BY <2>8
    <3> QED
      BY <3>1, <2>1, <1>3 DEF ResInv, NoneOfTheFuture, OpenExist
  <2>14. /\ IsFiniteSet(Described')
         /\ Cardinality(Described') = Cardinality(Described) - 1
    BY <2>2, <2>4, <2>5, <2>6, OneLessDescribed
  <2>15. BlocksAccounted'
    BY <2>1, <2>2, <2>14 DEF BlocksAccounted
  <2>16. KernelInv'
    BY <2>1, <1>4
  <2> QED
    BY <2>10, <2>11, <2>12, <2>13, <2>14, <2>15, <2>16 DEF ResInv
<1> QED
  BY <1>5, <1>6

\* destroy takes nobody's resource.
LEMMA DestroyKeeps ==
    ASSUME ResInv, NEW id \in ResourceId, DestroyResource(id)
    PROVE  ResInv'
<1>1. User("destroyResource") /\ Trap("destroyResource", id) /\ SameProcesses
  BY DEF DestroyResource
<1>2. running \in PCB /\ id \in Int /\ "destroyResource" \in Syscalls
  BY <1>1, CallerFacts, ResourcesAssumption DEF Syscalls
<1>3. UNCHANGED <<pid, last_pid, pcb_free>>
  BY <1>1 DEF SameProcesses, poolVars, pcbVars
<1>4. ASSUME \E value \in Int : Answer(value)
      PROVE  KernelInv'
  BY <1>1, <1>2, <1>4, CallKeepsKernel
<1>5. CASE id \notin DOMAIN resources_list \/ InUse(id)
  <2>1. Refuse(DSOS_ERESOURCECLOSE) \/ Refuse(DSOS_ERESOURCEINUSE)
    BY <1>5 DEF DestroyResource
  <2>2. /\ \E value \in Int : Answer(value)
        /\ UNCHANGED <<resourceVars, holderVars, dscVars>>
    BY <2>1 DEF Refuse, DSOS_ERESOURCECLOSE, DSOS_ERESOURCEINUSE
  <2> QED
    BY <2>2, <1>3, <1>4, RefusedKeeps
<1>6. CASE id \in DOMAIN resources_list /\ ~InUse(id)
  <2>1. /\ resources_list' = [r \in DOMAIN resources_list \ {id} |-> resources_list[r]]
        /\ \E value \in Int : Answer(value)
        /\ UNCHANGED <<resource_descriptors, pcb_descriptors, last_fd, dsc_free, dsc_ptr_free>>
    BY <1>6 DEF DestroyResource, Restrict, holderVars, dscVars
  <2>2. PidsDiffer' /\ Live' = Live
    BY <1>3, FamilyStays
  <2>3. Described' = Described
    BY <2>1 DEF Described
  <2>4. /\ DOMAIN resources_list' = DOMAIN resources_list \ {id}
        /\ resources_list' \in [DOMAIN resources_list' -> ResourceType]
    BY <2>1 DEF ResInv, ResTypeOK
  <2>5. ResTypeOK' /\ BlocksAccounted'
    BY <2>1, <2>3, <2>4 DEF ResInv, ResTypeOK, BlocksAccounted
  <2>6. OwnDescriptors' /\ NoneOfTheFuture'
    BY <2>1, <2>2, <1>3 DEF ResInv, OwnDescriptors, NoneOfTheFuture
  <2>7. OpenExist'
    BY <2>1, <2>4, <1>6 DEF ResInv, OpenExist, InUse
  <2> QED
    BY <2>1, <2>2, <2>3, <2>5, <2>6, <2>7, <1>4 DEF ResInv
<1> QED
  BY <1>5, <1>6

-----------------------------------------------------------------------------
(* The theorems *)

\* Every step keeps the invariant.
LEMMA ResStepKeeps == ResInv /\ [Next]_vars => ResInv'
<1> SUFFICES ASSUME ResInv, [Next]_vars
             PROVE  ResInv'
  OBVIOUS
<1>1. CASE UNCHANGED vars
  <2>1. UNCHANGED <<kernelVars, resourceVars, holderVars, dscVars>>
    BY <1>1 DEF vars
  <2>2. KernelInv'
    BY <2>1, StepKeeps DEF ResInv
  <2>3. UNCHANGED <<pid, last_pid, pcb_free>>
    BY <2>1 DEF kernelVars, poolVars, pcbVars
  <2> QED
    BY <2>1, <2>2, <2>3, RefusedKeeps
<1>2. CASE KernelStep
  BY <1>2, KernelStepKeeps
<1>3. CASE \E id \in ResourceId, t \in ResourceType, mode \in OpenModes : OpenResource(id, t, mode)
  BY <1>3, OpenKeeps
<1>4. CASE \E fd \in 0 .. LastFd : CloseResource(fd)
  BY <1>4, CloseKeeps
<1>5. CASE \E id \in ResourceId : DestroyResource(id)
  BY <1>5, DestroyKeeps
<1> QED
  BY <1>1, <1>2, <1>3, <1>4, <1>5 DEF Next, ResourceCall

\* The invariant of every reachable state of the kernel with its resources.
THEOREM ResourceInvariant == Spec => []ResInv
  BY ResInit, ResStepKeeps, PTL DEF Spec

\* The variables of the resources and of the kernel below keep their types.
THEOREM ResourceTypes == Spec => []TypeOK
<1>1. ResInv => TypeOK
  BY DEF ResInv, ResTypeOK, KernelInv, TypeOK
<1> QED
  BY <1>1, ResourceInvariant, PTL

\* No block of a Descriptor or of a DescriptorPtr is lost or given back twice, by
\* close or by either way to exit, and a pointer is there for every descriptor:
\* the pointer that open follows without a look is never the missing one.
THEOREM NoBlockIsLost == Spec => []BlocksAccounted
<1>1. ResInv => BlocksAccounted
  BY DEF ResInv
<1> QED
  BY <1>1, ResourceInvariant, PTL

\* Both lists of descriptors agree for whoever is not gone, and what anybody, dead
\* or alive, has open exists.
THEOREM HoldersAgree == Spec => []DescriptorsAgree
<1>1. ResInv => DescriptorsAgree
  <2> SUFFICES ASSUME ResInv, NEW p \in Live
               PROVE  /\ \A r \in ResourceId :
                            {d.fd : d \in {e \in resource_descriptors[r] : e.pid = pid[p]}} =
                            {d.fd : d \in {e \in pcb_descriptors[p] : e.res = r}}
                      /\ \A d, e \in pcb_descriptors[p] : d.fd = e.fd => d = e
    BY DEF DescriptorsAgree, ResInv, OpenExist
  <2>1. /\ resource_descriptors \in [ResourceId -> SUBSET [pid : Nat, fd : Nat]]
        /\ pcb_descriptors[p] \in SUBSET [fd : Nat, res : ResourceId]
    BY DEF ResInv, ResTypeOK, Live
  <2>2. ASSUME NEW r \in ResourceId
        PROVE  {d.fd : d \in {e \in resource_descriptors[r] : e.pid = pid[p]}} =
               {d.fd : d \in {e \in pcb_descriptors[p] : e.res = r}}
    <3> DEFINE D == resource_descriptors[r]
               H == pcb_descriptors[p]
               n == pid[p]
    <3>1. \A f \in Nat : [pid |-> n, fd |-> f] \in D <=> [fd |-> f, res |-> r] \in H
      BY DEF ResInv, OwnDescriptors
    <3>2. /\ \A d \in D : d.fd \in Nat /\ d = [pid |-> d.pid, fd |-> d.fd]
          /\ \A d \in H : d.fd \in Nat /\ d = [fd |-> d.fd, res |-> d.res]
      BY <2>1
    <3> HIDE DEF D, H, n
    <3>3. ASSUME NEW d \in D, d.pid = n
          PROVE  \E e \in H : e.res = r /\ e.fd = d.fd
      <4> DEFINE e == [fd |-> d.fd, res |-> r]
      <4>1. e \in H
        BY <3>1, <3>2, <3>3
      <4>2. e.res = r /\ e.fd = d.fd
        OBVIOUS
      <4> QED
        BY <4>1, <4>2
    <3>4. ASSUME NEW d \in H, d.res = r
          PROVE  \E e \in D : e.pid = n /\ e.fd = d.fd
      <4> DEFINE e == [pid |-> n, fd |-> d.fd]
      <4>1. e \in D
        BY <3>1, <3>2, <3>4
      <4>2. e.pid = n /\ e.fd = d.fd
        OBVIOUS
      <4> QED
        BY <4>1, <4>2
    <3>5. {d.fd : d \in {e \in D : e.pid = n}} = {d.fd : d \in {e \in H : e.res = r}}
      BY <3>3, <3>4
    <3> QED
      BY <3>5 DEF D, H, n
  <2>3. \A d, e \in pcb_descriptors[p] : d.fd = e.fd => d = e
    BY DEF ResInv, OwnDescriptors
  <2> QED
    BY <2>2, <2>3
<1> QED
  BY <1>1, ResourceInvariant, PTL

\* No step takes a resource that is open away, or puts another in its place: open
\* with DSOS_CREATE refuses an id that exists, and destroy looks at the list of
\* the resource, on which every holder is.
LEMMA OpenStep ==
    ASSUME ResInv, [Next]_vars, NEW p \in Live, NEW d \in pcb_descriptors[p]
    PROVE  /\ d.res \in DOMAIN resources_list'
           /\ resources_list'[d.res] = resources_list[d.res]
<1>1. /\ d.fd \in Nat /\ d.res \in ResourceId /\ d = [fd |-> d.fd, res |-> d.res]
      /\ resource_descriptors[d.res] # {}
  <2>1. d.fd \in Nat /\ d.res \in ResourceId /\ d = [fd |-> d.fd, res |-> d.res]
    BY DEF ResInv, ResTypeOK, Live
  <2>2. [pid |-> pid[p], fd |-> d.fd] \in resource_descriptors[d.res]
    BY <2>1 DEF ResInv, OwnDescriptors
  <2> QED
    BY <2>1, <2>2
<1>2. d.res \in DOMAIN resources_list
  BY <1>1 DEF ResInv, OpenExist
<1>3. UNCHANGED resources_list => /\ d.res \in DOMAIN resources_list'
                                 /\ resources_list'[d.res] = resources_list[d.res]
  BY <1>2
<1>4. CASE UNCHANGED vars \/ KernelStep
  BY <1>3, <1>4 DEF vars, resourceVars, KernelStep
<1>5. CASE \E fd \in 0 .. LastFd : CloseResource(fd)
  BY <1>3, <1>5 DEF CloseResource, Refuse, resourceVars
<1>6. ASSUME NEW id \in ResourceId, NEW t \in ResourceType, NEW mode \in OpenModes,
             OpenResource(id, t, mode)
      PROVE  /\ d.res \in DOMAIN resources_list'
             /\ resources_list'[d.res] = resources_list[d.res]
  <2>1. \/ UNCHANGED resources_list
        \/ id \notin DOMAIN resources_list /\ Create(id, t)
    BY <1>6 DEF OpenResource, Refuse, resourceVars
  <2> QED
    BY <2>1, <1>2, <1>3, Created
<1>7. ASSUME NEW id \in ResourceId, DestroyResource(id)
      PROVE  /\ d.res \in DOMAIN resources_list'
             /\ resources_list'[d.res] = resources_list[d.res]
  <2>1. \/ UNCHANGED resources_list
        \/ /\ ~InUse(id)
           /\ resources_list' = [r \in DOMAIN resources_list \ {id} |-> resources_list[r]]
    BY <1>7 DEF DestroyResource, Refuse, Restrict, resourceVars
  <2> QED
    BY <2>1, <1>1, <1>2, <1>3 DEF InUse
<1> QED
  BY <1>4, <1>5, <1>6, <1>7 DEF Next, ResourceCall

\* A fd leads to the very resource it was opened for until its process closes it
\* or ends, through the calls of all others.
THEOREM OpenResourcesStay == Spec => OpenStaysOpen
<1> DEFINE Stays == \A p \in Live : \A d \in pcb_descriptors[p] :
                        \/ pid'[p] # pid[p]
                        \/ /\ d.res \in DOMAIN resources_list'
                           /\ resources_list'[d.res] = resources_list[d.res]
<1>1. ResInv /\ [Next]_vars => [Stays]_vars
  BY OpenStep
<1>2. Spec => [][Stays]_vars
  <2> HIDE DEF Stays
  <2> QED
    BY <1>1, ResourceInvariant, PTL DEF Spec
<1> QED
  BY <1>2 DEF OpenStaysOpen
=============================================================================
