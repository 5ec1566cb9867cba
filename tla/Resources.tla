------------------------------ MODULE Resources ------------------------------
(***************************************************************************)
(* The resources of disastrOS on top of its kernel: open, close and        *)
(* destroy, the list of the resources that exist, and the descriptors by   *)
(* which processes refer to them.                                          *)
(*                                                                         *)
(* Resources are named by their id, which is unique on resources_list.  A  *)
(* Descriptor is known to its process by fd and to its resource by pid and *)
(* fd.  (The code keeps a pointer to the PCB, whose block can pass on      *)
(* while descriptors of a dead process stay behind.)                       *)
(***************************************************************************)
EXTENDS Kernel

CONSTANTS
    MAX_NUM_RESOURCES,  \* blocks of the resource pool (disastrOS_constants.h:4)
    ResourceId,         \* the ids the programs use ...
    ResourceType,       \* ... the types ...
    OpenModes,          \* ... and the modes they open them with
    LastFd              \* BOUND: no process opens a resource with last_fd above this

ASSUME ResourcesAssumption ==
    /\ MAX_NUM_RESOURCES \in Nat \ {0}
    /\ ResourceId \subseteq Int
    /\ ResourceType # {}
    /\ OpenModes \subseteq Nat
    /\ LastFd \in Nat

DSOS_ERESOURCECREATE == -8
DSOS_ERESOURCEOPEN == -9
DSOS_ERESOURCENOEXCL == -10
DSOS_ERESOURCENOFD == -11
DSOS_ERESOURCECLOSE == -12
DSOS_ERESOURCEINUSE == -13

\* The bits DSOS_CREATE (1) and DSOS_EXCL (4) of a mode.  DSOS_WRITE is 3 and
\* so creates too.
Creates(mode) == mode % 2 = 1
Excludes(mode) == (mode \div 4) % 2 = 1

VARIABLES
    resources_list,       \* the resources that exist, each with its type
    resource_descriptors, \* Resource.descriptors
    pcb_descriptors,      \* PCB.descriptors
    last_fd,              \* PCB.last_fd
    dsc_free,             \* free blocks of the Descriptor pool
    dsc_ptr_free          \* free blocks of the DescriptorPtr pool

resourceVars == <<resources_list, resource_descriptors>>
holderVars == <<pcb_descriptors, last_fd>>
dscVars == <<dsc_free, dsc_ptr_free>>
vars == <<kernelVars, resourceVars, holderVars, dscVars>>

-----------------------------------------------------------------------------
(* Helpers *)

\* DescriptorList_byFd in the list of the running process.
ByFd(fd) == {d \in pcb_descriptors[running] : d.fd = fd}

\* None of the calls touches the processes.
SameProcesses ==
    UNCHANGED <<system, running, init_pcb, last_pid, poolVars, pcbVars, listVars>>

Answer(value) == retvalue' = [retvalue EXCEPT ![running] = value]
Refuse(error) == Answer(error) /\ UNCHANGED <<resourceVars, holderVars, dscVars>>

-----------------------------------------------------------------------------
(* open *)

\* resources_list with one more.
WithResource(id, t) ==
    [r \in DOMAIN resources_list \union {id} |-> IF r = id THEN t ELSE resources_list[r]]

\* Mutant: the arguments change places.
CreateSwapped(id, t) == resources_list' = WithResource(t, id)

\* Resource_alloc and List_insert.
Create(id, t) == resources_list' = WithResource(id, t)

\* Resource_alloc returns NULL and List_insert follows it.
NoResourceLeft == Cardinality(DOMAIN resources_list) = MAX_NUM_RESOURCES

\* Descriptor_alloc and DescriptorPtr_alloc, linked to the process and to the
\* resource.
Describe(id) ==
    LET fd == last_fd[running]
    IN /\ dsc_free' = dsc_free - 1
       /\ dsc_ptr_free' = dsc_ptr_free - 1
       /\ last_fd' = [last_fd EXCEPT ![running] = fd + 1]
       /\ pcb_descriptors' = [pcb_descriptors EXCEPT ![running] =
                                 @ \union {[fd |-> fd, res |-> id]}]
       /\ resource_descriptors' = [resource_descriptors EXCEPT ![id] =
                                      @ \union {[pid |-> pid[running], fd |-> fd]}]
       /\ Answer(fd)

\* A new resource stays when there is no descriptor for it.  A pointer that the
\* pool does not have is not looked at before it is followed.
OpenResource(id, t, mode) ==
    LET exists == id \in DOMAIN resources_list
        opens == IF Creates(mode) THEN ~exists ELSE exists /\ resources_list[id] = t
        faults == /\ opens
                  /\ \/ Creates(mode) /\ NoResourceLeft
                     \/ /\ ~(Excludes(mode) /\ resource_descriptors[id] # {})
                        /\ dsc_free > 0 /\ dsc_ptr_free = 0
    IN /\ User("openResource")
       /\ last_fd[running] <= LastFd
       /\ IF faults
          THEN Crash /\ UNCHANGED <<resourceVars, holderVars, dscVars>>
          ELSE /\ Trap("openResource", id)
               /\ SameProcesses
               /\ IF Creates(mode) /\ exists
                  THEN Refuse(DSOS_ERESOURCECREATE)
                  ELSE IF ~opens
                  THEN Refuse(DSOS_ERESOURCEOPEN)
                  ELSE IF Excludes(mode) /\ resource_descriptors[id] # {}
                  THEN Refuse(DSOS_ERESOURCENOEXCL)
                  ELSE /\ IF Creates(mode) THEN Create(id, t)
                                           ELSE UNCHANGED resources_list
                       /\ IF dsc_free = 0
                          THEN /\ Answer(DSOS_ERESOURCENOFD)
                               /\ UNCHANGED <<resource_descriptors, holderVars, dscVars>>
                          ELSE Describe(id)

-----------------------------------------------------------------------------
(* close and destroy *)

\* Mutant: the resource keeps its pointer to the descriptor.
KeptByResource(d) == resource_descriptors

\* The descriptors of a resource without that of the running process.
WithoutDescriptor(d) ==
    [resource_descriptors EXCEPT ![d.res] = @ \ {[pid |-> pid[running], fd |-> d.fd]}]

CloseResource(fd) ==
    /\ User("closeResource")
    /\ Trap("closeResource", fd)
    /\ SameProcesses
    /\ IF ByFd(fd) = {}
       THEN Refuse(DSOS_ERESOURCECLOSE)
       ELSE LET d == CHOOSE e \in ByFd(fd) : TRUE
            IN /\ pcb_descriptors' = [pcb_descriptors EXCEPT ![running] = @ \ {d}]
               /\ resource_descriptors' = WithoutDescriptor(d)
               /\ dsc_free' = dsc_free + 1
               /\ dsc_ptr_free' = dsc_ptr_free + 1
               /\ Answer(0)
               /\ UNCHANGED <<resources_list, last_fd>>

\* Mutant: only the descriptors of the caller count.
InUseByCaller(id) == \E d \in pcb_descriptors[running] : d.res = id

InUse(id) == resource_descriptors[id] # {}

DestroyResource(id) ==
    /\ User("destroyResource")
    /\ Trap("destroyResource", id)
    /\ SameProcesses
    /\ IF id \notin DOMAIN resources_list THEN Refuse(DSOS_ERESOURCECLOSE)
       ELSE IF InUse(id) THEN Refuse(DSOS_ERESOURCEINUSE)
       ELSE /\ resources_list' = Restrict(resources_list, DOMAIN resources_list \ {id})
            /\ Answer(0)
            /\ UNCHANGED <<resource_descriptors, holderVars, dscVars>>

-----------------------------------------------------------------------------
(* Specification *)

Init ==
    /\ KernelInit
    /\ resources_list = <<>>
    /\ resource_descriptors = [r \in ResourceId |-> {}]
    /\ pcb_descriptors = [p \in PCB |-> {}]
    /\ last_fd = [p \in PCB |-> 0]
    /\ dsc_free = MAX_NUM_PROCESSES
    /\ dsc_ptr_free = MAX_NUM_PROCESSES

\* Mutant: the pointers to the descriptors are not given back.
PtrsKept(held) == 0

PtrsOf(held) == Cardinality(held)

\* A step of the kernel.  exit into a waiting parent, the only step that frees
\* the block of the running process, releases its descriptors; exit to the ready
\* list and wait leave them.  PCB_alloc (a new pid in the block) empties the
\* fields for resources.
KernelStep ==
    LET fresh == {p \in PCB : pid'[p] # pid[p]}
        buried == {running} \intersect (ToSet(pcb_free') \ ToSet(pcb_free))
        held == UNION {pcb_descriptors[p] : p \in buried}
    IN /\ KernelNext
       /\ pcb_descriptors' = [p \in PCB |-> IF p \in fresh \union buried THEN {}
                                            ELSE pcb_descriptors[p]]
       /\ last_fd' = [p \in PCB |-> IF p \in fresh THEN 0 ELSE last_fd[p]]
       /\ resource_descriptors' = [r \in ResourceId |-> resource_descriptors[r] \
              {[pid |-> pid[running], fd |-> d.fd] : d \in {e \in held : e.res = r}}]
       /\ dsc_free' = dsc_free + Cardinality(held)
       /\ dsc_ptr_free' = dsc_ptr_free + PtrsOf(held)
       /\ UNCHANGED resources_list

ResourceCall ==
    \/ \E id \in ResourceId, t \in ResourceType, mode \in OpenModes : OpenResource(id, t, mode)
    \/ \E fd \in 0 .. LastFd : CloseResource(fd)
    \/ \E id \in ResourceId : DestroyResource(id)

Next == KernelStep \/ ResourceCall

Spec == Init /\ [][Next]_vars

-----------------------------------------------------------------------------
(* Properties *)

TypeOK ==
    /\ KernelTypeOK
    /\ DOMAIN resources_list \subseteq ResourceId
    /\ resources_list \in [DOMAIN resources_list -> ResourceType]
    /\ resource_descriptors \in [ResourceId -> SUBSET [pid : Nat, fd : Nat]]
    /\ pcb_descriptors \in [PCB -> SUBSET [fd : Nat, res : ResourceId]]
    /\ last_fd \in [PCB -> Nat]
    /\ dsc_free \in Nat
    /\ dsc_ptr_free \in Nat

Described == UNION {{<<r, d>> : d \in resource_descriptors[r]} : r \in ResourceId}

\* No Descriptor and no DescriptorPtr is lost, also not with processes that die
\* without closing: each is free or on the list of a resource.  So the pointer
\* that open does not look at is there whenever the descriptor is.
BlocksAccounted ==
    /\ dsc_free + Cardinality(Described) = MAX_NUM_PROCESSES
    /\ dsc_ptr_free = dsc_free

\* The two lists of descriptors agree for every process that is not gone, a fd
\* leads to one resource, and what anybody, dead or alive, has open exists:
\* destroy looks at the list of the resource only, close at that of the process.
DescriptorsAgree ==
    /\ \A p \in Live :
          /\ \A r \in ResourceId : {d.fd : d \in {e \in resource_descriptors[r] : e.pid = pid[p]}} =
                                   {d.fd : d \in {e \in pcb_descriptors[p] : e.res = r}}
          /\ \A d, e \in pcb_descriptors[p] : d.fd = e.fd => d = e
    /\ \A r \in ResourceId \ DOMAIN resources_list : resource_descriptors[r] = {}

\* While a process has a resource open, its fd leads to that very resource: it is
\* not destroyed and created again, with another type, behind it.
OpenStaysOpen ==
    [][\A p \in Live : \A d \in pcb_descriptors[p] :
          \/ pid'[p] # pid[p]
          \/ /\ d.res \in DOMAIN resources_list'
             /\ resources_list'[d.res] = resources_list[d.res]
      ]_vars

-----------------------------------------------------------------------------
(* What a comment of the source says and the code does not do *)

\* "we release all resources of a process upon termination" (exit.c:74): no
\* descriptor is held by a process that is gone.
TerminatedHoldsNothing ==
    \A r \in ResourceId : \A d \in resource_descriptors[r] :
        \E p \in Live : pid[p] = d.pid
=============================================================================
