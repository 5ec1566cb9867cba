---------------------------- MODULE TestPrograms ----------------------------
(***************************************************************************)
(* The programs of the repository on top of the kernel and its semaphores: *)
(* the four tests of disastrOS_OurTest.c, producers and consumers around a *)
(* ring buffer, and the handshake of disastrOS_test.c.                     *)
(*                                                                         *)
(* A program is the sequence of what it does, its loops unrolled: system   *)
(* calls, and the accesses to the memory the processes share.  A timer     *)
(* interrupt can fall between any two of them.  Printing is left out.      *)
(***************************************************************************)
EXTENDS Semaphores

CONSTANTS
    Tests,         \* what is run: 1 .. 4 typed into OurTest, 5 for any other
                   \* number, 0 for the program of disastrOS_test.c
    BUFFER_LENGTH, \* as in OurTest.c
    ITERATIONS,
    HowMany,       \* the values tried for HOWMANY, the workers of a kind
    Longer         \* where 40 is: test 1 takes that many times ITERATIONS

SEMNUM_FILL == 0
SEMNUM_EMPTY == 1
SEMNUM_ME1 == 2
SEMNUM_ME2 == 3

\* The semaphores of disastrOS_test.c.
Sem1 == 10
Sem2 == 30

\* What the programs ask for is among what Semaphores and Kernel are asked for.
ASSUME TestsAssumption ==
    /\ Tests \subseteq 0 .. 5
    /\ BUFFER_LENGTH \in Nat \ {0}
    /\ ITERATIONS \in Nat \ {0}
    /\ HowMany \subseteq Nat \ {0}
    /\ Longer \in Nat \ {0}
    /\ (SEMNUM_FILL .. SEMNUM_ME2) \union {Sem1, Sem2} \subseteq SemNum
    /\ {0, 1, BUFFER_LENGTH} \subseteq InitialValues /\ InitialValues \subseteq Nat
    /\ 0 \in WaitArgs

VARIABLES
    test,      \* what was typed in
    HOWMANY,   \* as the program was built
    function,  \* the function a process runs; "none" of a block never used
    pc,        \* where it is in the text of that function; 0 when it gives up
    fd,        \* its variables fd_fill, fd_empty, fd_me1, fd_me2, by semaphore
    n,         \* its variable n
    c_buffer,  \* child_data, on the stack of the father: the ring ...
    index      \* ... and the places of the producers and the consumers

programVars == <<test, HOWMANY, function, pc, fd, n, c_buffer, index>>
allVars == <<vars, programVars>>

Slots == 0 .. BUFFER_LENGTH - 1

-----------------------------------------------------------------------------
(* Program texts *)

\* `checked` is the descriptor that the ERROR_HELPER after an open looks at.
OpenChecking(s, value, checked) ==
    [op |-> "semOpen", sem |-> s, value |-> value, checked |-> checked]
Open(s, value) == OpenChecking(s, value, s)
OnSem(op, s) == [op |-> op, sem |-> s]
Access(op, role) == [op |-> op, role |-> role]
SpawnOf(f) == [op |-> "spawn", function |-> f]
Bare(op) == [op |-> op]

\* body, `rounds` times over.
Repeated(body, rounds) ==
    [i \in 1 .. rounds * Len(body) |-> body[((i - 1) % Len(body)) + 1]]

\* The same semaphore call for each of `sems`.
ForEach(op, sems) == [i \in DOMAIN sems |-> OnSem(op, sems[i])]

\* Mutant: into the section first, and then wait for a slot.
RoundInside(role, from, to, mutex) ==
    ForEach("semWait", mutex) \o <<OnSem("semWait", from)>>
    \o <<Access("load", role), Access("store", role), Access("advance", role)>>
    \o <<OnSem("semPost", to)>> \o ForEach("semPost", mutex)

\* The loop of a worker: wait for a slot, enter, use the index and advance it,
\* leave, and post.  `mutex` is the semaphore of the section, if there is one.
Round(role, from, to, mutex) ==
    <<OnSem("semWait", from)>> \o ForEach("semWait", mutex)
    \o <<Access("load", role), Access("store", role), Access("advance", role)>>
    \o ForEach("semPost", mutex) \o <<OnSem("semPost", to)>>

Ending(mutex) ==
    ForEach("semClose", <<SEMNUM_FILL, SEMNUM_EMPTY>> \o mutex) \o <<Bare("exit")>>

Producer(opens, mutex, rounds) ==
    opens \o Repeated(Round("prod", SEMNUM_EMPTY, SEMNUM_FILL, mutex), rounds) \o Ending(mutex)
Consumer(opens, mutex, rounds) ==
    opens \o Repeated(Round("cons", SEMNUM_FILL, SEMNUM_EMPTY, mutex), rounds) \o Ending(mutex)

\* Mutant: one slot too many is free.
OpenBothRoomier == <<Open(SEMNUM_FILL, 0), Open(SEMNUM_EMPTY, BUFFER_LENGTH + 1)>>

OpenBoth == <<Open(SEMNUM_FILL, 0), Open(SEMNUM_EMPTY, BUFFER_LENGTH)>>

\* Some ERROR_HELPERs of the producers look at fd_fill again.
OpenBothLax ==
    <<Open(SEMNUM_FILL, 0), OpenChecking(SEMNUM_EMPTY, BUFFER_LENGTH, SEMNUM_FILL)>>

ProdFunction ==
    Producer(OpenBothLax \o <<OpenChecking(SEMNUM_ME1, 1, SEMNUM_FILL)>>, <<SEMNUM_ME1>>, ITERATIONS)
ConsFunction == Consumer(OpenBoth \o <<Open(SEMNUM_ME2, 1)>>, <<SEMNUM_ME2>>, ITERATIONS)
ProdFunction2 == Producer(OpenBoth, <<>>, ITERATIONS * Longer)
ConsFunction2 == Consumer(OpenBoth, <<>>, ITERATIONS * Longer)
ProdSingleFunction(howmany) == Producer(OpenBothLax, <<>>, ITERATIONS * howmany)
ConsSingleFunction(howmany) == Consumer(OpenBoth, <<>>, ITERATIONS * howmany)

\* What the father spawns in test t, and waits for.
Spawns(t, howmany) ==
    CASE t = 1 -> <<SpawnOf("ProdFunction2"), SpawnOf("ConsFunction2")>>
      [] t = 2 -> Repeated(<<SpawnOf("ProdFunction"), SpawnOf("ConsFunction")>>, howmany)
      [] t = 3 -> Repeated(<<SpawnOf("ProdFunction")>>, howmany) \o <<SpawnOf("ConsSingleFunction")>>
      [] t = 4 -> Repeated(<<SpawnOf("ConsFunction")>>, howmany) \o <<SpawnOf("ProdSingleFunction")>>

\* initFunction of OurTest.c: the father.
initFunction(t, howmany) ==
    LET opens == OpenBoth \o <<Open(SEMNUM_ME1, 1), Open(SEMNUM_ME2, 1)>>
        closes == ForEach("semClose", <<SEMNUM_FILL, SEMNUM_EMPTY, SEMNUM_ME1, SEMNUM_ME2>>)
    IN IF t \in 1 .. 4
       THEN opens \o Spawns(t, howmany) \o Repeated(<<Bare("wait")>>, Len(Spawns(t, howmany))) \o closes
                  \o <<Bare("shutdown")>>
       ELSE opens \o <<Bare("shutdown")>>

\* The two programs of disastrOS_test.c, which look at no return value.
handshake_init ==
    <<Open(Sem1, 0), Open(Sem2, 0), SpawnOf("semaphore_testing"),
      OnSem("semWait", Sem1), OnSem("semPost", Sem2), Bare("wait"),
      OnSem("semClose", Sem1), OnSem("semClose", Sem2), Bare("shutdown")>>
semaphore_testing ==
    <<Open(Sem1, 0), Open(Sem2, 0), OnSem("semPost", Sem1), OnSem("semWait", Sem2),
      OnSem("semClose", Sem1), OnSem("semClose", Sem2), Bare("exit")>>
Unchecked == {"handshake_init", "semaphore_testing"}

\* The father of test 0 is the program of disastrOS_test.c.
FatherOf(t) == IF t = 0 THEN "handshake_init" ELSE "initFunction"

Texts ==
    [t \in Tests |-> [howmany \in HowMany |->
        [ProdFunction |-> ProdFunction, ConsFunction |-> ConsFunction,
         ProdFunction2 |-> ProdFunction2, ConsFunction2 |-> ConsFunction2,
         ProdSingleFunction |-> ProdSingleFunction(howmany),
         ConsSingleFunction |-> ConsSingleFunction(howmany),
         initFunction |-> initFunction(t, howmany),
         handshake_init |-> handshake_init, semaphore_testing |-> semaphore_testing,
         none |-> <<>>]]]

Text(p) == Texts[test][HOWMANY][function[p]]

-----------------------------------------------------------------------------
(* Execution *)

\* What the running process does next.  A process that gives up goes to exit.
Instruction == IF pc[running] = 0 THEN Bare("exit") ELSE Text(running)[pc[running]]

\* The running process is in user code and its next instruction is an `op`.
Doing(op) == system = "up" /\ call[running] = NoCall /\ Instruction.op = op

SemaphoresRest == UNCHANGED <<semaphoreVars, holderVars, dscVars>>
FdOf(i) == fd[running][i.sem]

\* A semaphore call up to its return.
SemInstruction ==
    /\ \/ Doing("semOpen") /\ SemOpen(Instruction.sem, Instruction.value)
       \/ Doing("semClose") /\ SemClose(FdOf(Instruction))
       \/ Doing("semWait") /\ SemWait(FdOf(Instruction))
       \/ Doing("semPost") /\ SemPost(FdOf(Instruction))
    /\ UNCHANGED programVars

\* A call to the kernel up to its return; disastrOS_wait asks for any child.
KernelInstruction ==
    /\ \/ Doing("wait") /\ Wait(0)
       \/ Doing("exit") /\ Exit
       \/ Doing("shutdown") /\ Shutdown
    /\ SemaphoresRest
    /\ UNCHANGED programVars

\* Before it is assigned, a variable for a descriptor is in no call.
NotOpened == [s \in SemNum |-> -1]

\* The child starts at the beginning of its function; with no block left for it
\* spawn crashes.
SpawnInstruction ==
    /\ Doing("spawn") /\ Spawn
    /\ FreshHolders /\ UNCHANGED <<semaphoreVars, dscVars>>
    /\ IF NoBlockLeft
       THEN UNCHANGED <<function, pc, fd>>
       ELSE /\ function' = [function EXCEPT ![Head(pcb_free)] = Instruction.function]
            /\ pc' = [pc EXCEPT ![Head(pcb_free)] = 1]
            /\ fd' = [fd EXCEPT ![Head(pcb_free)] = NotOpened]
    /\ UNCHANGED <<test, HOWMANY, n, c_buffer, index>>

\* ERROR_HELPER: a negative descriptor, or any other answer than 0.
Failed(i) ==
    /\ function[running] \notin Unchecked
    /\ \/ i.op = "semOpen" /\ fd'[running][i.checked] < 0
       \/ i.op \in {"semClose", "semWait", "semPost"} /\ retvalue[running] # 0

\* The call returns: the program looks at the answer and goes on or gives up.
Returned ==
    /\ Return /\ SemaphoresRest
    /\ fd' = IF Instruction.op = "semOpen"
             THEN [fd EXCEPT ![running] = [@ EXCEPT ![Instruction.sem] = retvalue[running]]]
             ELSE fd
    /\ pc' = [pc EXCEPT ![running] = IF Failed(Instruction) THEN 0 ELSE @ + 1]
    /\ UNCHANGED <<test, HOWMANY, function, n, c_buffer, index>>

\* Mutant: the index runs on past the end of the buffer.
Unwound(i) == i + 1

\* n++ and n % BUFFER_LENGTH.
Advanced(i) == (i + 1) % BUFFER_LENGTH

\* The accesses to the shared buffer, one at a time: n = index; c_buffer[n] =
\* pid (or 0, of a consumer); index = (n + 1) % BUFFER_LENGTH.
Memory ==
    /\ \/ /\ Doing("load")
          /\ n' = [n EXCEPT ![running] = index[Instruction.role]]
          /\ UNCHANGED <<c_buffer, index>>
       \/ /\ Doing("store")
          /\ c_buffer' = [c_buffer EXCEPT ![n[running]] =
                             IF Instruction.role = "prod" THEN pid[running] ELSE 0]
          /\ UNCHANGED <<n, index>>
       \/ /\ Doing("advance")
          /\ n' = [n EXCEPT ![running] = @ + 1]
          /\ index' = [index EXCEPT ![Instruction.role] = Advanced(n[running])]
          /\ UNCHANGED c_buffer
    /\ pc' = [pc EXCEPT ![running] = @ + 1]
    /\ UNCHANGED <<vars, test, HOWMANY, function, fd>>

\* A timer interrupt.
Interrupt == Tick /\ SemaphoresRest /\ UNCHANGED programVars

-----------------------------------------------------------------------------
(* Specification *)

\* main starts the father; his buffer is empty and the indices are 0.  (With the
\* father not more processes than MaxPid.)
ProgramInit ==
    /\ Init
    /\ test \in Tests
    /\ HOWMANY \in HowMany
    /\ test \in 1 .. 4 => Len(Spawns(test, HOWMANY)) < MaxPid
    /\ function = [p \in PCB |-> IF p = 1 THEN FatherOf(test) ELSE "none"]
    /\ pc = [p \in PCB |-> 1]
    /\ fd = [p \in PCB |-> NotOpened]
    /\ n = [p \in PCB |-> 0]
    /\ c_buffer = [k \in Slots |-> 0]
    /\ index = [prod |-> 0, cons |-> 0]

Step == SemInstruction \/ KernelInstruction \/ SpawnInstruction \/ Returned \/ Memory

ProgramNext == Step \/ Interrupt \/ (Stopped /\ UNCHANGED allVars)

\* The host goes on executing whoever runs.
ProgramSpec == ProgramInit /\ [][ProgramNext]_allVars /\ WF_allVars(Step)

-----------------------------------------------------------------------------
(* Properties *)

At(p) == IF pc[p] \in DOMAIN Text(p) THEN Text(p)[pc[p]] ELSE Bare("none")
Used == {p \in PCB : function[p] # "none"}
About(op, role) == {p \in Used : At(p) = Access(op, role)}
GaveUp == {p \in Used : pc[p] = 0}

\* A function opens its semaphores first: the k-th open gives descriptor k - 1.  Who
\* has got another answer, written into its PCB by the semWait of somebody else
\* before it was read, takes one semaphore for the other from then on.
Misled ==
    {p \in Used : \E k \in 1 .. 4 :
        Text(p)[k].op = "semOpen" /\ fd[p][Text(p)[k].sem] \notin {-1, k - 1}}

\* Whether p has made the k-th call of its text.
Called(p, k) == k < pc[p] \/ (k = pc[p] /\ call[p] # NoCall)

\* p has waited for s (and may still wait) and has not posted since.
Inside(p, s) ==
    \E k \in DOMAIN Text(p) :
        /\ Text(p)[k] = OnSem("semWait", s) /\ Called(p, k)
        /\ \A j \in k + 1 .. pc[p] : ~(Text(p)[j] = OnSem("semPost", s) /\ Called(p, j))

ProgramTypeOK ==
    /\ test \in Tests
    /\ HOWMANY \in HowMany
    /\ function \in [PCB -> DOMAIN Texts[test][HOWMANY]]
    /\ \A p \in PCB : pc[p] \in 0 .. Len(Text(p)) \/ function[p] = "none"
    /\ fd \in [PCB -> [SemNum -> Int]]
    /\ n \in [PCB -> 0 .. BUFFER_LENGTH]
    /\ c_buffer \in [Slots -> Nat]
    /\ index \in [{"prod", "cons"} -> Slots]

\* The place of a role once the access under way is through.
Place(role) == (index[role] + Cardinality(About("advance", role))) % BUFFER_LENGTH

\* The full slots are those from the place of the consumers up to the place of
\* the producers, at every moment: nothing is overwritten before it is consumed,
\* nothing is consumed twice, also after workers have given up on the way.
RingInOrder ==
    Misled = {} =>
        \E items \in 0 .. BUFFER_LENGTH :
            /\ Place("prod") = (Place("cons") + items) % BUFFER_LENGTH
            /\ {k \in Slots : c_buffer[k] # 0} =
                   {(Place("cons") + k) % BUFFER_LENGTH : k \in 0 .. items - 1}

\* Who gives up holds no mutex and queues for none: the count is 1 less those
\* who are in the section or want to enter.  A process that was blocked takes
\* the answer to an older call for that of its semWait; in front of a section
\* that older answer is always 0.
MutexAccounted ==
    Misled = {} =>
        \A s \in {SEMNUM_ME1, SEMNUM_ME2} \intersect semaphores_list :
            count[s] = 1 - Cardinality({p \in Used : Inside(p, s)})

\* Whom the semWait of s has let in, maybe without his knowing it yet, and who has
\* not posted since.
InSection(s) == {p \in Used : Inside(p, s) /\ p \notin ToSet(waiting_descriptors[s])}

\* A section is entered by one at a time, also after workers have given up at its
\* semWait or were told of it by an answer to somebody else.
OneInSection ==
    Misled = {} => \A s \in {SEMNUM_ME1, SEMNUM_ME2} : Cardinality(InSection(s)) <= 1

\* "let's open the semaphores in the father, so he'll unlink them at the end and
\* there is no way children may close them totally" (OurTest.c:328): as long as
\* he spawns and waits they are linked, whatever the others do.
SemaphoresStay ==
    test # 0 /\ At(1).op \in {"spawn", "wait"} => SEMNUM_FILL .. SEMNUM_ME2 \subseteq semaphores_list

\* Every test comes to its shutdown, neither stuck nor dead, unless an answer
\* was overwritten or a worker gives up.
TestEnds == <>(system = "halted" \/ Misled # {} \/ GaveUp # {})

-----------------------------------------------------------------------------
(* What the programs say and do not do *)

\* "Hello, i am prod and i am in CS!" (OurTest.c:68, and :121 for consumers): a
\* worker that says so is alone in the section, from reading its index until it
\* has advanced it.
AloneInSection ==
    \A role \in {"prod", "cons"} :
        Cardinality(About("load", role) \union About("store", role) \union About("advance", role)) <= 1
=============================================================================
