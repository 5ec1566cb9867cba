-------------------------- MODULE ProgramInvariants --------------------------
(***************************************************************************)
(* The test programs on top of their semaphores, for any number of workers *)
(* and rounds: what each text is made of, where a process can be in it, and *)
(* what that says of the semaphores.                                       *)
(***************************************************************************)
EXTENDS TestPrograms, SemaphoreInvariants

-----------------------------------------------------------------------------
(* The texts *)

Workers == {"ProdFunction", "ConsFunction", "ProdFunction2", "ConsFunction2",
            "ProdSingleFunction", "ConsSingleFunction", "semaphore_testing"}
Fathers == {"initFunction", "handshake_init"}

Instructions ==
    [op : {"semOpen"}, sem : SemNum, value : InitialValues, checked : SemNum]
    \union [op : {"semClose", "semWait", "semPost"}, sem : SemNum]
    \union [op : {"load", "store", "advance"}, role : {"prod", "cons"}]
    \union [op : {"spawn"}, function : Workers]
    \union [op : {"wait", "exit", "shutdown"}]

\* A text ends with exit or shutdown, and only there.
Ends(text) ==
    \A k \in 1 .. Len(text) : text[k].op \in {"exit", "shutdown"} <=> k = Len(text)

\* The buffer is used after the index was read.
Reads(text) ==
    \A k \in 1 .. Len(text) :
        text[k].op \in {"store", "advance"} => k > 1 /\ text[k - 1].op \in {"load", "store"}

\* First different semaphores are opened, and in the end closed: what is used in
\* between was opened before.
OpensFirst(text) ==
    /\ \A k \in 1 .. Len(text) : text[k].op = "semOpen" => k <= 4
    /\ \A j, k \in 1 .. Len(text) :
          /\ text[j].op = "semOpen" /\ text[k].op # "semOpen" => j < k
          /\ text[j].op = "semOpen" /\ text[k].op = "semOpen" /\ text[j].sem = text[k].sem => j = k
          /\ text[j].op = "semClose" /\ text[k].op \in {"semOpen", "semWait", "semPost"} => k < j
UsesOpened(text) ==
    \A k \in 1 .. Len(text) :
        text[k].op \in {"semClose", "semWait", "semPost"} =>
            \E j \in 1 .. Len(text) : text[j].op = "semOpen" /\ text[j].sem = text[k].sem

Mutexes == {SEMNUM_ME1, SEMNUM_ME2}

\* Between the semWait of a mutex and its semPost there is nothing but the three
\* accesses, and in front of the semWait there is another one.
Guards(text) ==
    \A s \in Mutexes, k \in 1 .. Len(text) :
        /\ text[k].op = "semOpen" /\ text[k].sem = s => k >= 3 /\ text[k].value = 1
        /\ text[k] = OnSem("semWait", s) =>
              /\ k > 1 /\ text[k - 1].op = "semWait"
              /\ k + 4 <= Len(text) /\ text[k + 4] = OnSem("semPost", s)
              /\ \A j \in 1 .. 3 : text[k + j].op \in {"load", "store", "advance"}
        /\ text[k] = OnSem("semPost", s) => k > 4 /\ text[k - 4] = OnSem("semWait", s)

\* Workers neither spawn nor wait for children.
Works(text) == \A k \in 1 .. Len(text) : text[k].op \notin {"spawn", "wait"}

\* Children are spawned right after the opens, one after the other.
SpawnsEarly(text) ==
    \A k \in 1 .. Len(text) :
        text[k].op = "spawn" => k > 1 /\ text[k - 1].op \in {"semOpen", "spawn"}

\* The programs of disastrOS_test.c have no section.
Unguarded(text) == \A s \in Mutexes, k \in 1 .. Len(text) : text[k] # OnSem("semWait", s)

Fits(text) ==
    /\ text \in Seq(Instructions) /\ Len(text) >= 5
    /\ Ends(text) /\ Reads(text) /\ OpensFirst(text) /\ UsesOpened(text) /\ Guards(text)

-----------------------------------------------------------------------------

LEMMA Constants ==
    /\ {0, 1, 2, 3, 10, 30} \subseteq SemNum
    /\ 0 \in InitialValues /\ 1 \in InitialValues /\ BUFFER_LENGTH \in InitialValues
    /\ SEMNUM_FILL = 0 /\ SEMNUM_EMPTY = 1 /\ SEMNUM_ME1 = 2 /\ SEMNUM_ME2 = 3
    /\ Sem1 = 10 /\ Sem2 = 30
BY TestsAssumption DEF SEMNUM_FILL, SEMNUM_EMPTY, SEMNUM_ME1, SEMNUM_ME2, Sem1, Sem2

\* What the instructions are.
LEMMA Made ==
    /\ \A s \in SemNum, v \in InitialValues, c \in SemNum :
          /\ OpenChecking(s, v, c) \in Instructions
          /\ OpenChecking(s, v, c).op = "semOpen" /\ OpenChecking(s, v, c).sem = s
          /\ OpenChecking(s, v, c).value = v /\ OpenChecking(s, v, c).checked = c
          /\ Open(s, v) = OpenChecking(s, v, s)
    /\ \A op \in {"semClose", "semWait", "semPost"}, s \in SemNum :
          OnSem(op, s) \in Instructions /\ OnSem(op, s).op = op /\ OnSem(op, s).sem = s
    /\ \A op \in {"load", "store", "advance"}, role \in {"prod", "cons"} :
          Access(op, role) \in Instructions /\ Access(op, role).op = op
    /\ \A f \in Workers : SpawnOf(f) \in Instructions /\ SpawnOf(f).op = "spawn"
    /\ \A op \in {"wait", "exit", "shutdown"} : Bare(op) \in Instructions /\ Bare(op).op = op
BY DEF OpenChecking, Open, OnSem, Access, SpawnOf, Bare, Instructions

\* The program of the child of disastrOS_test.c.
LEMMA HandshakeChild ==
    Fits(semaphore_testing) /\ Works(semaphore_testing) /\ Unguarded(semaphore_testing)
<1> DEFINE text == semaphore_testing
<1>1. /\ Len(text) = 7
      /\ text[1] = Open(Sem1, 0) /\ text[2] = Open(Sem2, 0)
      /\ text[3] = OnSem("semPost", Sem1) /\ text[4] = OnSem("semWait", Sem2)
      /\ text[5] = OnSem("semClose", Sem1) /\ text[6] = OnSem("semClose", Sem2)
      /\ text[7] = Bare("exit")
      /\ text = <<text[1], text[2], text[3], text[4], text[5], text[6], text[7]>>
  BY DEF semaphore_testing
<1> HIDE DEF text
<1>2. /\ \A k \in 1 .. 7 : text[k] \in Instructions
      /\ text[1].op = "semOpen" /\ text[2].op = "semOpen" /\ text[3].op = "semPost"
      /\ text[4].op = "semWait" /\ text[5].op = "semClose" /\ text[6].op = "semClose"
      /\ text[7].op = "exit"
      /\ text[1].sem = 10 /\ text[2].sem = 30 /\ text[3].sem = 10
      /\ text[4].sem = 30 /\ text[5].sem = 10 /\ text[6].sem = 30
  BY <1>1, Constants, Made
<1>3. text \in Seq(Instructions)
  BY Constants, Made DEF text, semaphore_testing
<1>4. Ends(text) /\ Reads(text) /\ OpensFirst(text) /\ Works(text)
  BY <1>1, <1>2 DEF Ends, Reads, OpensFirst, Works
<1>5. UsesOpened(text)
  BY <1>1, <1>2 DEF UsesOpened
<1>6. Guards(text)
  BY <1>1, <1>2, Made, Constants DEF Guards, Mutexes
<1>7. Unguarded(text)
  BY <1>1, <1>2, Made, Constants DEF Unguarded, Mutexes
<1> QED
  BY <1>1, <1>3, <1>4, <1>5, <1>6, <1>7 DEF Fits, text

\* t is a and then b; from m + 1 on t has the first of b; t is a sequence of m.
Joins(t, a, b) == t = a \o b
PartAt(t, m, b, len) == \A k \in 1 .. len : t[m + k] = b[k]
IsSeq(t, S, m) == t \in Seq(S) /\ Len(t) = m /\ m \in Nat

\* What sequences of two and of three parts have where.
LEMMA TwoParts ==
    ASSUME NEW S, NEW a, NEW b, NEW t, NEW m, NEW k,
           IsSeq(a, S, m), IsSeq(b, S, k), Joins(t, a, b)
    PROVE  IsSeq(t, S, m + k) /\ PartAt(t, 0, a, m) /\ PartAt(t, m, b, k)
<1>1. a \in Seq(S) /\ b \in Seq(S) /\ m \in Nat /\ k \in Nat /\ Len(a) = m /\ Len(b) = k
  BY DEF IsSeq
<1>2. /\ t \in Seq(S) /\ Len(t) = m + k
      /\ \A i \in 1 .. m + k : t[i] = IF i <= m THEN a[i] ELSE b[i - m]
  <2>1. /\ t \in Seq(S) /\ Len(t) = Len(a) + Len(b)
        /\ \A i \in 1 .. Len(a) + Len(b) : t[i] = IF i <= Len(a) THEN a[i] ELSE b[i - Len(a)]
    BY <1>1, ConcatProperties DEF Joins
  <2> QED
    BY <1>1, <2>1
<1>3. ASSUME NEW i \in 1 .. m
      PROVE  t[0 + i] = a[i]
  BY <1>1, <1>2
<1>4. ASSUME NEW i \in 1 .. k
      PROVE  t[m + i] = b[i]
  <2>1. m + i \in 1 .. m + k /\ ~(m + i <= m) /\ (m + i) - m = i
    BY <1>1
  <2> QED
    BY <1>2, <2>1
<1> QED
  BY <1>1, <1>2, <1>3, <1>4 DEF IsSeq, PartAt

\* A part of a part.
LEMMA PartOf ==
    ASSUME NEW t, NEW m \in Nat, NEW b, NEW k \in Nat, NEW r, NEW x \in Nat, NEW y \in Nat,
           PartAt(t, m, b, k), PartAt(b, x, r, y), x + y <= k
    PROVE  PartAt(t, m + x, r, y)
<1> SUFFICES ASSUME NEW i \in 1 .. y
             PROVE  t[(m + x) + i] = r[i]
  BY DEF PartAt
<1>1. b[x + i] = r[i]
  BY DEF PartAt
<1>2. t[m + (x + i)] = b[x + i]
  BY DEF PartAt
<1> QED
  BY <1>1, <1>2

LEMMA ThreeParts ==
    ASSUME NEW S, NEW a, NEW b, NEW c, NEW u, NEW t, NEW m, NEW k, NEW l,
           IsSeq(a, S, m), IsSeq(b, S, k), IsSeq(c, S, l), Joins(u, a, b), Joins(t, u, c)
    PROVE  /\ IsSeq(t, S, m + k + l) /\ m \in Nat /\ k \in Nat /\ l \in Nat
           /\ PartAt(t, 0, a, m) /\ PartAt(t, m, b, k) /\ PartAt(t, m + k, c, l)
<1>1. IsSeq(u, S, m + k) /\ PartAt(u, 0, a, m) /\ PartAt(u, m, b, k)
  BY TwoParts
<1>2. IsSeq(t, S, m + k + l) /\ PartAt(t, 0, u, m + k) /\ PartAt(t, m + k, c, l)
  BY <1>1, TwoParts
<1>3. m \in Nat /\ k \in Nat /\ l \in Nat
  BY DEF IsSeq
<1>4. PartAt(t, 0 + 0, a, m) /\ PartAt(t, 0 + m, b, k)
  BY <1>1, <1>2, <1>3, PartOf
<1> QED
  BY <1>2, <1>3, <1>4

\* A loop unrolled.
LEMMA Rounds ==
    ASSUME NEW S, NEW body, NEW length \in {5, 7}, IsSeq(body, S, length), NEW rounds \in Nat
    PROVE  /\ IsSeq(Repeated(body, rounds), S, rounds * length)
           /\ \A i \in 1 .. rounds * length :
                 Repeated(body, rounds)[i] = body[((i - 1) % length) + 1]
<1>1. rounds * length \in Nat /\ body \in Seq(S) /\ Len(body) = length
  BY DEF IsSeq
<1>2. \A i \in 1 .. rounds * length : ((i - 1) % length) + 1 \in 1 .. length
  OBVIOUS
<1>3. \A j \in 1 .. length : body[j] \in S
  BY <1>1
<1>4. \A i \in 1 .. rounds * length : body[((i - 1) % length) + 1] \in S
  BY <1>2, <1>3
<1>5. Repeated(body, rounds) = [i \in 1 .. rounds * length |-> body[((i - 1) % length) + 1]]
  BY <1>1 DEF Repeated
<1> QED
  BY <1>1, <1>4, <1>5 DEF IsSeq

\* Where a round of seven instructions stands with its neighbours.
LEMMA SevenSteps ==
    ASSUME NEW rounds \in Nat, NEW i \in 1 .. rounds * 7
    PROVE  /\ (i - 1) % 7 \in 0 .. 6
           /\ (i - 1) % 7 # 0 => i > 1 /\ ((i - 1) - 1) % 7 = ((i - 1) % 7) - 1
           /\ (i - 1) % 7 = 1 => /\ i + 4 <= rounds * 7
                                 /\ ((i + 1) - 1) % 7 = 2 /\ ((i + 2) - 1) % 7 = 3
                                 /\ ((i + 3) - 1) % 7 = 4 /\ ((i + 4) - 1) % 7 = 5
           /\ (i - 1) % 7 = 5 => i > 4 /\ ((i - 4) - 1) % 7 = 1
OBVIOUS

LEMMA FiveSteps ==
    ASSUME NEW rounds \in Nat, NEW i \in 1 .. rounds * 5
    PROVE  /\ (i - 1) % 5 \in 0 .. 4
           /\ (i - 1) % 5 # 0 => i > 1 /\ ((i - 1) - 1) % 5 = ((i - 1) % 5) - 1
OBVIOUS

\* The pieces of a worker with a mutex and of one without.
LEMMA ForNone == ASSUME NEW op PROVE ForEach(op, <<>>) = <<>>
BY DEF ForEach

LEMMA ForOne == ASSUME NEW op, NEW s PROVE ForEach(op, <<s>>) = <<OnSem(op, s)>>
BY DEF ForEach

LEMMA One == ASSUME NEW S, NEW x \in S PROVE IsSeq(<<x>>, S, 1)
BY DEF IsSeq

LEMMA GuardedRound ==
    ASSUME NEW role \in {"prod", "cons"}, NEW from \in {0, 1}, NEW to \in {0, 1},
           NEW me \in Mutexes, NEW body, body = Round(role, from, to, <<me>>)
    PROVE  /\ IsSeq(body, Instructions, 7)
           /\ body[1] = OnSem("semWait", from) /\ body[2] = OnSem("semWait", me)
           /\ body[3] = Access("load", role) /\ body[4] = Access("store", role)
           /\ body[5] = Access("advance", role)
           /\ body[6] = OnSem("semPost", me) /\ body[7] = OnSem("semPost", to)
<1> DEFINE a == OnSem("semWait", from)
           b == OnSem("semWait", me)
           c == Access("load", role)
           d == Access("store", role)
           e == Access("advance", role)
           f == OnSem("semPost", me)
           g == OnSem("semPost", to)
<1>1. body = <<a>> \o <<b>> \o <<c, d, e>> \o <<f>> \o <<g>>
  BY ForOne DEF Round
<1>2. /\ a \in Instructions /\ b \in Instructions /\ c \in Instructions /\ d \in Instructions
      /\ e \in Instructions /\ f \in Instructions /\ g \in Instructions
  BY Made, Constants DEF Mutexes
<1> HIDE DEF a, b, c, d, e, f, g
<1>3. PICK s2, s5, s6, s7 :
         /\ Joins(s2, <<a>>, <<b>>) /\ Joins(s5, s2, <<c, d, e>>)
         /\ Joins(s6, s5, <<f>>) /\ Joins(s7, s6, <<g>>) /\ body = s7
  BY <1>1 DEF Joins
<1>4. IsSeq(<<c, d, e>>, Instructions, 3)
  BY <1>2 DEF IsSeq
<1>5. /\ IsSeq(s2, Instructions, 2)
      /\ PartAt(s2, 0, <<a>>, 1) /\ PartAt(s2, 1, <<b>>, 1)
  <2>1. /\ IsSeq(s2, Instructions, 1 + 1)
        /\ PartAt(s2, 0, <<a>>, 1) /\ PartAt(s2, 1, <<b>>, 1)
    BY <1>2, <1>3, One, TwoParts
  <2> QED
    BY <2>1
<1>6. /\ IsSeq(s5, Instructions, 5)
      /\ PartAt(s5, 0, s2, 2) /\ PartAt(s5, 2, <<c, d, e>>, 3)
  <2>1. /\ IsSeq(s5, Instructions, 2 + 3)
        /\ PartAt(s5, 0, s2, 2) /\ PartAt(s5, 2, <<c, d, e>>, 3)
    BY <1>3, <1>4, <1>5, TwoParts
  <2> QED
    BY <2>1
<1>7. /\ IsSeq(s6, Instructions, 6)
      /\ PartAt(s6, 0, s5, 5) /\ PartAt(s6, 5, <<f>>, 1)
  <2>1. /\ IsSeq(s6, Instructions, 5 + 1)
        /\ PartAt(s6, 0, s5, 5) /\ PartAt(s6, 5, <<f>>, 1)
    BY <1>2, <1>3, <1>6, One, TwoParts
  <2> QED
    BY <2>1
<1>8. /\ IsSeq(s7, Instructions, 7)
      /\ PartAt(s7, 0, s6, 6) /\ PartAt(s7, 6, <<g>>, 1)
  <2>1. /\ IsSeq(s7, Instructions, 6 + 1)
        /\ PartAt(s7, 0, s6, 6) /\ PartAt(s7, 6, <<g>>, 1)
    BY <1>2, <1>3, <1>7, One, TwoParts
  <2> QED
    BY <2>1
<1>9. s2[1] = a /\ s2[2] = b
  BY <1>5 DEF PartAt
<1>10. s5[1] = a /\ s5[2] = b /\ s5[3] = c /\ s5[4] = d /\ s5[5] = e
  BY <1>6, <1>9 DEF PartAt
<1>11. /\ s6[1] = a /\ s6[2] = b /\ s6[3] = c /\ s6[4] = d /\ s6[5] = e
       /\ s6[6] = f
  BY <1>7, <1>10 DEF PartAt
<1>12. /\ s7[1] = a /\ s7[2] = b /\ s7[3] = c /\ s7[4] = d /\ s7[5] = e
       /\ s7[6] = f /\ s7[7] = g
  BY <1>8, <1>11 DEF PartAt
<1> QED
  BY <1>3, <1>8, <1>12 DEF a, b, c, d, e, f, g

LEMMA FreeRound ==
    ASSUME NEW role \in {"prod", "cons"}, NEW from \in {0, 1}, NEW to \in {0, 1},
           NEW body, body = Round(role, from, to, <<>>)
    PROVE  /\ IsSeq(body, Instructions, 5)
           /\ body[1] = OnSem("semWait", from)
           /\ body[2] = Access("load", role) /\ body[3] = Access("store", role)
           /\ body[4] = Access("advance", role)
           /\ body[5] = OnSem("semPost", to)
<1> DEFINE a == OnSem("semWait", from)
           c == Access("load", role)
           d == Access("store", role)
           e == Access("advance", role)
           g == OnSem("semPost", to)
<1>1. body = <<a>> \o <<>> \o <<c, d, e>> \o <<>> \o <<g>>
  BY ForNone DEF Round
<1>2. /\ a \in Instructions /\ c \in Instructions /\ d \in Instructions
      /\ e \in Instructions /\ g \in Instructions
  BY Made, Constants
<1> HIDE DEF a, c, d, e, g
<1>3. PICK s4, s5 : Joins(s4, <<a>>, <<c, d, e>>) /\ body = s5
  BY DEF Joins
<1>4. IsSeq(<<c, d, e>>, Instructions, 3)
  BY <1>2 DEF IsSeq
<1>5. /\ IsSeq(s4, Instructions, 4)
      /\ PartAt(s4, 0, <<a>>, 1) /\ PartAt(s4, 1, <<c, d, e>>, 3)
  <2>1. /\ IsSeq(s4, Instructions, 1 + 3)
        /\ PartAt(s4, 0, <<a>>, 1) /\ PartAt(s4, 1, <<c, d, e>>, 3)
    BY <1>2, <1>3, <1>4, One, TwoParts
  <2> QED
    BY <2>1
<1>6. Joins(s5, s4, <<g>>)
  <2>1. <<a>> \o <<>> = <<a>> /\ s4 \o <<>> = s4
    BY <1>2, <1>5, ConcatEmptySeq DEF IsSeq
  <2> QED
    BY <1>1, <1>3, <2>1 DEF Joins
<1>7. /\ IsSeq(s5, Instructions, 5)
      /\ PartAt(s5, 0, s4, 4) /\ PartAt(s5, 4, <<g>>, 1)
  <2>1. /\ IsSeq(s5, Instructions, 4 + 1)
        /\ PartAt(s5, 0, s4, 4) /\ PartAt(s5, 4, <<g>>, 1)
    BY <1>2, <1>5, <1>6, One, TwoParts
  <2> QED
    BY <2>1
<1>8. s4[1] = a /\ s4[2] = c /\ s4[3] = d /\ s4[4] = e
  BY <1>5 DEF PartAt
<1>9. s5[1] = a /\ s5[2] = c /\ s5[3] = d /\ s5[4] = e /\ s5[5] = g
  BY <1>7, <1>8 DEF PartAt
<1> QED
  BY <1>3, <1>7, <1>9 DEF a, c, d, e, g

LEMMA GuardedEnding ==
    ASSUME NEW me \in Mutexes, NEW ending, ending = Ending(<<me>>)
    PROVE  /\ IsSeq(ending, Instructions, 4)
           /\ ending[1] = OnSem("semClose", 0) /\ ending[2] = OnSem("semClose", 1)
           /\ ending[3] = OnSem("semClose", me) /\ ending[4] = Bare("exit")
<1>1. PICK sems : sems = <<0, 1>> \o <<me>>
  OBVIOUS
<1>2. DOMAIN sems = 1 .. 3 /\ sems[1] = 0 /\ sems[2] = 1 /\ sems[3] = me
  BY <1>1
<1>3. \A k \in 1 .. 3 : sems[k] \in SemNum
  BY <1>2, Constants DEF Mutexes
<1>4. PICK closes : closes = ForEach("semClose", sems)
  OBVIOUS
<1>5. /\ IsSeq(closes, Instructions, 3)
      /\ closes[1] = OnSem("semClose", 0) /\ closes[2] = OnSem("semClose", 1)
      /\ closes[3] = OnSem("semClose", me)
  <2>1. \A k \in 1 .. 3 : OnSem("semClose", sems[k]) \in Instructions
    BY <1>3, Made
  <2>2. closes = [k \in 1 .. 3 |-> OnSem("semClose", sems[k])]
    BY <1>2, <1>4 DEF ForEach
  <2> QED
    BY <1>2, <2>1, <2>2 DEF IsSeq
<1>6. Bare("exit") \in Instructions
  BY Made
<1>7. Joins(ending, closes, <<Bare("exit")>>)
  BY <1>1, <1>4, Constants DEF Ending, Joins
<1>8. /\ IsSeq(ending, Instructions, 4)
      /\ PartAt(ending, 0, closes, 3) /\ PartAt(ending, 3, <<Bare("exit")>>, 1)
  <2>1. /\ IsSeq(ending, Instructions, 3 + 1)
        /\ PartAt(ending, 0, closes, 3) /\ PartAt(ending, 3, <<Bare("exit")>>, 1)
    BY <1>5, <1>6, <1>7, One, TwoParts
  <2> QED
    BY <2>1
<1> QED
  BY <1>5, <1>8 DEF PartAt

LEMMA FreeEnding ==
    ASSUME NEW ending, ending = Ending(<<>>)
    PROVE  /\ IsSeq(ending, Instructions, 3)
           /\ ending[1] = OnSem("semClose", 0) /\ ending[2] = OnSem("semClose", 1)
           /\ ending[3] = Bare("exit")
<1>1. <<SEMNUM_FILL, SEMNUM_EMPTY>> \o <<>> = <<0, 1>>
  BY Constants
<1>2. PICK closes : closes = ForEach("semClose", <<0, 1>>)
  OBVIOUS
<1>3. /\ IsSeq(closes, Instructions, 2)
      /\ closes[1] = OnSem("semClose", 0) /\ closes[2] = OnSem("semClose", 1)
  <2>1. OnSem("semClose", 0) \in Instructions /\ OnSem("semClose", 1) \in Instructions
    BY Made, Constants
  <2>2. closes = [k \in 1 .. 2 |-> OnSem("semClose", <<0, 1>>[k])]
    BY <1>2 DEF ForEach
  <2> QED
    BY <2>1, <2>2 DEF IsSeq
<1>4. Bare("exit") \in Instructions
  BY Made
<1>5. Joins(ending, closes, <<Bare("exit")>>)
  BY <1>1, <1>2 DEF Ending, Joins
<1>6. /\ IsSeq(ending, Instructions, 3)
      /\ PartAt(ending, 0, closes, 2) /\ PartAt(ending, 2, <<Bare("exit")>>, 1)
  <2>1. /\ IsSeq(ending, Instructions, 2 + 1)
        /\ PartAt(ending, 0, closes, 2) /\ PartAt(ending, 2, <<Bare("exit")>>, 1)
    BY <1>3, <1>4, <1>5, One, TwoParts
  <2> QED
    BY <2>1
<1> QED
  BY <1>3, <1>6 DEF PartAt

\* From place a to place b there are such instructions.
Ops(t, a, b, ops) == \A k \in a .. b : t[k].op \in ops

Middle == {"semWait", "semPost", "load", "store", "advance", "spawn", "wait"}

\* o opens, what a process does, its closes from place c on, and the last one.
Shape(t, o, c, l) ==
    /\ t \in Seq(Instructions) /\ Len(t) = l /\ l >= 5
    /\ o \in 1 .. 4 /\ c \in Nat /\ l \in Nat /\ o < c /\ c <= l
    /\ Ops(t, 1, o, {"semOpen"}) /\ Ops(t, o + 1, c - 1, Middle)
    /\ Ops(t, c, l - 1, {"semClose"}) /\ Ops(t, l, l, {"exit", "shutdown"})

LEMMA ShapeTells ==
    ASSUME NEW t, NEW o, NEW c, NEW l, Shape(t, o, c, l), NEW k \in 1 .. l
    PROVE  /\ t[k].op = "semOpen" <=> k <= o
           /\ t[k].op \in Middle <=> o < k /\ k < c
           /\ t[k].op = "semClose" <=> c <= k /\ k < l
           /\ t[k].op \in {"exit", "shutdown"} <=> k = l
           /\ k \in Int /\ o \in Int /\ c \in Int /\ l \in Int /\ o <= 4 /\ o < c /\ c <= l
           /\ Len(t) = l
<1>1. /\ k \in Int /\ o \in Int /\ c \in Int /\ l \in Int /\ o <= 4 /\ o < c /\ c <= l
      /\ Len(t) = l
  BY DEF Shape
<1>2. CASE k <= o
  <2>1. t[k].op = "semOpen"
    BY <1>1, <1>2 DEF Shape, Ops
  <2> QED
    BY <1>1, <1>2, <2>1 DEF Middle
<1>3. CASE o < k /\ k < c
  <2>1. t[k].op \in Middle
    BY <1>1, <1>3 DEF Shape, Ops
  <2> QED
    BY <1>1, <1>3, <2>1 DEF Middle
<1>4. CASE c <= k /\ k < l
  <2>1. t[k].op = "semClose"
    BY <1>1, <1>4 DEF Shape, Ops
  <2> QED
    BY <1>1, <1>4, <2>1 DEF Middle
<1>5. CASE k = l
  <2>1. t[k].op \in {"exit", "shutdown"}
    BY <1>1, <1>5 DEF Shape, Ops
  <2> QED
    BY <1>1, <1>5, <2>1 DEF Middle
<1> QED
  BY <1>1, <1>2, <1>3, <1>4, <1>5

LEMMA ShapeEnds ==
    ASSUME NEW t, NEW o, NEW c, NEW l, Shape(t, o, c, l)
    PROVE  Ends(t)
BY ShapeTells DEF Ends, Shape

\* The semaphores that the first o instructions name differ, and there are no others.
Names(t, o, c, l) ==
    /\ \A j, k \in 1 .. o : t[j].sem = t[k].sem => j = k
    /\ \A k \in o + 1 .. l - 1 :
          t[k].op \in {"semClose", "semWait", "semPost"} => \E j \in 1 .. o : t[j].sem = t[k].sem

LEMMA ShapeOpens ==
    ASSUME NEW t, NEW o, NEW c, NEW l, Shape(t, o, c, l), Names(t, o, c, l)
    PROVE  OpensFirst(t) /\ UsesOpened(t)
<1>1. \A k \in 1 .. Len(t) :
         /\ t[k].op = "semOpen" <=> k <= o
         /\ t[k].op \in Middle <=> o < k /\ k < c
         /\ t[k].op = "semClose" <=> c <= k /\ k < l
         /\ t[k].op \in {"exit", "shutdown"} <=> k = l
         /\ k \in Int /\ o \in Int /\ c \in Int /\ l \in Int /\ o <= 4 /\ o < c /\ c <= l
         /\ Len(t) = l
  <2>1. Len(t) = l
    BY DEF Shape
  <2>2. ASSUME NEW k \in 1 .. l
        PROVE  /\ t[k].op = "semOpen" <=> k <= o
               /\ t[k].op \in Middle <=> o < k /\ k < c
               /\ t[k].op = "semClose" <=> c <= k /\ k < l
               /\ t[k].op \in {"exit", "shutdown"} <=> k = l
               /\ k \in Int /\ o \in Int /\ c \in Int /\ l \in Int /\ o <= 4 /\ o < c /\ c <= l
               /\ Len(t) = l
    BY ShapeTells
  <2> QED
    BY <2>1, <2>2
<1>2. \A k \in 1 .. Len(t) : t[k].op = "semOpen" => k <= 4
  BY <1>1
<1>3. ASSUME NEW j \in 1 .. Len(t), NEW k \in 1 .. Len(t)
      PROVE  /\ t[j].op = "semOpen" /\ t[k].op # "semOpen" => j < k
             /\ t[j].op = "semOpen" /\ t[k].op = "semOpen" /\ t[j].sem = t[k].sem => j = k
             /\ t[j].op = "semClose" /\ t[k].op \in {"semOpen", "semWait", "semPost"} => k < j
  <2>1. t[j].op = "semOpen" /\ t[k].op # "semOpen" => j < k
    BY <1>1
  <2>2. t[j].op = "semOpen" /\ t[k].op = "semOpen" /\ t[j].sem = t[k].sem => j = k
    BY <1>1 DEF Names
  <2>3. t[j].op = "semClose" /\ t[k].op \in {"semOpen", "semWait", "semPost"} => k < j
    <3>1. t[k].op \in {"semWait", "semPost"} => t[k].op \in Middle
      BY DEF Middle
    <3> QED
      BY <1>1, <3>1
  <2> QED
    BY <2>1, <2>2, <2>3
<1>4. ASSUME NEW k \in 1 .. Len(t), t[k].op \in {"semClose", "semWait", "semPost"}
      PROVE  \E j \in 1 .. Len(t) : t[j].op = "semOpen" /\ t[j].sem = t[k].sem
  <2>1. t[k].op \in {"semWait", "semPost"} => t[k].op \in Middle
    BY DEF Middle
  <2>2. k \in o + 1 .. l - 1
    BY <1>1, <1>4, <2>1
  <2>3. PICK j \in 1 .. o : t[j].sem = t[k].sem
    BY <1>4, <2>2 DEF Names
  <2>4. j \in 1 .. Len(t)
    BY <1>1, <2>2
  <2> QED
    BY <1>1, <2>3, <2>4
<1> QED
  BY <1>2, <1>3, <1>4 DEF OpensFirst, UsesOpened

\* A worker that works under a mutex.
LEMMA GuardedWorker ==
    ASSUME NEW role \in {"prod", "cons"}, NEW from \in {0, 1}, NEW to \in {0, 1},
           NEW me \in Mutexes, NEW rounds \in Nat \ {0},
           NEW opens, IsSeq(opens, Instructions, 3),
           \A k \in 1 .. 3 : opens[k].op = "semOpen",
           opens[1].sem = 0, opens[2].sem = 1, opens[3].sem = me, opens[3].value = 1,
           NEW text,
           text = opens \o Repeated(Round(role, from, to, <<me>>), rounds) \o Ending(<<me>>)
    PROVE  Fits(text) /\ Works(text)
<1> DEFINE N == rounds * 7
<1>1. PICK body : body = Round(role, from, to, <<me>>)
  OBVIOUS
<1>2. PICK loop : loop = Repeated(body, rounds)
  OBVIOUS
<1>3. PICK ending : ending = Ending(<<me>>)
  OBVIOUS
<1>4. PICK u, t : Joins(u, opens, loop) /\ Joins(t, u, ending) /\ text = t
  BY <1>1, <1>2, <1>3 DEF Joins
<1>5. /\ IsSeq(body, Instructions, 7)
      /\ body[1] = OnSem("semWait", from) /\ body[2] = OnSem("semWait", me)
      /\ body[3] = Access("load", role) /\ body[4] = Access("store", role)
      /\ body[5] = Access("advance", role)
      /\ body[6] = OnSem("semPost", me) /\ body[7] = OnSem("semPost", to)
  BY <1>1, GuardedRound
<1>6. /\ IsSeq(loop, Instructions, N)
      /\ \A i \in 1 .. N : loop[i] = body[((i - 1) % 7) + 1]
  BY <1>2, <1>5, Rounds, ZenonT(60)
<1>7. /\ IsSeq(ending, Instructions, 4)
      /\ ending[1] = OnSem("semClose", 0) /\ ending[2] = OnSem("semClose", 1)
      /\ ending[3] = OnSem("semClose", me) /\ ending[4] = Bare("exit")
  BY <1>3, GuardedEnding
<1>8. N \in Nat /\ N >= 7
  OBVIOUS
<1>9. \A i \in 1 .. N :
         /\ (i - 1) % 7 \in 0 .. 6
         /\ (i - 1) % 7 # 0 => i > 1 /\ ((i - 1) - 1) % 7 = ((i - 1) % 7) - 1
         /\ (i - 1) % 7 = 1 => /\ i + 4 <= N
                               /\ ((i + 1) - 1) % 7 = 2 /\ ((i + 2) - 1) % 7 = 3
                               /\ ((i + 3) - 1) % 7 = 4 /\ ((i + 4) - 1) % 7 = 5
         /\ (i - 1) % 7 = 5 => i > 4 /\ ((i - 4) - 1) % 7 = 1
  BY SevenSteps
<1> HIDE DEF N
<1>10. /\ IsSeq(t, Instructions, 3 + N + 4)
       /\ PartAt(t, 0, opens, 3) /\ PartAt(t, 3, loop, N) /\ PartAt(t, 3 + N, ending, 4)
  BY <1>4, <1>6, <1>7, ThreeParts
<1>11. t \in Seq(Instructions) /\ Len(t) = N + 7
  BY <1>8, <1>10 DEF IsSeq
<1>12. t[1] = opens[1] /\ t[2] = opens[2] /\ t[3] = opens[3]
  BY <1>10 DEF PartAt
<1>13. /\ t[N + 4] = OnSem("semClose", 0) /\ t[N + 5] = OnSem("semClose", 1)
       /\ t[N + 6] = OnSem("semClose", me) /\ t[N + 7] = Bare("exit")
  <2>1. /\ t[(3 + N) + 1] = ending[1] /\ t[(3 + N) + 2] = ending[2]
        /\ t[(3 + N) + 3] = ending[3] /\ t[(3 + N) + 4] = ending[4]
    BY <1>10 DEF PartAt
  <2>2. (3 + N) + 1 = N + 4 /\ (3 + N) + 2 = N + 5 /\ (3 + N) + 3 = N + 6 /\ (3 + N) + 4 = N + 7
    BY <1>8
  <2> QED
    BY <1>7, <2>1, <2>2
<1>14. \A i \in 1 .. N : t[3 + i] = body[((i - 1) % 7) + 1]
  BY <1>6, <1>10 DEF PartAt
<1>15. ASSUME NEW i \in 1 .. N
       PROVE  /\ (i - 1) % 7 = 0 => t[3 + i] = OnSem("semWait", from)
              /\ (i - 1) % 7 = 1 => t[3 + i] = OnSem("semWait", me)
              /\ (i - 1) % 7 = 2 => t[3 + i] = Access("load", role)
              /\ (i - 1) % 7 = 3 => t[3 + i] = Access("store", role)
              /\ (i - 1) % 7 = 4 => t[3 + i] = Access("advance", role)
              /\ (i - 1) % 7 = 5 => t[3 + i] = OnSem("semPost", me)
              /\ (i - 1) % 7 = 6 => t[3 + i] = OnSem("semPost", to)
  <2>1. PICK r : r = (i - 1) % 7
    OBVIOUS
  <2>2. t[3 + i] = body[r + 1]
    BY <1>14, <2>1
  <2> QED
    BY <1>5, <2>1, <2>2
<1>16. \A i \in 1 .. N :
          /\ t[3 + i].op \in {"semWait", "load", "store", "advance", "semPost"}
          /\ t[3 + i].op \in {"semWait", "semPost"} => t[3 + i].sem \in {0, 1, me}
          /\ (i - 1) % 7 = 0 => t[3 + i].op = "semWait" /\ t[3 + i].sem = from
          /\ (i - 1) % 7 = 1 => t[3 + i].op = "semWait" /\ t[3 + i].sem = me
          /\ (i - 1) % 7 = 2 => t[3 + i].op = "load"
          /\ (i - 1) % 7 = 3 => t[3 + i].op = "store"
          /\ (i - 1) % 7 = 4 => t[3 + i].op = "advance"
          /\ (i - 1) % 7 = 5 => t[3 + i].op = "semPost" /\ t[3 + i].sem = me
          /\ (i - 1) % 7 = 6 => t[3 + i].op = "semPost" /\ t[3 + i].sem = to
  <2> TAKE i \in 1 .. N
  <2>1. PICK r \in 0 .. 6 : r = (i - 1) % 7
    BY <1>9
  <2>2. me \in SemNum /\ from \in SemNum /\ to \in SemNum
    BY Constants DEF Mutexes
  <2> QED
    BY <1>15, <2>1, <2>2, Made
<1>17. /\ t[1].op = "semOpen" /\ t[2].op = "semOpen" /\ t[3].op = "semOpen"
       /\ t[1].sem = 0 /\ t[2].sem = 1 /\ t[3].sem = me /\ t[3].value = 1
       /\ t[N + 4].op = "semClose" /\ t[N + 5].op = "semClose" /\ t[N + 6].op = "semClose"
       /\ t[N + 4].sem = 0 /\ t[N + 5].sem = 1 /\ t[N + 6].sem = me
       /\ t[N + 7].op = "exit"
  <2>1. me \in SemNum /\ 0 \in SemNum /\ 1 \in SemNum
    BY Constants DEF Mutexes
  <2>2. opens[1].op = "semOpen" /\ opens[2].op = "semOpen" /\ opens[3].op = "semOpen"
    OBVIOUS
  <2> QED
    BY <1>12, <1>13, <2>1, <2>2, Made
<1>18. Shape(t, 3, N + 4, N + 7)
  <2>1. Ops(t, 1, 3, {"semOpen"})
    BY <1>17 DEF Ops
  <2>2. Ops(t, 3 + 1, (N + 4) - 1, Middle)
    <3> SUFFICES ASSUME NEW k \in 3 + 1 .. (N + 4) - 1
                 PROVE  t[k].op \in Middle
      BY DEF Ops
    <3>1. PICK i \in 1 .. N : k = 3 + i
      <4>1. k - 3 \in 1 .. N /\ k = 3 + (k - 3)
        BY <1>8
      <4> QED
        BY <4>1
    <3> QED
      BY <1>16, <3>1 DEF Middle
  <2>3. Ops(t, N + 4, (N + 7) - 1, {"semClose"})
    <3>1. \A k \in N + 4 .. (N + 7) - 1 : k = N + 4 \/ k = N + 5 \/ k = N + 6
      BY <1>8
    <3> QED
      BY <1>17, <3>1 DEF Ops
  <2>4. Ops(t, N + 7, N + 7, {"exit", "shutdown"})
    BY <1>8, <1>17 DEF Ops
  <2> QED
    BY <1>8, <1>11, <2>1, <2>2, <2>3, <2>4 DEF Shape
<1>19. Names(t, 3, N + 4, N + 7)
  <2>1. \A j, k \in 1 .. 3 : t[j].sem = t[k].sem => j = k
    BY <1>17, Constants DEF Mutexes
  <2>2. ASSUME NEW k \in 3 + 1 .. (N + 7) - 1, t[k].op \in {"semClose", "semWait", "semPost"}
        PROVE  t[k].sem \in {0, 1, me}
    <3>1. CASE k <= N + 3
      <4>1. PICK i \in 1 .. N : k = 3 + i
        <5>1. k - 3 \in 1 .. N /\ k = 3 + (k - 3)
          BY <1>8, <3>1
        <5> QED
          BY <5>1
      <4> QED
        BY <1>16, <2>2, <4>1
    <3>2. CASE k > N + 3
      <4>1. k = N + 4 \/ k = N + 5 \/ k = N + 6
        BY <1>8, <3>2
      <4> QED
        BY <1>17, <4>1
    <3> QED
      BY <1>8, <3>1, <3>2
  <2> QED
    BY <1>17, <2>1, <2>2 DEF Names
<1>20. \A k \in 1 .. N + 7 : t[k].op \in Middle => \E i \in 1 .. N : k = 3 + i
  <2> SUFFICES ASSUME NEW k \in 1 .. N + 7, t[k].op \in Middle
               PROVE  \E i \in 1 .. N : k = 3 + i
    OBVIOUS
  <2>1. 3 < k /\ k < N + 4
    BY <1>18, ShapeTells
  <2>2. k - 3 \in 1 .. N /\ k = 3 + (k - 3)
    BY <1>8, <2>1
  <2> QED
    BY <2>2
<1>21. Works(t)
  <2> SUFFICES ASSUME NEW k \in 1 .. N + 7, t[k].op \in {"spawn", "wait"}
               PROVE  FALSE
    BY <1>11 DEF Works
  <2>1. PICK i \in 1 .. N : k = 3 + i
    BY <1>20 DEF Middle
  <2> QED
    BY <1>16, <2>1
<1>22. Reads(t)
  <2> SUFFICES ASSUME NEW k \in 1 .. N + 7, t[k].op \in {"store", "advance"}
               PROVE  k > 1 /\ t[k - 1].op \in {"load", "store"}
    BY <1>11 DEF Reads
  <2>1. PICK i \in 1 .. N : k = 3 + i
    BY <1>20 DEF Middle
  <2>2. PICK r \in 0 .. 6 : r = (i - 1) % 7
    BY <1>9
  <2>3. r \in {3, 4}
    BY <1>16, <2>1, <2>2
  <2>4. PICK h \in 1 .. N : h = i - 1 /\ (h - 1) % 7 = r - 1
    <3>1. i > 1 /\ ((i - 1) - 1) % 7 = r - 1
      BY <1>9, <2>2, <2>3
    <3>2. i - 1 \in 1 .. N
      BY <1>8, <3>1
    <3> QED
      BY <3>1, <3>2
  <2>5. t[3 + h].op \in {"load", "store"}
    BY <1>16, <2>3, <2>4
  <2>6. k > 1 /\ k - 1 = 3 + h
    BY <2>1, <2>4
  <2> QED
    BY <2>5, <2>6
<1>23. Guards(t)
  <2> SUFFICES ASSUME NEW s \in Mutexes, NEW k \in 1 .. N + 7
               PROVE  /\ t[k].op = "semOpen" /\ t[k].sem = s => k >= 3 /\ t[k].value = 1
                      /\ t[k] = OnSem("semWait", s) =>
                            /\ k > 1 /\ t[k - 1].op = "semWait"
                            /\ k + 4 <= N + 7 /\ t[k + 4] = OnSem("semPost", s)
                            /\ \A j \in 1 .. 3 : t[k + j].op \in {"load", "store", "advance"}
                      /\ t[k] = OnSem("semPost", s) => k > 4 /\ t[k - 4] = OnSem("semWait", s)
    BY <1>11 DEF Guards
  <2>1. s \in SemNum /\ s # 0 /\ s # 1
    BY Constants DEF Mutexes
  <2>2. t[k].op = "semOpen" /\ t[k].sem = s => k >= 3 /\ t[k].value = 1
    <3>1. t[k].op = "semOpen" => k <= 3
      BY <1>18, ShapeTells
    <3>2. k \in Int /\ k >= 1
      BY <1>8
    <3> QED
      BY <1>17, <2>1, <3>1, <3>2
  <2>3. ASSUME t[k] = OnSem("semWait", s)
        PROVE  /\ k > 1 /\ t[k - 1].op = "semWait"
               /\ k + 4 <= N + 7 /\ t[k + 4] = OnSem("semPost", s)
               /\ \A j \in 1 .. 3 : t[k + j].op \in {"load", "store", "advance"}
    <3>1. t[k].op = "semWait" /\ t[k].sem = s
      BY <2>1, <2>3, Made
    <3>2. PICK i \in 1 .. N : k = 3 + i
      BY <1>20, <3>1 DEF Middle
    <3>3. PICK r \in 0 .. 6 : r = (i - 1) % 7
      BY <1>9
    <3>4. r = 1 /\ s = me
      BY <1>16, <2>1, <3>1, <3>2, <3>3
    <3>5. PICK h \in 1 .. N : h = i - 1 /\ (h - 1) % 7 = 0
      <4>1. i > 1 /\ ((i - 1) - 1) % 7 = 0
        BY <1>9, <3>3, <3>4
      <4>2. i - 1 \in 1 .. N
        BY <1>8, <4>1
      <4> QED
        BY <4>1, <4>2
    <3>6. t[3 + h].op = "semWait" /\ k > 1 /\ k - 1 = 3 + h
      BY <1>16, <3>2, <3>5
    <3>7. /\ i + 4 <= N
          /\ ((i + 1) - 1) % 7 = 2 /\ ((i + 2) - 1) % 7 = 3
          /\ ((i + 3) - 1) % 7 = 4 /\ ((i + 4) - 1) % 7 = 5
      BY <1>9, <3>3, <3>4
    <3>8. /\ i + 1 \in 1 .. N /\ i + 2 \in 1 .. N /\ i + 3 \in 1 .. N /\ i + 4 \in 1 .. N
          /\ 3 + (i + 1) = k + 1 /\ 3 + (i + 2) = k + 2 /\ 3 + (i + 3) = k + 3
          /\ 3 + (i + 4) = k + 4 /\ k + 4 <= N + 7
      BY <1>8, <3>2, <3>7
    <3>9. t[3 + (i + 1)].op = "load"
      BY <1>16, <3>7, <3>8
    <3>10. t[3 + (i + 2)].op = "store"
      BY <1>16, <3>7, <3>8
    <3>11. t[3 + (i + 3)].op = "advance"
      BY <1>16, <3>7, <3>8
    <3>12. t[3 + (i + 4)] = OnSem("semPost", me)
      BY <1>15, <3>7, <3>8
    <3>13. \A j \in 1 .. 3 : j = 1 \/ j = 2 \/ j = 3
      OBVIOUS
    <3> QED
      BY <3>4, <3>6, <3>8, <3>9, <3>10, <3>11, <3>12, <3>13
  <2>4. ASSUME t[k] = OnSem("semPost", s)
        PROVE  k > 4 /\ t[k - 4] = OnSem("semWait", s)
    <3>1. t[k].op = "semPost" /\ t[k].sem = s
      BY <2>1, <2>4, Made
    <3>2. PICK i \in 1 .. N : k = 3 + i
      BY <1>20, <3>1 DEF Middle
    <3>3. PICK r \in 0 .. 6 : r = (i - 1) % 7
      BY <1>9
    <3>4. r = 5 /\ s = me
      BY <1>16, <2>1, <3>1, <3>2, <3>3
    <3>5. i > 4 /\ ((i - 4) - 1) % 7 = 1
      BY <1>9, <3>3, <3>4
    <3>6. i - 4 \in 1 .. N /\ 3 + (i - 4) = k - 4 /\ k > 4
      BY <1>8, <3>2, <3>5
    <3>7. t[3 + (i - 4)] = OnSem("semWait", me)
      BY <1>15, <3>5, <3>6
    <3> QED
      BY <3>4, <3>6, <3>7
  <2> QED
    BY <2>2, <2>3, <2>4
<1>24. Ends(t)
  BY <1>18, ShapeEnds
<1>25. OpensFirst(t) /\ UsesOpened(t)
  BY <1>18, <1>19, ShapeOpens
<1>26. t \in Seq(Instructions) /\ Len(t) >= 5
  BY <1>8, <1>11
<1>27. Fits(t)
  BY <1>22, <1>23, <1>24, <1>25, <1>26 DEF Fits
<1> QED
  BY <1>4, <1>21, <1>27

\* A worker that works under none.
LEMMA FreeWorker ==
    ASSUME NEW role \in {"prod", "cons"}, NEW from \in {0, 1}, NEW to \in {0, 1},
           NEW rounds \in Nat \ {0},
           NEW opens, IsSeq(opens, Instructions, 2),
           \A k \in 1 .. 2 : opens[k].op = "semOpen",
           opens[1].sem = 0, opens[2].sem = 1,
           NEW text,
           text = opens \o Repeated(Round(role, from, to, <<>>), rounds) \o Ending(<<>>)
    PROVE  Fits(text) /\ Works(text)
<1> DEFINE N == rounds * 5
<1>1. PICK body : body = Round(role, from, to, <<>>)
  OBVIOUS
<1>2. PICK loop : loop = Repeated(body, rounds)
  OBVIOUS
<1>3. PICK ending : ending = Ending(<<>>)
  OBVIOUS
<1>4. PICK u, t : Joins(u, opens, loop) /\ Joins(t, u, ending) /\ text = t
  BY <1>1, <1>2, <1>3 DEF Joins
<1>5. /\ IsSeq(body, Instructions, 5)
      /\ body[1] = OnSem("semWait", from)
      /\ body[2] = Access("load", role) /\ body[3] = Access("store", role)
      /\ body[4] = Access("advance", role)
      /\ body[5] = OnSem("semPost", to)
  BY <1>1, FreeRound
<1>6. /\ IsSeq(loop, Instructions, N)
      /\ \A i \in 1 .. N : loop[i] = body[((i - 1) % 5) + 1]
  BY <1>2, <1>5, Rounds, ZenonT(60)
<1>7. /\ IsSeq(ending, Instructions, 3)
      /\ ending[1] = OnSem("semClose", 0) /\ ending[2] = OnSem("semClose", 1)
      /\ ending[3] = Bare("exit")
  BY <1>3, FreeEnding
<1>8. N \in Nat /\ N >= 5
  OBVIOUS
<1>9. \A i \in 1 .. N :
         /\ (i - 1) % 5 \in 0 .. 4
         /\ (i - 1) % 5 # 0 => i > 1 /\ ((i - 1) - 1) % 5 = ((i - 1) % 5) - 1
  BY FiveSteps
<1> HIDE DEF N
<1>10. /\ IsSeq(t, Instructions, 2 + N + 3)
       /\ PartAt(t, 0, opens, 2) /\ PartAt(t, 2, loop, N) /\ PartAt(t, 2 + N, ending, 3)
  BY <1>4, <1>6, <1>7, ThreeParts
<1>11. t \in Seq(Instructions) /\ Len(t) = N + 5
  BY <1>8, <1>10 DEF IsSeq
<1>12. t[1] = opens[1] /\ t[2] = opens[2]
  BY <1>10 DEF PartAt
<1>13. /\ t[N + 3] = OnSem("semClose", 0) /\ t[N + 4] = OnSem("semClose", 1)
       /\ t[N + 5] = Bare("exit")
  <2>1. t[(2 + N) + 1] = ending[1] /\ t[(2 + N) + 2] = ending[2] /\ t[(2 + N) + 3] = ending[3]
    BY <1>10 DEF PartAt
  <2>2. (2 + N) + 1 = N + 3 /\ (2 + N) + 2 = N + 4 /\ (2 + N) + 3 = N + 5
    BY <1>8
  <2> QED
    BY <1>7, <2>1, <2>2
<1>14. \A i \in 1 .. N : t[2 + i] = body[((i - 1) % 5) + 1]
  BY <1>6, <1>10 DEF PartAt
<1>15. \A i \in 1 .. N :
          /\ t[2 + i].op \in {"semWait", "load", "store", "advance", "semPost"}
          /\ t[2 + i].op \in {"semWait", "semPost"} => t[2 + i].sem \in {0, 1}
          /\ (i - 1) % 5 = 0 => t[2 + i].op = "semWait"
          /\ (i - 1) % 5 = 1 => t[2 + i].op = "load"
          /\ (i - 1) % 5 = 2 => t[2 + i].op = "store"
          /\ (i - 1) % 5 = 3 => t[2 + i].op = "advance"
          /\ (i - 1) % 5 = 4 => t[2 + i].op = "semPost"
  <2> TAKE i \in 1 .. N
  <2>1. PICK r \in 0 .. 4 : r = (i - 1) % 5
    BY <1>9
  <2>2. t[2 + i] = body[r + 1]
    BY <1>14, <2>1
  <2>3. from \in SemNum /\ to \in SemNum
    BY Constants
  <2>4. CASE r = 0
    BY <1>5, <2>1, <2>2, <2>3, <2>4, Made
  <2>5. CASE r = 1
    BY <1>5, <2>1, <2>2, <2>5, Made
  <2>6. CASE r = 2
    BY <1>5, <2>1, <2>2, <2>6, Made
  <2>7. CASE r = 3
    BY <1>5, <2>1, <2>2, <2>7, Made
  <2>8. CASE r = 4
    BY <1>5, <2>1, <2>2, <2>3, <2>8, Made
  <2> QED
    BY <2>4, <2>5, <2>6, <2>7, <2>8
<1>16. /\ t[1].op = "semOpen" /\ t[2].op = "semOpen" /\ t[1].sem = 0 /\ t[2].sem = 1
       /\ t[N + 3].op = "semClose" /\ t[N + 4].op = "semClose"
       /\ t[N + 3].sem = 0 /\ t[N + 4].sem = 1
       /\ t[N + 5].op = "exit"
  <2>1. opens[1].op = "semOpen" /\ opens[2].op = "semOpen"
    OBVIOUS
  <2> QED
    BY <1>12, <1>13, <2>1, Made, Constants
<1>17. Shape(t, 2, N + 3, N + 5)
  <2>1. Ops(t, 1, 2, {"semOpen"})
    BY <1>16 DEF Ops
  <2>2. Ops(t, 2 + 1, (N + 3) - 1, Middle)
    <3> SUFFICES ASSUME NEW k \in 2 + 1 .. (N + 3) - 1
                 PROVE  t[k].op \in Middle
      BY DEF Ops
    <3>1. PICK i \in 1 .. N : k = 2 + i
      <4>1. k - 2 \in 1 .. N /\ k = 2 + (k - 2)
        BY <1>8
      <4> QED
        BY <4>1
    <3> QED
      BY <1>15, <3>1 DEF Middle
  <2>3. Ops(t, N + 3, (N + 5) - 1, {"semClose"})
    <3>1. \A k \in N + 3 .. (N + 5) - 1 : k = N + 3 \/ k = N + 4
      BY <1>8
    <3> QED
      BY <1>16, <3>1 DEF Ops
  <2>4. Ops(t, N + 5, N + 5, {"exit", "shutdown"})
    BY <1>8, <1>16 DEF Ops
  <2> QED
    BY <1>8, <1>11, <2>1, <2>2, <2>3, <2>4 DEF Shape
<1>18. \A k \in 1 .. N + 5 : t[k].op \in Middle => \E i \in 1 .. N : k = 2 + i
  <2> SUFFICES ASSUME NEW k \in 1 .. N + 5, t[k].op \in Middle
               PROVE  \E i \in 1 .. N : k = 2 + i
    OBVIOUS
  <2>1. 2 < k /\ k < N + 3
    BY <1>17, ShapeTells
  <2>2. k - 2 \in 1 .. N /\ k = 2 + (k - 2)
    BY <1>8, <2>1
  <2> QED
    BY <2>2
<1>19. \A k \in 1 .. N + 5 :
          t[k].op \in {"semClose", "semWait", "semPost"} => t[k].sem \in {0, 1}
  <2> SUFFICES ASSUME NEW k \in 1 .. N + 5, t[k].op \in {"semClose", "semWait", "semPost"}
               PROVE  t[k].sem \in {0, 1}
    OBVIOUS
  <2>1. CASE t[k].op = "semClose"
    <3>1. N + 3 <= k /\ k < N + 5
      BY <1>17, <2>1, ShapeTells
    <3>2. k = N + 3 \/ k = N + 4
      BY <1>8, <3>1
    <3> QED
      BY <1>16, <3>2
  <2>2. CASE t[k].op \in {"semWait", "semPost"}
    <3>1. PICK i \in 1 .. N : k = 2 + i
      BY <1>18, <2>2 DEF Middle
    <3> QED
      BY <1>15, <2>2, <3>1
  <2> QED
    BY <2>1, <2>2
<1>20. Names(t, 2, N + 3, N + 5)
  <2>1. \A j, k \in 1 .. 2 : t[j].sem = t[k].sem => j = k
    BY <1>16
  <2>2. ASSUME NEW k \in 2 + 1 .. (N + 5) - 1, t[k].op \in {"semClose", "semWait", "semPost"}
        PROVE  t[k].sem \in {0, 1}
    BY <1>8, <1>19, <2>2
  <2> QED
    BY <1>16, <2>1, <2>2 DEF Names
<1>21. Works(t)
  <2> SUFFICES ASSUME NEW k \in 1 .. N + 5, t[k].op \in {"spawn", "wait"}
               PROVE  FALSE
    BY <1>11 DEF Works
  <2>1. PICK i \in 1 .. N : k = 2 + i
    BY <1>18 DEF Middle
  <2> QED
    BY <1>15, <2>1
<1>22. Reads(t)
  <2> SUFFICES ASSUME NEW k \in 1 .. N + 5, t[k].op \in {"store", "advance"}
               PROVE  k > 1 /\ t[k - 1].op \in {"load", "store"}
    BY <1>11 DEF Reads
  <2>1. PICK i \in 1 .. N : k = 2 + i
    BY <1>18 DEF Middle
  <2>2. PICK r \in 0 .. 4 : r = (i - 1) % 5
    BY <1>9
  <2>3. r \in {2, 3}
    BY <1>15, <2>1, <2>2
  <2>4. PICK h \in 1 .. N : h = i - 1 /\ (h - 1) % 5 = r - 1
    <3>1. i > 1 /\ ((i - 1) - 1) % 5 = r - 1
      BY <1>9, <2>2, <2>3
    <3>2. i - 1 \in 1 .. N
      BY <1>8, <3>1
    <3> QED
      BY <3>1, <3>2
  <2>5. t[2 + h].op \in {"load", "store"}
    BY <1>15, <2>3, <2>4
  <2>6. k > 1 /\ k - 1 = 2 + h
    BY <2>1, <2>4
  <2> QED
    BY <2>5, <2>6
<1>23. Guards(t)
  <2> SUFFICES ASSUME NEW s \in Mutexes, NEW k \in 1 .. N + 5
               PROVE  /\ ~(t[k].op = "semOpen" /\ t[k].sem = s)
                      /\ t[k] # OnSem("semWait", s) /\ t[k] # OnSem("semPost", s)
    BY <1>11 DEF Guards
  <2>1. s \in SemNum /\ s # 0 /\ s # 1
    BY Constants DEF Mutexes
  <2>2. t[k].op = "semOpen" => k = 1 \/ k = 2
    <3>1. t[k].op = "semOpen" => k <= 2
      BY <1>17, ShapeTells
    <3>2. k \in Int /\ k >= 1
      BY <1>8
    <3> QED
      BY <3>1, <3>2
  <2>3. t[k] = OnSem("semWait", s) => t[k].op = "semWait" /\ t[k].sem = s
    BY <2>1, Made
  <2>4. t[k] = OnSem("semPost", s) => t[k].op = "semPost" /\ t[k].sem = s
    BY <2>1, Made
  <2> QED
    BY <1>16, <1>19, <2>1, <2>2, <2>3, <2>4
<1>24. Ends(t)
  BY <1>17, ShapeEnds
<1>25. OpensFirst(t) /\ UsesOpened(t)
  BY <1>17, <1>20, ShapeOpens
<1>26. t \in Seq(Instructions) /\ Len(t) >= 5
  BY <1>8, <1>11
<1>27. Fits(t)
  BY <1>22, <1>23, <1>24, <1>25, <1>26 DEF Fits
<1> QED
  BY <1>4, <1>21, <1>27

\* What a father does once, he does as often as he has workers.
LEMMA ShortRounds ==
    ASSUME NEW S, NEW body, NEW length \in {1, 2}, IsSeq(body, S, length), NEW rounds \in Nat
    PROVE  IsSeq(Repeated(body, rounds), S, rounds * length)
<1>1. rounds * length \in Nat /\ body \in Seq(S) /\ Len(body) = length
  BY DEF IsSeq
<1>2. \A i \in 1 .. rounds * length : ((i - 1) % length) + 1 \in 1 .. length
  OBVIOUS
<1>3. \A j \in 1 .. length : body[j] \in S
  BY <1>1
<1>4. \A i \in 1 .. rounds * length : body[((i - 1) % length) + 1] \in S
  BY <1>2, <1>3
<1>5. Repeated(body, rounds) = [i \in 1 .. rounds * length |-> body[((i - 1) % length) + 1]]
  BY <1>1 DEF Repeated
<1> QED
  BY <1>1, <1>4, <1>5 DEF IsSeq

\* The six functions of OurTest.c.
LEMMA Opened ==
    ASSUME NEW s \in SemNum, NEW v \in InitialValues, NEW k \in SemNum, NEW w \in InitialValues,
           NEW c \in SemNum, NEW both, both = <<OpenChecking(s, v, s), OpenChecking(k, w, c)>>
    PROVE  /\ IsSeq(both, Instructions, 2)
           /\ both[1] = OpenChecking(s, v, s) /\ both[2] = OpenChecking(k, w, c)
           /\ both[1].op = "semOpen" /\ both[2].op = "semOpen"
           /\ both[1].sem = s /\ both[2].sem = k /\ both[1].checked = s /\ both[2].checked = c
           /\ both[2].value = w
<1>1. PICK a \in Instructions, b \in Instructions :
         a = OpenChecking(s, v, s) /\ b = OpenChecking(k, w, c)
  BY Made
<1>2. both = <<a, b>>
  BY <1>1
<1>3. IsSeq(both, Instructions, 2) /\ both[1] = a /\ both[2] = b
  BY <1>2 DEF IsSeq
<1> QED
  BY <1>1, <1>3, Made

LEMMA OpenedBoth ==
    /\ \A both \in {OpenBoth, OpenBothLax} :
          /\ IsSeq(both, Instructions, 2)
          /\ \A k \in 1 .. 2 : both[k].op = "semOpen"
          /\ both[1].sem = 0 /\ both[2].sem = 1
    /\ OpenBoth[1].checked = 0 /\ OpenBoth[2].checked = 1
<1>1. \A k \in 1 .. 2 : k = 1 \/ k = 2
  OBVIOUS
<1>2. PICK both : both = OpenBoth
  OBVIOUS
<1>3. /\ IsSeq(both, Instructions, 2)
      /\ both[1].op = "semOpen" /\ both[2].op = "semOpen"
      /\ both[1].sem = 0 /\ both[2].sem = 1 /\ both[1].checked = 0 /\ both[2].checked = 1
  <2>1. both = <<OpenChecking(0, 0, 0), OpenChecking(1, BUFFER_LENGTH, 1)>>
    BY <1>2, Constants DEF OpenBoth, Open
  <2> QED
    BY <2>1, Opened, Constants
<1>4. PICK lax : lax = OpenBothLax
  OBVIOUS
<1>5. /\ IsSeq(lax, Instructions, 2)
      /\ lax[1].op = "semOpen" /\ lax[2].op = "semOpen" /\ lax[1].sem = 0 /\ lax[2].sem = 1
  <2>1. lax = <<OpenChecking(0, 0, 0), OpenChecking(1, BUFFER_LENGTH, 0)>>
    BY <1>4, Constants DEF OpenBothLax, Open
  <2> QED
    BY <2>1, Opened, Constants
<1> QED
  BY <1>1, <1>2, <1>3, <1>4, <1>5

\* Two opens and a third.
OpensTwo(t) ==
    /\ IsSeq(t, Instructions, 2) /\ \A k \in 1 .. 2 : t[k].op = "semOpen"
    /\ t[1].sem = 0 /\ t[2].sem = 1
OpensThree(t, me) ==
    /\ IsSeq(t, Instructions, 3) /\ \A k \in 1 .. 3 : t[k].op = "semOpen"
    /\ t[1].sem = 0 /\ t[2].sem = 1 /\ t[3].sem = me /\ t[3].value = 1

LEMMA ThirdOpened ==
    ASSUME NEW both, OpensTwo(both), NEW me \in Mutexes, NEW c \in SemNum,
           NEW opens, Joins(opens, both, <<OpenChecking(me, 1, c)>>)
    PROVE  OpensThree(opens, me)
<1>1. PICK a \in Instructions : a = OpenChecking(me, 1, c)
  BY Made, Constants DEF Mutexes
<1>2. a.op = "semOpen" /\ a.sem = me /\ a.value = 1
  BY <1>1, Made, Constants DEF Mutexes
<1>3. Joins(opens, both, <<a>>)
  BY <1>1
<1>4. IsSeq(<<a>>, Instructions, 1)
  BY One
<1>5. IsSeq(both, Instructions, 2)
  BY DEF OpensTwo
<1>6. IsSeq(opens, Instructions, 2 + 1) /\ PartAt(opens, 0, both, 2) /\ PartAt(opens, 2, <<a>>, 1)
  BY <1>3, <1>4, <1>5, TwoParts
<1>7. opens[1] = both[1] /\ opens[2] = both[2] /\ opens[3] = a
  BY <1>6 DEF PartAt
<1>8. \A k \in 1 .. 3 : k = 1 \/ k = 2 \/ k = 3
  OBVIOUS
<1>9. both[1].op = "semOpen" /\ both[2].op = "semOpen" /\ both[1].sem = 0 /\ both[2].sem = 1
  BY DEF OpensTwo
<1>10. IsSeq(opens, Instructions, 3)
  BY <1>6
<1> QED
  BY <1>2, <1>7, <1>8, <1>9, <1>10 DEF OpensThree

LEMMA WorkersFit ==
    ASSUME NEW howmany \in HowMany
    PROVE  /\ Fits(ProdFunction) /\ Works(ProdFunction)
           /\ Fits(ConsFunction) /\ Works(ConsFunction)
           /\ Fits(ProdFunction2) /\ Works(ProdFunction2)
           /\ Fits(ConsFunction2) /\ Works(ConsFunction2)
           /\ Fits(ProdSingleFunction(howmany)) /\ Works(ProdSingleFunction(howmany))
           /\ Fits(ConsSingleFunction(howmany)) /\ Works(ConsSingleFunction(howmany))
<1>1. /\ SEMNUM_EMPTY = 1 /\ SEMNUM_FILL = 0 /\ SEMNUM_ME1 = 2 /\ SEMNUM_ME2 = 3
      /\ 2 \in Mutexes /\ 3 \in Mutexes /\ 0 \in SemNum /\ 2 \in SemNum /\ 3 \in SemNum
  BY Constants DEF Mutexes
<1>2. PICK rounds \in Nat \ {0} : rounds = ITERATIONS
  BY TestsAssumption
<1>3. PICK many \in Nat \ {0} : many = ITERATIONS * Longer
  BY TestsAssumption
<1>4. PICK all \in Nat \ {0} : all = ITERATIONS * howmany
  BY TestsAssumption
<1>5. PICK both : both = OpenBoth
  OBVIOUS
<1>6. PICK lax : lax = OpenBothLax
  OBVIOUS
<1>7. /\ IsSeq(both, Instructions, 2) /\ \A k \in 1 .. 2 : both[k].op = "semOpen"
      /\ both[1].sem = 0 /\ both[2].sem = 1
  BY <1>5, OpenedBoth
<1>8. /\ IsSeq(lax, Instructions, 2) /\ \A k \in 1 .. 2 : lax[k].op = "semOpen"
      /\ lax[1].sem = 0 /\ lax[2].sem = 1
  BY <1>6, OpenedBoth
<1>9. Fits(ProdFunction) /\ Works(ProdFunction)
  <2>1. PICK opens : Joins(opens, lax, <<OpenChecking(2, 1, 0)>>)
    BY DEF Joins
  <2>2. /\ IsSeq(opens, Instructions, 3) /\ \A k \in 1 .. 3 : opens[k].op = "semOpen"
        /\ opens[1].sem = 0 /\ opens[2].sem = 1 /\ opens[3].sem = 2 /\ opens[3].value = 1
    <3>1. OpensTwo(lax)
      BY <1>8 DEF OpensTwo
    <3>2. OpensThree(opens, 2)
      BY <1>1, <2>1, <3>1, ThirdOpened
    <3> QED
      BY <3>2 DEF OpensThree
  <2>3. PICK text : text = opens \o Repeated(Round("prod", 1, 0, <<2>>), rounds) \o Ending(<<2>>)
    OBVIOUS
  <2>4. Fits(text) /\ Works(text)
    BY <1>1, <2>2, <2>3, GuardedWorker
  <2>5. ProdFunction = text
    BY <1>1, <1>2, <1>6, <2>1, <2>3 DEF ProdFunction, Producer, Joins
  <2> QED
    BY <2>4, <2>5
<1>10. Fits(ConsFunction) /\ Works(ConsFunction)
  <2>1. PICK opens : Joins(opens, both, <<OpenChecking(3, 1, 3)>>)
    BY DEF Joins
  <2>2. /\ IsSeq(opens, Instructions, 3) /\ \A k \in 1 .. 3 : opens[k].op = "semOpen"
        /\ opens[1].sem = 0 /\ opens[2].sem = 1 /\ opens[3].sem = 3 /\ opens[3].value = 1
    <3>1. OpensTwo(both)
      BY <1>7 DEF OpensTwo
    <3>2. OpensThree(opens, 3)
      BY <1>1, <2>1, <3>1, ThirdOpened
    <3> QED
      BY <3>2 DEF OpensThree
  <2>3. PICK text : text = opens \o Repeated(Round("cons", 0, 1, <<3>>), rounds) \o Ending(<<3>>)
    OBVIOUS
  <2>4. Fits(text) /\ Works(text)
    BY <1>1, <2>2, <2>3, GuardedWorker
  <2>5. ConsFunction = text
    BY <1>1, <1>2, <1>5, <2>1, <2>3 DEF ConsFunction, Consumer, Open, Joins
  <2> QED
    BY <2>4, <2>5
<1>11. Fits(ProdFunction2) /\ Works(ProdFunction2)
  <2>1. PICK text : text = both \o Repeated(Round("prod", 1, 0, <<>>), many) \o Ending(<<>>)
    OBVIOUS
  <2>2. Fits(text) /\ Works(text)
    BY <1>7, <2>1, FreeWorker
  <2>3. ProdFunction2 = text
    BY <1>1, <1>3, <1>5, <2>1 DEF ProdFunction2, Producer
  <2> QED
    BY <2>2, <2>3
<1>12. Fits(ConsFunction2) /\ Works(ConsFunction2)
  <2>1. PICK text : text = both \o Repeated(Round("cons", 0, 1, <<>>), many) \o Ending(<<>>)
    OBVIOUS
  <2>2. Fits(text) /\ Works(text)
    BY <1>7, <2>1, FreeWorker
  <2>3. ConsFunction2 = text
    BY <1>1, <1>3, <1>5, <2>1 DEF ConsFunction2, Consumer
  <2> QED
    BY <2>2, <2>3
<1>13. Fits(ProdSingleFunction(howmany)) /\ Works(ProdSingleFunction(howmany))
  <2>1. PICK text : text = lax \o Repeated(Round("prod", 1, 0, <<>>), all) \o Ending(<<>>)
    OBVIOUS
  <2>2. Fits(text) /\ Works(text)
    BY <1>8, <2>1, FreeWorker
  <2>3. ProdSingleFunction(howmany) = text
    BY <1>1, <1>4, <1>6, <2>1 DEF ProdSingleFunction, Producer
  <2> QED
    BY <2>2, <2>3
<1>14. Fits(ConsSingleFunction(howmany)) /\ Works(ConsSingleFunction(howmany))
  <2>1. PICK text : text = both \o Repeated(Round("cons", 0, 1, <<>>), all) \o Ending(<<>>)
    OBVIOUS
  <2>2. Fits(text) /\ Works(text)
    BY <1>7, <2>1, FreeWorker
  <2>3. ConsSingleFunction(howmany) = text
    BY <1>1, <1>4, <1>5, <2>1 DEF ConsSingleFunction, Consumer
  <2> QED
    BY <2>2, <2>3
<1> QED
  BY <1>9, <1>10, <1>11, <1>12, <1>13, <1>14

\* What the father of a test spawns.
Children == {SpawnOf(f) : f \in Workers}

LEMMA ChildrenAre ==
    /\ \A f \in Workers : SpawnOf(f) \in Children
    /\ \A c \in Children : c \in Instructions /\ c.op = "spawn" /\ c.function \in Workers
BY Made DEF Children, SpawnOf

LEMMA SpawnsAre ==
    ASSUME NEW kind \in 1 .. 4, NEW howmany \in Nat
    PROVE  \E l \in Nat : IsSeq(Spawns(kind, howmany), Children, l)
<1>1. PICK a \in Children, b \in Children, c \in Children, d \in Children,
           e \in Children, f \in Children :
         /\ a = SpawnOf("ProdFunction") /\ b = SpawnOf("ConsFunction")
         /\ c = SpawnOf("ProdFunction2") /\ d = SpawnOf("ConsFunction2")
         /\ e = SpawnOf("ProdSingleFunction") /\ f = SpawnOf("ConsSingleFunction")
  BY ChildrenAre DEF Workers
<1>2. CASE kind = 1
  <2>1. Spawns(kind, howmany) = <<c, d>>
    BY <1>1, <1>2 DEF Spawns
  <2>2. IsSeq(<<c, d>>, Children, 2)
    BY DEF IsSeq
  <2> QED
    BY <2>1, <2>2
<1>3. CASE kind = 2
  <2>1. PICK body : body = <<a, b>>
    OBVIOUS
  <2>2. Spawns(kind, howmany) = Repeated(body, howmany)
    BY <1>1, <1>3, <2>1 DEF Spawns
  <2>3. IsSeq(body, Children, 2)
    BY <2>1 DEF IsSeq
  <2>4. IsSeq(Repeated(body, howmany), Children, howmany * 2)
    BY <2>3, ShortRounds
  <2>5. howmany * 2 \in Nat
    OBVIOUS
  <2> QED
    BY <2>2, <2>4, <2>5
<1>4. ASSUME NEW x \in Children, NEW y \in Children,
             Spawns(kind, howmany) = Repeated(<<x>>, howmany) \o <<y>>
      PROVE  \E l \in Nat : IsSeq(Spawns(kind, howmany), Children, l)
  <2>1. IsSeq(<<x>>, Children, 1) /\ IsSeq(<<y>>, Children, 1)
    BY One
  <2>2. PICK many : many = Repeated(<<x>>, howmany)
    OBVIOUS
  <2>3. IsSeq(many, Children, howmany * 1)
    BY <2>1, <2>2, ShortRounds
  <2>4. PICK whole : whole = Spawns(kind, howmany)
    OBVIOUS
  <2>5. Joins(whole, many, <<y>>)
    BY <1>4, <2>2, <2>4 DEF Joins
  <2>6. IsSeq(whole, Children, howmany * 1 + 1)
    BY <2>1, <2>3, <2>5, TwoParts
  <2>7. howmany * 1 + 1 \in Nat
    OBVIOUS
  <2> QED
    BY <2>4, <2>6, <2>7
<1>5. CASE kind = 3
  <2>1. Spawns(kind, howmany) = Repeated(<<a>>, howmany) \o <<f>>
    BY <1>1, <1>5 DEF Spawns
  <2> QED
    BY <1>4, <2>1
<1>6. CASE kind = 4
  <2>1. Spawns(kind, howmany) = Repeated(<<b>>, howmany) \o <<e>>
    BY <1>1, <1>6 DEF Spawns
  <2> QED
    BY <1>4, <2>1
<1> QED
  BY <1>2, <1>3, <1>5, <1>6

\* A father opens the four semaphores, and he spawns before he waits.
FatherText(t) ==
    /\ \A k \in 1 .. 4 : t[k].op = "semOpen" /\ t[k].sem = k - 1 /\ t[k].checked = k - 1
    /\ \A k \in 1 .. Len(t) :
          /\ t[k].op \in {"spawn", "wait"} => k > 1 /\ t[k - 1].op \in {"semOpen", "spawn", "wait"}
          /\ t[k].op = "spawn" => k > 1 /\ t[k - 1].op \in {"semOpen", "spawn"}

OpensAll(t) == t = OpenBoth \o <<Open(SEMNUM_ME1, 1), Open(SEMNUM_ME2, 1)>>

LEMMA FatherOpens ==
    ASSUME NEW opens, OpensAll(opens)
    PROVE  /\ IsSeq(opens, Instructions, 4)
           /\ \A k \in 1 .. 4 : opens[k].op = "semOpen" /\ opens[k].sem = k - 1 /\ opens[k].checked = k - 1
           /\ opens[3].value = 1 /\ opens[4].value = 1
<1>1. PICK two : two = <<OpenChecking(2, 1, 2), OpenChecking(3, 1, 3)>>
  OBVIOUS
<1>2. /\ IsSeq(two, Instructions, 2) /\ two[1] = OpenChecking(2, 1, 2)
      /\ two[1].op = "semOpen" /\ two[2].op = "semOpen" /\ two[1].sem = 2 /\ two[2].sem = 3
      /\ two[1].checked = 2 /\ two[2].checked = 3 /\ two[2].value = 1
  BY <1>1, Opened, Constants
<1>3. two[1].value = 1
  BY <1>2, Made, Constants
<1>4. PICK both : both = OpenBoth
  OBVIOUS
<1>5. /\ IsSeq(both, Instructions, 2) /\ both[1].op = "semOpen" /\ both[2].op = "semOpen"
      /\ both[1].sem = 0 /\ both[2].sem = 1 /\ both[1].checked = 0 /\ both[2].checked = 1
  <2>1. \A k \in 1 .. 2 : both[k].op = "semOpen"
    BY <1>4, OpenedBoth
  <2> QED
    BY <1>4, <2>1, OpenedBoth
<1>6. Joins(opens, both, two)
  BY <1>1, <1>4, Constants DEF Joins, Open, OpensAll
<1>7. IsSeq(both, Instructions, 2) /\ IsSeq(two, Instructions, 2)
  BY <1>2, <1>5
<1>8. IsSeq(opens, Instructions, 2 + 2) /\ PartAt(opens, 0, both, 2) /\ PartAt(opens, 2, two, 2)
  BY <1>6, <1>7, TwoParts
<1>9. opens[0 + 1] = both[1] /\ opens[0 + 2] = both[2] /\ opens[2 + 1] = two[1] /\ opens[2 + 2] = two[2]
  BY <1>8 DEF PartAt
<1>10. /\ opens[1] = both[1] /\ opens[2] = both[2] /\ opens[3] = two[1] /\ opens[4] = two[2]
  BY <1>9
<1>11. /\ opens[1].op = "semOpen" /\ opens[1].sem = 0 /\ opens[1].checked = 0
       /\ opens[2].op = "semOpen" /\ opens[2].sem = 1 /\ opens[2].checked = 1
       /\ opens[3].op = "semOpen" /\ opens[3].sem = 2 /\ opens[3].checked = 2
       /\ opens[4].op = "semOpen" /\ opens[4].sem = 3 /\ opens[4].checked = 3
       /\ opens[3].value = 1 /\ opens[4].value = 1
  BY <1>2, <1>3, <1>5, <1>10
<1>12. \A k \in 1 .. 4 : (k = 1 \/ k = 2 \/ k = 3 \/ k = 4) /\ k \in Int
  OBVIOUS
<1>13. \A k \in 1 .. 4 : opens[k].op = "semOpen" /\ opens[k].sem = k - 1 /\ opens[k].checked = k - 1
  BY <1>11, <1>12
<1>14. IsSeq(opens, Instructions, 4)
  BY <1>8
<1> QED
  BY <1>11, <1>13, <1>14

\* The father of a number that is no test opens and shuts down.
LEMMA IdleFather ==
    ASSUME NEW kind, kind \notin 1 .. 4, NEW howmany
    PROVE  Fits(initFunction(kind, howmany)) /\ FatherText(initFunction(kind, howmany))
<1>1. PICK opens : OpensAll(opens)
  BY DEF OpensAll
<1>2. /\ IsSeq(opens, Instructions, 4)
      /\ \A k \in 1 .. 4 : opens[k].op = "semOpen" /\ opens[k].sem = k - 1 /\ opens[k].checked = k - 1
      /\ opens[3].value = 1 /\ opens[4].value = 1
  BY <1>1, FatherOpens
<1>3. PICK z \in Instructions : z = Bare("shutdown") /\ z.op = "shutdown"
  BY Made
<1>4. PICK t : Joins(t, opens, <<z>>)
  BY DEF Joins
<1>5. initFunction(kind, howmany) = t
  BY <1>1, <1>3, <1>4 DEF initFunction, Joins, OpensAll
<1>6. /\ IsSeq(t, Instructions, 4 + 1) /\ PartAt(t, 0, opens, 4) /\ PartAt(t, 4, <<z>>, 1)
  BY <1>2, <1>3, <1>4, One, TwoParts
<1>7. t \in Seq(Instructions) /\ Len(t) = 5
  BY <1>6 DEF IsSeq
<1>8. /\ t[1] = opens[1] /\ t[2] = opens[2] /\ t[3] = opens[3] /\ t[4] = opens[4] /\ t[5] = z
  BY <1>6 DEF PartAt
<1>9. /\ t[1].op = "semOpen" /\ t[2].op = "semOpen" /\ t[3].op = "semOpen" /\ t[4].op = "semOpen"
      /\ t[1].sem = 0 /\ t[2].sem = 1 /\ t[3].sem = 2 /\ t[4].sem = 3
      /\ t[1].checked = 0 /\ t[2].checked = 1 /\ t[3].checked = 2 /\ t[4].checked = 3
      /\ t[3].value = 1 /\ t[4].value = 1 /\ t[5].op = "shutdown"
  BY <1>2, <1>3, <1>8
<1>10. \A k \in 1 .. 5 : k = 1 \/ k = 2 \/ k = 3 \/ k = 4 \/ k = 5
  OBVIOUS
<1>11. Ends(t) /\ Reads(t)
  BY <1>7, <1>9, <1>10 DEF Ends, Reads
<1>12. OpensFirst(t) /\ UsesOpened(t)
  BY <1>7, <1>9, <1>10 DEF OpensFirst, UsesOpened
<1>13. Guards(t)
  <2> SUFFICES ASSUME NEW s \in Mutexes, NEW k \in 1 .. 5
               PROVE  /\ t[k].op = "semOpen" /\ t[k].sem = s => k >= 3 /\ t[k].value = 1
                      /\ t[k] # OnSem("semWait", s) /\ t[k] # OnSem("semPost", s)
    BY <1>7 DEF Guards
  <2>1. s = 2 \/ s = 3
    BY Constants DEF Mutexes
  <2>2. /\ t[k] = OnSem("semWait", s) => t[k].op = "semWait"
        /\ t[k] = OnSem("semPost", s) => t[k].op = "semPost"
    BY <2>1, Made, Constants
  <2> QED
    BY <1>9, <1>10, <2>1, <2>2
<1>14. FatherText(t)
  <2>1. \A k \in 1 .. 4 : t[k].op = "semOpen" /\ t[k].sem = k - 1 /\ t[k].checked = k - 1
    BY <1>2, <1>8
  <2>2. \A k \in 1 .. Len(t) : t[k].op \notin {"spawn", "wait"}
    BY <1>7, <1>9, <1>10
  <2> QED
    BY <2>1, <2>2 DEF FatherText
<1> QED
  BY <1>5, <1>7, <1>11, <1>12, <1>13, <1>14 DEF Fits

LEMMA Wider ==
    ASSUME NEW S, NEW T, S \subseteq T, NEW a, NEW m, IsSeq(a, S, m)
    PROVE  IsSeq(a, T, m) /\ \A k \in 1 .. m : a[k] \in S
BY DEF IsSeq

ClosesAll(t) == t = ForEach("semClose", <<SEMNUM_FILL, SEMNUM_EMPTY, SEMNUM_ME1, SEMNUM_ME2>>)

LEMMA FatherCloses ==
    ASSUME NEW closes, ClosesAll(closes)
    PROVE  /\ IsSeq(closes, Instructions, 4)
           /\ \A k \in 1 .. 4 : closes[k].op = "semClose" /\ closes[k].sem = k - 1
<1>1. PICK sems : sems = <<0, 1, 2, 3>>
  OBVIOUS
<1>2. DOMAIN sems = 1 .. 4 /\ \A k \in 1 .. 4 : sems[k] = k - 1
  BY <1>1
<1>3. closes = ForEach("semClose", sems)
  BY <1>1, Constants DEF ClosesAll
<1>4. \A k \in 1 .. 4 : k - 1 \in SemNum
  <2>1. \A k \in 1 .. 4 : k - 1 \in {0, 1, 2, 3}
    OBVIOUS
  <2> QED
    BY <2>1, Constants
<1>5. closes = [k \in 1 .. 4 |-> OnSem("semClose", sems[k])]
  BY <1>2, <1>3 DEF ForEach
<1>6. \A k \in 1 .. 4 : closes[k] = OnSem("semClose", k - 1)
  BY <1>2, <1>5
<1>7. \A k \in 1 .. 4 : OnSem("semClose", k - 1) \in Instructions
  BY <1>4, Made
<1>8. \A k \in 1 .. 4 : OnSem("semClose", k - 1).op = "semClose" /\ OnSem("semClose", k - 1).sem = k - 1
  BY <1>4, Made
<1>9. closes = [k \in 1 .. 4 |-> OnSem("semClose", k - 1)]
  BY <1>2, <1>5
<1>10. IsSeq(closes, Instructions, 4)
  BY <1>7, <1>9 DEF IsSeq
<1> QED
  BY <1>6, <1>8, <1>10

\* The father of a test.
LEMMA BusyFather ==
    ASSUME NEW kind \in 1 .. 4, NEW howmany \in Nat
    PROVE  Fits(initFunction(kind, howmany)) /\ FatherText(initFunction(kind, howmany))
<1>1. PICK opens : OpensAll(opens)
  BY DEF OpensAll
<1>2. /\ IsSeq(opens, Instructions, 4)
      /\ \A k \in 1 .. 4 : opens[k].op = "semOpen" /\ opens[k].sem = k - 1 /\ opens[k].checked = k - 1
      /\ opens[3].value = 1 /\ opens[4].value = 1
  BY <1>1, FatherOpens
<1>3. PICK spawns : spawns = Spawns(kind, howmany)
  OBVIOUS
<1>4. PICK l \in Nat : IsSeq(spawns, Children, l)
  BY <1>3, SpawnsAre
<1>5. IsSeq(spawns, Instructions, l) /\ \A k \in 1 .. l : spawns[k].op = "spawn"
  <2>1. Children \subseteq Instructions
    BY ChildrenAre
  <2>2. IsSeq(spawns, Instructions, l) /\ \A k \in 1 .. l : spawns[k] \in Children
    BY <1>4, <2>1, Wider
  <2> QED
    BY <2>2, ChildrenAre
<1>6. PICK w \in Instructions : w = Bare("wait") /\ w.op = "wait"
  BY Made
<1>7. PICK waits : waits = Repeated(<<w>>, l)
  OBVIOUS
<1>8. IsSeq(waits, Instructions, l) /\ \A k \in 1 .. l : waits[k].op = "wait"
  <2>1. IsSeq(<<w>>, {w}, 1)
    BY One
  <2>2. IsSeq(waits, {w}, l * 1)
    BY <1>7, <2>1, ShortRounds
  <2>3. IsSeq(waits, {w}, l)
    BY <2>2
  <2>4. {w} \subseteq Instructions
    OBVIOUS
  <2>5. IsSeq(waits, Instructions, l) /\ \A k \in 1 .. l : waits[k] \in {w}
    BY <2>3, <2>4, Wider
  <2> QED
    BY <1>6, <2>5
<1>9. PICK closes : ClosesAll(closes)
  BY DEF ClosesAll
<1>10. /\ IsSeq(closes, Instructions, 4)
       /\ \A k \in 1 .. 4 : closes[k].op = "semClose" /\ closes[k].sem = k - 1
  BY <1>9, FatherCloses
<1>11. PICK z \in Instructions : z = Bare("shutdown") /\ z.op = "shutdown"
  BY Made
<1>12. PICK u, v, x, t :
          /\ Joins(u, opens, spawns) /\ Joins(v, u, waits) /\ Joins(x, v, closes) /\ Joins(t, x, <<z>>)
          /\ initFunction(kind, howmany) = t
  <2>1. Len(spawns) = l
    BY <1>4 DEF IsSeq
  <2> QED
    BY <1>1, <1>3, <1>6, <1>7, <1>9, <1>11, <2>1 DEF initFunction, Joins, OpensAll, ClosesAll
<1>13. IsSeq(u, Instructions, 4 + l) /\ PartAt(u, 0, opens, 4) /\ PartAt(u, 4, spawns, l)
  BY <1>2, <1>5, <1>12, TwoParts
<1>14. /\ IsSeq(v, Instructions, (4 + l) + l)
       /\ PartAt(v, 0, u, 4 + l) /\ PartAt(v, 4 + l, waits, l)
  <2>1. IsSeq(u, Instructions, 4 + l) /\ IsSeq(waits, Instructions, l)
    BY <1>8, <1>13
  <2> QED
    BY <1>12, <2>1, TwoParts
<1>15. /\ IsSeq(x, Instructions, ((4 + l) + l) + 4)
       /\ PartAt(x, 0, v, (4 + l) + l) /\ PartAt(x, (4 + l) + l, closes, 4)
  <2>1. PICK m, f : m = (4 + l) + l /\ f = 4
    OBVIOUS
  <2>2. IsSeq(v, Instructions, m) /\ IsSeq(closes, Instructions, f) /\ Joins(x, v, closes)
    BY <1>10, <1>12, <1>14, <2>1
  <2>3. IsSeq(x, Instructions, m + f) /\ PartAt(x, 0, v, m) /\ PartAt(x, m, closes, f)
    BY <2>2, TwoParts
  <2> QED
    BY <2>1, <2>3
<1>16. /\ IsSeq(t, Instructions, (((4 + l) + l) + 4) + 1)
       /\ PartAt(t, 0, x, ((4 + l) + l) + 4) /\ PartAt(t, ((4 + l) + l) + 4, <<z>>, 1)
  <2>1. IsSeq(<<z>>, Instructions, 1)
    BY One
  <2> QED
    BY <1>12, <1>15, <2>1, TwoParts
<1>17. t \in Seq(Instructions) /\ Len(t) = 9 + l + l
  BY <1>16 DEF IsSeq
<1>18. \A k \in 1 .. 4 : t[k] = opens[k]
  <2> TAKE k \in 1 .. 4
  <2>1. /\ u[0 + k] = opens[k] /\ k \in 1 .. 4 + l
    BY <1>13 DEF PartAt
  <2>2. /\ v[0 + k] = u[k] /\ k \in 1 .. (4 + l) + l
    BY <1>14, <2>1 DEF PartAt
  <2>3. /\ x[0 + k] = v[k] /\ k \in 1 .. ((4 + l) + l) + 4
    BY <1>15, <2>2 DEF PartAt
  <2>4. t[0 + k] = x[k]
    BY <1>16, <2>3 DEF PartAt
  <2> QED
    BY <2>1, <2>2, <2>3, <2>4
<1>19. \A k \in 1 .. l : t[4 + k] = spawns[k]
  <2> TAKE k \in 1 .. l
  <2>1. /\ u[4 + k] = spawns[k] /\ 4 + k \in 1 .. 4 + l
    BY <1>13 DEF PartAt
  <2>2. /\ v[0 + (4 + k)] = u[4 + k] /\ 4 + k \in 1 .. (4 + l) + l
    BY <1>14, <2>1 DEF PartAt
  <2>3. /\ x[0 + (4 + k)] = v[4 + k] /\ 4 + k \in 1 .. ((4 + l) + l) + 4
    BY <1>15, <2>2 DEF PartAt
  <2>4. t[0 + (4 + k)] = x[4 + k]
    BY <1>16, <2>3 DEF PartAt
  <2> QED
    BY <2>1, <2>2, <2>3, <2>4
<1>20. \A k \in 1 .. l : t[(4 + l) + k] = waits[k]
  <2> TAKE k \in 1 .. l
  <2>1. /\ v[(4 + l) + k] = waits[k] /\ (4 + l) + k \in 1 .. (4 + l) + l
    BY <1>14 DEF PartAt
  <2>2. /\ x[0 + ((4 + l) + k)] = v[(4 + l) + k] /\ (4 + l) + k \in 1 .. ((4 + l) + l) + 4
    BY <1>15, <2>1 DEF PartAt
  <2>3. t[0 + ((4 + l) + k)] = x[(4 + l) + k]
    BY <1>16, <2>2 DEF PartAt
  <2> QED
    BY <2>1, <2>2, <2>3
<1>21. \A k \in 1 .. 4 : t[((4 + l) + l) + k] = closes[k]
  <2> TAKE k \in 1 .. 4
  <2>1. /\ x[((4 + l) + l) + k] = closes[k] /\ ((4 + l) + l) + k \in 1 .. ((4 + l) + l) + 4
    BY <1>15 DEF PartAt
  <2>2. t[0 + (((4 + l) + l) + k)] = x[((4 + l) + l) + k]
    BY <1>16, <2>1 DEF PartAt
  <2> QED
    BY <2>1, <2>2
<1>22. t[9 + l + l] = z
  <2>1. t[(((4 + l) + l) + 4) + 1] = <<z>>[1]
    BY <1>16 DEF PartAt
  <2> QED
    BY <2>1
<1>23. \A k \in 1 .. 9 + l + l :
          \/ k \in 1 .. 4
          \/ \E i \in 1 .. l : k = 4 + i
          \/ \E i \in 1 .. l : k = (4 + l) + i
          \/ \E i \in 1 .. 4 : k = ((4 + l) + l) + i
          \/ k = 9 + l + l
  <2> TAKE k \in 1 .. 9 + l + l
  <2>1. CASE 4 < k /\ k <= 4 + l
    <3>1. k - 4 \in 1 .. l /\ k = 4 + (k - 4)
      BY <2>1
    <3> QED
      BY <3>1
  <2>2. CASE 4 + l < k /\ k <= 4 + l + l
    <3>1. k - (4 + l) \in 1 .. l /\ k = (4 + l) + (k - (4 + l))
      BY <2>2
    <3> QED
      BY <3>1
  <2>3. CASE 4 + l + l < k /\ k <= 8 + l + l
    <3>1. k - ((4 + l) + l) \in 1 .. 4 /\ k = ((4 + l) + l) + (k - ((4 + l) + l))
      BY <2>3
    <3> QED
      BY <3>1
  <2> QED
    BY <2>1, <2>2, <2>3
<1>24. \A k \in 1 .. 9 + l + l :
          /\ k <= 4 => t[k].op = "semOpen" /\ t[k].sem = k - 1 /\ t[k].checked = k - 1
          /\ 4 < k /\ k <= 4 + l => t[k].op = "spawn"
          /\ 4 + l < k /\ k <= 4 + l + l => t[k].op = "wait"
          /\ 4 + l + l < k /\ k <= 8 + l + l => t[k].op = "semClose" /\ t[k].sem \in 0 .. 3
          /\ k = 9 + l + l => t[k].op = "shutdown"
  <2> TAKE k \in 1 .. 9 + l + l
  <2>1. CASE k \in 1 .. 4
    BY <1>2, <1>18, <2>1
  <2>2. ASSUME NEW i \in 1 .. l, k = 4 + i
        PROVE  t[k].op = "spawn" /\ 4 < k /\ k <= 4 + l
    BY <1>5, <1>19, <2>2
  <2>3. ASSUME NEW i \in 1 .. l, k = (4 + l) + i
        PROVE  t[k].op = "wait" /\ 4 + l < k /\ k <= 4 + l + l
    BY <1>8, <1>20, <2>3
  <2>4. ASSUME NEW i \in 1 .. 4, k = ((4 + l) + l) + i
        PROVE  /\ t[k].op = "semClose" /\ t[k].sem \in 0 .. 3
               /\ 4 + l + l < k /\ k <= 8 + l + l
    BY <1>10, <1>21, <2>4
  <2>5. CASE k = 9 + l + l
    BY <1>11, <1>22, <2>5
  <2>6. CASE \E i \in 1 .. l : k = 4 + i
    BY <2>2, <2>6
  <2>7. CASE \E i \in 1 .. l : k = (4 + l) + i
    BY <2>3, <2>7
  <2>8. CASE \E i \in 1 .. 4 : k = ((4 + l) + l) + i
    BY <2>4, <2>8
  <2> QED
    BY <1>23, <2>1, <2>5, <2>6, <2>7, <2>8
<1>25. Shape(t, 4, 5 + l + l, 9 + l + l)
  <2>1. Ops(t, 1, 4, {"semOpen"})
    BY <1>24 DEF Ops
  <2>2. Ops(t, 4 + 1, (5 + l + l) - 1, Middle)
    BY <1>24 DEF Ops, Middle
  <2>3. Ops(t, 5 + l + l, (9 + l + l) - 1, {"semClose"})
    BY <1>24 DEF Ops
  <2>4. Ops(t, 9 + l + l, 9 + l + l, {"exit", "shutdown"})
    BY <1>24 DEF Ops
  <2> QED
    BY <1>17, <2>1, <2>2, <2>3, <2>4 DEF Shape
<1>26. \A k \in 1 .. 9 + l + l : t[k].op \notin {"semWait", "semPost", "store", "advance"}
  BY <1>24
<1>27. Names(t, 4, 5 + l + l, 9 + l + l)
  <2>1. \A j, k \in 1 .. 4 : t[j].sem = t[k].sem => j = k
    BY <1>24
  <2>2. ASSUME NEW k \in 4 + 1 .. (9 + l + l) - 1, t[k].op \in {"semClose", "semWait", "semPost"}
        PROVE  \E j \in 1 .. 4 : t[j].sem = t[k].sem
    <3>1. t[k].sem \in 0 .. 3
      BY <1>24, <2>2
    <3>2. PICK j \in 1 .. 4 : j - 1 = t[k].sem
      <4>1. t[k].sem + 1 \in 1 .. 4 /\ (t[k].sem + 1) - 1 = t[k].sem
        BY <3>1
      <4> QED
        BY <4>1
    <3>3. j \in 1 .. 9 + l + l /\ j <= 4
      OBVIOUS
    <3> QED
      BY <1>24, <3>2, <3>3
  <2> QED
    BY <2>1, <2>2 DEF Names
<1>28. Reads(t)
  BY <1>17, <1>26 DEF Reads
<1>29. Guards(t)
  <2> SUFFICES ASSUME NEW s \in Mutexes, NEW k \in 1 .. 9 + l + l
               PROVE  /\ t[k].op = "semOpen" /\ t[k].sem = s => k >= 3 /\ t[k].value = 1
                      /\ t[k] # OnSem("semWait", s) /\ t[k] # OnSem("semPost", s)
    BY <1>17 DEF Guards
  <2>1. s = 2 \/ s = 3
    BY Constants DEF Mutexes
  <2>2. /\ t[k] = OnSem("semWait", s) => t[k].op = "semWait"
        /\ t[k] = OnSem("semPost", s) => t[k].op = "semPost"
    BY <2>1, Made, Constants
  <2>3. t[k].op = "semOpen" /\ t[k].sem = s => k >= 3 /\ t[k].value = 1
    <3>1. t[k].op = "semOpen" => k <= 4
      BY <1>24
    <3>2. t[k].op = "semOpen" /\ t[k].sem = s => k = 3 \/ k = 4
      BY <1>24, <2>1, <3>1
    <3>3. t[3] = opens[3] /\ t[4] = opens[4]
      BY <1>18
    <3> QED
      BY <1>2, <3>2, <3>3
  <2> QED
    BY <1>26, <2>2, <2>3
<1>30. FatherText(t)
  <2>1. \A k \in 1 .. 4 : t[k].op = "semOpen" /\ t[k].sem = k - 1 /\ t[k].checked = k - 1
    BY <1>2, <1>18
  <2>2. ASSUME NEW k \in 1 .. 9 + l + l
        PROVE  /\ t[k].op \in {"spawn", "wait"} => k > 1 /\ t[k - 1].op \in {"semOpen", "spawn", "wait"}
               /\ t[k].op = "spawn" => k > 1 /\ t[k - 1].op \in {"semOpen", "spawn"}
    <3>1. CASE k = 1
      BY <2>1, <3>1
    <3>2. CASE k # 1
      <4>1. PICK j \in 1 .. 9 + l + l : j = k - 1 /\ k > 1
        BY <3>2
      <4>2. t[k].op = "spawn" => k <= 4 + l
        BY <1>24
      <4>3. t[k].op = "wait" => k <= 4 + l + l
        BY <1>24
      <4>4. j <= 4 + l => t[j].op \in {"semOpen", "spawn"}
        BY <1>24
      <4>5. j <= 4 + l + l => t[j].op \in {"semOpen", "spawn", "wait"}
        BY <1>24
      <4> QED
        BY <4>1, <4>2, <4>3, <4>4, <4>5
    <3> QED
      BY <3>1, <3>2
  <2> QED
    BY <1>17, <2>1, <2>2 DEF FatherText
<1>31. Ends(t)
  BY <1>25, ShapeEnds
<1>32. OpensFirst(t) /\ UsesOpened(t)
  BY <1>25, <1>27, ShapeOpens
<1>33. Fits(t)
  BY <1>17, <1>28, <1>29, <1>31, <1>32 DEF Fits
<1> QED
  BY <1>12, <1>30, <1>33

\* The program of the father of disastrOS_test.c.
LEMMA HandshakeFather ==
    Fits(handshake_init) /\ SpawnsEarly(handshake_init) /\ Unguarded(handshake_init)
<1>1. PICK a, b, c, d, e, f, g, h, i :
         /\ a = Open(Sem1, 0) /\ b = Open(Sem2, 0) /\ c = SpawnOf("semaphore_testing")
         /\ d = OnSem("semWait", Sem1) /\ e = OnSem("semPost", Sem2) /\ f = Bare("wait")
         /\ g = OnSem("semClose", Sem1) /\ h = OnSem("semClose", Sem2) /\ i = Bare("shutdown")
  OBVIOUS
<1>2. /\ a \in Instructions /\ b \in Instructions /\ c \in Instructions /\ d \in Instructions
      /\ e \in Instructions /\ f \in Instructions /\ g \in Instructions /\ h \in Instructions
      /\ i \in Instructions
  BY <1>1, Constants, Made DEF Workers
<1>3. /\ a.op = "semOpen" /\ b.op = "semOpen" /\ c.op = "spawn" /\ d.op = "semWait" /\ e.op = "semPost"
      /\ f.op = "wait" /\ g.op = "semClose" /\ h.op = "semClose" /\ i.op = "shutdown"
      /\ a.sem = 10 /\ b.sem = 30 /\ d.sem = 10 /\ e.sem = 30 /\ g.sem = 10 /\ h.sem = 30
  BY <1>1, Constants, Made DEF Workers
<1>4. PICK text : text = handshake_init
  OBVIOUS
<1>5. text = <<a, b, c, d, e, f, g, h, i>>
  BY <1>1, <1>4 DEF handshake_init
<1>6. text \in Seq(Instructions) /\ Len(text) = 9
  BY <1>2, <1>5
<1>7. /\ text[1] = a /\ text[2] = b /\ text[3] = c /\ text[4] = d /\ text[5] = e /\ text[6] = f
      /\ text[7] = g /\ text[8] = h /\ text[9] = i
  BY <1>5
<1>8. \A k \in 1 .. 9 :
         k = 1 \/ k = 2 \/ k = 3 \/ k = 4 \/ k = 5 \/ k = 6 \/ k = 7 \/ k = 8 \/ k = 9
  OBVIOUS
<1>9. /\ text[1].op = "semOpen" /\ text[2].op = "semOpen" /\ text[3].op = "spawn"
      /\ text[4].op = "semWait" /\ text[5].op = "semPost" /\ text[6].op = "wait"
      /\ text[7].op = "semClose" /\ text[8].op = "semClose" /\ text[9].op = "shutdown"
      /\ text[1].sem = 10 /\ text[2].sem = 30 /\ text[4].sem = 10 /\ text[5].sem = 30
      /\ text[7].sem = 10 /\ text[8].sem = 30
  BY <1>3, <1>7
<1>10. Ends(text) /\ Reads(text)
  BY <1>6, <1>8, <1>9 DEF Ends, Reads
<1>11. OpensFirst(text)
  BY <1>6, <1>8, <1>9 DEF OpensFirst
<1>12. UsesOpened(text)
  BY <1>6, <1>8, <1>9 DEF UsesOpened
<1>13. Guards(text) /\ Unguarded(text)
  <2> SUFFICES ASSUME NEW s \in Mutexes, NEW k \in 1 .. 9
               PROVE  /\ ~(text[k].op = "semOpen" /\ text[k].sem = s)
                      /\ text[k] # OnSem("semWait", s) /\ text[k] # OnSem("semPost", s)
    BY <1>6 DEF Guards, Unguarded
  <2>1. s = 2 \/ s = 3
    BY Constants DEF Mutexes
  <2>2. /\ text[k] = OnSem("semWait", s) => text[k].op = "semWait" /\ text[k].sem = s
        /\ text[k] = OnSem("semPost", s) => text[k].op = "semPost" /\ text[k].sem = s
    BY <2>1, Made, Constants
  <2>3. text[k].op \in {"semOpen", "semWait", "semPost"} => text[k].sem \in {10, 30}
    BY <1>8, <1>9
  <2> QED
    BY <2>1, <2>2, <2>3
<1>14. SpawnsEarly(text)
  BY <1>6, <1>8, <1>9 DEF SpawnsEarly
<1> QED
  BY <1>4, <1>6, <1>10, <1>11, <1>12, <1>13, <1>14 DEF Fits

\* Every function has a text that fits.
TextsAre(texts) ==
    /\ DOMAIN texts = Workers \union Fathers \union {"none"}
    /\ \A f \in Workers : Fits(texts[f]) /\ Works(texts[f])
    /\ \A f \in Fathers : Fits(texts[f]) /\ SpawnsEarly(texts[f])
    /\ \A f \in Unchecked : Unguarded(texts[f])
    /\ FatherText(texts["initFunction"])
    /\ texts["none"] = <<>>

LEMMA TextsFit ==
    ASSUME NEW kind \in Tests, NEW howmany \in HowMany
    PROVE  TextsAre(Texts[kind][howmany])
<1>1. PICK a, b, c, d, e, f, g, h, i :
         /\ a = ProdFunction /\ b = ConsFunction /\ c = ProdFunction2 /\ d = ConsFunction2
         /\ e = ProdSingleFunction(howmany) /\ f = ConsSingleFunction(howmany)
         /\ g = initFunction(kind, howmany) /\ h = handshake_init /\ i = semaphore_testing
  OBVIOUS
<1>2. /\ Fits(a) /\ Fits(b) /\ Fits(c) /\ Fits(d) /\ Fits(e) /\ Fits(f) /\ Fits(h) /\ Fits(i)
      /\ Works(a) /\ Works(b) /\ Works(c) /\ Works(d) /\ Works(e) /\ Works(f) /\ Works(i)
      /\ SpawnsEarly(h) /\ Unguarded(h) /\ Unguarded(i)
  BY <1>1, WorkersFit, HandshakeFather, HandshakeChild
<1>3. Fits(g) /\ FatherText(g)
  <2>1. howmany \in Nat
    BY TestsAssumption
  <2>2. CASE kind \in 1 .. 4
    BY <1>1, <2>1, <2>2, BusyFather
  <2>3. CASE kind \notin 1 .. 4
    BY <1>1, <2>3, IdleFather
  <2> QED
    BY <2>2, <2>3
<1>4. SpawnsEarly(g)
  BY <1>3 DEF FatherText, SpawnsEarly
<1>5. PICK texts : texts = Texts[kind][howmany]
  OBVIOUS
<1>6. texts = [ProdFunction |-> a, ConsFunction |-> b, ProdFunction2 |-> c, ConsFunction2 |-> d,
               ProdSingleFunction |-> e, ConsSingleFunction |-> f, initFunction |-> g,
               handshake_init |-> h, semaphore_testing |-> i, none |-> <<>>]
  BY <1>1, <1>5 DEF Texts
<1>7. /\ DOMAIN texts = Workers \union Fathers \union {"none"}
      /\ texts["ProdFunction"] = a /\ texts["ConsFunction"] = b /\ texts["ProdFunction2"] = c
      /\ texts["ConsFunction2"] = d /\ texts["ProdSingleFunction"] = e
      /\ texts["ConsSingleFunction"] = f /\ texts["initFunction"] = g
      /\ texts["handshake_init"] = h /\ texts["semaphore_testing"] = i /\ texts["none"] = <<>>
  BY <1>6 DEF Workers, Fathers
<1> QED
  BY <1>2, <1>3, <1>5, <1>7, <1>4 DEF TextsAre, Workers, Fathers, Unchecked

-----------------------------------------------------------------------------
(* The invariant *)

\* Who has its block and has not exited.
Active == Live \ zombie_list

Opens(p, k) == k \in 1 .. Len(Text(p)) /\ Text(p)[k].op = "semOpen"
Closed(p, s) ==
    \E j \in 1 .. Len(Text(p)) : Text(p)[j] = OnSem("semClose", s) /\ Called(p, j)

\* The father is the first process and stays init; the others are workers.
Founded ==
    /\ init_pcb = 1 /\ running \in PCB
    /\ function[1] = FatherOf(test)
    /\ \A p \in Used \ {1} : function[p] \in Workers
    /\ Live \subseteq Used
    /\ pc \in [PCB -> Nat]

\* A process is in the call that its text has at its place.
ProgramCalls == {"semOpen", "semClose", "semWait", "semPost", "wait", "spawn"}
InCalls ==
    \A p \in Active : call[p] # NoCall =>
        /\ pc[p] \in 1 .. Len(Text(p)) /\ call[p].num = Text(p)[pc[p]].op
        /\ call[p].num \in ProgramCalls

\* Who has exited was at the end or had given up.
AtTheEnd == \A p \in Used \ Active : pc[p] = 0 \/ At(p).op = "exit"

\* Nobody writes outside of the buffer.
InTheRing == \A p \in Used : At(p).op \in {"store", "advance"} => n[p] \in Slots

\* While the father opens he is alone, and while he spawns nobody is reaped: no
\* block is used twice.
Gathering ==
    /\ At(1).op = "semOpen" => Live = {1}
    /\ At(1).op \in {"semOpen", "spawn"} => Used \subseteq Live

\* What the father has opened he holds until he closes: an answer of one of his
\* opens that is not negative is true, for there is nobody yet to overwrite it.
Has(s) == \E d \in sem_descriptors[1] : d.sem = s
FatherHolds ==
    test # 0 => \A k \in 1 .. 4 :
        /\ At(1).op \in {"semOpen", "spawn", "wait"} /\ k < pc[1] => Has(k - 1)
        /\ k = pc[1] /\ call[1] # NoCall /\ retvalue[1] >= 0 => Has(k - 1)

\* A variable for a descriptor is assigned when its open has returned.
Unopened ==
    \A p \in Used, k \in 1 .. 4 : Opens(p, k) =>
        /\ pc[p] # 0 /\ pc[p] <= k => fd[p][Text(p)[k].sem] = -1
        /\ k < pc[p] => fd[p][Text(p)[k].sem] # -1

\* The answer to an open is an error, the descriptor, or overwritten with the 0 of
\* somebody else's semWait.
Answers ==
    \A p \in Active : call[p] # NoCall /\ At(p).op = "semOpen" =>
        \/ retvalue[p] \in {-14, -16, -17, 0}
        \/ [fd |-> retvalue[p], sem |-> At(p).sem] \in sem_descriptors[p]

OwnSems ==
    \A p \in Used : \A d \in sem_descriptors[p] :
        \E k \in 1 .. 4 : Opens(p, k) /\ Text(p)[k].sem = d.sem

\* From the second open on, the descriptor k - 1 is no overwritten answer.
Kept ==
    Misled = {} => \A p \in Used, k \in 2 .. 4 :
        Opens(p, k) /\ k < pc[p] /\ ~Closed(p, Text(p)[k].sem) =>
            [fd |-> k - 1, sem |-> Text(p)[k].sem] \in sem_descriptors[p]

\* In front of a section the last answer was 0, so whoever overwrites the answer
\* of the semWait there, or takes it before it is given, sees 0 as well.
Admitted ==
    Misled = {} => \A p \in Active, s \in Mutexes :
        At(p) = OnSem("semWait", s) => retvalue[p] = 0

ProgInv ==
    /\ SemInv /\ ProgramTypeOK
    /\ Founded /\ InCalls /\ AtTheEnd /\ InTheRing /\ Gathering /\ Unopened
    /\ FatherHolds
    /\ Answers /\ OwnSems /\ Kept /\ Admitted
    /\ MutexAccounted

-----------------------------------------------------------------------------
(* Where a process is *)

\* The text of a function that a process may run.
LEMMA TextOf ==
    ASSUME ProgramTypeOK, Founded, NEW p \in Used
    PROVE  /\ p \in PCB /\ pc[p] \in 0 .. Len(Text(p)) /\ pc[p] \in Nat
           /\ Fits(Text(p)) /\ Text(p) \in Seq(Instructions)
           /\ Len(Text(p)) \in Nat /\ Len(Text(p)) >= 5
           /\ DOMAIN Text(p) = 1 .. Len(Text(p))
           /\ p # 1 => Works(Text(p))
           /\ p = 1 => SpawnsEarly(Text(p))
           /\ function[p] \in Unchecked => Unguarded(Text(p))
<1>1. p \in PCB /\ function[p] # "none" /\ test \in Tests /\ HOWMANY \in HowMany
  BY DEF Used, ProgramTypeOK
<1>2. TextsAre(Texts[test][HOWMANY])
  BY <1>1, TextsFit
<1>3. p = 1 => function[p] \in Fathers
  BY DEF Founded, FatherOf, Fathers
<1>4. function[p] \in Workers \union Fathers
  BY <1>3 DEF Founded
<1>5. p = 1 => SpawnsEarly(Text(p))
  BY <1>2, <1>3 DEF TextsAre, Text
<1>6. function[p] \in Unchecked => Unguarded(Text(p))
  BY <1>2 DEF TextsAre, Text
<1>7. Fits(Text(p))
  BY <1>2, <1>4 DEF TextsAre, Text
<1>8. p # 1 => Works(Text(p))
  BY <1>2 DEF TextsAre, Text, Founded
<1>9. Text(p) \in Seq(Instructions) /\ Len(Text(p)) >= 5
  BY <1>7 DEF Fits
<1>10. pc[p] \in 0 .. Len(Text(p)) /\ pc[p] \in Nat
  BY <1>1 DEF ProgramTypeOK, Founded
<1>11. Len(Text(p)) \in Nat /\ DOMAIN Text(p) = 1 .. Len(Text(p))
  BY <1>9
<1> QED
  BY <1>1, <1>5, <1>6, <1>7, <1>8, <1>9, <1>10, <1>11

\* What the next instruction of a process is.
LEMMA PlaceOf ==
    ASSUME ProgramTypeOK, Founded, NEW p \in Used
    PROVE  /\ pc[p] # 0 => /\ pc[p] \in 1 .. Len(Text(p))
                            /\ At(p) = Text(p)[pc[p]] /\ At(p) \in Instructions
           /\ pc[p] = 0 => At(p).op = "none"
<1>1. /\ pc[p] \in 0 .. Len(Text(p)) /\ Text(p) \in Seq(Instructions) /\ Len(Text(p)) \in Nat
      /\ DOMAIN Text(p) = 1 .. Len(Text(p))
  BY TextOf
<1>2. CASE pc[p] # 0
  <2>1. pc[p] \in 1 .. Len(Text(p))
    BY <1>1, <1>2
  <2>2. At(p) = Text(p)[pc[p]] /\ At(p) \in Instructions
    BY <1>1, <2>1 DEF At
  <2> QED
    BY <1>2, <2>1, <2>2
<1>3. CASE pc[p] = 0
  <2>1. pc[p] \notin DOMAIN Text(p)
    BY <1>1, <1>3
  <2> QED
    BY <1>3, <2>1 DEF At, Bare
<1> QED
  BY <1>2, <1>3

\* Who runs is active.
LEMMA RunsActive ==
    ASSUME SemInv, Founded
    PROVE  running \in Active /\ running \in Live /\ running \in Used /\ 1 \in Active /\ 1 \in Live
           /\ 1 \in Used /\ 1 \in PCB /\ Active \subseteq Used /\ Live \subseteq PCB /\ Used \subseteq PCB
<1>1. running \in Live /\ running \notin zombie_list
  BY DEF SemInv, KernelInv, KernelTypeOK, OnePlace, Live, Founded
<1>2. 1 \in Active
  BY DEF SemInv, KernelInv, RootedTree, Founded, Active
<1> QED
  BY <1>1, <1>2 DEF Active, Founded, Used, Live

\* The next instruction, of who runs in user code.
LEMMA InstructionOf ==
    ASSUME SemInv, ProgramTypeOK, Founded, NEW op, Doing(op), op # "exit"
    PROVE  /\ running \in Active /\ running \in Used /\ running \in PCB
           /\ system = "up" /\ call[running] = NoCall
           /\ pc[running] # 0 /\ pc[running] \in 1 .. Len(Text(running))
           /\ Instruction = Text(running)[pc[running]] /\ At(running) = Instruction
           /\ Instruction \in Instructions /\ Instruction.op = op
<1>1. running \in Active /\ running \in Used /\ running \in PCB
  BY RunsActive DEF Founded
<1>2. pc[running] # 0
  BY DEF Doing, Instruction, Bare
<1>3. /\ pc[running] \in 1 .. Len(Text(running)) /\ At(running) = Text(running)[pc[running]]
      /\ At(running) \in Instructions
  BY <1>1, <1>2, PlaceOf
<1>4. Instruction = Text(running)[pc[running]]
  BY <1>2 DEF Instruction
<1> QED
  BY <1>1, <1>2, <1>3, <1>4 DEF Doing

-----------------------------------------------------------------------------
(* Calls: steps that leave the programs where they are *)

\* What of the texts and the variables of the programs stays.
LEMMA SameProgram ==
    ASSUME UNCHANGED programVars
    PROVE  /\ \A p : Text(p)' = Text(p) /\ At(p)' = At(p)
           /\ Used' = Used /\ Misled' = Misled
           /\ \A p, k : Opens(p, k)' = Opens(p, k)
<1>1. UNCHANGED <<test, HOWMANY, function, pc, fd, n, c_buffer, index>>
  BY DEF programVars
<1>2. \A p : Text(p)' = Text(p)
  BY <1>1 DEF Text
<1>3. \A p : At(p)' = At(p)
  BY <1>1, <1>2 DEF At
<1>4. Used' = Used
  BY <1>1 DEF Used
<1>5. \A p, k : Opens(p, k)' = Opens(p, k)
  BY <1>2 DEF Opens
<1>6. Misled' = Misled
  BY <1>1, <1>2, <1>4 DEF Misled
<1> QED
  BY <1>2, <1>3, <1>4, <1>5, <1>6

LEMMA ProgramRests ==
    ASSUME ProgInv, UNCHANGED programVars, init_pcb' = init_pcb, running' \in PCB,
           Live' \subseteq Live, Live' = Live \/ At(1).op = "wait",
           \A p \in Active : p \notin Active' => pc[p] = 0 \/ At(p).op = "exit"
    PROVE  ProgramTypeOK' /\ Founded' /\ AtTheEnd' /\ InTheRing' /\ Gathering' /\ Unopened'
<1>1. UNCHANGED <<test, HOWMANY, function, pc, fd, n, c_buffer, index>>
  BY DEF programVars
<1>2. /\ \A p : Text(p)' = Text(p) /\ At(p)' = At(p)
      /\ Used' = Used
      /\ \A p, k : Opens(p, k)' = Opens(p, k)
  BY SameProgram
<1>3. ProgramTypeOK'
  BY <1>1, <1>2 DEF ProgInv, ProgramTypeOK
<1>4. Founded'
  BY <1>1, <1>2 DEF ProgInv, Founded
<1>5. AtTheEnd'
  BY <1>1, <1>2 DEF ProgInv, AtTheEnd
<1>6. InTheRing'
  BY <1>1, <1>2 DEF ProgInv, InTheRing
<1>7. Gathering'
  BY <1>1, <1>2 DEF ProgInv, Gathering
<1>8. Unopened'
  BY <1>1, <1>2 DEF ProgInv, Unopened
<1> QED
  BY <1>3, <1>4, <1>5, <1>6, <1>7, <1>8

\* A process that waits for a mutex or is in front of one, its place in the text.
LEMMA GuardsOf ==
    ASSUME ProgramTypeOK, Founded, NEW p \in Used, NEW s \in Mutexes, NEW k \in 1 .. Len(Text(p))
    PROVE  /\ Text(p)[k].op = "semOpen" /\ Text(p)[k].sem = s => k >= 3 /\ Text(p)[k].value = 1
           /\ Text(p)[k] = OnSem("semWait", s) =>
                 /\ k > 1 /\ Text(p)[k - 1].op = "semWait"
                 /\ k + 4 <= Len(Text(p)) /\ Text(p)[k + 4] = OnSem("semPost", s)
                 /\ \A j \in 1 .. 3 : Text(p)[k + j].op \in {"load", "store", "advance"}
           /\ Text(p)[k] = OnSem("semPost", s) => k > 4 /\ Text(p)[k - 4] = OnSem("semWait", s)
<1>1. Guards(Text(p))
  BY TextOf DEF Fits
<1> QED
  BY <1>1 DEF Guards

\* p is in the section of s, or queues for it, since the k-th instruction.
Enters(p, s, k) ==
    /\ k \in 1 .. Len(Text(p)) /\ Text(p)[k] = OnSem("semWait", s)
    /\ Called(p, k) /\ ~Called(p, k + 4)

LEMMA InsideIs ==
    ASSUME ProgramTypeOK, Founded, NEW p \in Used, NEW s \in Mutexes
    PROVE  Inside(p, s) <=> \E k \in 1 .. Len(Text(p)) : Enters(p, s, k)
<1> DEFINE t == Text(p)
<1>1. /\ pc[p] \in Nat /\ Len(t) \in Nat /\ DOMAIN t = 1 .. Len(t)
  BY TextOf
<1>2. \A k \in 1 .. Len(t) :
         /\ t[k] = OnSem("semWait", s) =>
               /\ k + 4 <= Len(t) /\ t[k + 4] = OnSem("semPost", s)
               /\ \A j \in 1 .. 3 : t[k + j].op \in {"load", "store", "advance"}
  BY GuardsOf
<1>3. OnSem("semPost", s).op = "semPost"
  BY DEF OnSem
<1> HIDE DEF t
<1>4. ASSUME NEW k \in 1 .. Len(t), t[k] = OnSem("semWait", s), Called(p, k),
             \A j \in k + 1 .. pc[p] : ~(t[j] = OnSem("semPost", s) /\ Called(p, j))
      PROVE  ~Called(p, k + 4)
  <2> SUFFICES ASSUME Called(p, k + 4)
               PROVE  FALSE
    OBVIOUS
  <2>1. k + 4 \in k + 1 .. pc[p]
    BY <1>1 DEF Called
  <2> QED
    BY <1>2, <1>4, <2>1
<1>5. ASSUME NEW k \in 1 .. Len(t), t[k] = OnSem("semWait", s), ~Called(p, k + 4),
             NEW j \in k + 1 .. pc[p], t[j] = OnSem("semPost", s), Called(p, j)
      PROVE  FALSE
  <2>1. j <= k + 4 /\ j # k + 4
    BY <1>1, <1>5 DEF Called
  <2>2. PICK i \in 1 .. 3 : j = k + i
    <3>1. j - k \in 1 .. 3 /\ j = k + (j - k)
      BY <1>1, <2>1
    <3> QED
      BY <3>1
  <2>3. t[k + i].op \in {"load", "store", "advance"}
    BY <1>2, <1>5
  <2> QED
    BY <1>3, <1>5, <2>2, <2>3
<1>6. Inside(p, s) <=>
         \E k \in 1 .. Len(t) :
            /\ t[k] = OnSem("semWait", s) /\ Called(p, k)
            /\ \A j \in k + 1 .. pc[p] : ~(t[j] = OnSem("semPost", s) /\ Called(p, j))
  BY <1>1 DEF Inside, t
<1>7. \A k \in 1 .. Len(t) :
         Enters(p, s, k) <=> t[k] = OnSem("semWait", s) /\ Called(p, k) /\ ~Called(p, k + 4)
  BY DEF Enters, t
<1>8. (\E k \in 1 .. Len(t) : Enters(p, s, k)) <=>
         \E k \in 1 .. Len(t) :
            /\ t[k] = OnSem("semWait", s) /\ Called(p, k)
            /\ \A j \in k + 1 .. pc[p] : ~(t[j] = OnSem("semPost", s) /\ Called(p, j))
  BY <1>4, <1>5, <1>7
<1> QED
  BY <1>6, <1>8 DEF t

\* The same of the next state.
InsideIsToEnter ==
    ProgramTypeOK /\ Founded =>
        \A p \in Used, s \in Mutexes : Inside(p, s) <=> \E k \in 1 .. Len(Text(p)) : Enters(p, s, k)

LEMMA ToEnter == InsideIsToEnter
BY InsideIs DEF InsideIsToEnter

LEMMA ToEnterNext == InsideIsToEnter'
BY ToEnter, PTL

\* Whether a process is inside only its semWaits and semPosts of that mutex tell.
LEMMA SameInside ==
    ASSUME ProgramTypeOK, Founded, ProgramTypeOK', Founded', NEW p \in Used, p \in Used',
           Text(p)' = Text(p), NEW s \in Mutexes,
           \A k \in 1 .. Len(Text(p)) :
               Text(p)[k] = OnSem("semWait", s) \/ Text(p)[k] = OnSem("semPost", s) =>
                   (Called(p, k)' <=> Called(p, k))
    PROVE  Inside(p, s)' <=> Inside(p, s)
<1>1. Inside(p, s) <=> \E k \in 1 .. Len(Text(p)) : Enters(p, s, k)
  BY InsideIs
<1>2. Inside(p, s)' <=> \E k \in 1 .. Len(Text(p)') : Enters(p, s, k)'
  BY ToEnterNext DEF InsideIsToEnter
<1>3. ASSUME NEW k \in 1 .. Len(Text(p))
      PROVE  Enters(p, s, k)' <=> Enters(p, s, k)
  <2>1. CASE Text(p)[k] = OnSem("semWait", s)
    <3>1. k + 4 \in 1 .. Len(Text(p)) /\ Text(p)[k + 4] = OnSem("semPost", s)
      <4>1. k + 4 <= Len(Text(p)) /\ Text(p)[k + 4] = OnSem("semPost", s) /\ Len(Text(p)) \in Nat
        BY <2>1, GuardsOf, TextOf
      <4> QED
        BY <4>1
    <3>2. (Called(p, k)' <=> Called(p, k)) /\ (Called(p, k + 4)' <=> Called(p, k + 4))
      BY <2>1, <3>1
    <3> QED
      BY <3>2 DEF Enters
  <2>2. CASE Text(p)[k] # OnSem("semWait", s)
    BY <2>2 DEF Enters
  <2> QED
    BY <2>1, <2>2
<1> QED
  BY <1>1, <1>2, <1>3

\* A call changes what is called at the place of the process only.
LEMMA CalledHere ==
    ASSUME NEW p, pc' = pc, NEW k,
           k # pc[p] \/ (call'[p] = NoCall <=> call[p] = NoCall)
    PROVE  Called(p, k)' <=> Called(p, k)
BY DEF Called

\* Who does something else than wait for s or post to it stays inside or outside.
LEMMA ElsewhereInside ==
    ASSUME ProgramTypeOK, Founded, ProgramTypeOK', Founded', UNCHANGED programVars, NEW p \in Used,
           NEW s \in Mutexes,
           \/ call'[p] = NoCall <=> call[p] = NoCall
           \/ At(p) # OnSem("semWait", s) /\ At(p) # OnSem("semPost", s)
    PROVE  Inside(p, s)' <=> Inside(p, s)
<1>1. p \in Used' /\ Text(p)' = Text(p) /\ p \in PCB /\ pc' = pc
  BY SameProgram, TextOf DEF programVars
<1>2. ASSUME NEW k \in 1 .. Len(Text(p)),
             Text(p)[k] = OnSem("semWait", s) \/ Text(p)[k] = OnSem("semPost", s)
      PROVE  Called(p, k)' <=> Called(p, k)
  <2>1. CASE call'[p] = NoCall <=> call[p] = NoCall
    BY <1>1, <2>1, CalledHere
  <2>2. CASE At(p) # OnSem("semWait", s) /\ At(p) # OnSem("semPost", s)
    <3>1. k = pc[p] => At(p) = Text(p)[k]
      <4>1. k # 0
        BY TextOf
      <4> QED
        BY <4>1, PlaceOf
    <3>2. k # pc[p]
      BY <1>2, <2>2, <3>1
    <3> QED
      BY <1>1, <3>2, CalledHere
  <2> QED
    BY <2>1, <2>2
<1> QED
  BY <1>1, <1>2, SameInside

\* Likewise with what it has closed.
LEMMA ElsewhereClosed ==
    ASSUME ProgramTypeOK, Founded, UNCHANGED programVars, NEW p \in Used, NEW s,
           (call'[p] = NoCall <=> call[p] = NoCall) \/ At(p).op # "semClose"
    PROVE  Closed(p, s)' <=> Closed(p, s)
<1>1. Text(p)' = Text(p) /\ pc' = pc
  BY SameProgram DEF programVars
<1>2. ASSUME NEW j \in 1 .. Len(Text(p)), Text(p)[j] = OnSem("semClose", s)
      PROVE  Called(p, j)' <=> Called(p, j)
  <2>1. CASE call'[p] = NoCall <=> call[p] = NoCall
    BY <1>1, <2>1, CalledHere
  <2>2. CASE At(p).op # "semClose"
    <3>1. j = pc[p] => At(p) = Text(p)[j]
      <4>1. j # 0
        BY TextOf
      <4> QED
        BY <4>1, PlaceOf
    <3>2. OnSem("semClose", s).op = "semClose"
      BY DEF OnSem
    <3>3. j # pc[p]
      BY <1>2, <2>2, <3>1, <3>2
    <3> QED
      BY <1>1, <3>3, CalledHere
  <2> QED
    BY <2>1, <2>2
<1> QED
  BY <1>1, <1>2 DEF Closed

\* The first thing that the father of a test does is to open the four semaphores.
LEMMA FatherFirst ==
    ASSUME ProgramTypeOK, Founded, 1 \in Used, test # 0
    PROVE  /\ \A k \in 1 .. 4 : Text(1)[k].op = "semOpen" /\ Text(1)[k].sem = k - 1
                                /\ Text(1)[k].checked = k - 1
           /\ \A k \in 1 .. Len(Text(1)) :
                 Text(1)[k].op \in {"spawn", "wait"} =>
                     k > 1 /\ Text(1)[k - 1].op \in {"semOpen", "spawn", "wait"}
           /\ pc[1] \in 1 .. 4 => At(1).op = "semOpen" /\ At(1).sem = pc[1] - 1
                                 /\ At(1).checked = pc[1] - 1 /\ Opens(1, pc[1])
           /\ function[1] = "initFunction"
<1>1. test \in Tests /\ HOWMANY \in HowMany
  BY DEF ProgramTypeOK
<1>2. function[1] = "initFunction"
  BY DEF Founded, FatherOf
<1>3. FatherText(Text(1))
  BY <1>1, <1>2, TextsFit DEF TextsAre, Text
<1>4. /\ \A k \in 1 .. 4 : Text(1)[k].op = "semOpen" /\ Text(1)[k].sem = k - 1
                            /\ Text(1)[k].checked = k - 1
  BY <1>3 DEF FatherText
<1>5. pc[1] \in 1 .. 4 => At(1) = Text(1)[pc[1]] /\ pc[1] \in 1 .. Len(Text(1))
  <2>1. pc[1] \in 1 .. 4 => pc[1] # 0
    OBVIOUS
  <2> QED
    BY <2>1, PlaceOf
<1> QED
  BY <1>2, <1>3, <1>4, <1>5 DEF FatherText, Opens

\* The processes inside stay those they were.
LEMMA SameAccounts ==
    ASSUME ProgInv, Misled' = Misled, Used' = Used,
           \A p \in Used, s \in Mutexes : Inside(p, s)' <=> Inside(p, s),
           \A s \in Mutexes \intersect semaphores_list' : s \in semaphores_list /\ count'[s] = count[s]
    PROVE  MutexAccounted'
<1> SUFFICES ASSUME Misled' = {}, NEW s \in Mutexes \intersect semaphores_list'
             PROVE  count'[s] = 1 - Cardinality({p \in Used' : Inside(p, s)'})
  BY DEF MutexAccounted, Mutexes
<1>1. {p \in Used' : Inside(p, s)'} = {p \in Used : Inside(p, s)}
  OBVIOUS
<1>2. count[s] = 1 - Cardinality({p \in Used : Inside(p, s)})
  BY DEF ProgInv, MutexAccounted, Mutexes
<1> QED
  BY <1>1, <1>2

\* What the kernel does for wait, exit, shutdown and a tick: who stays active keeps
\* his call and his answer, or waits for his children.
KernelMoves ==
    /\ UNCHANGED programVars /\ SemaphoresRest /\ init_pcb' = init_pcb /\ running' \in PCB
    /\ Live' \subseteq Live /\ (Live' = Live \/ At(1).op = "wait")
    /\ Active' \subseteq Active
    /\ \A p \in Active : p \notin Active' => pc[p] = 0 \/ At(p).op = "exit"
    /\ \A p \in Active' : \/ call'[p] = call[p] /\ retvalue'[p] = retvalue[p]
                          \/ At(p).op = "wait" /\ call'[p].num = "wait"

LEMMA MovesKeep ==
    ASSUME ProgInv, SemInv', KernelMoves
    PROVE  ProgInv'
<1>1. UNCHANGED <<test, HOWMANY, function, pc, fd, n, c_buffer, index, sem_descriptors,
                  semaphores_list, count>>
  BY DEF KernelMoves, programVars, SemaphoresRest, semaphoreVars, holderVars
<1>2. /\ \A p : Text(p)' = Text(p) /\ At(p)' = At(p)
      /\ Used' = Used /\ Misled' = Misled
      /\ \A p, k : Opens(p, k)' = Opens(p, k)
  BY SameProgram DEF KernelMoves
<1>3. ProgramTypeOK' /\ Founded' /\ AtTheEnd' /\ InTheRing' /\ Gathering' /\ Unopened'
  BY ProgramRests DEF KernelMoves
<1>4. ProgramTypeOK /\ Founded /\ SemInv
  BY DEF ProgInv
<1>5. 1 \in Active' /\ 1 \in Active /\ 1 \in Used /\ Active \subseteq Used
  <2>1. 1 \in Active /\ 1 \in Used /\ Active \subseteq Used
    BY <1>4, RunsActive
  <2>2. 1 \in Active'
    BY <1>3 DEF SemInv, KernelInv, RootedTree, Founded, Active
  <2> QED
    BY <2>1, <2>2
<1>6. ASSUME NEW p \in Used
      PROVE  \/ call'[p] = call[p]
             \/ At(p).op \in {"none", "wait", "exit"}
  <2>1. CASE p \in Active'
    BY <2>1 DEF KernelMoves
  <2>2. CASE p \notin Active'
    <3>1. pc[p] = 0 \/ At(p).op = "exit"
      BY <2>2 DEF KernelMoves, ProgInv, AtTheEnd
    <3> QED
      BY <1>4, <3>1, PlaceOf
  <2> QED
    BY <2>1, <2>2
<1>7. \A p \in Active' : p \in Used /\ p \in Active
  BY <1>5 DEF KernelMoves
<1>8. InCalls'
  <2> SUFFICES ASSUME NEW p \in Active', call'[p] # NoCall
               PROVE  /\ pc[p] \in 1 .. Len(Text(p)) /\ call'[p].num = Text(p)[pc[p]].op
                      /\ call'[p].num \in ProgramCalls
    BY <1>1, <1>2 DEF InCalls
  <2>1. CASE call'[p] = call[p]
    BY <1>7, <2>1 DEF ProgInv, InCalls
  <2>2. CASE At(p).op = "wait" /\ call'[p].num = "wait"
    <3>1. pc[p] # 0
      BY <1>4, <1>7, <2>2, PlaceOf
    <3>2. pc[p] \in 1 .. Len(Text(p)) /\ At(p) = Text(p)[pc[p]]
      BY <1>4, <1>7, <3>1, PlaceOf
    <3> QED
      BY <2>2, <3>2 DEF ProgramCalls
  <2> QED
    BY <2>1, <2>2 DEF KernelMoves
<1>9. FatherHolds'
  <2>1. ASSUME test # 0, NEW k \in 1 .. 4, At(1).op \in {"semOpen", "spawn", "wait"}, k < pc[1]
        PROVE  Has(k - 1)
    BY <2>1 DEF ProgInv, FatherHolds
  <2>2. ASSUME test # 0, NEW k \in 1 .. 4, k = pc[1], call'[1] # NoCall, retvalue'[1] >= 0
        PROVE  Has(k - 1)
    <3>1. At(1).op = "semOpen"
      BY <1>4, <1>5, <2>2, FatherFirst
    <3>2. call'[1] = call[1] /\ retvalue'[1] = retvalue[1]
      BY <1>5, <3>1 DEF KernelMoves
    <3> QED
      BY <2>2, <3>2 DEF ProgInv, FatherHolds
  <2> QED
    BY <1>1, <1>2, <2>1, <2>2 DEF FatherHolds, Has
<1>10. Answers'
  <2> SUFFICES ASSUME NEW p \in Active', call'[p] # NoCall, At(p).op = "semOpen"
               PROVE  \/ retvalue'[p] \in {-14, -16, -17, 0}
                      \/ [fd |-> retvalue'[p], sem |-> At(p).sem] \in sem_descriptors[p]
    BY <1>1, <1>2 DEF Answers
  <2>1. call'[p] = call[p] /\ retvalue'[p] = retvalue[p]
    BY DEF KernelMoves
  <2> QED
    BY <1>7, <2>1 DEF ProgInv, Answers
<1>11. OwnSems'
  BY <1>1, <1>2 DEF ProgInv, OwnSems
<1>12. Kept'
  <2>1. ASSUME NEW p \in Used, NEW s
        PROVE  Closed(p, s)' <=> Closed(p, s)
    <3>1. UNCHANGED programVars
      BY DEF KernelMoves
    <3>2. (call'[p] = NoCall <=> call[p] = NoCall) \/ At(p).op # "semClose"
      BY <1>6
    <3> QED
      BY <1>4, <3>1, <3>2, ElsewhereClosed
  <2> SUFFICES ASSUME Misled = {}, NEW p \in Used, NEW k \in 2 .. 4,
                      Opens(p, k), k < pc[p], ~Closed(p, Text(p)[k].sem)
               PROVE  [fd |-> k - 1, sem |-> Text(p)[k].sem] \in sem_descriptors[p]
    BY <1>1, <1>2, <2>1 DEF Kept
  <2> QED
    BY DEF ProgInv, Kept
<1>13. Admitted'
  <2> SUFFICES ASSUME Misled = {}, NEW p \in Active', NEW s \in Mutexes, At(p) = OnSem("semWait", s)
               PROVE  retvalue'[p] = 0
    BY <1>1, <1>2 DEF Admitted
  <2>1. At(p).op = "semWait"
    BY DEF OnSem
  <2>2. retvalue'[p] = retvalue[p]
    BY <2>1 DEF KernelMoves
  <2> QED
    BY <1>7, <2>2 DEF ProgInv, Admitted
<1>14. MutexAccounted'
  <2>1. ASSUME NEW p \in Used, NEW s \in Mutexes
        PROVE  Inside(p, s)' <=> Inside(p, s)
    <3>1. UNCHANGED programVars
      BY DEF KernelMoves
    <3>2. \/ call'[p] = NoCall <=> call[p] = NoCall
          \/ At(p) # OnSem("semWait", s) /\ At(p) # OnSem("semPost", s)
      BY <1>6 DEF OnSem
    <3> QED
      BY <1>3, <1>4, <3>1, <3>2, ElsewhereInside
  <2> QED
    BY <1>1, <1>2, <2>1, SameAccounts
<1> QED
  BY <1>3, <1>8, <1>9, <1>10, <1>11, <1>12, <1>13, <1>14 DEF ProgInv

\* With no new pid no holder is fresh.
LEMMA SameHolders ==
    ASSUME SemInv, pid' = pid, UNCHANGED holderVars
    PROVE  FreshHolders
<1>1. /\ sem_descriptors \in [PCB -> SUBSET [fd : Nat, sem : SemNum]]
      /\ last_sem_fd \in [PCB -> Nat]
  BY DEF SemInv, SemTypeOK
<1>2. sem_descriptors' = sem_descriptors /\ last_sem_fd' = last_sem_fd
  BY DEF holderVars
<1>3. sem_descriptors = [p \in PCB |-> sem_descriptors[p]] /\ last_sem_fd = [p \in PCB |-> last_sem_fd[p]]
  BY <1>1
<1> QED
  BY <1>2, <1>3 DEF FreshHolders

LEMMA InvRuns ==
    ASSUME ProgInv
    PROVE  /\ KernelInv /\ SemInv /\ KernelTypeOK /\ ProgramTypeOK /\ Founded
           /\ running \in PCB /\ running # NULL
           /\ running \in Active /\ running \in Used /\ running \in Live
BY RunsActive DEF ProgInv, SemInv, KernelInv, Founded, PCB, NULL

\* A system that stops.
LEMMA StopMoves ==
    ASSUME ProgInv, NEW how, Stop(how), UNCHANGED programVars, SemaphoresRest
    PROVE  KernelMoves
<1>1. /\ UNCHANGED <<running, init_pcb, call, retvalue, pcb_free, zombie_list>>
  BY DEF Stop, poolVars, listVars
<1>2. Live' = Live /\ Active' = Active
  BY <1>1 DEF Live, Active
<1> QED
  BY <1>1, <1>2, InvRuns DEF KernelMoves

LEMMA InterruptMoves ==
    ASSUME ProgInv, Interrupt
    PROVE  SemInv' /\ KernelMoves
<1>1. running # NULL /\ SemInv /\ KernelTypeOK /\ running \in PCB
  BY InvRuns
<1>2. PICK timers : timers = Aged(timer_list)
  OBVIOUS
<1>3. Schedule(timers) /\ UNCHANGED call /\ SemaphoresRest /\ UNCHANGED programVars
  BY <1>1, <1>2 DEF Interrupt, Tick
<1>4. /\ pid' = pid /\ UNCHANGED <<init_pcb, retvalue, pcb_free, zombie_list>>
  BY <1>3 DEF Schedule, poolVars
<1>5. FreshHolders
  BY <1>1, <1>3, <1>4, SameHolders DEF SemaphoresRest
<1>6. SemInv'
  <2>1. KernelNext
    BY DEF Interrupt, KernelNext
  <2> QED
    BY <1>1, <1>3, <1>5, <2>1, KernelStepKeeps DEF SemaphoresRest
<1>7. running' \in PCB
  <2>1. PICK ready : ready = AfterWakeUp(timers)
    OBVIOUS
  <2>2. timers \in Seq(Timer)
    BY <1>1, <1>2, AgedTyped DEF KernelTypeOK
  <2>3. ready \in Seq(PCB)
    BY <1>1, <2>1, <2>2, WokenPending, Joined DEF AfterWakeUp, KernelTypeOK
  <2>4. running' = running \/ (ready # <<>> /\ running' = Head(ready))
    BY <1>3, <2>1 DEF Schedule
  <2> QED
    BY <1>1, <2>3, <2>4, Detached
<1>8. Live' = Live /\ Active' = Active
  BY <1>4 DEF Live, Active
<1> QED
  BY <1>3, <1>4, <1>6, <1>7, <1>8 DEF KernelMoves

\* Only fathers wait for children.
LEMMA OnlyFatherWaits ==
    ASSUME ProgramTypeOK, Founded, NEW p \in Used, At(p).op \in {"spawn", "wait"}
    PROVE  p = 1 /\ pc[p] \in 1 .. Len(Text(p)) /\ At(p) = Text(p)[pc[p]]
<1>1. pc[p] \in 1 .. Len(Text(p)) /\ At(p) = Text(p)[pc[p]]
  BY PlaceOf
<1>2. p # 1 => Works(Text(p))
  BY TextOf
<1> QED
  BY <1>1, <1>2 DEF Works

LEMMA WaitMoves ==
    ASSUME ProgInv, Doing("wait"), Wait(0), SemaphoresRest, UNCHANGED programVars
    PROVE  KernelMoves
<1>1. /\ KernelInv /\ SemInv /\ KernelTypeOK /\ running \in PCB /\ ProgramTypeOK /\ Founded
      /\ running \in Active /\ running \in Used
  BY InvRuns
<1>2. At(running).op = "wait" /\ running = 1
  BY <1>1, InstructionOf, OnlyFatherWaits
<1>3. CASE Crash
  BY <1>3, StopMoves DEF Crash
<1>4. CASE /\ Trap("wait", 0) /\ UNCHANGED init_pcb
           /\ UNCHANGED <<zombie_list, pcb_free>>
           /\ running' \in PCB
           /\ \A p \in PCB : p # running => retvalue'[p] = retvalue[p]
  <2>1. Live' = Live /\ Active' = Active
    BY <1>4 DEF Live, Active
  <2>2. /\ \A p \in PCB : p # running => call'[p] = call[p]
        /\ call'[running] = [num |-> "wait", arg |-> 0]
    BY <1>1, <1>4, TrapElsewhere
  <2> QED
    BY <1>1, <1>2, <1>4, <2>1, <2>2 DEF KernelMoves, Active, Live
<1>5. ASSUME NEW i \in DOMAIN children[running], status[children[running][i]] = "Zombie",
             Reap(i), Trap("wait", 0), UNCHANGED init_pcb
      PROVE  KernelMoves
  <2>1. PICK child : child = children[running][i]
    OBVIOUS
  <2>2. child \in Live /\ Live' = Live \ {child}
    BY <1>1, <1>5, <2>1, ReapedBlock
  <2>3. child \in zombie_list
    BY <1>1, <1>5, <2>1, <2>2 DEF KernelInv, StatusTellsPlace
  <2>4. /\ zombie_list' = zombie_list \ {child} /\ running' = running
        /\ \A p \in PCB : p # running => retvalue'[p] = retvalue[p]
    BY <1>1, <1>5, <2>1 DEF Reap, KernelTypeOK
  <2>5. Active' = Active
    BY <2>2, <2>3, <2>4 DEF Active
  <2>6. /\ \A p \in PCB : p # running => call'[p] = call[p]
        /\ call'[running] = [num |-> "wait", arg |-> 0]
    BY <1>1, <1>5, TrapElsewhere
  <2> QED
    BY <1>1, <1>2, <1>5, <2>2, <2>4, <2>5, <2>6 DEF KernelMoves, Active, Live
<1>6. PICK kids : kids = children[running]
  OBVIOUS
<1>7. PICK i : i = AwaitedPlace(0)
  OBVIOUS
<1>8. CASE ~Crash
  <2>1. /\ Trap("wait", 0)
        /\ IF kids = <<>> THEN NoChildren
           ELSE IF status[kids[i]] = "Zombie" THEN Reap(i) ELSE Await
        /\ UNCHANGED init_pcb
        /\ kids # <<>> /\ status[kids[i]] # "Zombie" => ready_list # <<>>
    BY <1>6, <1>7, <1>8 DEF Wait
  <2>2. CASE kids = <<>>
    <3>1. NoChildren
      BY <2>1, <2>2
    <3>2. /\ UNCHANGED <<zombie_list, pcb_free>> /\ running' \in PCB
          /\ \A p \in PCB : p # running => retvalue'[p] = retvalue[p]
      BY <1>1, <3>1 DEF NoChildren, poolVars, KernelTypeOK
    <3> QED
      BY <1>4, <2>1, <3>2
  <2>3. CASE kids # <<>> /\ status[kids[i]] = "Zombie"
    <3>1. i \in DOMAIN children[running]
      BY <1>1, <1>6, <1>7, <2>3, AwaitedPlaceFound DEF KernelTypeOK
    <3> QED
      BY <1>5, <1>6, <2>1, <2>3, <3>1
  <2>4. CASE kids # <<>> /\ status[kids[i]] # "Zombie"
    <3>1. Await /\ ready_list # <<>>
      BY <2>1, <2>4
    <3>2. running' \in PCB
      BY <1>1, <3>1, NextReadyPlaces DEF Await
    <3> QED
      BY <1>4, <2>1, <3>1, <3>2 DEF Await
  <2> QED
    BY <2>2, <2>3, <2>4
<1> QED
  BY <1>3, <1>8

\* Who exits is at the end of its text or has given up, and its parent, if it was
\* found waiting, is the father.
LEMMA ExitMoves ==
    ASSUME ProgInv, Doing("exit"), Exit, SemaphoresRest, UNCHANGED programVars
    PROVE  KernelMoves
<1>1. /\ KernelInv /\ SemInv /\ KernelTypeOK /\ running \in PCB /\ ProgramTypeOK /\ Founded
      /\ running \in Active /\ running \in Used /\ running \in Live
  BY InvRuns
<1>2. pc[running] = 0 \/ At(running).op = "exit"
  <2>1. pc[running] # 0 => Instruction = At(running)
    BY <1>1, PlaceOf DEF Instruction
  <2> QED
    BY <2>1 DEF Doing
<1>3. CASE Crash
  BY <1>3, StopMoves DEF Crash
<1>4. CASE Stop("hung")
  BY <1>4, StopMoves
<1>5. ASSUME Trap("exit", 0)
      PROVE  \A p \in PCB : p # running => call'[p] = call[p]
  BY <1>1, <1>5, TrapElsewhere
<1>6. PICK par : par = parent[running]
  OBVIOUS
<1>7. CASE /\ par # NULL /\ ParentAwaits(par) /\ ExitToParent(par)
           /\ Trap("exit", 0) /\ UNCHANGED init_pcb
  <2>1. par \in PCB
    BY <1>1, <1>6, <1>7 DEF KernelTypeOK
  <2>2. /\ par \in waiting_list /\ par # running
        /\ par \notin zombie_list \union ToSet(pcb_free)
    BY <1>1, <1>7, <2>1, AwaitingParent
  <2>3. par \in Active /\ call[par].num = "wait" /\ call[par] # NoCall
    BY <1>7, <2>1, <2>2 DEF Active, Live, ParentAwaits, NoCall
  <2>4. par \in Used /\ At(par).op = "wait"
    <3>1. par \in Used
      BY <1>1, <2>3, RunsActive
    <3>2. pc[par] \in 1 .. Len(Text(par)) /\ call[par].num = Text(par)[pc[par]].op
      BY <2>3 DEF ProgInv, InCalls
    <3>3. pc[par] # 0
      BY <3>2
    <3> QED
      BY <1>1, <2>3, <3>1, <3>2, <3>3, PlaceOf
  <2>5. par = 1
    BY <1>1, <2>4, OnlyFatherWaits
  <2>6. /\ pcb_free' = Freed(running) /\ running' = par /\ zombie_list' = zombie_list
        /\ \A p \in PCB : p # par => retvalue'[p] = retvalue[p]
    BY <1>1, <1>7, <2>1 DEF ExitToParent, KernelTypeOK
  <2>7. Live' = Live \ {running}
    BY <1>1, <2>6, FreedBlock
  <2>8. Active' = Active \ {running}
    BY <2>6, <2>7 DEF Active
  <2>9. \A p \in PCB : p # running => call'[p] = call[p]
    BY <1>5, <1>7
  <2>10. \A p \in Active' : \/ call'[p] = call[p] /\ retvalue'[p] = retvalue[p]
                            \/ At(p).op = "wait" /\ call'[p].num = "wait"
    <3> SUFFICES ASSUME NEW p \in Active'
                 PROVE  \/ call'[p] = call[p] /\ retvalue'[p] = retvalue[p]
                        \/ At(p).op = "wait" /\ call'[p].num = "wait"
      OBVIOUS
    <3>1. p \in PCB /\ p # running
      BY <2>8 DEF Active, Live
    <3>2. call'[p] = call[p]
      BY <2>9, <3>1
    <3>3. CASE p = par
      BY <2>3, <2>4, <3>2, <3>3
    <3>4. CASE p # par
      BY <2>6, <3>1, <3>2, <3>4
    <3> QED
      BY <3>3, <3>4
  <2> QED
    BY <1>2, <1>7, <2>1, <2>4, <2>5, <2>6, <2>7, <2>8, <2>10 DEF KernelMoves
<1>8. CASE /\ ExitToReady /\ ready_list # <<>>
           /\ Trap("exit", 0) /\ UNCHANGED init_pcb
  <2>1. /\ pcb_free' = pcb_free /\ zombie_list' = zombie_list \union {running}
        /\ retvalue' = retvalue /\ NextReady
    BY <1>8 DEF ExitToReady
  <2>2. running' \in PCB
    BY <1>1, <1>8, <2>1, NextReadyPlaces
  <2>3. Live' = Live /\ Active' = Active \ {running}
    BY <2>1 DEF Live, Active
  <2>4. \A p \in Active' : call'[p] = call[p] /\ retvalue'[p] = retvalue[p]
    <3>1. \A p \in Active' : p \in PCB /\ p # running
      BY <2>3 DEF Active, Live
    <3> QED
      BY <1>5, <1>8, <2>1, <3>1
  <2> QED
    BY <1>2, <1>8, <2>2, <2>3, <2>4 DEF KernelMoves
<1> QED
  BY <1>3, <1>4, <1>6, <1>7, <1>8 DEF Exit

\* A call to the kernel, but for spawn.
LEMMA KernelInstructionMoves ==
    ASSUME ProgInv, KernelInstruction
    PROVE  SemInv' /\ KernelMoves
<1>1. SemInv /\ SemaphoresRest /\ UNCHANGED programVars
  BY InvRuns DEF KernelInstruction
<1>2. \/ Doing("wait") /\ Wait(0)
      \/ Doing("exit") /\ Exit
      \/ Doing("shutdown") /\ Shutdown
  BY DEF KernelInstruction
<1>3. KernelMoves
  BY <1>1, <1>2, WaitMoves, ExitMoves, StopMoves DEF Shutdown
<1>4. pid' = pid
  BY <1>2 DEF Wait, Exit, Shutdown, Crash, Stop, pcbVars
<1>5. FreshHolders
  BY <1>1, <1>4, SameHolders DEF SemaphoresRest
<1>6. KernelNext
  BY <1>2, TestsAssumption DEF KernelNext, KernelCall
<1> QED
  BY <1>1, <1>3, <1>5, <1>6, KernelStepKeeps DEF SemaphoresRest

\* A system that has stopped.
LEMMA NothingMoves ==
    ASSUME ProgInv, UNCHANGED allVars
    PROVE  SemInv' /\ KernelMoves
<1>1. UNCHANGED <<kernelVars, semaphoreVars, holderVars, dscVars>> /\ UNCHANGED programVars
      /\ UNCHANGED vars
  BY DEF allVars, vars
<1>2. UNCHANGED <<running, init_pcb, call, retvalue, pcb_free, zombie_list>>
  BY <1>1 DEF kernelVars, poolVars, listVars
<1>3. Live' = Live /\ Active' = Active
  BY <1>2 DEF Live, Active
<1> QED
  BY <1>1, <1>2, <1>3, InvRuns, SemStutters DEF KernelMoves, SemaphoresRest

-----------------------------------------------------------------------------
(* Calls to the semaphores *)

\* What every call to the semaphores does that returns: the caller is in it, and
\* nobody loses his block.
CallMoves ==
    /\ UNCHANGED programVars /\ init_pcb' = init_pcb /\ running' \in PCB
    /\ Live' = Live /\ Active' = Active
    /\ \A p \in PCB : p # running => call'[p] = call[p]
    /\ call'[running] # NoCall /\ call'[running].num = At(running).op
    /\ call[running] = NoCall
    /\ pc[running] \in 1 .. Len(Text(running)) /\ At(running) = Text(running)[pc[running]]
    /\ At(running).op \in {"semOpen", "semClose", "semWait", "semPost"}

LEMMA CallStarts ==
    ASSUME ProgInv, NEW op \in {"semOpen", "semClose", "semWait", "semPost"}, Doing(op),
           NEW arg \in Int, Trap(op, arg), SameFamily, UNCHANGED programVars, running' \in PCB
    PROVE  CallMoves /\ At(running).op = op
<1>1. KernelInv /\ SemInv /\ ProgramTypeOK /\ Founded /\ running \in PCB
  BY InvRuns
<1>2. /\ call[running] = NoCall /\ pc[running] \in 1 .. Len(Text(running))
      /\ At(running) = Text(running)[pc[running]] /\ At(running).op = op
  BY <1>1, InstructionOf
<1>3. /\ \A p \in PCB : p # running => call'[p] = call[p]
      /\ call'[running] = [num |-> op, arg |-> arg]
  BY <1>1, TrapElsewhere
<1>4. call'[running] # NoCall /\ call'[running].num = op
  BY <1>3 DEF NoCall
<1>5. UNCHANGED <<init_pcb, pcb_free, zombie_list>>
  BY DEF SameFamily, poolVars
<1>6. Live' = Live /\ Active' = Active
  BY <1>5 DEF Live, Active
<1> QED
  BY <1>2, <1>3, <1>4, <1>5, <1>6 DEF CallMoves

\* The caller in its call, and everybody where he was.
LEMMA CallStays ==
    ASSUME ProgInv, SemInv', CallMoves
    PROVE  /\ ProgramTypeOK' /\ Founded' /\ AtTheEnd' /\ InTheRing' /\ Gathering' /\ Unopened'
           /\ InCalls'
           /\ \A p : Text(p)' = Text(p) /\ At(p)' = At(p)
           /\ Used' = Used /\ Misled' = Misled /\ \A p, k : Opens(p, k)' = Opens(p, k)
           /\ UNCHANGED <<test, HOWMANY, function, pc, fd, n, c_buffer, index>>
<1>1. ProgramTypeOK' /\ Founded' /\ AtTheEnd' /\ InTheRing' /\ Gathering' /\ Unopened'
  BY ProgramRests DEF CallMoves
<1>2. /\ \A p : Text(p)' = Text(p) /\ At(p)' = At(p)
      /\ Used' = Used /\ Misled' = Misled /\ \A p, k : Opens(p, k)' = Opens(p, k)
  BY SameProgram DEF CallMoves
<1>3. UNCHANGED <<test, HOWMANY, function, pc, fd, n, c_buffer, index>>
  BY DEF CallMoves, programVars
<1>4. InCalls'
  <2> SUFFICES ASSUME NEW p \in Active, call'[p] # NoCall
               PROVE  /\ pc[p] \in 1 .. Len(Text(p)) /\ call'[p].num = Text(p)[pc[p]].op
                      /\ call'[p].num \in ProgramCalls
    BY <1>2, <1>3 DEF InCalls, CallMoves
  <2>1. CASE p = running
    BY <2>1 DEF CallMoves, ProgramCalls
  <2>2. CASE p # running
    <3>1. call'[p] = call[p]
      BY <2>2 DEF CallMoves, Active, Live
    <3> QED
      BY <3>1 DEF ProgInv, InCalls
  <2> QED
    BY <2>1, <2>2
<1> QED
  BY <1>1, <1>2, <1>3, <1>4

\* Who is at none of its semaphore's calls is inside as before.
LEMMA CallInside ==
    ASSUME ProgInv, SemInv', CallMoves, NEW p \in Used, NEW s \in Mutexes,
           \/ p # running
           \/ At(running) # OnSem("semWait", s) /\ At(running) # OnSem("semPost", s)
    PROVE  Inside(p, s)' <=> Inside(p, s)
<1>1. ProgramTypeOK /\ Founded /\ ProgramTypeOK' /\ Founded' /\ UNCHANGED programVars
  BY InvRuns, CallStays DEF CallMoves
<1>2. \/ call'[p] = NoCall <=> call[p] = NoCall
      \/ At(p) # OnSem("semWait", s) /\ At(p) # OnSem("semPost", s)
  BY DEF CallMoves, Used
<1> QED
  BY <1>1, <1>2, ElsewhereInside

\* While the father opens nobody else is there.
LEMMA FatherAlone ==
    ASSUME ProgInv, test # 0, pc[1] \in 1 .. 4
    PROVE  running = 1 /\ At(1).op = "semOpen" /\ At(1).sem = pc[1] - 1
<1>1. SemInv /\ ProgramTypeOK /\ Founded /\ running \in Live
  BY InvRuns
<1>2. 1 \in Used
  BY <1>1, RunsActive
<1>3. At(1).op = "semOpen" /\ At(1).sem = pc[1] - 1
  BY <1>1, <1>2, FatherFirst
<1> QED
  BY <1>1, <1>3 DEF ProgInv, Gathering

\* What is used or closed was opened before, and the variable has the descriptor of
\* that open; nothing is closed before the last use.
LEMMA OpenedAs ==
    ASSUME ProgInv, Misled = {}, NEW p \in Used, NEW i \in 1 .. Len(Text(p)), NEW s, i <= pc[p],
           Text(p)[i].op \in {"semClose", "semWait", "semPost"}, Text(p)[i].sem = s
    PROVE  \E k \in 1 .. 4 : /\ Opens(p, k) /\ Text(p)[k].sem = s /\ k < i
                             /\ fd[p][s] = k - 1
<1> DEFINE t == Text(p)
<1>1. ProgramTypeOK /\ Founded
  BY InvRuns
<1>2. Fits(t) /\ Len(t) \in Nat /\ pc[p] \in Nat /\ DOMAIN t = 1 .. Len(t)
  BY <1>1, TextOf
<1> HIDE DEF t
<1>3. PICK k \in 1 .. Len(t) : t[k].op = "semOpen" /\ t[k].sem = s
  BY <1>2 DEF Fits, UsesOpened, t
<1>4. k < i /\ k <= 4
  BY <1>2, <1>3 DEF Fits, OpensFirst, t
<1>5. k \in 1 .. 4 /\ Opens(p, k) /\ k < pc[p]
  BY <1>2, <1>3, <1>4 DEF Opens, t
<1>6. fd[p][s] # -1
  BY <1>3, <1>5 DEF ProgInv, Unopened, t
<1>7. fd[p][s] \in {-1, k - 1}
  BY <1>3, <1>5 DEF Misled, t
<1> QED
  BY <1>3, <1>4, <1>5, <1>6, <1>7 DEF t

\* Before its last use no semaphore is closed.
LEMMA NotYetClosed ==
    ASSUME ProgramTypeOK, Founded, NEW p \in Used, NEW i \in 1 .. Len(Text(p)), NEW s,
           Text(p)[i].op \in {"semOpen", "semWait", "semPost"}, pc[p] <= i
    PROVE  ~Closed(p, s)
<1> DEFINE t == Text(p)
<1>1. Fits(t) /\ Len(t) \in Nat /\ pc[p] \in Nat
  BY TextOf
<1> HIDE DEF t
<1>2. SUFFICES ASSUME NEW j \in 1 .. Len(t), t[j] = OnSem("semClose", s), Called(p, j)
               PROVE  FALSE
  BY DEF Closed, t
<1>3. t[j].op = "semClose"
  BY <1>2 DEF OnSem
<1>4. i < j
  BY <1>1, <1>2, <1>3 DEF Fits, OpensFirst, t
<1> QED
  BY <1>1, <1>2, <1>4 DEF Called

\* Who is inside has a descriptor for the mutex, is not gone, and is at its
\* semWait, at one of the three accesses or at its semPost.
LEMMA InsideHolds ==
    ASSUME ProgInv, Misled = {}, NEW p \in Used, NEW s \in Mutexes, Inside(p, s)
    PROVE  /\ p \in Active /\ s \in semaphores_list
           /\ pc[p] # 0
           /\ At(p).op \in {"semWait", "load", "store", "advance", "semPost"}
           /\ \E k \in 1 .. Len(Text(p)) :
                 /\ Enters(p, s, k)
                 /\ \/ pc[p] = k /\ call[p] # NoCall /\ At(p) = OnSem("semWait", s)
                    \/ pc[p] \in k + 1 .. k + 3 /\ At(p).op \in {"load", "store", "advance"}
                    \/ pc[p] = k + 4 /\ call[p] = NoCall /\ At(p) = OnSem("semPost", s)
<1>1. ProgramTypeOK /\ Founded /\ SemInv
  BY InvRuns
<1>2. PICK k \in 1 .. Len(Text(p)) : Enters(p, s, k)
  BY <1>1, InsideIs
<1>3. /\ Text(p)[k] = OnSem("semWait", s) /\ Called(p, k) /\ ~Called(p, k + 4)
  BY <1>2 DEF Enters
<1>4. /\ k > 1 /\ k + 4 <= Len(Text(p)) /\ Text(p)[k + 4] = OnSem("semPost", s)
      /\ \A j \in 1 .. 3 : Text(p)[k + j].op \in {"load", "store", "advance"}
  BY <1>1, <1>3, GuardsOf
<1>5. /\ pc[p] \in Nat /\ Len(Text(p)) \in Nat /\ p \in PCB
  BY <1>1, TextOf
<1>6. pc[p] \in k .. k + 4
  BY <1>3, <1>5 DEF Called
<1>7. pc[p] # 0 /\ At(p) = Text(p)[pc[p]]
  <2>1. pc[p] # 0
    BY <1>4, <1>6
  <2> QED
    BY <1>1, <2>1, PlaceOf
<1>8. /\ \/ pc[p] = k /\ call[p] # NoCall /\ At(p) = OnSem("semWait", s)
         \/ pc[p] \in k + 1 .. k + 3 /\ At(p).op \in {"load", "store", "advance"}
         \/ pc[p] = k + 4 /\ call[p] = NoCall /\ At(p) = OnSem("semPost", s)
  <2>1. CASE pc[p] = k
    BY <1>3, <1>7, <2>1 DEF Called
  <2>2. CASE pc[p] = k + 4
    BY <1>3, <1>4, <1>7, <2>2 DEF Called
  <2>3. CASE pc[p] # k /\ pc[p] # k + 4
    <3>1. pc[p] \in k + 1 .. k + 3
      BY <1>5, <1>6, <2>3
    <3>2. PICK j \in 1 .. 3 : pc[p] = k + j
      <4>1. pc[p] - k \in 1 .. 3 /\ pc[p] = k + (pc[p] - k)
        BY <1>5, <3>1
      <4> QED
        BY <4>1
    <3>3. At(p).op \in {"load", "store", "advance"}
      BY <1>4, <1>7, <3>2
    <3> QED
      BY <3>1, <3>3
  <2> QED
    BY <2>1, <2>2, <2>3
<1>9. At(p).op \in {"semWait", "load", "store", "advance", "semPost"}
  BY <1>8 DEF OnSem
<1>10. p \in Active
  BY <1>7, <1>9 DEF ProgInv, AtTheEnd
<1>11. s \in semaphores_list
  <2>1. Text(p)[k].op = "semWait" /\ Text(p)[k].sem = s
    BY <1>3 DEF OnSem
  <2>2. PICK j \in 1 .. 4 : Opens(p, j) /\ Text(p)[j].sem = s /\ j < k /\ fd[p][s] = j - 1
    <3>1. k <= pc[p]
      BY <1>6
    <3> QED
      BY <2>1, <3>1, OpenedAs
  <2>3. j \in 2 .. 4 /\ j < pc[p]
    <3>1. j >= 3
      BY <1>1, <2>2, GuardsOf DEF Opens
    <3> QED
      BY <1>6, <1>5, <2>2, <3>1
  <2>4. ~Closed(p, s)
    <3>1. k + 4 \in 1 .. Len(Text(p)) /\ pc[p] <= k + 4 /\ Text(p)[k + 4].op = "semPost"
      BY <1>4, <1>5, <1>6 DEF OnSem
    <3>2. \E i \in 1 .. Len(Text(p)) : pc[p] <= i /\ Text(p)[i].op = "semPost"
      BY <3>1
    <3> QED
      BY <1>1, <3>2, NotYetClosed
  <2>5. [fd |-> j - 1, sem |-> s] \in sem_descriptors[p]
    BY <2>2, <2>3, <2>4 DEF ProgInv, Kept
  <2>6. p \in Live
    BY <1>10 DEF Active
  <2> QED
    BY <1>1, <2>5, <2>6 DEF SemInv, DescriptorsPair
<1> QED
  BY <1>2, <1>7, <1>8, <1>9, <1>10, <1>11

\* The variable for a mutex leads to that mutex, and no other one does.
LEMMA FdTells ==
    ASSUME ProgInv, Misled = {}, NEW p \in Used, p \in Live,
           pc[p] \in 1 .. Len(Text(p)), At(p) = Text(p)[pc[p]],
           At(p).op \in {"semWait", "semPost"}, NEW s \in Mutexes, NEW f, f = fd[p][At(p).sem]
    PROVE  At(p).sem = s <=> [fd |-> f, sem |-> s] \in sem_descriptors[p]
<1>1. SemInv /\ ProgramTypeOK /\ Founded
  BY InvRuns
<1>2. pc[p] \in Nat /\ Fits(Text(p))
  BY <1>1, TextOf
<1>3. PICK j \in 1 .. 4 : Opens(p, j) /\ Text(p)[j].sem = At(p).sem /\ j < pc[p] /\ f = j - 1
  <2>1. pc[p] <= pc[p]
    BY <1>2
  <2>2. At(p).op \in {"semClose", "semWait", "semPost"}
    OBVIOUS
  <2> QED
    BY <2>1, <2>2, OpenedAs
<1>4. ASSUME NEW k \in 1 .. 4, Opens(p, k), Text(p)[k].sem = s, k < pc[p]
      PROVE  [fd |-> k - 1, sem |-> s] \in sem_descriptors[p]
  <2>1. k \in 2 .. 4
    <3>1. k >= 3
      BY <1>1, <1>4, GuardsOf DEF Opens
    <3> QED
      BY <3>1
  <2>2. ~Closed(p, s)
    <3>1. \E i \in 1 .. Len(Text(p)) :
             pc[p] <= i /\ Text(p)[i].op \in {"semOpen", "semWait", "semPost"}
      BY <1>2
    <3> QED
      BY <1>1, <3>1, NotYetClosed
  <2> QED
    BY <1>4, <2>1, <2>2 DEF ProgInv, Kept
<1>5. ASSUME At(p).sem = s
      PROVE  [fd |-> f, sem |-> s] \in sem_descriptors[p]
  BY <1>3, <1>4, <1>5
<1>6. ASSUME [fd |-> f, sem |-> s] \in sem_descriptors[p]
      PROVE  At(p).sem = s
  <2>1. PICK k \in 1 .. 4 : Opens(p, k) /\ Text(p)[k].sem = s
    BY <1>6 DEF ProgInv, OwnSems
  <2>2. k < pc[p]
    BY <1>2, <2>1 DEF Fits, OpensFirst, Opens
  <2>3. [fd |-> k - 1, sem |-> s] \in sem_descriptors[p]
    BY <1>4, <2>1, <2>2
  <2>4. f = k - 1
    <3>1. \A d, e \in sem_descriptors[p] : d.fd = e.fd <=> d.sem = e.sem
      BY <1>1 DEF SemInv, DescriptorsPair
    <3> QED
      BY <1>6, <2>3, <3>1
  <2>5. j = k
    BY <1>3, <2>4
  <2> QED
    BY <1>3, <2>1, <2>5
<1> QED
  BY <1>5, <1>6

\* The descriptor of a mutex in a call to wait for it or to post to it, and in no
\* other call.
LEMMA MutexFd ==
    ASSUME ProgInv, Misled = {}, NEW op \in {"semWait", "semPost"}, Doing(op), NEW s \in Mutexes,
           NEW f, f = fd[running][At(running).sem]
    PROVE  /\ At(running).sem = s => Holds(f) /\ SemOf(f) = s
           /\ Holds(f) /\ SemOf(f) = s => At(running).sem = s
<1>1. /\ SemInv /\ ProgramTypeOK /\ Founded
      /\ running \in Live /\ running \in Used /\ running \in PCB
  BY InvRuns
<1>2. /\ pc[running] \in 1 .. Len(Text(running)) /\ At(running) = Text(running)[pc[running]]
      /\ At(running).op = op
  BY <1>1, InstructionOf
<1>3. At(running).sem = s <=> [fd |-> f, sem |-> s] \in sem_descriptors[running]
  BY <1>1, <1>2, FdTells
<1>4. Holds(f) => [fd |-> f, sem |-> SemOf(f)] \in sem_descriptors[running]
  BY <1>1, OwnDescriptor
<1>5. \A d, e \in sem_descriptors[running] : d.fd = e.fd <=> d.sem = e.sem
  BY <1>1 DEF SemInv, DescriptorsPair
<1>6. ASSUME [fd |-> f, sem |-> s] \in sem_descriptors[running]
      PROVE  Holds(f) /\ SemOf(f) = s
  <2>1. Holds(f)
    BY <1>6 DEF Holds, ByFd
  <2> QED
    BY <1>4, <1>5, <1>6, <2>1
<1> QED
  BY <1>3, <1>4, <1>6

\* What a call does with descriptors and answers: it adds or takes away one of the
\* caller's at most, and of the others at most overwrites an answer with 0.
CallAnswers ==
    /\ \A p \in PCB : p # running =>
          /\ sem_descriptors'[p] = sem_descriptors[p]
          /\ retvalue'[p] = retvalue[p] \/ retvalue'[p] = 0
    /\ \A d \in sem_descriptors[running] :
          \/ d \in sem_descriptors'[running]
          \/ At(running).op = "semClose" /\ d.fd = fd[running][At(running).sem]
    /\ \A d \in sem_descriptors'[running] :
          \/ d \in sem_descriptors[running]
          \/ At(running).op = "semOpen" /\ d.sem = At(running).sem
    /\ At(running).op = "semOpen" =>
          \/ retvalue'[running] \in {-14, -16, -17}
          \/ [fd |-> retvalue'[running], sem |-> At(running).sem] \in sem_descriptors'[running]
    /\ Misled = {} => \A s \in Mutexes : At(running) = OnSem("semWait", s) => retvalue'[running] = 0

LEMMA CallKeeps ==
    ASSUME ProgInv, SemInv', CallMoves, CallAnswers
    PROVE  FatherHolds' /\ Answers' /\ OwnSems' /\ Kept' /\ Admitted'
<1>1. /\ SemInv /\ ProgramTypeOK /\ Founded /\ running \in Live /\ running \in Used
      /\ running \in PCB /\ running \in Active
  BY InvRuns
<1>2. /\ \A p : Text(p)' = Text(p) /\ At(p)' = At(p)
      /\ Used' = Used /\ Misled' = Misled /\ \A p, k : Opens(p, k)' = Opens(p, k)
      /\ UNCHANGED <<test, HOWMANY, function, pc, fd, n, c_buffer, index>>
  BY CallStays
<1>3. /\ 1 \in Used /\ 1 \in PCB /\ Used \subseteq PCB /\ Active \subseteq Used
  BY <1>1, RunsActive
<1>4. /\ Active' = Active /\ Live' = Live
      /\ \A p \in PCB : p # running => call'[p] = call[p]
      /\ pc[running] \in 1 .. Len(Text(running)) /\ At(running) = Text(running)[pc[running]]
      /\ At(running).op \in {"semOpen", "semClose", "semWait", "semPost"}
  BY DEF CallMoves
<1>5. FatherHolds'
  <2>1. ASSUME test # 0, NEW k \in 1 .. 4, At(1).op \in {"semOpen", "spawn", "wait"}, k < pc[1]
        PROVE  Has(k - 1)'
    <3>1. PICK d \in sem_descriptors[1] : d.sem = k - 1
      BY <2>1 DEF ProgInv, FatherHolds, Has
    <3>2. d \in sem_descriptors'[1]
      BY <1>3, <2>1, <3>1 DEF CallAnswers
    <3> QED
      BY <3>1, <3>2 DEF Has
  <2>2. ASSUME test # 0, NEW k \in 1 .. 4, k = pc[1], call'[1] # NoCall, retvalue'[1] >= 0
        PROVE  Has(k - 1)'
    <3>1. running = 1 /\ At(1).op = "semOpen" /\ At(1).sem = k - 1
      BY <2>2, FatherAlone
    <3>2. retvalue'[1] \notin {-14, -16, -17}
      BY <2>2
    <3>3. [fd |-> retvalue'[1], sem |-> k - 1] \in sem_descriptors'[1]
      BY <3>1, <3>2 DEF CallAnswers
    <3> QED
      BY <3>3 DEF Has
  <2> QED
    BY <1>2, <2>1, <2>2 DEF FatherHolds
<1>6. Answers'
  <2> SUFFICES ASSUME NEW p \in Active, call'[p] # NoCall, At(p).op = "semOpen"
               PROVE  \/ retvalue'[p] \in {-14, -16, -17, 0}
                      \/ [fd |-> retvalue'[p], sem |-> At(p).sem] \in sem_descriptors'[p]
    BY <1>2, <1>4 DEF Answers
  <2>1. CASE p = running
    BY <2>1 DEF CallAnswers
  <2>2. CASE p # running
    <3>1. /\ sem_descriptors'[p] = sem_descriptors[p] /\ call'[p] = call[p]
          /\ retvalue'[p] = retvalue[p] \/ retvalue'[p] = 0
      BY <1>3, <1>4, <2>2 DEF CallAnswers
    <3> QED
      BY <3>1 DEF ProgInv, Answers
  <2> QED
    BY <2>1, <2>2
<1>7. OwnSems'
  <2> SUFFICES ASSUME NEW p \in Used, NEW d \in sem_descriptors'[p]
               PROVE  \E k \in 1 .. 4 : Opens(p, k) /\ Text(p)[k].sem = d.sem
    BY <1>2 DEF OwnSems
  <2>1. CASE d \in sem_descriptors[p]
    BY <2>1 DEF ProgInv, OwnSems
  <2>2. CASE d \notin sem_descriptors[p]
    <3>1. p = running /\ At(running).op = "semOpen" /\ d.sem = At(running).sem
      BY <1>3, <2>2 DEF CallAnswers
    <3>2. Fits(Text(p)) /\ Len(Text(p)) \in Nat
      BY <1>1, TextOf
    <3>3. /\ pc[p] \in 1 .. Len(Text(p)) /\ At(p) = Text(p)[pc[p]]
          /\ At(p).op = "semOpen" /\ d.sem = At(p).sem
      BY <1>4, <3>1
    <3>4. PICK k \in 1 .. Len(Text(p)) : k = pc[p]
      BY <3>3
    <3>5. Text(p)[k].op = "semOpen" /\ Text(p)[k].sem = d.sem
      BY <3>3, <3>4
    <3>6. k \in 1 .. 4
      <4>1. k <= 4
        BY <3>2, <3>5 DEF Fits, OpensFirst
      <4> QED
        BY <3>2, <4>1
    <3> QED
      BY <3>5, <3>6 DEF Opens
  <2> QED
    BY <2>1, <2>2
<1>8. Kept'
  <2> SUFFICES ASSUME Misled = {}, NEW p \in Used, NEW k \in 2 .. 4,
                      Opens(p, k), k < pc[p], ~Closed(p, Text(p)[k].sem)'
               PROVE  [fd |-> k - 1, sem |-> Text(p)[k].sem] \in sem_descriptors'[p]
    BY <1>2 DEF Kept
  <2> PICK s : s = Text(p)[k].sem
    OBVIOUS
  <2> DEFINE d == [fd |-> k - 1, sem |-> s]
  <2>0. ~Closed(p, s)' /\ Opens(p, k) /\ k < pc[p]
    BY <1>2
  <2>1. CASE p # running \/ At(running).op # "semClose"
    <3>1. (call'[p] = NoCall <=> call[p] = NoCall) \/ At(p).op # "semClose"
      BY <1>3, <1>4, <2>1
    <3>2. UNCHANGED programVars
      BY DEF CallMoves
    <3>3. Closed(p, s)' <=> Closed(p, s)
      BY <1>1, <3>1, <3>2, ElsewhereClosed
    <3>4. d \in sem_descriptors[p]
      BY <2>0, <3>3 DEF ProgInv, Kept
    <3> QED
      BY <1>3, <2>1, <3>4 DEF CallAnswers
  <2>2. CASE p = running /\ At(running).op = "semClose"
    <3>1. pc[p] \in Nat /\ Text(p) \in Seq(Instructions)
      BY <1>1, TextOf
    <3> PICK i, c : i = pc[p] /\ c = At(p).sem
      OBVIOUS
    <3>2. i \in 1 .. Len(Text(p)) /\ At(p) = Text(p)[i] /\ At(p).op = "semClose"
      BY <1>4, <2>2
    <3>3. Text(p)[i] = OnSem("semClose", c)
      <4>1. At(p) \in Instructions
        BY <3>1, <3>2
      <4> QED
        BY <3>2, <4>1 DEF Instructions, OnSem
    <3>4. s # c
      <4>1. Called(p, i)'
        BY <1>2, <2>2 DEF CallMoves, Called
      <4>2. Closed(p, c)'
        BY <1>2, <3>2, <3>3, <4>1 DEF Closed
      <4> QED
        BY <2>0, <4>2
    <3>5. ~Closed(p, s)
      <4> SUFFICES ASSUME Closed(p, s) PROVE Closed(p, s)'
        BY <2>0
      <4>1. PICK j \in 1 .. Len(Text(p)) : Text(p)[j] = OnSem("semClose", s) /\ Called(p, j)
        BY DEF Closed
      <4>2. Called(p, j)'
        BY <1>2, <2>2, <4>1 DEF Called, CallMoves
      <4> QED
        BY <1>2, <4>1, <4>2 DEF Closed
    <3>6. d \in sem_descriptors[p]
      BY <2>0, <3>5 DEF ProgInv, Kept
    <3>7. PICK j \in 1 .. 4 : Opens(p, j) /\ Text(p)[j].sem = c /\ fd[p][c] = j - 1
      <4>1. /\ i <= pc[p] /\ Text(p)[i].op \in {"semClose", "semWait", "semPost"}
            /\ Text(p)[i].sem = c
        BY <3>1, <3>2
      <4> QED
        BY <3>2, <4>1, OpenedAs
    <3>8. fd[p][c] # k - 1
      BY <3>4, <3>7
    <3> QED
      BY <2>2, <3>6, <3>8 DEF CallAnswers
  <2> QED
    BY <2>1, <2>2
<1>9. Admitted'
  <2> SUFFICES ASSUME Misled = {}, NEW p \in Active, NEW s \in Mutexes, At(p) = OnSem("semWait", s)
               PROVE  retvalue'[p] = 0
    BY <1>2, <1>4 DEF Admitted
  <2>1. CASE p = running
    BY <2>1 DEF CallAnswers
  <2>2. CASE p # running
    BY <1>3, <2>2 DEF CallAnswers, ProgInv, Admitted
  <2> QED
    BY <2>1, <2>2
<1> QED
  BY <1>5, <1>6, <1>7, <1>8, <1>9

LEMMA CalledKeeps ==
    ASSUME ProgInv, SemInv', CallMoves, CallAnswers, MutexAccounted'
    PROVE  ProgInv'
  BY CallStays, CallKeeps DEF ProgInv

\* Nobody goes in or out, and no mutex changes its count or is linked.
LEMMA SameCounts ==
    ASSUME ProgInv, SemInv', CallMoves,
           \A s \in Mutexes : /\ At(running) # OnSem("semWait", s) /\ At(running) # OnSem("semPost", s)
                              /\ s \in semaphores_list' => s \in semaphores_list /\ count'[s] = count[s]
    PROVE  MutexAccounted'
<1>1. \A p \in Used, s \in Mutexes : Inside(p, s)' <=> Inside(p, s)
  BY CallInside
<1>2. Misled' = Misled /\ Used' = Used
  BY CallStays
<1> QED
  BY <1>1, <1>2, SameAccounts

\* semOpen: a mutex that is linked now has nobody inside, and is opened with 1.
LEMMA OpenAccounts ==
    ASSUME ProgInv, SemInv', CallMoves, At(running).op = "semOpen",
           \/ UNCHANGED <<semaphores_list, count>>
           \/ Link(At(running).sem, At(running).value)
    PROVE  MutexAccounted'
<1> DEFINE t == At(running).sem
<1>1. SemInv /\ ProgramTypeOK /\ Founded /\ running \in Used
  BY InvRuns
<1>2. \A s : At(running) # OnSem("semWait", s) /\ At(running) # OnSem("semPost", s)
  BY DEF OnSem
<1>3. CASE UNCHANGED <<semaphores_list, count>>
  BY <1>2, <1>3, SameCounts
<1>4. CASE Link(t, At(running).value)
  <2>1. /\ semaphores_list' = semaphores_list \union {t}
        /\ count' = [count EXCEPT ![t] = IF t \in semaphores_list THEN count[t] ELSE At(running).value]
    BY <1>4 DEF Link
  <2>2. count \in [SemNum -> Int] /\ Mutexes \subseteq SemNum
    BY <1>1, Constants DEF SemInv, SemTypeOK, Mutexes
  <2>3. CASE t \notin Mutexes \/ t \in semaphores_list
    <3>1. \A s \in Mutexes : s \in semaphores_list' => s \in semaphores_list /\ count'[s] = count[s]
      BY <2>1, <2>2, <2>3
    <3> QED
      BY <1>2, <3>1, SameCounts
  <2>4. CASE t \in Mutexes /\ t \notin semaphores_list
    <3>1. \A p \in Used, s \in Mutexes : Inside(p, s)' <=> Inside(p, s)
      BY <1>2, CallInside
    <3>2. Misled' = Misled /\ Used' = Used
      BY CallStays
    <3> SUFFICES ASSUME Misled = {}, NEW s \in Mutexes, s \in semaphores_list'
                 PROVE  count'[s] = 1 - Cardinality({p \in Used : Inside(p, s)'})
      BY <3>2 DEF MutexAccounted, Mutexes
    <3>3. {p \in Used : Inside(p, s)'} = {p \in Used : Inside(p, s)}
      BY <3>1
    <3>4. CASE s # t
      <4>1. s \in semaphores_list /\ count'[s] = count[s]
        BY <2>1, <2>2, <3>4
      <4>2. count[s] = 1 - Cardinality({p \in Used : Inside(p, s)})
        BY <4>1 DEF ProgInv, MutexAccounted, Mutexes
      <4> QED
        BY <3>3, <4>1, <4>2
    <3>5. CASE s = t
      <4>1. {p \in Used : Inside(p, s)} = {}
        BY <2>4, <3>5, InsideHolds
      <4>2. At(running).value = 1
        <5>1. pc[running] \in 1 .. Len(Text(running)) /\ At(running) = Text(running)[pc[running]]
          BY DEF CallMoves
        <5> QED
          BY <1>1, <2>4, <5>1, GuardsOf
      <4>3. count'[s] = 1
        BY <2>1, <2>2, <2>4, <3>5, <4>2
      <4>4. Cardinality({p \in Used : Inside(p, s)'}) = 0
        BY <3>3, <4>1, FS_EmptySet
      <4> QED
        BY <4>3, <4>4
    <3> QED
      BY <3>4, <3>5
  <2> QED
    BY <2>3, <2>4
<1> QED
  BY <1>3, <1>4

\* What semOpen does to descriptors and answers.
LEMMA OpenAnswers ==
    ASSUME ProgInv, SemInv', CallMoves, NEW s, NEW value, SemOpen(s, value),
           At(running).op = "semOpen", At(running).sem = s
    PROVE  CallAnswers
<1>1. /\ SemTypeOK /\ KernelTypeOK /\ running \in PCB /\ SemTypeOK'
  BY InvRuns DEF SemInv
<1>2. \A r : At(running) # OnSem("semWait", r)
  BY DEF OnSem
<1>3. /\ sem_descriptors \in [PCB -> SUBSET [fd : Nat, sem : SemNum]] /\ retvalue \in [PCB -> Int]
  BY <1>1 DEF SemTypeOK, KernelTypeOK
<1>4. \E answer : Answer(answer) /\
         \/ UNCHANGED sem_descriptors /\ answer \in {-14, -16, -17}
         \/ UNCHANGED sem_descriptors /\ [fd |-> answer, sem |-> s] \in sem_descriptors[running]
         \/ sem_descriptors' = [sem_descriptors EXCEPT ![running] =
                                    sem_descriptors[running] \union {[fd |-> answer, sem |-> s]}]
  <2>1. CASE BySem(s) # {}
    <3>1. PICK d : d = CHOOSE e \in BySem(s) : TRUE
      OBVIOUS
    <3>2. d \in BySem(s)
      BY <2>1, <3>1
    <3>3. d \in sem_descriptors[running] /\ d.sem = s
      BY <3>2 DEF BySem
    <3>4. d = [fd |-> d.fd, sem |-> s]
      BY <1>1, <1>3, <3>3
    <3>5. Answer(d.fd) /\ UNCHANGED sem_descriptors
      BY <2>1, <3>1 DEF SemOpen, holderVars
    <3> QED
      BY <3>3, <3>4, <3>5
  <2>2. CASE BySem(s) = {} /\ s \notin semaphores_list /\ NoSemaphoreLeft
    <3>1. Answer(-16) /\ UNCHANGED sem_descriptors
      BY <2>2 DEF SemOpen, holderVars, DSOS_ECREATESEM
    <3> QED
      BY <3>1
  <2>3. CASE BySem(s) = {} /\ ~(s \notin semaphores_list /\ NoSemaphoreLeft)
    <3>1. Describe(s)
      BY <2>3 DEF SemOpen
    <3>2. CASE dsc_free = 0
      BY <3>1, <3>2 DEF Describe, holderVars, DSOS_ECREATEFD
    <3>3. CASE dsc_free # 0 /\ NoPtrsLeft
      BY <3>1, <3>3 DEF Describe, DSOS_ECREATEPTR
    <3>4. CASE dsc_free # 0 /\ ~NoPtrsLeft
      BY <3>1, <3>4 DEF Describe
    <3> QED
      BY <3>2, <3>3, <3>4
  <2> QED
    BY <2>1, <2>2, <2>3
<1>5. PICK answer : Answer(answer) /\
         \/ UNCHANGED sem_descriptors /\ answer \in {-14, -16, -17}
         \/ UNCHANGED sem_descriptors /\ [fd |-> answer, sem |-> s] \in sem_descriptors[running]
         \/ sem_descriptors' = [sem_descriptors EXCEPT ![running] =
                                    sem_descriptors[running] \union {[fd |-> answer, sem |-> s]}]
  BY <1>4
<1>6. retvalue'[running] = answer /\ \A p \in PCB : p # running => retvalue'[p] = retvalue[p]
  BY <1>1, <1>3, <1>5 DEF Answer
<1>7. CASE /\ UNCHANGED sem_descriptors
           /\ answer \in {-14, -16, -17} \/ [fd |-> answer, sem |-> s] \in sem_descriptors[running]
  BY <1>2, <1>3, <1>5, <1>6, <1>7 DEF CallAnswers
<1>8. CASE sem_descriptors' = [sem_descriptors EXCEPT ![running] =
                                   sem_descriptors[running] \union {[fd |-> answer, sem |-> s]}]
  <2>1. /\ \A p \in PCB : p # running => sem_descriptors'[p] = sem_descriptors[p]
        /\ sem_descriptors'[running] = sem_descriptors[running] \union {[fd |-> answer, sem |-> s]}
    BY <1>1, <1>3, <1>8
  <2> QED
    BY <1>2, <1>6, <2>1 DEF CallAnswers
<1> QED
  BY <1>5, <1>7, <1>8

LEMMA CloseKeeps ==
    ASSUME ProgInv, SemInv', CallMoves, At(running).op = "semClose",
           SemClose(fd[running][At(running).sem])
    PROVE  ProgInv'
<1> DEFINE f == fd[running][At(running).sem]
<1>1. /\ SemTypeOK /\ KernelTypeOK /\ running \in PCB
      /\ sem_descriptors \in [PCB -> SUBSET [fd : Nat, sem : SemNum]] /\ retvalue \in [PCB -> Int]
  BY InvRuns DEF SemInv, SemTypeOK, KernelTypeOK
<1>2. \A s : At(running) # OnSem("semWait", s) /\ At(running) # OnSem("semPost", s)
  BY DEF OnSem
<1>3. CASE ~Holds(f)
  <2>1. /\ Answer(DSOS_ENOTMYSEM) /\ UNCHANGED <<semaphores_list, count, sem_descriptors>>
    BY <1>3 DEF SemClose, NotMySem, semaphoreVars, holderVars
  <2>2. \A p \in PCB : p # running => retvalue'[p] = retvalue[p]
    BY <1>1, <2>1 DEF Answer
  <2>3. CallAnswers
    BY <1>1, <1>2, <2>1, <2>2 DEF CallAnswers
  <2>4. MutexAccounted'
    BY <1>2, <2>1, SameCounts
  <2> QED
    BY <2>3, <2>4, CalledKeeps
<1>4. CASE Holds(f)
  <2>1. /\ sem_descriptors' = [sem_descriptors EXCEPT ![running] = sem_descriptors[running] \ ByFd(f)]
        /\ Answer(0) /\ UNCHANGED count /\ semaphores_list' \subseteq semaphores_list
    BY <1>4 DEF SemClose, Unlink
  <2>2. /\ \A p \in PCB : p # running => /\ retvalue'[p] = retvalue[p]
                                         /\ sem_descriptors'[p] = sem_descriptors[p]
        /\ sem_descriptors'[running] = sem_descriptors[running] \ ByFd(f)
    BY <1>1, <2>1 DEF Answer
  <2>3. CallAnswers
    BY <1>1, <1>2, <2>2 DEF CallAnswers, ByFd
  <2>4. MutexAccounted'
    BY <1>2, <2>1, SameCounts
  <2> QED
    BY <2>3, <2>4, CalledKeeps
<1> QED
  BY <1>3, <1>4

\* Who is inside a mutex, when the caller waits for one or posts to it.
LEMMA CallerGoesIn ==
    ASSUME ProgInv, SemInv', CallMoves, Misled = {}, NEW s \in Mutexes,
           NEW p, p = running, At(p) = OnSem("semWait", s)
    PROVE  ~Inside(p, s) /\ Inside(p, s)'
<1>1. ProgramTypeOK /\ Founded /\ p \in Used /\ SemInv
  BY InvRuns
<1>2. /\ call[p] = NoCall /\ call'[p] # NoCall /\ At(p).op = "semWait"
      /\ pc[p] \in 1 .. Len(Text(p)) /\ At(p) = Text(p)[pc[p]]
  BY DEF CallMoves, OnSem
<1>3. ~Inside(p, s)
  <2>1. OnSem("semPost", s).op = "semPost"
    BY DEF OnSem
  <2> QED
    BY <1>1, <1>2, <2>1, InsideHolds
<1>4. /\ Text(p)' = Text(p) /\ pc' = pc /\ Used' = Used /\ ProgramTypeOK' /\ Founded'
  BY CallStays
<1>5. PICK k \in 1 .. Len(Text(p)) : k = pc[p]
  BY <1>2
<1>6. k \in Nat
  BY <1>1, <1>5, TextOf
<1>7. Called(p, k)' /\ ~Called(p, k + 4)'
  BY <1>2, <1>4, <1>5, <1>6 DEF Called
<1>8. Enters(p, s, k)'
  BY <1>2, <1>4, <1>5, <1>7 DEF Enters
<1>9. Inside(p, s)'
  BY <1>1, <1>4, <1>8, ToEnterNext DEF InsideIsToEnter
<1> QED
  BY <1>3, <1>9

LEMMA CallerGoesOut ==
    ASSUME ProgInv, SemInv', CallMoves, NEW s \in Mutexes,
           NEW p, p = running, At(p) = OnSem("semPost", s)
    PROVE  Inside(p, s) /\ ~Inside(p, s)'
<1>1. ProgramTypeOK /\ Founded /\ p \in Used /\ SemInv
  BY InvRuns
<1>2. /\ call[p] = NoCall /\ call'[p] # NoCall /\ At(p).op = "semPost"
      /\ pc[p] \in 1 .. Len(Text(p)) /\ At(p) = Text(p)[pc[p]]
  BY DEF CallMoves, OnSem
<1>3. /\ Text(p)' = Text(p) /\ pc' = pc /\ Used' = Used /\ ProgramTypeOK' /\ Founded'
  BY CallStays
<1>4. pc[p] \in Nat /\ Len(Text(p)) \in Nat
  BY <1>1, TextOf
<1>5. Inside(p, s)
  <2>1. pc[p] > 4 /\ Text(p)[pc[p] - 4] = OnSem("semWait", s)
    BY <1>1, <1>2, GuardsOf
  <2>2. PICK k \in 1 .. Len(Text(p)) : k = pc[p] - 4
    BY <1>2, <1>4, <2>1
  <2>3. Text(p)[k] = OnSem("semWait", s) /\ k < pc[p] /\ k + 4 = pc[p]
    BY <1>4, <2>1, <2>2
  <2>4. Called(p, k) /\ ~Called(p, k + 4)
    BY <1>2, <1>4, <2>3 DEF Called
  <2>5. Enters(p, s, k)
    BY <2>3, <2>4 DEF Enters
  <2> QED
    BY <1>1, <2>5, InsideIs
<1>6. ~Inside(p, s)'
  <2> SUFFICES ASSUME Inside(p, s)' PROVE FALSE
    OBVIOUS
  <2>1. PICK k \in 1 .. Len(Text(p)) : Enters(p, s, k)'
    BY <1>1, <1>3, ToEnterNext DEF InsideIsToEnter
  <2>2. Text(p)[k] = OnSem("semWait", s) /\ Called(p, k)' /\ ~Called(p, k + 4)'
    BY <1>3, <2>1 DEF Enters
  <2>3. k <= pc[p] /\ pc[p] < k + 4
    BY <1>2, <1>3, <1>4, <2>2 DEF Called
  <2>4. k # pc[p]
    BY <1>2, <2>2 DEF OnSem
  <2>5. PICK j \in 1 .. 3 : pc[p] = k + j
    <3>1. pc[p] - k \in 1 .. 3 /\ pc[p] = k + (pc[p] - k)
      BY <1>4, <2>3, <2>4
    <3> QED
      BY <3>1
  <2>6. Text(p)[k + j].op \in {"load", "store", "advance"}
    BY <1>1, <2>2, GuardsOf
  <2> QED
    BY <1>2, <2>5, <2>6
<1> QED
  BY <1>5, <1>6

\* The count of a mutex and who is inside change together.
LEMMA PassAccounts ==
    ASSUME ProgInv, SemInv', CallMoves, NEW op \in {"semWait", "semPost"}, Doing(op),
           NEW f, f = fd[running][At(running).sem], UNCHANGED semaphores_list,
           \/ ~Holds(f) /\ UNCHANGED count
           \/ /\ Holds(f) /\ op = "semWait"
              /\ count' = [count EXCEPT ![SemOf(f)] = count[SemOf(f)] - 1]
           \/ /\ Holds(f) /\ op = "semPost"
              /\ count' = [count EXCEPT ![SemOf(f)] = count[SemOf(f)] + 1]
    PROVE  MutexAccounted'
<1>1. /\ SemInv /\ ProgramTypeOK /\ Founded /\ running \in Used /\ running \in PCB
      /\ Used \subseteq PCB
  BY InvRuns, RunsActive
<1>2. Misled' = Misled /\ Used' = Used
  BY CallStays
<1>3. count \in [SemNum -> Int] /\ Mutexes \subseteq SemNum
  BY <1>1, Constants DEF SemInv, SemTypeOK, Mutexes
<1>4. At(running) \in Instructions /\ At(running).op = op
  BY <1>1, InstructionOf
<1>5. At(running) = OnSem(op, At(running).sem)
  BY <1>4 DEF Instructions, OnSem
<1> SUFFICES ASSUME Misled = {}, NEW s \in Mutexes, s \in semaphores_list
             PROVE  count'[s] = 1 - Cardinality({p \in Used : Inside(p, s)'})
  BY <1>2 DEF MutexAccounted, Mutexes
<1> DEFINE before == {p \in Used : Inside(p, s)}
           after == {p \in Used : Inside(p, s)'}
<1>6. count[s] = 1 - Cardinality(before)
  BY DEF ProgInv, MutexAccounted, Mutexes
<1>7. /\ At(running).sem = s => Holds(f) /\ SemOf(f) = s
      /\ Holds(f) /\ SemOf(f) = s => At(running).sem = s
  BY MutexFd
<1>8. \A p \in Used : p # running => (Inside(p, s)' <=> Inside(p, s))
  BY CallInside
<1>9. IsFiniteSet(before) /\ IsFiniteSet(after)
  <2>1. IsFiniteSet(PCB)
    BY KernelAssumption, FS_Interval DEF PCB
  <2> QED
    BY <1>1, <2>1, FS_Subset
<1>10. Cardinality(before) \in Nat /\ Cardinality(after) \in Nat
  BY <1>9, FS_CardinalityType
<1> PICK p : p = running
  OBVIOUS
<1>11. CASE At(running).sem # s
  <2>1. count'[s] = count[s]
    BY <1>3, <1>7, <1>11
  <2>2. At(running) # OnSem("semWait", s) /\ At(running) # OnSem("semPost", s)
    BY <1>11 DEF OnSem
  <2>3. Inside(p, s)' <=> Inside(p, s)
    BY <1>1, <2>2, CallInside
  <2>4. after = before
    BY <1>8, <2>3
  <2> QED
    BY <1>6, <2>1, <2>4
<1>12. CASE At(running).sem = s /\ op = "semWait"
  <2>1. count'[s] = count[s] - 1
    BY <1>3, <1>7, <1>12
  <2>2. ~Inside(p, s) /\ Inside(p, s)'
    BY <1>5, <1>12, CallerGoesIn
  <2>3. after = before \union {p} /\ p \notin before
    BY <1>1, <1>8, <2>2
  <2>4. Cardinality(after) = Cardinality(before) + 1
    BY <1>9, <2>3, FS_AddElement
  <2> QED
    BY <1>6, <1>10, <2>1, <2>4
<1>13. CASE At(running).sem = s /\ op = "semPost"
  <2>1. count'[s] = count[s] + 1
    BY <1>3, <1>7, <1>13
  <2>2. Inside(p, s) /\ ~Inside(p, s)'
    BY <1>5, <1>13, CallerGoesOut
  <2>3. after = before \ {p} /\ p \in before
    BY <1>1, <1>8, <2>2
  <2>4. Cardinality(after) = Cardinality(before) - 1
    BY <1>9, <2>3, FS_RemoveElement
  <2> QED
    BY <1>6, <1>10, <2>1, <2>4
<1> QED
  BY <1>11, <1>12, <1>13

\* semWait: whoever has the answer to it in front of a section has 0.
LEMMA PassWaitKeeps ==
    ASSUME ProgInv, SemInv', CallMoves, Doing("semWait"), SemWait(fd[running][At(running).sem]),
           ~Stop("deadlock")
    PROVE  ProgInv'
<1> DEFINE f == fd[running][At(running).sem]
<1>1. /\ SemTypeOK /\ KernelTypeOK /\ running \in PCB /\ KernelInv /\ SemInv /\ running \in Active
      /\ ProgramTypeOK /\ Founded
      /\ sem_descriptors \in [PCB -> SUBSET [fd : Nat, sem : SemNum]] /\ retvalue \in [PCB -> Int]
  BY InvRuns DEF SemInv, SemTypeOK, KernelTypeOK
<1>2. At(running).op = "semWait"
  BY <1>1, InstructionOf
<1>3. CASE ~Holds(f)
  <2>1. /\ Answer(DSOS_ENOTMYSEM) /\ UNCHANGED <<semaphores_list, count, sem_descriptors>>
    BY <1>3 DEF SemWait, NotMySem, semaphoreVars, holderVars
  <2>2. \A p \in PCB : p # running => retvalue'[p] = retvalue[p]
    BY <1>1, <2>1 DEF Answer
  <2>3. Misled = {} => \A s \in Mutexes : At(running) # OnSem("semWait", s)
    BY <1>3, MutexFd DEF OnSem
  <2>4. CallAnswers
    BY <1>1, <1>2, <2>1, <2>2, <2>3 DEF CallAnswers
  <2>5. MutexAccounted'
    BY <1>3, <2>1, PassAccounts
  <2> QED
    BY <2>4, <2>5, CalledKeeps
<1>4. CASE Holds(f)
  <2>1. /\ ~(MustWait(SemOf(f)) /\ ready_list = <<>>)
        /\ count' = [count EXCEPT ![SemOf(f)] = count[SemOf(f)] - 1]
        /\ UNCHANGED <<semaphores_list, sem_descriptors>>
        /\ IF MustWait(SemOf(f)) THEN Block(SemOf(f)) ELSE Answer(0)
    <3>1. ~(MustWait(SemOf(f)) /\ ready_list = <<>>)
      BY <1>4 DEF SemWait
    <3> QED
      BY <1>4, <3>1 DEF SemWait, holderVars
  <2>2. /\ \A p \in PCB : p # running => retvalue'[p] = retvalue[p] \/ retvalue'[p] = 0
        /\ retvalue'[running] = retvalue[running] \/ retvalue'[running] = 0
    <3>1. CASE MustWait(SemOf(f))
      BY <1>1, <2>1, <3>1 DEF Block
    <3>2. CASE ~MustWait(SemOf(f))
      BY <1>1, <2>1, <3>2 DEF Answer
    <3> QED
      BY <3>1, <3>2
  <2>3. Misled = {} => \A s \in Mutexes : At(running) = OnSem("semWait", s) => retvalue'[running] = 0
    BY <1>1, <2>2 DEF ProgInv, Admitted
  <2>4. CallAnswers
    BY <1>1, <1>2, <2>1, <2>2, <2>3 DEF CallAnswers
  <2>5. MutexAccounted'
    BY <1>4, <2>1, PassAccounts
  <2> QED
    BY <2>4, <2>5, CalledKeeps
<1> QED
  BY <1>3, <1>4

LEMMA PassPostKeeps ==
    ASSUME ProgInv, SemInv', CallMoves, Doing("semPost"), SemPost(fd[running][At(running).sem])
    PROVE  ProgInv'
<1> DEFINE f == fd[running][At(running).sem]
<1>1. /\ SemTypeOK /\ KernelTypeOK /\ running \in PCB /\ SemInv
      /\ ProgramTypeOK /\ Founded
      /\ sem_descriptors \in [PCB -> SUBSET [fd : Nat, sem : SemNum]] /\ retvalue \in [PCB -> Int]
  BY InvRuns DEF SemInv, SemTypeOK, KernelTypeOK
<1>2. At(running).op = "semPost" /\ \A s : At(running) # OnSem("semWait", s)
  BY <1>1, InstructionOf DEF OnSem
<1>3. /\ \E value : Answer(value)
      /\ UNCHANGED <<semaphores_list, sem_descriptors>>
      /\ \/ ~Holds(f) /\ UNCHANGED count
         \/ Holds(f) /\ count' = [count EXCEPT ![SemOf(f)] = count[SemOf(f)] + 1]
  <2>1. CASE ~Holds(f)
    BY <2>1 DEF SemPost, NotMySem, semaphoreVars, holderVars
  <2>2. CASE Holds(f)
    BY <2>2 DEF SemPost, holderVars
  <2> QED
    BY <2>1, <2>2
<1>4. \A p \in PCB : p # running => retvalue'[p] = retvalue[p]
  BY <1>1, <1>3 DEF Answer
<1>5. CallAnswers
  BY <1>1, <1>2, <1>3, <1>4 DEF CallAnswers
<1>6. MutexAccounted'
  BY <1>3, PassAccounts
<1> QED
  BY <1>5, <1>6, CalledKeeps

\* A call to the semaphores.
LEMMA SemInstructionKeeps ==
    ASSUME ProgInv, SemInstruction
    PROVE  ProgInv'
<1>1. SemInv /\ KernelInv /\ ProgramTypeOK /\ Founded /\ running \in PCB /\ UNCHANGED programVars
  BY InvRuns DEF SemInstruction
<1>2. ASSUME NEW op \in {"semOpen", "semClose", "semWait", "semPost"}, Doing(op)
      PROVE  /\ At(running) = Instruction /\ Instruction.op = op /\ Instruction.sem \in SemNum
             /\ fd[running][Instruction.sem] \in Int
             /\ op = "semOpen" => Instruction.value \in InitialValues
  <2>1. At(running) = Instruction /\ Instruction.op = op /\ Instruction \in Instructions
    BY <1>1, <1>2, InstructionOf
  <2>2. Instruction.sem \in SemNum /\ (op = "semOpen" => Instruction.value \in InitialValues)
    BY <2>1 DEF Instructions
  <2> QED
    BY <1>1, <2>1, <2>2 DEF ProgramTypeOK
<1>3. CASE Doing("semOpen") /\ SemOpen(Instruction.sem, Instruction.value)
  <2>1. PICK s \in SemNum, value \in InitialValues :
           s = Instruction.sem /\ value = Instruction.value
    BY <1>2, <1>3
  <2>2. /\ SemOpen(s, value) /\ At(running).op = "semOpen" /\ At(running).sem = s
        /\ At(running).value = value
    BY <1>2, <1>3, <2>1
  <2>3. SemInv'
    BY <1>1, <2>2, AnyCallKeeps DEF AnySemCall
  <2>4. Trap("semOpen", s) /\ SameFamily /\ running' = running /\ s \in Int
    BY <2>2, SemaphoresAssumption DEF SemOpen, SameProcesses
  <2>5. CallMoves
    BY <1>1, <1>3, <2>4, CallStarts
  <2>6. UNCHANGED <<semaphores_list, count>> \/ Link(s, value)
    BY <2>2 DEF SemOpen, semaphoreVars
  <2>7. MutexAccounted'
    BY <2>2, <2>3, <2>5, <2>6, OpenAccounts
  <2>8. CallAnswers
    BY <2>2, <2>3, <2>5, OpenAnswers
  <2> QED
    BY <2>3, <2>5, <2>7, <2>8, CalledKeeps
<1>4. CASE Doing("semClose") /\ SemClose(FdOf(Instruction))
  <2>1. PICK f \in Int : f = fd[running][At(running).sem]
    BY <1>2, <1>4
  <2>2. SemClose(f) /\ At(running).op = "semClose"
    BY <1>2, <1>4, <2>1 DEF FdOf
  <2>3. SemInv'
    BY <1>1, <2>2, AnyCallKeeps DEF AnySemCall
  <2>4. Trap("semClose", f) /\ SameFamily /\ running' = running
    BY <2>2 DEF SemClose, NotMySem, SameProcesses
  <2>5. CallMoves
    BY <1>1, <1>4, <2>4, CallStarts
  <2> QED
    BY <2>1, <2>2, <2>3, <2>5, CloseKeeps
<1>5. CASE Doing("semWait") /\ SemWait(FdOf(Instruction))
  <2>1. PICK f \in Int : f = fd[running][At(running).sem]
    BY <1>2, <1>5
  <2>2. SemWait(f)
    BY <1>2, <1>5, <2>1 DEF FdOf
  <2>3. SemInv'
    BY <1>1, <2>2, AnyCallKeeps DEF AnySemCall
  <2>4. CASE Stop("deadlock") /\ UNCHANGED <<semaphoreVars, holderVars, dscVars>>
    <3>1. KernelMoves
      BY <1>1, <2>4, StopMoves DEF SemaphoresRest
    <3> QED
      BY <2>3, <3>1, MovesKeep
  <2>5. CASE ~Stop("deadlock")
    <3>1. Trap("semWait", f) /\ SameFamily /\ running' \in PCB
      <4>1. CASE ~Holds(f)
        BY <1>1, <2>2, <4>1 DEF SemWait, NotMySem, SameProcesses
      <4>2. CASE Holds(f) /\ ~(MustWait(SemOf(f)) /\ ready_list = <<>>)
        <5>1. Trap("semWait", f) /\ SameFamily
              /\ IF MustWait(SemOf(f)) THEN Block(SemOf(f)) ELSE running' = running
          BY <2>2, <4>2 DEF SemWait, SameProcesses
        <5>2. MustWait(SemOf(f)) => NextReady /\ ready_list # <<>>
          BY <4>2, <5>1 DEF Block
        <5> QED
          BY <1>1, <5>1, <5>2, NextReadyPlaces
      <4> QED
        BY <2>2, <2>5, <4>1, <4>2 DEF SemWait
    <3>2. CallMoves
      BY <1>1, <1>5, <3>1, CallStarts
    <3> QED
      BY <1>5, <2>1, <2>2, <2>3, <2>5, <3>2, PassWaitKeeps
  <2>6. ~Stop("deadlock") \/ UNCHANGED <<semaphoreVars, holderVars, dscVars>>
    <3>1. CASE ~Holds(f)
      BY <2>2, <3>1 DEF SemWait, NotMySem
    <3>2. CASE Holds(f) /\ MustWait(SemOf(f)) /\ ready_list = <<>>
      BY <2>2, <3>2 DEF SemWait
    <3>3. CASE Holds(f) /\ ~(MustWait(SemOf(f)) /\ ready_list = <<>>)
      <4>1. Trap("semWait", f) /\ call[running] = NoCall
        BY <2>2, <3>3 DEF SemWait, User
      <4>2. call'[running] = [num |-> "semWait", arg |-> f]
        BY <1>1, <4>1, TrapElsewhere
      <4>3. call'[running] # call[running]
        BY <4>1, <4>2 DEF NoCall
      <4> QED
        BY <4>3 DEF Stop
    <3> QED
      BY <3>1, <3>2, <3>3
  <2> QED
    BY <2>4, <2>5, <2>6
<1>6. CASE Doing("semPost") /\ SemPost(FdOf(Instruction))
  <2>1. PICK f \in Int : f = fd[running][At(running).sem]
    BY <1>2, <1>6
  <2>2. SemPost(f)
    BY <1>2, <1>6, <2>1 DEF FdOf
  <2>3. SemInv'
    BY <1>1, <2>2, AnyCallKeeps DEF AnySemCall
  <2>4. Trap("semPost", f) /\ SameFamily /\ running' = running
    BY <2>2 DEF SemPost, NotMySem, SameProcesses
  <2>5. CallMoves
    BY <1>1, <1>6, <2>4, CallStarts
  <2> QED
    BY <1>6, <2>1, <2>2, <2>3, <2>5, PassPostKeeps
<1> QED
  BY <1>3, <1>4, <1>5, <1>6 DEF SemInstruction

-----------------------------------------------------------------------------
(* Returns and accesses: the running process goes on in its text *)

\* The running process is through with an instruction, and goes on to the next one
\* or gives up.
Walks ==
    /\ UNCHANGED <<test, HOWMANY, function, running, init_pcb, retvalue, sem_descriptors,
                   semaphores_list, count>>
    /\ Live' = Live /\ Active' = Active
    /\ \A p \in PCB : p # running => call'[p] = call[p]
    /\ call'[running] = NoCall
    /\ pc[running] \in 1 .. Len(Text(running)) /\ At(running) = Text(running)[pc[running]]
    /\ At(running).op \in {"semOpen", "semClose", "semWait", "semPost", "wait", "spawn"} =>
          call[running] # NoCall
    /\ At(running).op \in {"load", "store", "advance"} => call[running] = NoCall
    /\ At(running).op \in {"semOpen", "semClose", "semWait", "semPost", "wait", "spawn",
                           "load", "store", "advance"}
    /\ fd' = IF At(running).op = "semOpen"
             THEN [fd EXCEPT ![running] =
                       [fd[running] EXCEPT ![At(running).sem] = retvalue[running]]]
             ELSE fd
    /\ pc' = [pc EXCEPT ![running] = IF Failed(At(running)) THEN 0 ELSE pc[running] + 1]

LEMMA WalkPlaces ==
    ASSUME ProgInv, Walks, NEW q, q = running
    PROVE  /\ \A p : Text(p)' = Text(p)
           /\ Used' = Used /\ \A p, k : Opens(p, k)' = Opens(p, k)
           /\ pc' \in [PCB -> Nat]
           /\ \A p \in PCB : p # q => /\ At(p)' = At(p) /\ pc'[p] = pc[p] /\ fd'[p] = fd[p]
                                      /\ call'[p] = call[p]
           /\ q \in PCB /\ q \in Used /\ q \in Active /\ q \in Live
           /\ \/ /\ ~Failed(At(q)) /\ pc'[q] = pc[q] + 1 /\ pc[q] + 1 \in 1 .. Len(Text(q))
                 /\ At(q)' = Text(q)[pc[q] + 1]
              \/ Failed(At(q)) /\ pc'[q] = 0 /\ At(q)'.op = "none"
           /\ pc[q] \in 1 .. Len(Text(q)) /\ At(q) = Text(q)[pc[q]] /\ pc[q] \in Nat
           /\ Len(Text(q)) \in Nat
<1>1. /\ ProgramTypeOK /\ Founded /\ q \in PCB /\ q \in Used /\ q \in Active /\ q \in Live
  BY InvRuns
<1>2. \A p : Text(p)' = Text(p)
  BY DEF Walks, Text
<1>3. Used' = Used /\ \A p, k : Opens(p, k)' = Opens(p, k)
  BY <1>2 DEF Walks, Used, Opens
<1>4. pc \in [PCB -> Nat] /\ fd \in [PCB -> [SemNum -> Int]]
  BY <1>1 DEF Founded, ProgramTypeOK
<1>5. /\ pc' \in [PCB -> Nat]
      /\ pc'[q] = IF Failed(At(q)) THEN 0 ELSE pc[q] + 1
      /\ \A p \in PCB : p # q => pc'[p] = pc[p]
  BY <1>1, <1>4 DEF Walks
<1>6. \A p \in PCB : p # q => fd'[p] = fd[p]
  BY <1>1, <1>4 DEF Walks
<1>7. \A p \in PCB : p # q => At(p)' = At(p)
  BY <1>2, <1>5 DEF At
<1>8. /\ pc[q] \in 1 .. Len(Text(q)) /\ At(q) = Text(q)[pc[q]]
      /\ At(q).op \notin {"exit", "shutdown"}
  BY DEF Walks
<1>9. Fits(Text(q)) /\ Len(Text(q)) \in Nat /\ DOMAIN Text(q) = 1 .. Len(Text(q)) /\ pc[q] \in Nat
  BY <1>1, TextOf
<1>10. pc[q] + 1 \in 1 .. Len(Text(q))
  <2>1. pc[q] # Len(Text(q))
    <3>1. Ends(Text(q))
      BY <1>9 DEF Fits
    <3> QED
      BY <1>8, <3>1 DEF Ends
  <2> QED
    BY <1>8, <1>9, <2>1
<1>11. CASE ~Failed(At(q))
  <2>1. pc'[q] = pc[q] + 1
    BY <1>5, <1>11
  <2>2. At(q)' = Text(q)[pc[q] + 1]
    BY <1>2, <1>9, <1>10, <2>1 DEF At
  <2> QED
    BY <1>1, <1>2, <1>3, <1>5, <1>6, <1>7, <1>8, <1>9, <1>10, <1>11, <2>1, <2>2 DEF Walks
<1>12. CASE Failed(At(q))
  <2>1. pc'[q] = 0
    BY <1>5, <1>12
  <2>2. At(q)'.op = "none"
    BY <1>2, <1>9, <2>1 DEF At, Bare
  <2> QED
    BY <1>1, <1>2, <1>3, <1>5, <1>6, <1>7, <1>8, <1>9, <1>12, <2>1, <2>2 DEF Walks
<1> QED
  BY <1>11, <1>12

\* The variables for descriptors: the one of the open that returned has its answer.
LEMMA WalkDescriptors ==
    ASSUME ProgInv, Walks, NEW q, q = running, NEW p \in Used, NEW k \in 1 .. 4, Opens(p, k)
    PROVE  /\ p # q \/ k # pc[q] => fd'[p][Text(p)[k].sem] = fd[p][Text(p)[k].sem]
           /\ p = q /\ k = pc[q] =>
                 /\ fd'[p][Text(p)[k].sem] = retvalue[q] /\ fd[p][Text(p)[k].sem] = -1
                 /\ retvalue[q] # -1 /\ At(q).op = "semOpen" /\ Text(p)[k].sem = At(q).sem
                 /\ \/ retvalue[q] \in {-14, -16, -17, 0}
                    \/ [fd |-> retvalue[q], sem |-> At(q).sem] \in sem_descriptors[q]
<1>1. /\ ProgramTypeOK /\ Founded /\ SemInv
  BY InvRuns
<1>2. /\ \A r \in PCB : r # q => fd'[r] = fd[r]
      /\ q \in PCB /\ q \in Used /\ q \in Active
      /\ pc[q] \in 1 .. Len(Text(q)) /\ At(q) = Text(q)[pc[q]]
  BY WalkPlaces
<1>3. /\ p \in PCB /\ Fits(Text(p)) /\ pc[p] \in Nat /\ Text(p) \in Seq(Instructions)
  BY <1>1, TextOf
<1>4. Text(p)[k] \in Instructions /\ Text(p)[k].op = "semOpen" /\ Text(p)[k].sem \in SemNum
  <2>1. Text(p)[k] \in Instructions /\ Text(p)[k].op = "semOpen"
    BY <1>3 DEF Opens
  <2> QED
    BY <2>1 DEF Instructions
<1>5. fd \in [PCB -> [SemNum -> Int]]
  BY <1>1 DEF ProgramTypeOK
<1>6. CASE p # q
  BY <1>2, <1>3, <1>6
<1>7. CASE p = q /\ k # pc[q]
  <2>1. CASE At(q).op # "semOpen"
    BY <1>7, <2>1 DEF Walks
  <2>2. CASE At(q).op = "semOpen"
    <3>1. At(q).sem # Text(p)[k].sem
      <4>1. PICK i \in 1 .. Len(Text(p)) : i = pc[q]
        BY <1>2, <1>7
      <4>2. Text(p)[i].op = "semOpen" /\ At(q).sem = Text(p)[i].sem
        BY <1>2, <1>7, <2>2, <4>1
      <4>3. OpensFirst(Text(p))
        BY <1>3 DEF Fits
      <4> QED
        BY <1>4, <1>7, <4>1, <4>2, <4>3 DEF OpensFirst, Opens
    <3>2. fd' = [fd EXCEPT ![q] = [fd[q] EXCEPT ![At(q).sem] = retvalue[q]]]
      BY <2>2 DEF Walks
    <3> QED
      BY <1>2, <1>4, <1>5, <1>7, <3>1, <3>2
  <2> QED
    BY <1>7, <2>1, <2>2
<1>8. CASE p = q /\ k = pc[q]
  <2>1. At(q).op = "semOpen" /\ Text(p)[k].sem = At(q).sem
    BY <1>2, <1>4, <1>8
  <2>2. fd' = [fd EXCEPT ![q] = [fd[q] EXCEPT ![At(q).sem] = retvalue[q]]]
    BY <2>1 DEF Walks
  <2>3. fd'[p][Text(p)[k].sem] = retvalue[q]
    BY <1>2, <1>4, <1>5, <1>8, <2>1, <2>2
  <2>4. fd[p][Text(p)[k].sem] = -1
    <3>1. pc[p] # 0 /\ pc[p] <= k
      BY <1>8
    <3> QED
      BY <3>1 DEF ProgInv, Unopened
  <2>5. call[q] # NoCall
    BY <2>1 DEF Walks
  <2>6. \/ retvalue[q] \in {-14, -16, -17, 0}
        \/ [fd |-> retvalue[q], sem |-> At(q).sem] \in sem_descriptors[q]
    BY <1>2, <2>1, <2>5 DEF ProgInv, Answers
  <2>7. retvalue[q] # -1
    <3>1. sem_descriptors[q] \subseteq [fd : Nat, sem : SemNum]
      BY <1>1, <1>2 DEF SemInv, SemTypeOK
    <3>2. retvalue[q] \in {-14, -16, -17, 0} \/ retvalue[q] \in Nat
      BY <2>6, <3>1
    <3> QED
      BY <3>2
  <2> QED
    BY <1>8, <2>1, <2>3, <2>4, <2>6, <2>7
<1> QED
  BY <1>6, <1>7, <1>8

\* Who was misled stays so.
LEMMA WalkMisled ==
    ASSUME ProgInv, Walks, Misled' = {}
    PROVE  Misled = {}
<1> SUFFICES ASSUME NEW p \in Misled
             PROVE  FALSE
  OBVIOUS
<1>1. ProgramTypeOK /\ Founded /\ p \in Used
  BY InvRuns DEF Misled
<1>2. PICK k \in 1 .. 4 : Text(p)[k].op = "semOpen" /\ fd[p][Text(p)[k].sem] \notin {-1, k - 1}
  BY DEF Misled
<1>3. Len(Text(p)) \in Nat /\ Len(Text(p)) >= 5
  BY <1>1, TextOf
<1>4. Opens(p, k)
  BY <1>2, <1>3 DEF Opens
<1>5. PICK q : q = running
  OBVIOUS
<1>6. fd'[p][Text(p)[k].sem] = fd[p][Text(p)[k].sem]
  BY <1>1, <1>2, <1>4, <1>5, WalkDescriptors
<1>7. Text(p)' = Text(p) /\ p \in Used'
  BY <1>1, <1>5, WalkPlaces
<1>8. p \in Misled'
  BY <1>2, <1>6, <1>7 DEF Misled
<1> QED
  BY <1>8

LEMMA WalkStays ==
    ASSUME ProgInv, SemInv', Walks
    PROVE  Founded' /\ InCalls' /\ AtTheEnd' /\ Gathering' /\ Unopened' /\ Answers' /\ OwnSems'
<1>1. /\ ProgramTypeOK /\ Founded /\ SemInv
  BY InvRuns
<1>2. PICK q : q = running
  OBVIOUS
<1>3. /\ \A p : Text(p)' = Text(p)
      /\ Used' = Used /\ \A p, k : Opens(p, k)' = Opens(p, k)
      /\ pc' \in [PCB -> Nat]
      /\ \A p \in PCB : p # q => /\ At(p)' = At(p) /\ pc'[p] = pc[p] /\ fd'[p] = fd[p]
                                 /\ call'[p] = call[p]
      /\ q \in PCB /\ q \in Used /\ q \in Active /\ q \in Live
      /\ \/ /\ ~Failed(At(q)) /\ pc'[q] = pc[q] + 1 /\ pc[q] + 1 \in 1 .. Len(Text(q))
            /\ At(q)' = Text(q)[pc[q] + 1]
         \/ Failed(At(q)) /\ pc'[q] = 0 /\ At(q)'.op = "none"
      /\ pc[q] \in 1 .. Len(Text(q)) /\ At(q) = Text(q)[pc[q]] /\ pc[q] \in Nat
      /\ Len(Text(q)) \in Nat
  BY <1>2, WalkPlaces
<1>4. /\ UNCHANGED <<test, HOWMANY, function, running, init_pcb, retvalue, sem_descriptors>>
      /\ Live' = Live /\ Active' = Active /\ call'[q] = NoCall
  BY <1>2 DEF Walks
<1>5. Used \subseteq PCB /\ Active \subseteq Used /\ 1 \in PCB /\ 1 \in Used
  BY <1>1, RunsActive
<1>6. Founded'
  BY <1>1, <1>3, <1>4 DEF Founded
<1>7. InCalls'
  <2> SUFFICES ASSUME NEW p \in Active, call'[p] # NoCall
               PROVE  /\ pc'[p] \in 1 .. Len(Text(p)) /\ call'[p].num = Text(p)[pc'[p]].op
                      /\ call'[p].num \in ProgramCalls
    BY <1>3, <1>4 DEF InCalls
  <2>1. p # q /\ p \in PCB
    BY <1>4, <1>5
  <2> QED
    BY <1>3, <2>1 DEF ProgInv, InCalls
<1>8. AtTheEnd'
  <2> SUFFICES ASSUME NEW p \in Used \ Active
               PROVE  pc'[p] = 0 \/ At(p)'.op = "exit"
    BY <1>3, <1>4 DEF AtTheEnd
  <2>1. p # q /\ p \in PCB
    BY <1>3, <1>5
  <2> QED
    BY <1>3, <2>1 DEF ProgInv, AtTheEnd
<1>9. Gathering'
  <2>1. CASE q # 1
    <3>1. At(1)' = At(1)
      BY <1>3, <1>5, <2>1
    <3> QED
      BY <1>3, <1>4, <3>1 DEF ProgInv, Gathering
  <2>2. CASE q = 1
    <3>1. Fits(Text(1)) /\ SpawnsEarly(Text(1))
      BY <1>1, <1>5, TextOf
    <3>2. At(1)'.op \in {"semOpen", "spawn"} =>
             /\ At(1)' = Text(1)[pc[1] + 1] /\ pc[1] + 1 \in 1 .. Len(Text(1))
             /\ pc[1] \in 1 .. Len(Text(1)) /\ At(1) = Text(1)[pc[1]]
      BY <1>3, <2>2
    <3>3. PICK i, j : i = pc[1] /\ j = pc[1] + 1
      OBVIOUS
    <3>4. j - 1 = i /\ i < j /\ i \in Nat
      BY <1>3, <2>2, <3>3
    <3>5. At(1)'.op = "semOpen" => At(1).op = "semOpen"
      BY <3>1, <3>2, <3>3, <3>4 DEF Fits, OpensFirst
    <3>6. At(1)'.op = "spawn" => At(1).op \in {"semOpen", "spawn"}
      BY <3>1, <3>2, <3>3, <3>4 DEF SpawnsEarly
    <3>7. /\ At(1).op = "semOpen" => Live = {1}
          /\ At(1).op \in {"semOpen", "spawn"} => Used \subseteq Live
      BY DEF ProgInv, Gathering
    <3>8. /\ At(1)'.op = "semOpen" => Live' = {1}
          /\ At(1)'.op \in {"semOpen", "spawn"} => Used' \subseteq Live'
      BY <1>3, <1>4, <3>5, <3>6, <3>7
    <3> QED
      BY <3>8 DEF Gathering
  <2> QED
    BY <2>1, <2>2
<1>10. Unopened'
  <2> SUFFICES ASSUME NEW p \in Used, NEW k \in 1 .. 4, Opens(p, k)
               PROVE  /\ pc'[p] # 0 /\ pc'[p] <= k => fd'[p][Text(p)[k].sem] = -1
                      /\ k < pc'[p] => fd'[p][Text(p)[k].sem] # -1
    BY <1>3 DEF Unopened
  <2>1. /\ pc[p] # 0 /\ pc[p] <= k => fd[p][Text(p)[k].sem] = -1
        /\ k < pc[p] => fd[p][Text(p)[k].sem] # -1
    BY DEF ProgInv, Unopened
  <2>2. p \in PCB /\ pc[p] \in Nat
    BY <1>1, TextOf
  <2>6. /\ p # q \/ k # pc[q] => fd'[p][Text(p)[k].sem] = fd[p][Text(p)[k].sem]
        /\ p = q /\ k = pc[q] => fd'[p][Text(p)[k].sem] = retvalue[q] /\ retvalue[q] # -1
    BY <1>2, WalkDescriptors, ZenonT(60)
  <2>3. CASE p # q
    <3>1. fd'[p][Text(p)[k].sem] = fd[p][Text(p)[k].sem] /\ pc'[p] = pc[p]
      BY <1>2, <1>3, <2>2, <2>3
    <3> QED
      BY <2>1, <3>1
  <2>4. CASE p = q /\ k = pc[q]
    <3>1. fd'[p][Text(p)[k].sem] # -1
      BY <2>4, <2>6
    <3>2. ~(pc'[p] # 0 /\ pc'[p] <= k)
      BY <1>3, <2>4
    <3> QED
      BY <3>1, <3>2
  <2>5. CASE p = q /\ k # pc[q]
    <3>1. fd'[p][Text(p)[k].sem] = fd[p][Text(p)[k].sem]
      BY <2>5, <2>6
    <3>2. pc'[p] # 0 /\ pc'[p] <= k => pc[p] # 0 /\ pc[p] <= k
      BY <1>3, <2>5
    <3>3. k < pc'[p] => k < pc[p]
      BY <1>3, <2>5
    <3> QED
      BY <2>1, <3>1, <3>2, <3>3
  <2> QED
    BY <2>3, <2>4, <2>5
<1>11. Answers'
  <2> SUFFICES ASSUME NEW p \in Active, call'[p] # NoCall, At(p)'.op = "semOpen"
               PROVE  \/ retvalue[p] \in {-14, -16, -17, 0}
                      \/ [fd |-> retvalue[p], sem |-> At(p)'.sem] \in sem_descriptors[p]
    BY <1>4 DEF Answers
  <2>1. p # q /\ p \in PCB
    BY <1>4, <1>5
  <2> QED
    BY <1>3, <2>1 DEF ProgInv, Answers
<1>12. OwnSems'
  BY <1>3, <1>4 DEF ProgInv, OwnSems
<1> QED
  BY <1>6, <1>7, <1>8, <1>9, <1>10, <1>11, <1>12

\* What the father has opened he has.
LEMMA WalkHolds ==
    ASSUME ProgInv, SemInv', Walks
    PROVE  FatherHolds'
<1>1. /\ ProgramTypeOK /\ Founded /\ SemInv
  BY InvRuns
<1>2. PICK q : q = running
  OBVIOUS
<1>3. /\ \A p \in PCB : p # q => /\ At(p)' = At(p) /\ pc'[p] = pc[p] /\ fd'[p] = fd[p]
                                 /\ call'[p] = call[p]
      /\ \/ /\ ~Failed(At(q)) /\ pc'[q] = pc[q] + 1 /\ pc[q] + 1 \in 1 .. Len(Text(q))
            /\ At(q)' = Text(q)[pc[q] + 1]
         \/ Failed(At(q)) /\ pc'[q] = 0 /\ At(q)'.op = "none"
      /\ pc[q] \in 1 .. Len(Text(q)) /\ At(q) = Text(q)[pc[q]] /\ pc[q] \in Nat
      /\ Len(Text(q)) \in Nat
  BY <1>2, WalkPlaces
<1>4. UNCHANGED <<test, retvalue, sem_descriptors>> /\ call'[q] = NoCall
  BY <1>2 DEF Walks
<1>5. 1 \in PCB /\ 1 \in Used
  BY <1>1, RunsActive
<1>6. CASE q # 1
  <2>1. At(1)' = At(1) /\ pc'[1] = pc[1] /\ call'[1] = call[1]
    BY <1>3, <1>5, <1>6
  <2> QED
    BY <1>4, <2>1 DEF ProgInv, FatherHolds, Has
<1>7. CASE q = 1
  <2> SUFFICES ASSUME test # 0, NEW k \in 1 .. 4,
                      At(1)'.op \in {"semOpen", "spawn", "wait"}, k < pc'[1]
               PROVE  Has(k - 1)
    BY <1>4, <1>7 DEF FatherHolds, Has
  <2>1. /\ ~Failed(At(1)) /\ pc'[1] = pc[1] + 1 /\ pc[1] + 1 \in 1 .. Len(Text(1))
        /\ At(1)' = Text(1)[pc[1] + 1]
        /\ pc[1] \in 1 .. Len(Text(1)) /\ At(1) = Text(1)[pc[1]] /\ pc[1] \in Nat
    BY <1>3, <1>7
  <2>2. At(1).op \in {"semOpen", "spawn", "wait"}
    <3>1. PICK i, j : i = pc[1] /\ j = pc[1] + 1
      OBVIOUS
    <3>2. /\ i \in 1 .. Len(Text(1)) /\ j \in 1 .. Len(Text(1)) /\ j - 1 = i /\ i < j
          /\ At(1)' = Text(1)[j] /\ At(1) = Text(1)[i]
      BY <2>1, <3>1
    <3>3. At(1)'.op \in {"spawn", "wait"} => At(1).op \in {"semOpen", "spawn", "wait"}
      BY <1>1, <1>5, <3>2, FatherFirst
    <3>4. OpensFirst(Text(1))
      BY <1>1, <1>5, TextOf DEF Fits
    <3>5. At(1)'.op = "semOpen" => At(1).op = "semOpen"
      BY <3>2, <3>4 DEF OpensFirst
    <3> QED
      BY <3>3, <3>5
  <2>3. CASE k < pc[1]
    BY <2>2, <2>3 DEF ProgInv, FatherHolds
  <2>4. CASE k = pc[1]
    <3>1. /\ At(1).op = "semOpen" /\ At(1).sem = k - 1 /\ At(1).checked = k - 1 /\ Opens(1, k)
          /\ function[1] = "initFunction" /\ Text(1)[k].sem = k - 1
      BY <1>1, <1>5, <2>4, FatherFirst
    <3>2. fd'[1][k - 1] = retvalue[1]
      <4>1. 1 = q /\ k = pc[q] => fd'[1][Text(1)[k].sem] = retvalue[q]
        BY <1>2, <1>5, <3>1, WalkDescriptors
      <4> QED
        BY <1>7, <2>4, <3>1, <4>1
    <3>3. ~(fd'[1][k - 1] < 0)
      BY <1>2, <1>7, <2>1, <3>1 DEF Failed, Unchecked
    <3>4. retvalue[1] >= 0
      <4>1. retvalue[1] \in Int
        BY <1>5, InvRuns DEF KernelTypeOK
      <4> QED
        BY <3>2, <3>3, <4>1
    <3>5. call[1] # NoCall
      BY <1>2, <1>7, <3>1 DEF Walks
    <3> QED
      BY <2>4, <3>4, <3>5 DEF ProgInv, FatherHolds
  <2> QED
    BY <2>1, <2>3, <2>4
<1> QED
  BY <1>6, <1>7

\* Who goes on has called what he had called.
LEMMA WalkCalled ==
    ASSUME ProgInv, Walks, NEW q, q = running, NEW p \in Used, p # q \/ pc'[q] # 0,
           NEW j \in 1 .. Len(Text(p)), Text(p)[j].op \in {"semClose", "semWait", "semPost"}
    PROVE  Called(p, j)' <=> Called(p, j)
<1>1. /\ \A r \in PCB : r # q => pc'[r] = pc[r] /\ call'[r] = call[r]
      /\ pc'[q] # 0 => pc'[q] = pc[q] + 1
      /\ pc[q] \in 1 .. Len(Text(q)) /\ At(q) = Text(q)[pc[q]] /\ pc[q] \in Nat
  BY WalkPlaces
<1>2. call'[q] = NoCall
      /\ (At(q).op \in {"semOpen", "semClose", "semWait", "semPost", "wait", "spawn"} =>
             call[q] # NoCall)
  BY DEF Walks
<1>3. CASE p # q
  <2>1. p \in PCB
    BY DEF Used
  <2> QED
    BY <1>1, <1>3, <2>1 DEF Called
<1>4. CASE p = q
  <2>1. pc'[p] = pc[p] + 1 /\ call'[p] = NoCall /\ pc[p] \in Nat
    BY <1>1, <1>2, <1>4
  <2>2. CASE j = pc[p]
    <3>1. call[p] # NoCall
      BY <1>1, <1>2, <1>4, <2>2
    <3> QED
      BY <2>1, <2>2, <3>1 DEF Called
  <2>3. CASE j # pc[p]
    BY <2>1, <2>3 DEF Called
  <2> QED
    BY <2>2, <2>3
<1> QED
  BY <1>3, <1>4

LEMMA WalkKept ==
    ASSUME ProgInv, SemInv', Walks
    PROVE  Kept'
<1>1. /\ ProgramTypeOK /\ Founded /\ SemInv
  BY InvRuns
<1>2. PICK q : q = running
  OBVIOUS
<1>3. /\ \A p : Text(p)' = Text(p)
      /\ Used' = Used /\ \A p, k : Opens(p, k)' = Opens(p, k)
      /\ \A p \in PCB : p # q => pc'[p] = pc[p]
      /\ pc'[q] = 0 \/ pc'[q] = pc[q] + 1
      /\ pc[q] \in Nat
  BY <1>2, WalkPlaces
<1>4. UNCHANGED sem_descriptors
  BY DEF Walks
<1> SUFFICES ASSUME Misled' = {}, NEW p \in Used, NEW k \in 2 .. 4,
                    Opens(p, k), k < pc'[p], ~Closed(p, Text(p)[k].sem)'
             PROVE  [fd |-> k - 1, sem |-> Text(p)[k].sem] \in sem_descriptors[p]
  BY <1>3, <1>4 DEF Kept
<1>5. PICK s : s = Text(p)[k].sem
  OBVIOUS
<1>6. ~Closed(p, s)' /\ Text(p)[k].op = "semOpen" /\ p \in PCB /\ k \in 1 .. 4
  BY <1>3, <1>5 DEF Used, Opens
<1>7. ~Closed(p, s)
  <2>1. p # q \/ pc'[q] # 0
    BY <1>3
  <2>2. ASSUME NEW j \in 1 .. Len(Text(p)), Text(p)[j] = OnSem("semClose", s)
        PROVE  Called(p, j)' <=> Called(p, j)
    <3>1. Text(p)[j].op \in {"semClose", "semWait", "semPost"}
      BY <2>2 DEF OnSem
    <3> QED
      BY <1>2, <2>1, <3>1, WalkCalled
  <2> QED
    BY <1>3, <1>6, <2>2 DEF Closed
<1>8. /\ p # q \/ k # pc[q] => fd'[p][Text(p)[k].sem] = fd[p][Text(p)[k].sem]
      /\ p = q /\ k = pc[q] =>
            /\ fd'[p][Text(p)[k].sem] = retvalue[q] /\ retvalue[q] # -1
            /\ Text(p)[k].sem = At(q).sem
            /\ \/ retvalue[q] \in {-14, -16, -17, 0}
               \/ [fd |-> retvalue[q], sem |-> At(q).sem] \in sem_descriptors[q]
  BY <1>2, <1>6, WalkDescriptors
<1>9. CASE p = q /\ k = pc[q]
  <2>1. fd'[p][Text(p)[k].sem] \in {-1, k - 1}
    BY <1>3, <1>6 DEF Misled
  <2>2. retvalue[q] = k - 1
    BY <1>8, <1>9, <2>1
  <2>3. retvalue[q] \notin {-14, -16, -17, 0}
    BY <2>2
  <2> QED
    BY <1>8, <1>9, <2>2, <2>3
<1>10. CASE p # q \/ k # pc[q]
  <2>1. k < pc[p]
    BY <1>3, <1>6, <1>10
  <2>2. Misled = {}
    BY WalkMisled
  <2> QED
    BY <1>5, <1>7, <2>1, <2>2 DEF ProgInv, Kept
<1> QED
  BY <1>9, <1>10

LEMMA WalkAdmitted ==
    ASSUME ProgInv, SemInv', Walks
    PROVE  Admitted'
<1>1. /\ ProgramTypeOK /\ Founded /\ SemInv
  BY InvRuns
<1>2. PICK q : q = running
  OBVIOUS
<1>3. /\ \A p \in PCB : p # q => At(p)' = At(p)
      /\ \/ /\ ~Failed(At(q)) /\ pc'[q] = pc[q] + 1 /\ pc[q] + 1 \in 1 .. Len(Text(q))
            /\ At(q)' = Text(q)[pc[q] + 1]
         \/ Failed(At(q)) /\ pc'[q] = 0 /\ At(q)'.op = "none"
      /\ pc[q] \in 1 .. Len(Text(q)) /\ At(q) = Text(q)[pc[q]] /\ pc[q] \in Nat
      /\ q \in Used
  BY <1>2, WalkPlaces
<1>4. UNCHANGED retvalue /\ Active' = Active
  BY DEF Walks
<1> SUFFICES ASSUME Misled' = {}, NEW p \in Active, NEW s \in Mutexes,
                    At(p)' = OnSem("semWait", s)
             PROVE  retvalue[p] = 0
  BY <1>4 DEF Admitted
<1>5. p \in PCB /\ Misled = {}
  BY WalkMisled DEF Active, Live
<1>6. CASE p # q
  BY <1>3, <1>5, <1>6 DEF ProgInv, Admitted
<1>7. CASE p = q
  <2>1. PICK k \in 1 .. Len(Text(q)) : k = pc[q] + 1 /\ At(q)' = Text(q)[k]
    BY <1>3, <1>7 DEF OnSem
  <2>2. Text(q)[k] = OnSem("semWait", s) /\ k - 1 = pc[q]
    BY <1>3, <1>7, <2>1
  <2>3. Text(q)[k - 1].op = "semWait"
    BY <1>1, <1>3, <2>2, GuardsOf
  <2>4. At(q).op = "semWait" /\ ~Failed(At(q))
    BY <1>3, <1>7, <2>2, <2>3 DEF OnSem
  <2>5. function[q] \notin Unchecked
    <3>1. function[q] \in Unchecked => Unguarded(Text(q))
      BY <1>1, <1>3, TextOf
    <3> QED
      BY <2>2, <3>1 DEF Unguarded
  <2> QED
    BY <1>2, <1>7, <2>4, <2>5 DEF Failed
<1> QED
  BY <1>6, <1>7

\* Nobody gives up inside: in front of a section, and at its semWait, the answer is 0.
LEMMA WalkAccounts ==
    ASSUME ProgInv, SemInv', Walks, ProgramTypeOK', Founded'
    PROVE  MutexAccounted'
<1>1. /\ ProgramTypeOK /\ Founded /\ SemInv
  BY InvRuns
<1>2. PICK q : q = running
  OBVIOUS
<1>3. /\ \A p : Text(p)' = Text(p)
      /\ Used' = Used
      /\ Failed(At(q)) \/ pc'[q] # 0
      /\ pc'[q] = 0 \/ pc'[q] = pc[q] + 1
      /\ pc[q] \in 1 .. Len(Text(q)) /\ At(q) = Text(q)[pc[q]] /\ pc[q] \in Nat
      /\ q \in Used /\ q \in Active
  BY <1>2, WalkPlaces
<1>4. UNCHANGED <<semaphores_list, count>>
  BY DEF Walks
<1>5. ASSUME NEW p \in Used, NEW s \in Mutexes, p # q \/ pc'[q] # 0
      PROVE  Inside(p, s)' <=> Inside(p, s)
  <2>1. ASSUME NEW k \in 1 .. Len(Text(p)),
               Text(p)[k] = OnSem("semWait", s) \/ Text(p)[k] = OnSem("semPost", s)
        PROVE  Called(p, k)' <=> Called(p, k)
    <3>1. Text(p)[k].op \in {"semClose", "semWait", "semPost"}
      BY <2>1 DEF OnSem
    <3> QED
      BY <1>2, <1>5, <3>1, WalkCalled
  <2> QED
    BY <1>1, <1>3, <2>1, SameInside
<1>6. ASSUME Misled = {}, NEW s \in Mutexes, pc'[q] = 0
      PROVE  ~Inside(q, s)' /\ ~Inside(q, s)
  <2>1. ~Inside(q, s)'
    <3> SUFFICES ASSUME Inside(q, s)' PROVE FALSE
      OBVIOUS
    <3>1. PICK k \in 1 .. Len(Text(q)) : Enters(q, s, k)'
      BY <1>3, ToEnterNext DEF InsideIsToEnter
    <3>2. Called(q, k)'
      BY <3>1 DEF Enters
    <3> QED
      BY <1>6, <3>2 DEF Called
  <2>2. ~Inside(q, s)
    <3> SUFFICES ASSUME Inside(q, s) PROVE FALSE
      OBVIOUS
    <3>1. \/ call[q] # NoCall /\ At(q) = OnSem("semWait", s)
          \/ At(q).op \in {"load", "store", "advance"}
          \/ call[q] = NoCall /\ At(q) = OnSem("semPost", s)
      BY <1>3, <1>6, InsideHolds
    <3>2. CASE At(q) = OnSem("semWait", s)
      <4>1. retvalue[q] = 0
        BY <1>3, <1>6, <3>2 DEF ProgInv, Admitted
      <4> QED
        BY <1>2, <1>3, <1>6, <3>2, <4>1 DEF Failed, OnSem
    <3>3. CASE At(q).op \in {"load", "store", "advance"}
      BY <1>3, <1>6, <3>3 DEF Failed
    <3>4. CASE call[q] = NoCall /\ At(q) = OnSem("semPost", s)
      BY <1>2, <3>4 DEF Walks, OnSem
    <3> QED
      BY <3>1, <3>2, <3>3, <3>4
  <2> QED
    BY <2>1, <2>2
<1> SUFFICES ASSUME Misled' = {}, NEW s \in Mutexes, s \in semaphores_list
             PROVE  count[s] = 1 - Cardinality({p \in Used : Inside(p, s)'})
  BY <1>3, <1>4 DEF MutexAccounted, Mutexes
<1>7. Misled = {}
  BY WalkMisled
<1>8. \A p \in Used : Inside(p, s)' <=> Inside(p, s)
  BY <1>5, <1>6, <1>7
<1>9. {p \in Used : Inside(p, s)'} = {p \in Used : Inside(p, s)}
  BY <1>8
<1> QED
  BY <1>7, <1>9 DEF ProgInv, MutexAccounted, Mutexes

LEMMA WalkKeeps ==
    ASSUME ProgInv, SemInv', Walks, ProgramTypeOK', InTheRing'
    PROVE  ProgInv'
<1>1. Founded' /\ InCalls' /\ AtTheEnd' /\ Gathering' /\ Unopened' /\ Answers' /\ OwnSems'
  BY WalkStays
<1>2. FatherHolds' /\ Kept' /\ Admitted'
  BY WalkHolds, WalkKept, WalkAdmitted
<1>3. MutexAccounted'
  BY <1>1, WalkAccounts
<1> QED
  BY <1>1, <1>2, <1>3 DEF ProgInv

\* A system call returns.
LEMMA ReturnedKeeps ==
    ASSUME ProgInv, Returned
    PROVE  ProgInv'
<1>1. /\ SemInv /\ KernelInv /\ KernelTypeOK /\ ProgramTypeOK /\ Founded
      /\ running \in PCB /\ running \in Used /\ running \in Active
  BY InvRuns
<1>2. /\ Return /\ SemaphoresRest /\ call[running] # NoCall
      /\ call' = [call EXCEPT ![running] = NoCall]
      /\ UNCHANGED <<running, init_pcb, pcb_free, pid, zombie_list, retvalue>>
      /\ UNCHANGED <<test, HOWMANY, function, n, c_buffer, index>>
  BY DEF Returned, Return, poolVars, pcbVars, listVars
<1>3. SemInv'
  <2>1. FreshHolders
    BY <1>1, <1>2, SameHolders DEF SemaphoresRest
  <2>2. KernelNext
    BY <1>2 DEF KernelNext
  <2> QED
    BY <1>1, <1>2, <2>1, <2>2, KernelStepKeeps DEF SemaphoresRest
<1>4. /\ pc[running] \in 1 .. Len(Text(running)) /\ call[running].num = Text(running)[pc[running]].op
      /\ call[running].num \in ProgramCalls
  BY <1>1, <1>2 DEF ProgInv, InCalls
<1>5. At(running) = Text(running)[pc[running]] /\ Instruction = At(running)
  <2>1. pc[running] # 0
    BY <1>4
  <2> QED
    BY <1>1, <2>1, PlaceOf DEF Instruction
<1>6. At(running).op \in ProgramCalls
  BY <1>4, <1>5
<1>7. Walks
  <2>1. Live' = Live /\ Active' = Active
    BY <1>2 DEF Live, Active
  <2>2. /\ \A p \in PCB : p # running => call'[p] = call[p]
        /\ call'[running] = NoCall
    BY <1>1, <1>2 DEF KernelTypeOK
  <2>3. UNCHANGED <<semaphores_list, count, sem_descriptors>>
    BY <1>2 DEF SemaphoresRest, semaphoreVars, holderVars
  <2>4. /\ fd' = IF At(running).op = "semOpen"
                 THEN [fd EXCEPT ![running] =
                           [fd[running] EXCEPT ![At(running).sem] = retvalue[running]]]
                 ELSE fd
        /\ pc' = [pc EXCEPT ![running] = IF Failed(At(running)) THEN 0 ELSE pc[running] + 1]
    BY <1>5 DEF Returned
  <2> QED
    BY <1>2, <1>4, <1>5, <1>6, <2>1, <2>2, <2>3, <2>4 DEF Walks, ProgramCalls
<1>8. PICK q : q = running
  OBVIOUS
<1>9. /\ \A p : Text(p)' = Text(p)
      /\ Used' = Used /\ pc' \in [PCB -> Nat]
      /\ \A p \in PCB : p # q => At(p)' = At(p) /\ pc'[p] = pc[p] /\ fd'[p] = fd[p]
      /\ \/ /\ pc'[q] = pc[q] + 1 /\ pc[q] + 1 \in 1 .. Len(Text(q))
            /\ At(q)' = Text(q)[pc[q] + 1]
         \/ pc'[q] = 0 /\ At(q)'.op = "none"
      /\ pc[q] \in Nat /\ Len(Text(q)) \in Nat
  BY <1>7, <1>8, WalkPlaces
<1>10. ProgramTypeOK'
  <2>1. fd' \in [PCB -> [SemNum -> Int]]
    <3>1. fd \in [PCB -> [SemNum -> Int]] /\ retvalue[running] \in Int
      BY <1>1 DEF ProgramTypeOK, KernelTypeOK
    <3> QED
      BY <1>1, <1>7, <3>1 DEF Walks
  <2>2. \A p \in PCB : pc'[p] \in 0 .. Len(Text(p)) \/ function[p] = "none"
    <3> SUFFICES ASSUME NEW p \in PCB
                 PROVE  pc'[p] \in 0 .. Len(Text(p)) \/ function[p] = "none"
      OBVIOUS
    <3>1. CASE p = q
      BY <1>9, <3>1
    <3>2. CASE p # q
      BY <1>1, <1>9, <3>2 DEF ProgramTypeOK
    <3> QED
      BY <3>1, <3>2
  <2> QED
    BY <1>1, <1>2, <1>9, <2>1, <2>2 DEF ProgramTypeOK
<1>11. InTheRing'
  <2> SUFFICES ASSUME NEW p \in Used, At(p)'.op \in {"store", "advance"}
               PROVE  n[p] \in Slots
    BY <1>2, <1>9 DEF InTheRing, Slots
  <2>1. CASE p # q
    <3>1. At(p).op \in {"store", "advance"}
      BY <1>9, <2>1 DEF Used
    <3> QED
      BY <3>1 DEF ProgInv, InTheRing
  <2>2. CASE p = q
    <3>1. PICK k \in 1 .. Len(Text(q)) : k = pc[q] + 1 /\ At(q)' = Text(q)[k]
      BY <1>9, <2>2
    <3>2. Reads(Text(q))
      BY <1>1, <1>8, TextOf DEF Fits
    <3>3. Text(q)[k - 1].op \in {"load", "store"} /\ k - 1 = pc[q]
      BY <1>9, <2>2, <3>1, <3>2 DEF Reads
    <3> QED
      BY <1>5, <1>6, <1>8, <3>3 DEF ProgramCalls
  <2> QED
    BY <2>1, <2>2
<1> QED
  BY <1>3, <1>7, <1>10, <1>11, WalkKeeps

\* An access to the buffer.
LEMMA MemoryKeeps ==
    ASSUME ProgInv, Memory
    PROVE  ProgInv'
<1>1. /\ SemInv /\ KernelInv /\ KernelTypeOK /\ ProgramTypeOK /\ Founded
      /\ running \in PCB /\ running \in Used /\ running \in Active
  BY InvRuns
<1>2. /\ UNCHANGED vars /\ UNCHANGED <<test, HOWMANY, function, fd>>
      /\ pc' = [pc EXCEPT ![running] = pc[running] + 1]
  BY DEF Memory
<1>3. UNCHANGED <<kernelVars, semaphoreVars, holderVars>>
  BY <1>2 DEF vars
<1>4. UNCHANGED <<running, init_pcb, retvalue, call, pcb_free, zombie_list, pid, sem_descriptors,
                  semaphores_list, count>>
  BY <1>3 DEF kernelVars, poolVars, listVars, pcbVars, semaphoreVars, holderVars
<1>5. SemInv'
  BY <1>1, <1>2, SemStutters
<1>6. PICK op \in {"load", "store", "advance"} : Doing(op)
  BY DEF Memory
<1>7. /\ call[running] = NoCall /\ pc[running] \in 1 .. Len(Text(running))
      /\ Instruction = Text(running)[pc[running]] /\ At(running) = Instruction
      /\ Instruction \in Instructions /\ Instruction.op = op
  BY <1>1, <1>6, InstructionOf
<1>8. Instruction.role \in {"prod", "cons"}
  BY <1>7 DEF Instructions
<1>9. Walks
  <2>1. Live' = Live /\ Active' = Active
    BY <1>4 DEF Live, Active
  <2>2. ~Failed(At(running))
    BY <1>7 DEF Failed
  <2> QED
    BY <1>2, <1>4, <1>7, <2>1, <2>2 DEF Walks
<1>10. PICK q : q = running
  OBVIOUS
<1>11. /\ \A p : Text(p)' = Text(p)
       /\ Used' = Used /\ pc' \in [PCB -> Nat]
       /\ \A p \in PCB : p # q => At(p)' = At(p) /\ pc'[p] = pc[p] /\ fd'[p] = fd[p]
       /\ \/ /\ pc'[q] = pc[q] + 1 /\ pc[q] + 1 \in 1 .. Len(Text(q))
             /\ At(q)' = Text(q)[pc[q] + 1]
          \/ pc'[q] = 0 /\ At(q)'.op = "none"
       /\ pc[q] \in Nat /\ Len(Text(q)) \in Nat
  BY <1>9, <1>10, WalkPlaces
<1>12. /\ pc'[q] = pc[q] + 1 /\ pc[q] + 1 \in 1 .. Len(Text(q))
       /\ At(q)' = Text(q)[pc[q] + 1]
  <2>1. pc'[q] = pc[q] + 1
    BY <1>1, <1>2, <1>10 DEF Founded
  <2> QED
    BY <1>11, <2>1
<1>13. /\ n \in [PCB -> 0 .. BUFFER_LENGTH] /\ c_buffer \in [Slots -> Nat]
       /\ index \in [{"prod", "cons"} -> Slots] /\ BUFFER_LENGTH \in Nat \ {0}
       /\ Slots = 0 .. BUFFER_LENGTH - 1 /\ pid \in [PCB -> Nat]
  BY <1>1, TestsAssumption DEF ProgramTypeOK, Slots, KernelTypeOK
<1>14. \A p \in Used : p # q /\ At(p)'.op \in {"store", "advance"} => n[p] \in Slots
  <2> SUFFICES ASSUME NEW p \in Used, p # q, At(p)'.op \in {"store", "advance"}
               PROVE  n[p] \in Slots
    OBVIOUS
  <2>1. At(p).op \in {"store", "advance"}
    BY <1>11 DEF Used
  <2> QED
    BY <2>1 DEF ProgInv, InTheRing
<1>15. At(q).op \in {"store", "advance"} => n[q] \in Slots
  BY <1>1, <1>10 DEF ProgInv, InTheRing
<1>16. At(q)'.op \in {"store", "advance"} => At(q).op \in {"load", "store"}
  <2>1. PICK k \in 1 .. Len(Text(q)) : k = pc[q] + 1
    BY <1>12
  <2>2. Reads(Text(q))
    BY <1>1, <1>10, TextOf DEF Fits
  <2>3. At(q)' = Text(q)[k] /\ k - 1 = pc[q]
    BY <1>11, <1>12, <2>1
  <2> QED
    BY <1>7, <1>10, <2>2, <2>3 DEF Reads
<1>17. /\ n' \in [PCB -> 0 .. BUFFER_LENGTH] /\ c_buffer' \in [Slots -> Nat]
       /\ index' \in [{"prod", "cons"} -> Slots]
       /\ \A p \in PCB : p # q => n'[p] = n[p]
       /\ At(q)'.op \in {"store", "advance"} => n'[q] \in Slots
  <2>1. CASE /\ Doing("load") /\ n' = [n EXCEPT ![running] = index[Instruction.role]]
             /\ UNCHANGED <<c_buffer, index>>
    <3>1. index[Instruction.role] \in Slots
      BY <1>8, <1>13
    <3> QED
      BY <1>1, <1>10, <1>13, <2>1, <3>1
  <2>2. CASE /\ Doing("store")
             /\ c_buffer' = [c_buffer EXCEPT ![n[running]] =
                                 IF Instruction.role = "prod" THEN pid[running] ELSE 0]
             /\ UNCHANGED <<n, index>>
    <3>1. At(q).op = "store"
      BY <1>7, <1>10, <2>2 DEF Doing
    <3>2. c_buffer' \in [Slots -> Nat]
      BY <1>1, <1>13, <2>2
    <3> QED
      BY <1>13, <1>15, <2>2, <3>1, <3>2
  <2>3. CASE /\ Doing("advance") /\ n' = [n EXCEPT ![running] = n[running] + 1]
             /\ index' = [index EXCEPT ![Instruction.role] = Advanced(n[running])]
             /\ UNCHANGED c_buffer
    <3>1. At(q).op = "advance"
      BY <1>7, <1>10, <2>3 DEF Doing
    <3>2. n[q] \in Slots /\ n[q] + 1 \in 0 .. BUFFER_LENGTH
      BY <1>13, <1>15, <3>1
    <3>3. Advanced(n[q]) \in Slots
      BY <1>13, <3>2 DEF Advanced
    <3> QED
      BY <1>1, <1>8, <1>10, <1>13, <1>16, <2>3, <3>1, <3>2, <3>3
  <2> QED
    BY <2>1, <2>2, <2>3 DEF Memory
<1>18. ProgramTypeOK'
  <2>1. \A p \in PCB : pc'[p] \in 0 .. Len(Text(p)) \/ function[p] = "none"
    <3> SUFFICES ASSUME NEW p \in PCB
                 PROVE  pc'[p] \in 0 .. Len(Text(p)) \/ function[p] = "none"
      OBVIOUS
    <3>1. CASE p = q
      BY <1>11, <1>12, <3>1
    <3>2. CASE p # q
      BY <1>1, <1>11, <3>2 DEF ProgramTypeOK
    <3> QED
      BY <3>1, <3>2
  <2>2. Slots' = Slots
    BY DEF Slots
  <2> QED
    BY <1>1, <1>2, <1>11, <1>17, <2>1, <2>2 DEF ProgramTypeOK
<1>19. InTheRing'
  <2> SUFFICES ASSUME NEW p \in Used, At(p)'.op \in {"store", "advance"}
               PROVE  n'[p] \in Slots
    BY <1>11 DEF InTheRing, Slots
  <2>1. p \in PCB
    BY DEF Used
  <2> QED
    BY <1>14, <1>17, <2>1
<1> QED
  BY <1>5, <1>9, <1>18, <1>19, WalkKeeps

-----------------------------------------------------------------------------
(* The spawn of a worker *)

\* What a spawn that finds a block does: a worker that was never there before is
\* at the start of its text, and nobody else is touched.
Spawned(new) ==
    /\ call[1] = NoCall /\ pc[1] \in 1 .. Len(Text(1)) /\ At(1) = Text(1)[pc[1]]
    /\ At(1).op = "spawn" /\ At(1).function \in Workers
    /\ new \in PCB /\ new # 1 /\ new \notin Used
    /\ Live' = Live \union {new} /\ Active' = Active \union {new} /\ Used' = Used \union {new}
    /\ UNCHANGED <<running, init_pcb, test, HOWMANY, n, c_buffer, index, semaphores_list, count>>
    /\ function' = [function EXCEPT ![new] = At(1).function]
    /\ pc' = [pc EXCEPT ![new] = 1] /\ fd' = [fd EXCEPT ![new] = NotOpened]
    /\ call'[1] # NoCall /\ call'[1].num = "spawn" /\ call'[new] = NoCall
    /\ \A p \in PCB : p # 1 /\ p # new => call'[p] = call[p]
    /\ \A p \in PCB : p # 1 => retvalue'[p] = retvalue[p]
    /\ sem_descriptors' = [sem_descriptors EXCEPT ![new] = {}]

\* The semaphores stay in step with a spawn.
LEMMA SpawnKeepsSems ==
    ASSUME ProgInv, SpawnInstruction
    PROVE  SemInv'
<1>1. SemInv
  BY InvRuns
<1>2. KernelNext /\ FreshHolders /\ UNCHANGED <<semaphoreVars, dscVars>>
  BY DEF SpawnInstruction, KernelNext, KernelCall
<1> QED
  BY <1>1, <1>2, KernelStepKeeps

LEMMA SpawnTakes ==
    ASSUME ProgInv, SpawnInstruction, ~NoBlockLeft
    PROVE  \E new \in PCB : Spawned(new)
<1>1. /\ SemInv /\ KernelInv /\ KernelTypeOK /\ ProgramTypeOK /\ Founded /\ running \in PCB
      /\ running \in Used
  BY InvRuns
<1>2. Doing("spawn") /\ Spawn /\ FreshHolders
  BY DEF SpawnInstruction
<1>3. /\ call[running] = NoCall /\ pc[running] \in 1 .. Len(Text(running))
      /\ Instruction = Text(running)[pc[running]] /\ At(running) = Instruction
      /\ Instruction \in Instructions /\ Instruction.op = "spawn"
  BY <1>1, <1>2, InstructionOf
<1>4. running = 1
  BY <1>1, <1>3, OnlyFatherWaits
<1>5. Instruction.function \in Workers
  BY <1>3 DEF Instructions
<1>6. PICK new : new = Head(pcb_free)
  OBVIOUS
<1>7. pcb_free # <<>> /\ Alloc(new, "Ready", running)
  BY <1>2, <1>6 DEF Spawn, NoBlockLeft
<1>8. new \in PCB /\ NewBlock(new)
  BY <1>1, <1>6, <1>7, AllocatedBlock
<1>9. /\ function' = [function EXCEPT ![new] = Instruction.function]
      /\ pc' = [pc EXCEPT ![new] = 1] /\ fd' = [fd EXCEPT ![new] = NotOpened]
      /\ UNCHANGED <<test, HOWMANY, n, c_buffer, index, semaphoreVars>>
  BY <1>6 DEF SpawnInstruction
<1>10. /\ retvalue' = [retvalue EXCEPT ![running] = last_pid]
       /\ call' = [call EXCEPT ![running] = [num |-> "spawn", arg |-> 0], ![new] = NoCall]
       /\ UNCHANGED <<running, init_pcb, zombie_list>>
  BY <1>2, <1>6 DEF Spawn
<1>11. new \notin Used /\ new \notin Live /\ new # 1 /\ Live' = Live \union {new}
  <2>1. Used \subseteq Live
    BY <1>3, <1>4 DEF ProgInv, Gathering
  <2> QED
    BY <1>1, <1>4, <1>8, <2>1 DEF NewBlock
<1>12. Active' = Active \union {new}
  <2>1. new \notin zombie_list
    BY <1>1, <1>6, <1>7, FreshBlock
  <2> QED
    BY <1>10, <1>11, <2>1 DEF Active
<1>13. Used' = Used \union {new}
  <2>1. function \in [PCB -> DOMAIN Texts[test][HOWMANY]]
    BY <1>1 DEF ProgramTypeOK
  <2>2. /\ function'[new] \in Workers
        /\ \A p \in PCB : p # new => function'[p] = function[p]
    BY <1>5, <1>8, <1>9, <2>1
  <2>3. "none" \notin Workers
    BY DEF Workers
  <2> QED
    BY <1>8, <2>2, <2>3 DEF Used
<1>14. sem_descriptors' = [sem_descriptors EXCEPT ![new] = {}]
  <2>1. \/ NoNewBlock /\ UNCHANGED <<sem_descriptors, last_sem_fd>>
        \/ \E b \in PCB : /\ NewBlock(b)
                          /\ sem_descriptors' = [sem_descriptors EXCEPT ![b] = {}]
                          /\ last_sem_fd' = [last_sem_fd EXCEPT ![b] = 0]
    BY <1>1, <1>2, <1>8, FreshOnly
  <2>2. ~NoNewBlock
    BY <1>11 DEF NoNewBlock
  <2>3. PICK b \in PCB : NewBlock(b) /\ sem_descriptors' = [sem_descriptors EXCEPT ![b] = {}]
    BY <2>1, <2>2
  <2>4. b = new
    BY <1>11, <2>3 DEF NewBlock
  <2> QED
    BY <2>3, <2>4
<1>15. /\ call'[1] = [num |-> "spawn", arg |-> 0] /\ call'[new] = NoCall
       /\ \A p \in PCB : p # 1 /\ p # new => call'[p] = call[p]
       /\ \A p \in PCB : p # 1 => retvalue'[p] = retvalue[p]
  BY <1>1, <1>4, <1>8, <1>10, <1>11 DEF KernelTypeOK
<1>16. call'[1] # NoCall /\ call'[1].num = "spawn"
  BY <1>15 DEF NoCall
<1> QED
  BY <1>3, <1>4, <1>5, <1>8, <1>9, <1>10, <1>11, <1>12, <1>13, <1>14, <1>15, <1>16
     DEF Spawned, semaphoreVars

\* The texts and the places of the others stay; the new worker is at the first
\* instruction of a text that fits.
LEMMA SpawnPlaces ==
    ASSUME ProgInv, NEW new \in PCB, Spawned(new)
    PROVE  /\ \A p \in Used : /\ p \in PCB /\ p # new /\ p \in Used'
                              /\ Text(p)' = Text(p) /\ At(p)' = At(p) /\ pc'[p] = pc[p]
                              /\ fd'[p] = fd[p] /\ sem_descriptors'[p] = sem_descriptors[p]
                              /\ \A k : Opens(p, k)' = Opens(p, k)
           /\ pc'[new] = 1 /\ fd'[new] = NotOpened /\ sem_descriptors'[new] = {}
           /\ function'[new] \in Workers
           /\ Fits(Text(new)') /\ Len(Text(new)') \in Nat /\ Len(Text(new)') >= 5
           /\ DOMAIN Text(new)' = 1 .. Len(Text(new)') /\ At(new)' = Text(new)'[1]
           /\ ProgramTypeOK' /\ Founded'
<1>1. /\ ProgramTypeOK /\ Founded /\ SemInv /\ running \in PCB
  BY InvRuns
<1>2. /\ function \in [PCB -> DOMAIN Texts[test][HOWMANY]] /\ pc \in [PCB -> Nat]
      /\ fd \in [PCB -> [SemNum -> Int]] /\ test \in Tests /\ HOWMANY \in HowMany
      /\ sem_descriptors \in [PCB -> SUBSET [fd : Nat, sem : SemNum]]
  BY <1>1 DEF ProgramTypeOK, Founded, SemInv, SemTypeOK
<1>3. /\ pc'[new] = 1 /\ fd'[new] = NotOpened /\ sem_descriptors'[new] = {}
      /\ function'[new] \in Workers /\ test' = test /\ HOWMANY' = HOWMANY
      /\ \A p \in PCB : p # new =>
            /\ function'[p] = function[p] /\ pc'[p] = pc[p] /\ fd'[p] = fd[p]
            /\ sem_descriptors'[p] = sem_descriptors[p]
  BY <1>2 DEF Spawned
<1>4. \A p \in Used : /\ p \in PCB /\ p # new /\ p \in Used' /\ pc'[p] = pc[p] /\ fd'[p] = fd[p]
                      /\ sem_descriptors'[p] = sem_descriptors[p] /\ Text(p)' = Text(p)
  BY <1>3 DEF Spawned, Used, Text
<1>5. \A p \in Used : At(p)' = At(p) /\ \A k : Opens(p, k)' = Opens(p, k)
  BY <1>4 DEF At, Opens
<1>6. TextsAre(Texts[test][HOWMANY])
  BY <1>2, TextsFit
<1>7. Fits(Text(new)')
  BY <1>3, <1>6 DEF TextsAre, Text
<1>8. /\ Len(Text(new)') \in Nat /\ Len(Text(new)') >= 5
      /\ DOMAIN Text(new)' = 1 .. Len(Text(new)')
  BY <1>7 DEF Fits
<1>9. At(new)' = Text(new)'[1]
  BY <1>3, <1>8 DEF At
<1>10. ProgramTypeOK'
  <2>1. function' \in [PCB -> DOMAIN Texts[test][HOWMANY]]
    BY <1>2, <1>3, <1>6 DEF Spawned, TextsAre
  <2>2. fd' \in [PCB -> [SemNum -> Int]]
    BY <1>2 DEF Spawned, NotOpened
  <2>3. \A p \in PCB : pc'[p] \in 0 .. Len(Text(p)') \/ function'[p] = "none"
    <3> SUFFICES ASSUME NEW p \in PCB, function'[p] # "none"
                 PROVE  pc'[p] \in 0 .. Len(Text(p)')
      OBVIOUS
    <3>1. CASE p = new
      BY <1>3, <1>8, <3>1
    <3>2. CASE p # new
      <4>1. p \in Used
        BY <1>3, <3>2 DEF Used
      <4> QED
        BY <1>1, <1>4, <4>1, TextOf
    <3> QED
      BY <3>1, <3>2
  <2>4. UNCHANGED <<test, HOWMANY, n, c_buffer, index>>
    BY DEF Spawned
  <2> QED
    BY <1>1, <2>1, <2>2, <2>3, <2>4 DEF ProgramTypeOK, Slots
<1>11. Founded'
  <2>1. pc' \in [PCB -> Nat]
    BY <1>2 DEF Spawned
  <2>2. function'[1] = function[1] /\ \A p \in Used : function'[p] = function[p]
    BY <1>1, <1>3, <1>4, RunsActive DEF Spawned
  <2> QED
    BY <1>1, <1>3, <2>1, <2>2 DEF Founded, Spawned
<1> QED
  BY <1>3, <1>4, <1>5, <1>7, <1>8, <1>9, <1>10, <1>11

\* What was called before the spawn is what is called after it, but for the spawn.
LEMMA SpawnCalled ==
    ASSUME ProgInv, NEW new \in PCB, Spawned(new), NEW p \in Used, NEW k \in 1 .. Len(Text(p)),
           Text(p)[k].op # "spawn"
    PROVE  Called(p, k)' <=> Called(p, k)
<1>1. pc'[p] = pc[p] /\ p \in PCB /\ p # new
  BY SpawnPlaces
<1>2. CASE p = 1
  <2>1. k # pc[1]
    BY <1>2 DEF Spawned
  <2> QED
    BY <1>1, <1>2, <2>1 DEF Called
<1>3. CASE p # 1
  <2>1. call'[p] = call[p]
    BY <1>1, <1>3 DEF Spawned
  <2> QED
    BY <1>1, <2>1 DEF Called
<1> QED
  BY <1>2, <1>3

\* A new worker has not called anything.
LEMMA SpawnFresh ==
    ASSUME NEW new, pc'[new] = 1, call'[new] = NoCall, NEW k \in Nat \ {0}
    PROVE  ~Called(new, k)'
BY DEF Called

LEMMA SpawnRests ==
    ASSUME ProgInv, NEW new \in PCB, Spawned(new)
    PROVE  /\ InCalls' /\ AtTheEnd' /\ InTheRing' /\ Gathering' /\ Unopened'
           /\ FatherHolds' /\ Answers' /\ OwnSems'
<1>1. /\ ProgramTypeOK /\ Founded /\ SemInv /\ 1 \in Used /\ 1 \in Active /\ 1 \in PCB
      /\ Active \subseteq Used
  BY InvRuns, RunsActive
<1>2. \A p \in Used : /\ p \in PCB /\ p # new /\ p \in Used'
                      /\ Text(p)' = Text(p) /\ At(p)' = At(p) /\ pc'[p] = pc[p]
                      /\ fd'[p] = fd[p] /\ sem_descriptors'[p] = sem_descriptors[p]
                      /\ \A k : Opens(p, k)' = Opens(p, k)
  BY SpawnPlaces
<1>3. /\ pc'[new] = 1 /\ fd'[new] = NotOpened /\ sem_descriptors'[new] = {}
      /\ Fits(Text(new)') /\ Len(Text(new)') \in Nat /\ Len(Text(new)') >= 5
      /\ At(new)' = Text(new)'[1]
  BY SpawnPlaces
<1>4. \A p \in Used' : p \in Used \/ p = new
  BY DEF Spawned
<1>5. \A p \in Active' : p \in Active \/ p = new
  BY DEF Spawned
<1>6. InCalls'
  <2> SUFFICES ASSUME NEW p \in Active', call'[p] # NoCall
               PROVE  /\ pc'[p] \in 1 .. Len(Text(p)') /\ call'[p].num = Text(p)'[pc'[p]].op
                      /\ call'[p].num \in ProgramCalls
    BY DEF InCalls
  <2>1. p # new /\ p \in Active
    BY <1>5 DEF Spawned
  <2>2. p \in Used
    BY <1>1, <2>1
  <2>3. CASE p = 1
    BY <1>2, <2>2, <2>3 DEF Spawned, ProgramCalls
  <2>4. CASE p # 1
    <3>1. call'[p] = call[p]
      BY <1>2, <2>1, <2>2, <2>4 DEF Spawned
    <3> QED
      BY <1>2, <2>1, <2>2, <3>1 DEF ProgInv, InCalls
  <2> QED
    BY <2>3, <2>4
<1>7. AtTheEnd'
  <2> SUFFICES ASSUME NEW p \in Used' \ Active'
               PROVE  pc'[p] = 0 \/ At(p)'.op = "exit"
    BY DEF AtTheEnd
  <2>1. p \in Used \ Active
    BY <1>4 DEF Spawned
  <2> QED
    BY <1>2, <2>1 DEF ProgInv, AtTheEnd
<1>8. InTheRing'
  <2> SUFFICES ASSUME NEW p \in Used', At(p)'.op \in {"store", "advance"}
               PROVE  n'[p] \in Slots'
    BY DEF InTheRing
  <2>1. CASE p = new
    <3>1. PICK t : t = Text(new)'
      OBVIOUS
    <3>2. Reads(t) /\ Len(t) \in Nat /\ Len(t) >= 5 /\ At(new)' = t[1]
      BY <1>3, <3>1 DEF Fits
    <3>3. t[1].op \notin {"store", "advance"}
      BY <3>2 DEF Reads
    <3> QED
      BY <2>1, <3>2, <3>3
  <2>2. CASE p \in Used
    BY <1>2, <2>2 DEF ProgInv, InTheRing, Spawned, Slots
  <2> QED
    BY <1>4, <2>1, <2>2
<1>9. Gathering'
  <2>1. At(1)'.op = "spawn"
    BY <1>1, <1>2 DEF Spawned
  <2>2. Used' \subseteq Live'
    BY DEF ProgInv, Gathering, Spawned
  <2> QED
    BY <2>1, <2>2 DEF Gathering
<1>10. Unopened'
  <2> SUFFICES ASSUME NEW p \in Used', NEW k \in 1 .. 4, Opens(p, k)'
               PROVE  /\ pc'[p] # 0 /\ pc'[p] <= k => fd'[p][Text(p)'[k].sem] = -1
                      /\ k < pc'[p] => fd'[p][Text(p)'[k].sem] # -1
    BY DEF Unopened
  <2>1. CASE p = new
    <3>1. k \in 1 .. Len(Text(new)') /\ Text(new)'[k].op = "semOpen"
      BY <2>1 DEF Opens
    <3>2. Text(new)'[k] \in Instructions
      BY <1>3, <3>1 DEF Fits
    <3>3. Text(new)'[k].sem \in SemNum
      BY <3>1, <3>2 DEF Instructions
    <3> QED
      BY <1>3, <2>1, <3>3 DEF NotOpened
  <2>2. CASE p \in Used
    BY <1>2, <2>2 DEF ProgInv, Unopened
  <2> QED
    BY <1>4, <2>1, <2>2
<1>11. FatherHolds'
  <2>1. test' = test /\ At(1)' = At(1) /\ pc'[1] = pc[1] /\ \A s : Has(s)' = Has(s)
    BY <1>1, <1>2 DEF Spawned, Has
  <2>2. ASSUME test # 0, NEW k \in 1 .. 4, k = pc[1]
        PROVE  FALSE
    BY <2>2, FatherAlone DEF Spawned
  <2>3. ASSUME test # 0, NEW k \in 1 .. 4, At(1).op \in {"semOpen", "spawn", "wait"}, k < pc[1]
        PROVE  Has(k - 1)
    BY <2>3 DEF ProgInv, FatherHolds
  <2> QED
    BY <2>1, <2>2, <2>3 DEF FatherHolds
<1>12. Answers'
  <2> SUFFICES ASSUME NEW p \in Active', call'[p] # NoCall, At(p)'.op = "semOpen"
               PROVE  \/ retvalue'[p] \in {-14, -16, -17, 0}
                      \/ [fd |-> retvalue'[p], sem |-> At(p)'.sem] \in sem_descriptors'[p]
    BY DEF Answers
  <2>1. p # new /\ p \in Active
    BY <1>5 DEF Spawned
  <2>2. p \in Used
    BY <1>1, <2>1
  <2>3. p # 1
    BY <1>2, <2>2 DEF Spawned
  <2>4. call'[p] = call[p] /\ retvalue'[p] = retvalue[p]
    BY <1>2, <2>1, <2>2, <2>3 DEF Spawned
  <2> QED
    BY <1>2, <2>1, <2>2, <2>4 DEF ProgInv, Answers
<1>13. OwnSems'
  <2> SUFFICES ASSUME NEW p \in Used', NEW d \in sem_descriptors'[p]
               PROVE  \E k \in 1 .. 4 : Opens(p, k)' /\ Text(p)'[k].sem = d.sem
    BY DEF OwnSems
  <2>1. p \in Used
    BY <1>3, <1>4
  <2> QED
    BY <1>2, <2>1 DEF ProgInv, OwnSems
<1> QED
  BY <1>6, <1>7, <1>8, <1>9, <1>10, <1>11, <1>12, <1>13

\* The descriptors that are kept, and who is in the sections.
LEMMA SpawnAccounts ==
    ASSUME ProgInv, NEW new \in PCB, Spawned(new)
    PROVE  Kept' /\ Admitted' /\ MutexAccounted'
<1>1. /\ ProgramTypeOK /\ Founded /\ SemInv /\ 1 \in Used /\ 1 \in Active /\ 1 \in PCB
      /\ Active \subseteq Used /\ ProgramTypeOK' /\ Founded'
  BY InvRuns, RunsActive, SpawnPlaces
<1>2. \A p \in Used : /\ p \in PCB /\ p # new /\ p \in Used'
                      /\ Text(p)' = Text(p) /\ At(p)' = At(p) /\ pc'[p] = pc[p]
                      /\ fd'[p] = fd[p] /\ sem_descriptors'[p] = sem_descriptors[p]
                      /\ \A k : Opens(p, k)' = Opens(p, k)
  BY SpawnPlaces
<1>3. /\ pc'[new] = 1 /\ call'[new] = NoCall /\ new \in Used' /\ Fits(Text(new)')
      /\ Len(Text(new)') \in Nat /\ Len(Text(new)') >= 5 /\ At(new)' = Text(new)'[1]
  BY SpawnPlaces DEF Spawned
<1>4. \A p \in Used' : p \in Used \/ p = new
  BY DEF Spawned
<1>5. \A p \in Active' : p \in Active \/ p = new
  BY DEF Spawned
<1>6. Misled' = {} => Misled = {}
  BY <1>2 DEF Misled
<1>7. Kept'
  <2> SUFFICES ASSUME Misled' = {}, NEW p \in Used', NEW k \in 2 .. 4, Opens(p, k)', k < pc'[p],
                      ~Closed(p, Text(p)[k].sem)'
               PROVE  [fd |-> k - 1, sem |-> Text(p)'[k].sem] \in sem_descriptors'[p]
    BY DEF Kept
  <2>1. p \in Used
    BY <1>3, <1>4
  <2>2. PICK s : s = Text(p)[k].sem
    OBVIOUS
  <2>3. Text(p)'[k].sem = s /\ ~Closed(p, s)'
    BY <1>2, <2>1, <2>2 DEF Closed
  <2>4. ~Closed(p, s)
    <3>1. ASSUME NEW j \in 1 .. Len(Text(p)), Text(p)[j] = OnSem("semClose", s), Called(p, j)
          PROVE  Called(p, j)'
      <4>1. Text(p)[j].op # "spawn"
        BY <3>1 DEF OnSem
      <4> QED
        BY <2>1, <3>1, <4>1, SpawnCalled
    <3> QED
      BY <1>2, <2>1, <2>3, <3>1 DEF Closed
  <2> QED
    BY <1>2, <1>6, <2>1, <2>2, <2>3, <2>4 DEF ProgInv, Kept
<1>8. Admitted'
  <2> SUFFICES ASSUME Misled' = {}, NEW p \in Active', NEW s \in Mutexes,
                      At(p)' = OnSem("semWait", s)
               PROVE  retvalue'[p] = 0
    BY DEF Admitted, Mutexes
  <2>1. p # new
    BY <1>3 DEF Fits, Guards
  <2>2. p \in Active /\ p \in Used /\ At(p) = OnSem("semWait", s)
    BY <1>1, <1>2, <1>5, <2>1
  <2>3. p # 1
    BY <2>2 DEF Spawned, OnSem
  <2>4. retvalue'[p] = retvalue[p]
    BY <1>2, <2>2, <2>3 DEF Spawned
  <2> QED
    BY <1>6, <2>2, <2>4 DEF ProgInv, Admitted
<1>9. MutexAccounted'
  <2>1. ASSUME NEW p \in Used, NEW s \in Mutexes
        PROVE  Inside(p, s)' <=> Inside(p, s)
    <3>1. ASSUME NEW k \in 1 .. Len(Text(p)),
                 Text(p)[k] = OnSem("semWait", s) \/ Text(p)[k] = OnSem("semPost", s)
          PROVE  Called(p, k)' <=> Called(p, k)
      <4>1. Text(p)[k].op # "spawn"
        BY <3>1 DEF OnSem
      <4> QED
        BY <4>1, SpawnCalled
    <3>2. p \in Used' /\ Text(p)' = Text(p)
      BY <1>2
    <3> QED
      BY <1>1, <3>1, <3>2, SameInside
  <2>2. ASSUME NEW s \in Mutexes
        PROVE  ~Inside(new, s)'
    <3>1. Inside(new, s)' <=> \E k \in 1 .. Len(Text(new)') : Enters(new, s, k)'
      BY <1>1, <1>3, ToEnterNext DEF InsideIsToEnter, Mutexes
    <3>2. ASSUME NEW k \in 1 .. Len(Text(new)')
          PROVE  ~Enters(new, s, k)'
      <4>1. ~Called(new, k)'
        BY <1>3, SpawnFresh
      <4> QED
        BY <4>1 DEF Enters
    <3> QED
      BY <3>1, <3>2
  <2> SUFFICES ASSUME Misled' = {}, NEW s \in Mutexes \intersect semaphores_list'
               PROVE  count'[s] = 1 - Cardinality({p \in Used' : Inside(p, s)'})
    BY DEF MutexAccounted, Mutexes
  <2>3. {p \in Used' : Inside(p, s)'} = {p \in Used : Inside(p, s)}
    BY <1>2, <1>4, <2>1, <2>2
  <2>4. count[s] = 1 - Cardinality({p \in Used : Inside(p, s)})
    BY <1>6 DEF ProgInv, MutexAccounted, Mutexes, Spawned
  <2> QED
    BY <2>3, <2>4 DEF Spawned
<1> QED
  BY <1>7, <1>8, <1>9

LEMMA SpawnInstructionKeeps ==
    ASSUME ProgInv, SpawnInstruction
    PROVE  ProgInv'
<1>1. SemInv'
  BY SpawnKeepsSems
<1>2. CASE NoBlockLeft
  <2>1. Crash /\ UNCHANGED programVars
    BY <1>2 DEF SpawnInstruction, Spawn, programVars
  <2>2. UNCHANGED holderVars
    <3>1. pid' = pid
      BY <2>1 DEF Crash, Stop, pcbVars
    <3>2. /\ sem_descriptors \in [PCB -> SUBSET [fd : Nat, sem : SemNum]]
          /\ last_sem_fd \in [PCB -> Nat]
      BY InvRuns DEF SemInv, SemTypeOK
    <3>3. /\ sem_descriptors' = [p \in PCB |-> sem_descriptors[p]]
          /\ last_sem_fd' = [p \in PCB |-> last_sem_fd[p]]
      BY <3>1 DEF SpawnInstruction, FreshHolders
    <3> QED
      BY <3>2, <3>3 DEF holderVars
  <2>3. SemaphoresRest
    BY <2>2 DEF SpawnInstruction, SemaphoresRest
  <2>4. KernelMoves
    BY <2>1, <2>3, StopMoves DEF Crash
  <2> QED
    BY <1>1, <2>4, MovesKeep
<1>3. CASE ~NoBlockLeft
  <2>1. PICK new \in PCB : Spawned(new)
    BY <1>3, SpawnTakes
  <2>2. ProgramTypeOK' /\ Founded'
    BY <2>1, SpawnPlaces
  <2>3. /\ InCalls' /\ AtTheEnd' /\ InTheRing' /\ Gathering' /\ Unopened'
        /\ FatherHolds' /\ Answers' /\ OwnSems'
    BY <2>1, SpawnRests
  <2>4. Kept' /\ Admitted' /\ MutexAccounted'
    BY <2>1, SpawnAccounts
  <2> QED
    BY <1>1, <2>2, <2>3, <2>4 DEF ProgInv
<1> QED
  BY <1>2, <1>3

-----------------------------------------------------------------------------
(* The start, all the steps, and the theorems *)

\* At the start the father is alone, at the beginning of his text.
LEMMA ProgramStart ==
    ASSUME ProgramInit
    PROVE  /\ SemInv /\ ProgramTypeOK /\ Founded
           /\ Live = {1} /\ Used = {1} /\ pc[1] = 1 /\ fd[1] = NotOpened
           /\ \A p \in PCB : call[p] = NoCall /\ sem_descriptors[p] = {}
           /\ semaphores_list = {} /\ zombie_list = {}
<1>1. Init /\ KernelInit /\ SemInv
  BY SemInit DEF ProgramInit, Init
<1>2. /\ running = 1 /\ init_pcb = 1 /\ ready_list = <<>> /\ waiting_list = {} /\ zombie_list = {}
      /\ call = [p \in PCB |-> NoCall]
      /\ semaphores_list = {} /\ sem_descriptors = [p \in PCB |-> {}]
  BY <1>1 DEF KernelInit, Init
<1>3. /\ test \in Tests /\ HOWMANY \in HowMany
      /\ function = [p \in PCB |-> IF p = 1 THEN FatherOf(test) ELSE "none"]
      /\ pc = [p \in PCB |-> 1] /\ fd = [p \in PCB |-> NotOpened]
      /\ n = [p \in PCB |-> 0] /\ c_buffer = [k \in Slots |-> 0]
      /\ index = [prod |-> 0, cons |-> 0]
  BY DEF ProgramInit
<1>4. Live = {1} /\ 1 \in PCB
  <2>1. 1 \in Live
    BY <1>1, <1>2 DEF SemInv, KernelInv, RootedTree
  <2>2. ToSet(ready_list) = {}
    BY <1>2, NoneOnEmpty
  <2>3. PCB \union {running} =
            {running} \union ToSet(ready_list) \union waiting_list \union zombie_list
                      \union ToSet(pcb_free)
    BY <1>1 DEF SemInv, KernelInv, OnePlace
  <2> QED
    BY <1>2, <2>1, <2>2, <2>3 DEF Live
<1>5. FatherOf(test) \in Fathers /\ "none" \notin Fathers
  BY DEF FatherOf, Fathers
<1>6. Used = {1} /\ function[1] = FatherOf(test)
  BY <1>3, <1>4, <1>5 DEF Used
<1>7. TextsAre(Texts[test][HOWMANY])
  BY <1>3, TextsFit
<1>8. Fits(Text(1))
  BY <1>5, <1>6, <1>7 DEF TextsAre, Text
<1>9. ProgramTypeOK
  <2>1. function \in [PCB -> DOMAIN Texts[test][HOWMANY]]
    BY <1>3, <1>5, <1>7 DEF TextsAre
  <2>2. fd \in [PCB -> [SemNum -> Int]]
    BY <1>3 DEF NotOpened
  <2>3. \A p \in PCB : pc[p] \in 0 .. Len(Text(p)) \/ function[p] = "none"
    <3>1. 1 \in 0 .. Len(Text(1))
      BY <1>8 DEF Fits
    <3> QED
      BY <1>3, <3>1
  <2>4. /\ n \in [PCB -> 0 .. BUFFER_LENGTH] /\ c_buffer \in [Slots -> Nat]
        /\ index \in [{"prod", "cons"} -> Slots]
    BY <1>3, TestsAssumption DEF Slots
  <2> QED
    BY <1>3, <2>1, <2>2, <2>3, <2>4 DEF ProgramTypeOK
<1>10. Founded
  BY <1>2, <1>3, <1>4, <1>6 DEF Founded
<1> QED
  BY <1>1, <1>2, <1>3, <1>4, <1>6, <1>9, <1>10

LEMMA ProgramInitKeeps ==
    ASSUME ProgramInit
    PROVE  ProgInv
<1>1. /\ SemInv /\ ProgramTypeOK /\ Founded
      /\ Live = {1} /\ Used = {1} /\ pc[1] = 1 /\ fd[1] = NotOpened
      /\ \A p \in PCB : call[p] = NoCall /\ sem_descriptors[p] = {}
      /\ semaphores_list = {} /\ zombie_list = {}
  BY ProgramStart
<1>2. Active = {1} /\ 1 \in PCB /\ call[1] = NoCall
  BY <1>1 DEF Active, Used
<1>3. PICK t : t = Text(1)
  OBVIOUS
<1>4. Fits(t) /\ Len(t) \in Nat /\ Len(t) >= 5 /\ At(1) = t[1]
  BY <1>1, <1>3, TextOf, PlaceOf
<1>5. At(1).op \notin {"store", "advance"}
  BY <1>4 DEF Fits, Reads
<1>6. ASSUME NEW s \in Mutexes
      PROVE  At(1) # OnSem("semWait", s)
  BY <1>4 DEF Fits, Guards
<1>7. InCalls /\ AtTheEnd /\ Gathering /\ Answers /\ OwnSems
  BY <1>1, <1>2 DEF InCalls, AtTheEnd, Gathering, Answers, OwnSems
<1>8. InTheRing
  BY <1>1, <1>5 DEF InTheRing
<1>9. Unopened
  <2> SUFFICES ASSUME NEW k \in 1 .. 4, Opens(1, k)
               PROVE  fd[1][Text(1)[k].sem] = -1
    BY <1>1 DEF Unopened
  <2>1. t[k] \in Instructions /\ t[k].op = "semOpen"
    BY <1>3, <1>4 DEF Opens, Fits
  <2>2. t[k].sem \in SemNum
    BY <2>1 DEF Instructions
  <2> QED
    BY <1>1, <1>3, <2>2 DEF NotOpened
<1>10. FatherHolds
  BY <1>1, <1>2 DEF FatherHolds
<1>11. Kept
  BY <1>1 DEF Kept
<1>12. Admitted
  BY <1>2, <1>6 DEF Admitted
<1>13. MutexAccounted
  BY <1>1 DEF MutexAccounted
<1> QED
  BY <1>1, <1>7, <1>8, <1>9, <1>10, <1>11, <1>12, <1>13 DEF ProgInv

LEMMA ProgramStepKeeps == ProgInv /\ [ProgramNext]_allVars => ProgInv'
<1> SUFFICES ASSUME ProgInv, [ProgramNext]_allVars
             PROVE  ProgInv'
  OBVIOUS
<1>1. CASE SemInstruction
  BY <1>1, SemInstructionKeeps
<1>2. CASE KernelInstruction
  BY <1>2, KernelInstructionMoves, MovesKeep
<1>3. CASE SpawnInstruction
  BY <1>3, SpawnInstructionKeeps
<1>4. CASE Returned
  BY <1>4, ReturnedKeeps
<1>5. CASE Memory
  BY <1>5, MemoryKeeps
<1>6. CASE Interrupt
  BY <1>6, InterruptMoves, MovesKeep
<1>7. CASE UNCHANGED allVars
  BY <1>7, NothingMoves, MovesKeep
<1> QED
  BY <1>1, <1>2, <1>3, <1>4, <1>5, <1>6, <1>7 DEF ProgramNext, Step

\* The invariant of the test programs, for every test, number of workers and rounds,
\* size of the buffer and of the pools, and every placement of the interrupts.
THEOREM ProgramInvariant == ProgramSpec => []ProgInv
<1>1. ProgramInit => ProgInv
  BY ProgramInitKeeps
<1> QED
  BY <1>1, ProgramStepKeeps, PTL DEF ProgramSpec

\* Programs stay in their texts and their data in its types; in particular nobody
\* writes outside of the ring.
THEOREM ProgramTypes == ProgramSpec => []ProgramTypeOK
<1>1. ProgInv => ProgramTypeOK
  BY DEF ProgInv
<1> QED
  BY <1>1, ProgramInvariant, PTL

\* Who gives up holds no mutex and queues for none, as long as no answer to an open
\* was overwritten: the count of a mutex is 1 less those in front of it and in it.
THEOREM MutexesAreAccounted == ProgramSpec => []MutexAccounted
<1>1. ProgInv => MutexAccounted
  BY DEF ProgInv
<1> QED
  BY <1>1, ProgramInvariant, PTL

\* As long as the father spawns and waits the four semaphores are linked, whatever
\* his children open, close and leave behind: he holds them since before the first
\* of them was there.
THEOREM FatherKeepsThemOpen == ProgramSpec => []SemaphoresStay
<1>1. ASSUME ProgInv
      PROVE  SemaphoresStay
  <2> SUFFICES ASSUME test # 0, At(1).op \in {"spawn", "wait"}, NEW s \in SEMNUM_FILL .. SEMNUM_ME2
               PROVE  s \in semaphores_list
    BY DEF SemaphoresStay
  <2>1. /\ SemInv /\ ProgramTypeOK /\ Founded /\ 1 \in Live /\ 1 \in Used /\ pc[1] \in Nat
    BY <1>1, InvRuns, RunsActive, TextOf
  <2>2. pc[1] > 4
    <3>1. pc[1] # 0
      BY <2>1, PlaceOf
    <3>2. pc[1] \notin 1 .. 4
      BY <1>1, FatherAlone
    <3> QED
      BY <2>1, <3>1, <3>2
  <2>3. s + 1 \in 1 .. 4 /\ s = (s + 1) - 1 /\ s + 1 < pc[1]
    BY <2>1, <2>2 DEF SEMNUM_FILL, SEMNUM_ME2
  <2>4. Has(s)
    BY <1>1, <2>3 DEF ProgInv, FatherHolds
  <2> QED
    BY <2>1, <2>4 DEF Has, SemInv, DescriptorsPair
<1> QED
  BY <1>1, ProgramInvariant, PTL

-----------------------------------------------------------------------------
(* One at a time *)

\* Who waits for a semaphore does so with the descriptor in his variable.
WaitCalls == \A p \in Active : call[p].num = "semWait" => call[p].arg = fd[p][At(p).sem]

\* A call to the semaphores has the descriptor of its instruction.
LEMMA SemInstructionAsks ==
    ASSUME ProgInv, WaitCalls, SemInstruction
    PROVE  WaitCalls'
<1>1. SemInv /\ KernelInv /\ ProgramTypeOK /\ Founded /\ running \in PCB /\ UNCHANGED programVars
  BY InvRuns DEF SemInstruction
<1>2. fd' = fd /\ \A p : At(p)' = At(p)
  BY <1>1, SameProgram DEF programVars
<1>3. UNCHANGED <<pcb_free, zombie_list>>
      /\ \/ call' = call
         \/ \E op \in {"semOpen", "semClose", "semPost"} : \E arg : Trap(op, arg)
         \/ Trap("semWait", fd[running][At(running).sem])
  <2>1. CASE Doing("semOpen") /\ SemOpen(Instruction.sem, Instruction.value)
    BY <2>1 DEF SemOpen, SameFamily, poolVars
  <2>2. CASE Doing("semClose") /\ SemClose(FdOf(Instruction))
    BY <2>2 DEF SemClose, SameFamily, poolVars
  <2>3. CASE Doing("semWait") /\ SemWait(FdOf(Instruction))
    <3>1. At(running) = Instruction
      BY <1>1, <2>3, InstructionOf
    <3>2. PICK f : f = FdOf(Instruction) /\ f = fd[running][At(running).sem]
      BY <3>1 DEF FdOf
    <3>3. SemWait(f)
      BY <2>3, <3>2
    <3>4. (Trap("semWait", f) /\ SameFamily) \/ Stop("deadlock")
      BY <3>3 DEF SemWait
    <3> QED
      BY <3>2, <3>4 DEF SameFamily, Stop, poolVars, listVars
  <2>4. CASE Doing("semPost") /\ SemPost(FdOf(Instruction))
    BY <2>4 DEF SemPost, SameFamily, poolVars
  <2> QED
    BY <2>1, <2>2, <2>3, <2>4 DEF SemInstruction
<1>4. Active' = Active
  BY <1>3 DEF Active, Live
<1>5. CASE call' = call
  BY <1>2, <1>4, <1>5 DEF WaitCalls
<1>6. ASSUME NEW op, NEW arg, Trap(op, arg),
             op \in {"semOpen", "semClose", "semPost"} \/ arg = fd[running][At(running).sem]
      PROVE  WaitCalls'
  <2>1. /\ \A p \in PCB : p # running => call'[p] = call[p]
        /\ call'[running] = [num |-> op, arg |-> arg]
    BY <1>1, <1>6, TrapElsewhere
  <2>2. Active \subseteq PCB
    BY DEF Active, Live
  <2> SUFFICES ASSUME NEW p \in Active, call'[p].num = "semWait"
               PROVE  call'[p].arg = fd[p][At(p).sem]
    BY <1>2, <1>4 DEF WaitCalls
  <2>3. CASE p = running
    BY <1>6, <2>1, <2>3
  <2>4. CASE p # running
    BY <2>1, <2>2, <2>4 DEF WaitCalls
  <2> QED
    BY <2>3, <2>4
<1> QED
  BY <1>3, <1>5, <1>6

LEMMA WaitCallsStep == ProgInv /\ WaitCalls /\ [ProgramNext]_allVars => WaitCalls'
<1> SUFFICES ASSUME ProgInv, WaitCalls, [ProgramNext]_allVars
             PROVE  WaitCalls'
  OBVIOUS
<1>1. /\ SemInv /\ ProgramTypeOK /\ Founded /\ running \in PCB /\ KernelTypeOK
      /\ Active \subseteq Used /\ Used \subseteq PCB /\ 1 \in PCB
  BY InvRuns, RunsActive
<1>2. /\ pc \in [PCB -> Nat] /\ fd \in [PCB -> [SemNum -> Int]]
      /\ call \in [PCB -> CallRecord]
  BY <1>1 DEF Founded, ProgramTypeOK, KernelTypeOK
<1>3. CASE SemInstruction
  BY <1>3, SemInstructionAsks
<1>4. CASE KernelMoves
  <2>1. fd' = fd /\ \A p : At(p)' = At(p)
    BY <1>4, SameProgram DEF KernelMoves, programVars
  <2> QED
    BY <1>4, <2>1 DEF KernelMoves, WaitCalls
<1>5. CASE SpawnInstruction
  <2>1. CASE NoBlockLeft
    <3>1. UNCHANGED <<call, pcb_free, zombie_list>> /\ UNCHANGED programVars
      BY <1>5, <2>1 DEF SpawnInstruction, Spawn, Crash, Stop, programVars, poolVars, listVars
    <3>2. Active' = Active /\ fd' = fd /\ \A p : At(p)' = At(p)
      BY <3>1, SameProgram DEF Active, Live, programVars
    <3> QED
      BY <3>1, <3>2 DEF WaitCalls
  <2>2. CASE ~NoBlockLeft
    <3>1. PICK new \in PCB : Spawned(new)
      BY <1>5, <2>2, SpawnTakes
    <3>2. \A p \in Used : p \in PCB /\ p # new /\ At(p)' = At(p) /\ fd'[p] = fd[p]
      BY <3>1, SpawnPlaces
    <3> SUFFICES ASSUME NEW p \in Active', call'[p].num = "semWait"
                 PROVE  call'[p].arg = fd'[p][At(p)'.sem]
      BY DEF WaitCalls
    <3>3. p \in Active /\ p # new /\ p # 1
      BY <3>1 DEF Spawned, NoCall
    <3>4. call'[p] = call[p]
      BY <1>1, <3>1, <3>3 DEF Spawned
    <3> QED
      BY <1>1, <3>2, <3>3, <3>4 DEF WaitCalls
  <2> QED
    BY <2>1, <2>2
<1>6. CASE Returned \/ Memory
  <2>1. /\ UNCHANGED <<test, HOWMANY, function, pcb_free, zombie_list>>
        /\ \A p \in PCB : p # running => pc'[p] = pc[p] /\ fd'[p] = fd[p] /\ call'[p] = call[p]
        /\ call'[running] = NoCall
    <3>1. CASE Returned
      BY <1>1, <1>2, <3>1 DEF Returned, Return, poolVars, listVars
    <3>2. CASE Memory
      <4>1. UNCHANGED kernelVars /\ call[running] = NoCall
        BY <3>2 DEF Memory, Doing, vars
      <4>2. UNCHANGED <<call, pcb_free, zombie_list>>
        BY <4>1 DEF kernelVars, poolVars, listVars
      <4> QED
        BY <1>1, <1>2, <3>2, <4>1, <4>2 DEF Memory
    <3> QED
      BY <1>6, <3>1, <3>2
  <2>2. Active' = Active /\ \A p \in PCB : p # running => At(p)' = At(p)
    BY <2>1 DEF Active, Live, At, Text
  <2> SUFFICES ASSUME NEW p \in Active, call'[p].num = "semWait"
               PROVE  call'[p].arg = fd'[p][At(p)'.sem]
    BY <2>2 DEF WaitCalls
  <2>3. p # running /\ p \in PCB
    BY <1>1, <2>1 DEF NoCall
  <2> QED
    BY <2>1, <2>2, <2>3 DEF WaitCalls
<1> QED
  BY <1>3, <1>4, <1>5, <1>6, KernelInstructionMoves, InterruptMoves, NothingMoves
     DEF ProgramNext, Step

\* Who queues for a mutex is in front of its section.
LEMMA QueueInside ==
    ASSUME ProgInv, WaitCalls, Misled = {}, NEW s \in Mutexes,
           NEW p \in ToSet(waiting_descriptors[s])
    PROVE  p \in Used /\ Inside(p, s)
<1>1. SemInv /\ ProgramTypeOK /\ Founded /\ s \in SemNum /\ Active \subseteq Used
  BY InvRuns, RunsActive, Constants DEF Mutexes
<1>2. /\ p \in waiting_list /\ call[p].num = "semWait"
      /\ [fd |-> call[p].arg, sem |-> s] \in sem_descriptors[p]
  BY <1>1 DEF SemInv, WaitersBlocked
<1>3. p \in Active /\ p \in Used /\ p \in Live
  BY <1>1, <1>2 DEF SemInv, KernelInv, KernelTypeOK, OnePlace, Active, Live
<1>4. /\ call[p] # NoCall /\ pc[p] \in 1 .. Len(Text(p)) /\ Text(p)[pc[p]].op = "semWait"
  BY <1>2, <1>3 DEF ProgInv, InCalls, NoCall
<1>5. pc[p] \in Nat /\ At(p) = Text(p)[pc[p]] /\ At(p) \in Instructions
  <2>1. pc[p] # 0
    BY <1>4
  <2> QED
    BY <1>1, <1>3, <2>1, TextOf, PlaceOf
<1>6. call[p].arg = fd[p][At(p).sem]
  BY <1>2, <1>3 DEF WaitCalls
<1>7. At(p).sem = s
  BY <1>2, <1>3, <1>4, <1>5, <1>6, FdTells
<1>8. At(p) = OnSem("semWait", s)
  BY <1>4, <1>5, <1>7 DEF Instructions, OnSem
<1>9. PICK k \in 1 .. Len(Text(p)) : k = pc[p]
  BY <1>4
<1>10. Enters(p, s, k)
  <2>1. Called(p, k) /\ ~Called(p, k + 4)
    BY <1>4, <1>5, <1>9 DEF Called
  <2> QED
    BY <1>5, <1>8, <1>9, <2>1 DEF Enters
<1> QED
  BY <1>1, <1>3, <1>10, InsideIs

\* Of those in front of the section and in it the queue is all but one.
LEMMA OneGotIn ==
    ASSUME ProgInv, WaitCalls
    PROVE  OneInSection
<1> SUFFICES ASSUME Misled = {}, NEW s \in Mutexes
             PROVE  Cardinality(InSection(s)) <= 1
  BY DEF OneInSection, Mutexes
<1> DEFINE inside == {p \in Used : Inside(p, s)}
           queue == ToSet(waiting_descriptors[s])
<1>1. /\ SemInv /\ ProgramTypeOK /\ Founded /\ s \in SemNum /\ Used \subseteq PCB
      /\ waiting_descriptors \in [SemNum -> Seq(PCB)] /\ count \in [SemNum -> Int]
  BY InvRuns, RunsActive, Constants DEF Mutexes, SemInv, SemTypeOK
<1>2. queue \subseteq inside
  BY QueueInside
<1>3. IsFiniteSet(inside) /\ IsFiniteSet(queue)
  <2>1. IsFiniteSet(PCB)
    BY KernelAssumption, FS_Interval DEF PCB
  <2>2. IsFiniteSet(inside)
    BY <1>1, <2>1, FS_Subset
  <2> QED
    BY <1>2, <2>2, FS_Subset
<1>4. Cardinality(inside) \in Nat /\ Cardinality(queue) \in Nat
  BY <1>3, FS_CardinalityType
<1>5. Len(waiting_descriptors[s]) <= Cardinality(queue)
  <2>1. IsInjective(waiting_descriptors[s]) /\ waiting_descriptors[s] \in Seq(PCB)
    BY <1>1 DEF SemInv, WaitersBlocked
  <2>2. waiting_descriptors[s] \in Seq(queue)
    BY <2>1 DEF ToSet
  <2> QED
    BY <1>3, <2>1, <2>2, LengthBound
<1>6. Len(waiting_descriptors[s]) = IF count[s] < 0 THEN -count[s] ELSE 0
  BY <1>1, TestsAssumption DEF SemInv, WaitersExact
<1>7. InSection(s) = inside \ queue
  BY DEF InSection
<1>8. Cardinality(inside \ queue) = Cardinality(inside) - Cardinality(queue)
  <2>1. Cardinality(inside \ queue) = Cardinality(inside) - Cardinality(inside \intersect queue)
    BY <1>3, FS_Difference
  <2>2. inside \intersect queue = queue
    BY <1>2
  <2> QED
    BY <2>1, <2>2
<1>9. CASE inside = {}
  <2>1. Cardinality(inside) = 0
    BY <1>9, FS_EmptySet
  <2> QED
    BY <1>4, <1>7, <1>8, <2>1
<1>10. CASE inside # {}
  <2>1. s \in semaphores_list
    BY <1>10, InsideHolds
  <2>2. count[s] = 1 - Cardinality(inside)
    BY <2>1 DEF ProgInv, MutexAccounted, Mutexes
  <2> HIDE DEF inside, queue
  <2> QED
    BY <1>1, <1>4, <1>5, <1>6, <1>7, <1>8, <2>2
<1> QED
  BY <1>9, <1>10

\* Mutual exclusion: from the moment semWait lets a worker in until it posts no other
\* one is in the section, for any number of workers, interrupts anywhere, and workers
\* that give up on the way, as long as no answer to an open was overwritten.
THEOREM SectionsExclude == ProgramSpec => []OneInSection
<1>1. ProgramInit => WaitCalls
  BY ProgramStart DEF WaitCalls, NoCall, Active, Live
<1>2. ProgramSpec => []WaitCalls
  BY <1>1, ProgramInvariant, WaitCallsStep, PTL DEF ProgramSpec
<1>3. ProgInv /\ WaitCalls => OneInSection
  BY OneGotIn
<1> QED
  BY <1>2, <1>3, ProgramInvariant, PTL
=============================================================================
