----------------------- MODULE SchedulerQueue_proofs -----------------------
(***************************************************************************)
(* The first part of the proofs about ClassSchedule and Scheduler.         *)
(*                                                                         *)
(* The nine-slot schedule of pop_next_request bounds how often a waiting   *)
(* class is passed over.  Then the inductive invariant of Scheduler, and   *)
(* why every step keeps its types, where the tasks are, what concerns      *)
(* queue_mtx_ and queue_cv_, and how many requests are queued.             *)
(* Scheduler_proofs has the rest and the theorems about Scheduler.         *)
(*                                                                         *)
(* What is used of numbers and of finite sets is one formula, SetFacts,    *)
(* that the lemmas assume; Scheduler_proofs proves it from the library.    *)
(***************************************************************************)
EXTENDS Scheduler, ClassSchedule, TLAPS

(***************************************************************************)
(* The schedule: the bound of one class depends on where the schedule      *)
(* stands (SkipBound), which is the inductive form                         *)
(***************************************************************************)

\* How often class c can have been passed over, when it waits, with the schedule at slot s.
SkipBound(c, s) ==
    IF c = 0 THEN IF s = 0 THEN 4 ELSE IF s > 5 THEN s - 5 ELSE 0
    ELSE IF c = 1 THEN IF s <= 5 THEN s + 1 ELSE 0
    ELSE s

SkipsFollowSlot == \A c \in Classes : skipped[c] <= SkipBound(c, at)

ScheduleIInv == ScheduleTypeOK /\ SkipsFollowSlot

\* The schedule by slot: five slots of the high class, three of the normal, one of the background.
LEMMA SlotClasses ==
    ASSUME NEW s \in 0..17
    PROVE  /\ SlotClass(s) \in Classes
           /\ SlotClass(s) = 0 <=> s \in 0..4 \cup 9..13
           /\ SlotClass(s) = 1 <=> s \in 5..7 \cup 14..16
           /\ SlotClass(s) = 2 <=> s \in {8, 17}
  BY DEF SlotClass, kSchedule, kScheduleSize, Classes

\* A probe run over a set of classes that is not empty stops within nine slots, at the first
\* slot whose class waits.
LEMMA ProbesFound ==
    ASSUME NEW N \in SUBSET Classes, N # {}, NEW s \in Slots
    PROVE  /\ Probes(N, s) \in 1..9
           /\ SlotClass(s + Probes(N, s) - 1) \in N
           /\ \A m \in 1..(Probes(N, s) - 1) : SlotClass(s + m - 1) \notin N
<1> DEFINE At(n) == SlotClass(s + n - 1) \in N
           First(n) == At(n) /\ \A m \in 1..(n - 1) : ~ At(m)
<1>1. \E n \in 1..9 : At(n)
  <2>1. PICK c \in N : c \in Classes
    OBVIOUS
  <2>2. c \in {0, 1, 2}
    BY <2>1 DEF Classes
  <2>3. PICK n \in 1..9 : SlotClass(s + n - 1) = c
    <3>1. \A n \in 1..9 : s + n - 1 \in 0..17
      BY DEF Slots, kScheduleSize
    <3>2. CASE c = 0
      <4>1. \E n \in 1..9 : s + n - 1 \in 0..4 \cup 9..13
        BY SMT DEF Slots, kScheduleSize
      <4> QED BY <3>1, <3>2, <4>1, SlotClasses
    <3>3. CASE c = 1
      <4>1. \E n \in 1..9 : s + n - 1 \in 5..7 \cup 14..16
        BY SMT DEF Slots, kScheduleSize
      <4> QED BY Zenon, <3>1, <3>3, <4>1, SlotClasses
    <3>4. CASE c = 2
      <4>1. \E n \in 1..9 : s + n - 1 \in {8, 17}
        <5>1. 9 - s \in 1..9 /\ s + (9 - s) - 1 = 8
          BY DEF Slots, kScheduleSize
        <5> QED BY <5>1
      <4> QED BY <3>1, <3>4, <4>1, SlotClasses
    <3> QED BY <2>2, <3>2, <3>3, <3>4
  <2> QED BY <2>3
<1> HIDE DEF At
<1>2. \E n \in 1..9 : First(n)
  <2>1. \/ At(1) \/ At(2) \/ At(3) \/ At(4) \/ At(5)
        \/ At(6) \/ At(7) \/ At(8) \/ At(9)
    <3>1. PICK n \in 1..9 : At(n)
      BY <1>1
    <3>2. n \in {1, 2, 3, 4, 5, 6, 7, 8, 9}
      OBVIOUS
    <3> QED BY <3>1, <3>2
  <2>2. \A n \in 1..9 : (\A m \in 1..(n - 1) : ~ At(m)) \/ (\E m \in 1..(n - 1) : First(m))
    <3>1. 1..0 = {} /\ 1..1 = {1} /\ 1..2 = {1, 2} /\ 1..3 = {1, 2, 3} /\ 1..4 = {1, 2, 3, 4}
      OBVIOUS
    <3>2. /\ 1..5 = {1, 2, 3, 4, 5} /\ 1..6 = {1, 2, 3, 4, 5, 6} /\ 1..7 = {1, 2, 3, 4, 5, 6, 7}
          /\ 1..8 = {1, 2, 3, 4, 5, 6, 7, 8}
      OBVIOUS
    <3> QED BY <3>1, <3>2, SMTT(60)
  <2> QED BY <1>1, <2>2
<1>3. Probes(N, s) = CHOOSE n \in 1..9 : First(n)
  BY DEF Probes, kScheduleSize, At
<1>4. First(Probes(N, s)) /\ Probes(N, s) \in 1..9
  BY <1>2, <1>3
<1> QED BY <1>4 DEF At

\* One pop keeps the bound of every class: the classes passed over are the ones whose slots it
\* did not reach.
LEMMA PopSkips ==
    ASSUME ScheduleIInv, Serve
    PROVE  ScheduleIInv'
<1> DEFINE n == Probes(Waiting, at)
           served == SlotClass(at + n - 1)
<1>1. Waiting \in SUBSET Classes /\ Waiting # {} /\ at \in 0..8
  BY DEF Waiting, Serve, Pop, ScheduleIInv, ScheduleTypeOK, Slots, kScheduleSize
<1>2. /\ n \in 1..9
      /\ served \in Waiting
      /\ \A m \in 1..(n - 1) : SlotClass(at + m - 1) \notin Waiting
  BY ZenonT(30), <1>1, ProbesFound DEF ScheduleIInv, ScheduleTypeOK
<1>3. /\ at' = (at + n) % 9
      /\ count' = [count EXCEPT ![served] = @ - 1]
      /\ skipped' = [c \in Classes |->
                      IF c = served \/ count[c] = 0 THEN 0 ELSE skipped[c] + 1]
  BY DEF Serve, Pop, ServedClass, NextSlot, kScheduleSize
<1> HIDE DEF n, served
<1>4. at' \in 0..8 /\ (at + n <= 8 => at' = at + n) /\ (at + n >= 9 => at' = at + n - 9)
  BY <1>1, <1>2, <1>3
<1>5. /\ served = 0 <=> at + n - 1 \in 0..4 \cup 9..13
      /\ served = 1 <=> at + n - 1 \in 5..7 \cup 14..16
      /\ served = 2 <=> at + n - 1 \in {8, 17}
  <2>1. at + n - 1 \in 0..17
    BY <1>1, <1>2
  <2> QED BY <2>1, SlotClasses DEF served
<1>6. ScheduleTypeOK'
  <2>1. count[served] \in 1..MaxPending /\ served \in Classes
    BY <1>1, <1>2, QueueAssumption DEF Waiting, ScheduleIInv, ScheduleTypeOK
  <2>2. count' \in [Classes -> 0..MaxPending]
    BY <1>3, <2>1, QueueAssumption DEF ScheduleIInv, ScheduleTypeOK
  <2>3. skipped' \in [Classes -> Nat]
    BY <1>3 DEF ScheduleIInv, ScheduleTypeOK
  <2> QED BY <1>4, <2>2, <2>3 DEF ScheduleTypeOK, Slots, kScheduleSize
<1>7. \A c \in Waiting, s \in Slots : s >= at /\ s <= at + n - 2 => SlotClass(s) # c
  <2> SUFFICES ASSUME NEW s \in Slots, s >= at, s <= at + n - 2
               PROVE  SlotClass(s) \notin Waiting
    OBVIOUS
  <2>1. s - at + 1 \in 1..(n - 1) /\ at + (s - at + 1) - 1 = s
    BY <1>1, <1>2 DEF Slots, kScheduleSize
  <2> QED BY <1>2, <2>1
<1>8. \A c \in Waiting, s \in 9..17 : s <= at + n - 2 => SlotClass(s) # c
  <2> SUFFICES ASSUME NEW s \in 9..17, s <= at + n - 2
               PROVE  SlotClass(s) \notin Waiting
    OBVIOUS
  <2>1. s - at + 1 \in 1..(n - 1) /\ at + (s - at + 1) - 1 = s
    BY <1>1, <1>2
  <2> QED BY Zenon, <1>2, <2>1
<1>9. ASSUME NEW c \in Classes, c \in Waiting, c # served
      PROVE  skipped[c] + 1 <= SkipBound(c, at')
  <2>1. skipped[c] <= SkipBound(c, at) /\ skipped[c] \in Nat
    BY DEF ScheduleIInv, SkipsFollowSlot, ScheduleTypeOK
  <2>2. CASE c = 0
    <3>1. SlotClass(4) = 0 /\ SlotClass(9) = 0
      BY SlotClasses
    <3>2. at + n - 1 \in 5..8
      <4>1. at + n - 1 \notin 0..4 \cup 9..13
        BY Zenon, <1>5, <1>9, <2>2
      <4>2. ~ (at + n - 2 >= 9)
        BY <1>8, <1>9, <2>2, <3>1, <1>1, <1>2
      <4> QED BY <4>1, <4>2, <1>1, <1>2
    <3>3. ~ (at <= 4)
      BY <1>1, <1>2, <1>7, <1>9, <2>2, <3>1, <3>2 DEF Slots, kScheduleSize
    <3> QED BY <1>1, <1>2, <1>4, <2>1, <2>2, <3>2, <3>3 DEF SkipBound
  <2>3. CASE c = 1
    <3>1. SlotClass(5) = 1 /\ SlotClass(6) = 1 /\ SlotClass(7) = 1 /\ SlotClass(14) = 1
      BY SlotClasses
    <3>2. at + n - 1 \in 0..4 \cup 8..13
      <4>1. at + n - 1 \notin 5..7 \cup 14..16
        BY Zenon, <1>5, <1>9, <2>3
      <4>2. ~ (at + n - 2 >= 14)
        BY <1>8, <1>9, <2>3, <3>1, <1>1, <1>2
      <4> QED BY <4>1, <4>2, <1>1, <1>2
    <3>3. at <= 7 => at + n - 1 <= 4
      <4>1. \A s \in {5, 6, 7} : ~ (at <= s /\ s <= at + n - 2)
        BY <1>7, <1>9, <2>3, <3>1 DEF Slots, kScheduleSize
      <4> QED BY <4>1, <3>2, <1>1, <1>2
    <3> QED BY <1>1, <1>2, <1>4, <2>1, <2>3, <3>2, <3>3 DEF SkipBound
  <2>4. CASE c = 2
    <3>1. SlotClass(8) = 2
      BY SlotClasses
    <3>2. at + n - 1 <= 7
      <4>1. at + n - 1 # 8 /\ ~ (8 <= at + n - 2)
        BY <1>1, <1>5, <1>7, <1>9, <2>4, <3>1 DEF Slots, kScheduleSize
      <4> QED BY <4>1, <1>1, <1>2
    <3> QED BY <1>1, <1>2, <1>4, <2>1, <2>4, <3>2 DEF SkipBound
  <2> QED BY <2>2, <2>3, <2>4 DEF Classes
<1>10. SkipsFollowSlot'
  <2> SUFFICES ASSUME NEW c \in Classes
               PROVE  skipped'[c] <= SkipBound(c, at')
    BY DEF SkipsFollowSlot
  <2>1. 0 <= SkipBound(c, at')
    <3>1. \A s \in 0..8 : 0 <= SkipBound(c, s)
      BY SMT DEF SkipBound, Classes
    <3> QED BY <1>4, <3>1
  <2>2. CASE c = served \/ count[c] = 0
    BY Zenon, <1>3, <2>1, <2>2
  <2>3. CASE c # served /\ count[c] # 0
    <3>1. c \in Waiting
      BY <2>3 DEF Waiting, ScheduleIInv, ScheduleTypeOK
    <3> QED BY Zenon, <1>3, <1>9, <2>3, <3>1
  <2> QED BY <2>2, <2>3
<1> QED BY <1>6, <1>10 DEF ScheduleIInv

\* The bounds hold in every reachable state, for every number of pending requests: the fairness
\* of the nine-slot schedule of pop_next_request.
THEOREM Overtaking == ScheduleSpec => []BoundedOvertaking
<1>1. ScheduleInit => ScheduleIInv
  BY QueueAssumption
     DEF ScheduleInit, QueueInit, ScheduleIInv, ScheduleTypeOK, SkipsFollowSlot, SkipBound, Slots, kScheduleSize,
         Classes
<1>2. ScheduleIInv /\ [ScheduleNext]_scheduleVars => ScheduleIInv'
  <2> SUFFICES ASSUME ScheduleIInv, [ScheduleNext]_scheduleVars PROVE ScheduleIInv'
    OBVIOUS
  <2>1. ASSUME NEW c \in Classes, Arrive(c) PROVE ScheduleIInv'
    <3>1. ScheduleTypeOK'
      BY <2>1, QueueAssumption DEF Arrive, Push, ScheduleIInv, ScheduleTypeOK
    <3> QED BY <2>1, <3>1 DEF Arrive, Push, ScheduleIInv, SkipsFollowSlot
  <2>2. CASE UNCHANGED scheduleVars
    BY <2>2 DEF scheduleVars, ScheduleIInv, ScheduleTypeOK, SkipsFollowSlot
  <2> QED BY <2>1, <2>2, PopSkips DEF ScheduleNext
<1>3. ScheduleIInv => BoundedOvertaking
  BY SMT DEF ScheduleIInv, ScheduleTypeOK, SkipsFollowSlot, SkipBound, BoundedOvertaking, Slots, kScheduleSize, Classes
<1> QED BY <1>1, <1>2, <1>3, PTL DEF ScheduleSpec

(***************************************************************************)
(* Numbers and finite sets                                                 *)
(***************************************************************************)

\* A nonempty set of natural numbers has a least element, and a finite set has a number of elements,
\* which changes by one with each element and is the same for sets that correspond.
SetFacts ==
    /\ \A S \in SUBSET Nat : S # {} => \E k \in S : \A j \in S : k <= j
    /\ IsFiniteSet({}) /\ Cardinality({}) = 0
    /\ \A n \in Nat : IsFiniteSet(1..n) /\ Cardinality(1..n) = n
    /\ \A S : IsFiniteSet(S) =>
         /\ Cardinality(S) \in Nat /\ (Cardinality(S) = 0 <=> S = {})
         /\ \A T \in SUBSET S : IsFiniteSet(T) /\ Cardinality(T) <= Cardinality(S)
         /\ \A x : x \notin S => Cardinality(S \cup {x}) = Cardinality(S) + 1
         /\ \A x : x \in S => Cardinality(S \ {x}) = Cardinality(S) - 1
         /\ \A T : (\E f \in [S -> T] : /\ \A x, y \in S : f[x] = f[y] => x = y
                                     /\ \A z \in T : \E x \in S : f[x] = z)
                  => Cardinality(T) = Cardinality(S)

(***************************************************************************)
(* The request that pop_next_request takes                                 *)
(***************************************************************************)

\* The schedule comes to a class that has a request.
LEMMA ServedClassWaits ==
    ASSUME NEW N \in SUBSET Classes, N # {}, NEW s \in Slots
    PROVE  ServedClass(N, s) \in N /\ NextSlot(N, s) \in Slots
<1>1. Probes(N, s) \in 1..9 /\ SlotClass(s + Probes(N, s) - 1) \in N
  BY ZenonT(30), ProbesFound
<1> QED
  BY <1>1 DEF ServedClass, NextSlot, Slots, kScheduleSize

\* The fields of a request are numbers.
LEMMA RequestFields ==
    ASSUME NEW r \in Request
    PROVE  r.priority \in Nat /\ r.task_id \in TaskIds /\ r.task_id \in Nat
<1>1. Priorities \subseteq Nat /\ MaxTasks \in Nat
  BY SchedulerAssumption
<1>2. r.priority \in Priorities /\ r.task_id \in TaskIds
  BY DEF Request
<1>3. r.priority \in Nat
  BY ZenonT(30), <1>1, <1>2
<1>4. r.task_id \in Nat
  BY <1>1, <1>2 DEF TaskIds
<1> QED
  BY <1>2, <1>3, <1>4

\* Of some positions of a queue whose task ids differ one comes before all others: the loop of
\* find_best_request_in_class_locked ends with a request, and only one can be it.
LEMMA BestExists ==
    ASSUME SetFacts, NEW n \in Nat, NEW q,
           \A i \in 1..n : q[i].priority \in Nat /\ q[i].task_id \in Nat,
           \A i, j \in 1..n : q[i].task_id = q[j].task_id => i = j,
           NEW S \in SUBSET (1..n), S # {}
    PROVE  \E i \in S : \A j \in S \ {i} : Before(q[i], q[j])
<1> DEFINE Upto(k) == S \cap 1..k
           Best(k) == \E i \in Upto(k) : \A j \in Upto(k) \ {i} : Before(q[i], q[j])
           bad == {k \in 1..n : Upto(k) # {} /\ ~ Best(k)}
<1>1. bad = {}
  <2> SUFFICES ASSUME bad # {} PROVE FALSE
    BY ZenonT(30)
  <2>1. PICK k \in bad : \A j \in bad : k <= j
    <3>1. bad \subseteq Nat
      OBVIOUS
    <3> HIDE DEF bad
    <3> QED
      BY ZenonT(30), <3>1 DEF SetFacts
  <2>2. k \in 1..n /\ Upto(k) # {} /\ ~ Best(k)
    BY ZenonT(30)
  <2>3. \A m \in 1..n : m < k /\ Upto(m) # {} => Best(m)
    <3> SUFFICES ASSUME NEW m \in 1..n, m < k, Upto(m) # {}, ~ Best(m) PROVE FALSE
      BY ZenonT(30)
    <3>1. m \in bad
      BY Zenon
    <3> HIDE DEF bad
    <3> QED
      BY <2>1, <2>2, <3>1
  <2>4. /\ k \notin S => Upto(k) = Upto(k - 1)
        /\ k \in S => Upto(k) = Upto(k - 1) \cup {k}
        /\ k \notin Upto(k - 1)
        /\ Upto(0) = {}
    BY <2>2
  <2>5. \A m \in 1..n : \A j \in Upto(m) : j \in 1..n
    OBVIOUS
  <2> HIDE DEF Upto, bad
  <2>6. Upto(k - 1) # {} => k - 1 \in 1..n /\ k - 1 < k
    BY <2>2, <2>4
  <2>7. k \in S /\ Upto(k - 1) # {} /\ Best(k - 1)
    <3>1. k \in S
      <4> SUFFICES ASSUME k \notin S PROVE FALSE
        OBVIOUS
      <4>1. Upto(k) = Upto(k - 1)
        BY <2>4
      <4>2. Best(k - 1)
        BY <2>2, <2>3, <2>6, <4>1
      <4> QED
        BY <2>2, <4>1, <4>2
    <3>2. Upto(k - 1) # {}
      <4> SUFFICES ASSUME Upto(k - 1) = {} PROVE FALSE
        BY Zenon
      <4>1. Upto(k) = {k}
        BY Zenon, <2>4, <3>1
      <4> QED
        BY Zenon, <2>2, <4>1
    <3>3. Best(k - 1)
      BY Zenon, <2>3, <2>6, <3>2
    <3> QED
      BY <3>1, <3>2, <3>3
  <2>8. PICK i \in Upto(k - 1) : \A j \in Upto(k - 1) \ {i} : Before(q[i], q[j])
    BY Zenon, <2>7
  <2>9. i \in 1..n /\ i # k /\ k \in 1..n
    BY Zenon, <2>2, <2>4, <2>5, <2>6, <2>7, <2>8
  <2>10. q[i].task_id # q[k].task_id
    BY Zenon, <2>9
  <2>11. CASE Before(q[i], q[k])
    <3>1. \A j \in Upto(k) \ {i} : Before(q[i], q[j])
      BY Zenon, <2>4, <2>7, <2>8, <2>11
    <3> QED
      BY Zenon, <2>2, <2>4, <2>7, <3>1
  <2>12. CASE Before(q[k], q[i])
    <3>1. \A j \in Upto(k - 1) : j \in 1..n
      BY Zenon, <2>5, <2>6, <2>7
    <3>2. ASSUME NEW j \in Upto(k - 1) PROVE Before(q[k], q[j])
      <4>1. j = i \/ Before(q[i], q[j])
        BY Zenon, <2>8
      <4>2. j \in 1..n
        BY <3>1
      <4> QED
        BY <2>9, <2>12, <4>1, <4>2 DEF Before
    <3> QED
      BY Zenon, <2>2, <2>4, <2>7, <3>2
  <2> QED
    BY <2>9, <2>10, <2>11, <2>12 DEF Before
<1>2. Upto(n) = S
  BY ZenonT(30)
<1>3. n \in 1..n
  <2>1. PICK i \in S : i \in 1..n
    BY ZenonT(30)
  <2> QED
    BY <2>1
<1>4. Best(n)
  BY ZenonT(30), <1>1, <1>2, <1>3
<1> QED
  BY Zenon, <1>2, <1>4

\* find_best_request_in_class_locked finds a request of the class, if there is one.
LEMMA BestFound ==
    ASSUME SetFacts, NEW q \in Seq(Request), NEW k, NEW high,
           \A i, j \in DOMAIN q : q[i].task_id = q[j].task_id => i = j,
           InClass(q, k, high) # {}
    PROVE  BestInClass(q, k, high) \in InClass(q, k, high)
<1> DEFINE S == InClass(q, k, high)
<1>1. Len(q) \in Nat /\ DOMAIN q = 1..Len(q) /\ S \in SUBSET (1..Len(q))
  BY DEF InClass
<1>2. \A i \in 1..Len(q) : q[i].priority \in Nat /\ q[i].task_id \in Nat
  <2> SUFFICES ASSUME NEW i \in 1..Len(q) PROVE q[i].priority \in Nat /\ q[i].task_id \in Nat
    OBVIOUS
  <2>1. q[i] \in Request
    BY <1>1
  <2> QED
    BY Zenon, <2>1, RequestFields
<1> HIDE DEF S
<1>3. \E i \in S : \A j \in S \ {i} : Before(q[i], q[j])
  <2>1. S # {}
    BY Zenon DEF S
  <2> QED
    BY ZenonT(30), <1>1, <1>2, <2>1, BestExists
<1> QED
  BY Zenon, <1>3 DEF BestInClass, S

(***************************************************************************)
(* The queue as a sequence                                                 *)
(***************************************************************************)

\* The position in a queue of what is at position k once position i was taken out.
Shift(i, k) == IF k < i THEN k ELSE k + 1

\* What the erase of pop_next_request leaves.
LEMMA ErasedAt ==
    ASSUME NEW T, NEW q \in Seq(T), NEW i \in 1..Len(q)
    PROVE  /\ Without(q, i) \in Seq(T)
           /\ Len(Without(q, i)) = Len(q) - 1
           /\ \A k \in 1..(Len(q) - 1) : /\ Without(q, i)[k] = q[Shift(i, k)]
                                       /\ Shift(i, k) \in 1..Len(q)
                                       /\ Shift(i, k) # i
<1> DEFINE a == SubSeq(q, 1, i - 1)
           b == SubSeq(q, i + 1, Len(q))
<1>1. a \in Seq(T) /\ Len(a) = i - 1 /\ \A k \in 1..(i - 1) : a[k] = q[k]
  OBVIOUS
<1>2. b \in Seq(T) /\ Len(b) = Len(q) - i /\ \A k \in 1..(Len(q) - i) : b[k] = q[i + k]
  OBVIOUS
<1> HIDE DEF a, b
<1>3. /\ a \o b \in Seq(T) /\ Len(a \o b) = Len(a) + Len(b)
      /\ \A k \in 1..(Len(a) + Len(b)) : (a \o b)[k] = IF k <= Len(a) THEN a[k] ELSE b[k - Len(a)]
  <2>1. a \in Seq(T) /\ b \in Seq(T)
    BY Zenon, <1>1, <1>2
  <2>2. a \o b \in Seq(T) /\ Len(a \o b) = Len(a) + Len(b)
    BY <2>1
  <2>3. \A k \in 1..(Len(a) + Len(b)) : (a \o b)[k] = IF k <= Len(a) THEN a[k] ELSE b[k - Len(a)]
    BY <2>1
  <2> QED
    BY Zenon, <2>2, <2>3
<1>4. Without(q, i) = a \o b
  BY DEF Without, a, b
<1>5. ASSUME NEW k \in 1..(Len(q) - 1)
      PROVE  (a \o b)[k] = q[Shift(i, k)] /\ Shift(i, k) \in 1..Len(q) /\ Shift(i, k) # i
  <2>1. CASE k < i
    BY <1>1, <1>2, <1>3, <2>1 DEF Shift
  <2>2. CASE ~ (k < i)
    <3>1. k - (i - 1) \in 1..(Len(q) - i) /\ i + (k - (i - 1)) = k + 1 /\ ~ (k <= i - 1)
      BY <2>2
    <3>2. (a \o b)[k] = b[k - (i - 1)]
      BY SMTT(30), <1>1, <1>2, <1>3, <3>1
    <3>3. b[k - (i - 1)] = q[k + 1]
      BY ZenonT(30), <1>2, <3>1
    <3> QED
      BY <2>2, <3>2, <3>3 DEF Shift
  <2> QED
    BY ZenonT(30), <2>1, <2>2
<1>6. a \o b \in Seq(T)
  BY <1>3
<1>7. Len(a \o b) = Len(q) - 1
  BY <1>1, <1>2, <1>3
<1> QED
  BY SMTT(30), <1>4, <1>5, <1>6, <1>7

(***************************************************************************)
(* The inductive invariant                                                 *)
(***************************************************************************)

\* Where a session thread alone has the request, and where the request was queued.
Holding == {"numbered", "admit", "rejected"}
Queueing == {"accepted", "counted", "recorded"}

\* Where a worker has a request that was not answered.
Unanswered == {"popped", "running", "calling", "failed"}

ClientState == [pc : {"idle"} \cup Holding \cup Queueing, req : Request \cup {NoRequest}, config : Configs]

WorkerState ==
    [pc : {"config", "lock", "checked", "sleeping", "done", "succeeded", "handled", "ready"} \cup Unanswered,
     high : Nat, req : Request \cup {NoRequest}]

Record == [task_id : TaskIds, status : {"Pending", "Running", "Success", "Failed"}]

Metrics == [total : Nat, success : Nat, failed : Nat, rejected : Nat]

TypeOK ==
    /\ config \in Configs
    /\ counter \in 0..MaxTasks
    /\ client \in [Clients -> ClientState]
    /\ pending \in Seq(Request)
    /\ slot \in Slots
    /\ worker \in [Workers -> WorkerState]
    /\ records \in Seq(Record)
    /\ metrics \in Metrics
    /\ stop \in {"no", "flagged", "join", "stopped"}
    /\ status \in {"Ready", "Running", "Stopping", "Stopped"}
    /\ replies \in [TaskIds -> Nat]

\* No worker and no queue has task t, and nobody answered it.
Untouched(t) ==
    /\ replies[t] = 0
    /\ \A i \in DOMAIN pending : pending[i].task_id # t
    /\ \A w \in Workers : ~ Serving(w, t)

\* Two session threads never have the same task, and what a session thread has not queued yet, like
\* the task ids that are still to come, nobody else has.
TasksApart ==
    /\ \A c \in Clients : client[c].pc # "idle" =>
         /\ client[c].req \in Request /\ client[c].req.task_id <= counter
         /\ \A d \in Clients : client[d].pc # "idle" /\ client[d].req.task_id = client[c].req.task_id => c = d
         /\ client[c].pc \in Holding => Untouched(client[c].req.task_id)
    /\ \A t \in TaskIds : t > counter => Untouched(t)
    /\ \A w \in Workers : worker[w].pc \in Unanswered => worker[w].req \in Request

\* A task has one record, made after the task was queued, and the status of the record follows where
\* the task is: it stays behind when the record was made late, and is never ahead.
RecordsFollow ==
    /\ \A i, j \in DOMAIN records : records[i].task_id = records[j].task_id => i = j
    /\ \A i \in DOMAIN records :
         /\ records[i].task_id <= counter
         /\ \A c \in Clients : client[c].pc \in Holding \cup {"accepted", "counted"} =>
              client[c].req.task_id # records[i].task_id
         /\ \A k \in DOMAIN pending :
              pending[k].task_id = records[i].task_id => records[i].status = "Pending"
         /\ \A w \in Workers : Serving(w, records[i].task_id) =>
              /\ worker[w].pc = "popped" => records[i].status = "Pending"
              /\ worker[w].pc \in {"running", "calling"} => records[i].status \in {"Pending", "Running"}
              /\ worker[w].pc = "failed" => records[i].status # "Running"

\* Only one worker can be between the test and the wait, holding queue_mtx_, and then the queue is
\* empty; after the notification of stop() no other worker waits.
MutexHeld ==
    /\ \A w \in Workers : worker[w].pc = "checked" => pending = << >>
    /\ \A v, w \in Workers : worker[v].pc = "checked" /\ worker[w].pc = "checked" => v = w
    /\ stop \in {"join", "stopped"} =>
         \A v, w \in Workers : {worker[v].pc, worker[w].pc} \subseteq {"checked", "sleeping"} => v = w
    /\ stop = "stopped" => status = "Stopped" /\ \A w \in Workers : worker[w].pc = "done"

\* A worker that may take a request has copied the threshold of some setting.
ThresholdCopied ==
    \A w \in Workers : worker[w].pc \in {"lock", "checked", "sleeping"} =>
        \E c \in Configs : worker[w].high = c.high_priority_threshold

IInv ==
    /\ TypeOK /\ TasksApart /\ ServedOnce /\ RecordsFollow /\ RunningMeansServed
    /\ MutexHeld /\ NoLostWakeup /\ ThresholdCopied /\ MetricsBalance /\ AdmissionBounds

\* What a worker does that takes the request at position i of the queue.
Pops(w, i) ==
    /\ worker[w].pc = "lock" /\ QueueUnlocked
    /\ slot' = NextSlot(WaitingClasses(w), slot) /\ slot' \in Slots
    /\ worker' = [worker EXCEPT ![w] = [@ EXCEPT !.pc = "popped", !.req = pending[i]]]
    /\ pending' = Without(pending, i)
    /\ priority_class(pending[i].priority, worker[w].high) = ServedClass(WaitingClasses(w), slot)
    /\ UNCHANGED <<config, counter, client, records, metrics, stop, status, replies>>

\* pop_next_request takes a request of the class the schedule comes to.
LEMMA PopEffect ==
    ASSUME SetFacts, IInv, NEW w \in Workers, PopRequest(w)
    PROVE  \E i \in 1..Len(pending) : Pops(w, i)
<1> DEFINE N == WaitingClasses(w)
           k == ServedClass(N, slot)
           high == worker[w].high
           best == BestInClass(pending, k, high)
<1>1. pending \in Seq(Request) /\ slot \in Slots /\ pending # << >>
  BY Zenon DEF IInv, TypeOK, PopRequest
<1>2. N \in SUBSET Classes /\ N # {}
  <2>1. 1 \in DOMAIN pending
    BY <1>1
  <2>2. priority_class(pending[1].priority, high) \in Classes
    BY DEF priority_class, Classes
  <2>3. 1 \in InClass(pending, priority_class(pending[1].priority, high), high)
    BY Zenon, <2>1 DEF InClass
  <2> QED
    BY <2>2, <2>3 DEF WaitingClasses
<1> HIDE DEF N
<1>3. k \in N /\ NextSlot(N, slot) \in Slots
  BY Zenon, <1>1, <1>2, ServedClassWaits
<1>4. InClass(pending, k, high) # {}
  BY <1>3 DEF N, WaitingClasses
<1>5. best \in InClass(pending, k, high)
  BY Zenon, <1>1, <1>4, BestFound DEF IInv, ServedOnce
<1>6. best \in 1..Len(pending) /\ priority_class(pending[best].priority, high) = k
  BY <1>1, <1>5 DEF InClass
<1>7. Pops(w, best)
  BY Zenon, <1>3, <1>6 DEF PopRequest, Pops, N
<1> QED
  BY Zenon, <1>6, <1>7

\* At the start no request is anywhere, and every worker is about to copy the threshold.
LEMMA IdleTyped == IdleClient \in ClientState /\ NewWorker \in WorkerState
<1>1. (CHOOSE c \in Configs : TRUE) \in Configs
  BY SchedulerAssumption
<1> QED
  BY <1>1 DEF IdleClient, NewWorker, ClientState, WorkerState

\* A session thread or a worker moves on and keeps the rest of its state.
LEMMA ClientMoves ==
    ASSUME NEW k \in ClientState, NEW pc \in {"idle"} \cup Holding \cup Queueing
    PROVE  [k EXCEPT !.pc = pc] \in ClientState
  BY DEF ClientState

\* The same of a worker.
LEMMA WorkerMoves ==
    ASSUME NEW k \in WorkerState,
           NEW pc \in {"config", "lock", "checked", "sleeping", "done", "succeeded", "handled", "ready"} \cup Unanswered
    PROVE  [k EXCEPT !.pc = pc] \in WorkerState
  BY DEF WorkerState

\* Where a session thread is after it moved on; the other threads stay.
LEMMA ClientAt ==
    ASSUME TypeOK, NEW c \in Clients, NEW pc, client' = [client EXCEPT ![c].pc = pc]
    PROVE  /\ client'[c].pc = pc /\ client'[c].req = client[c].req
           /\ \A d \in Clients \ {c} : client'[d] = client[d]
  BY DEF TypeOK, ClientState

\* The same of a worker.
LEMMA WorkerAt ==
    ASSUME TypeOK, NEW w \in Workers, NEW pc, worker' = [worker EXCEPT ![w].pc = pc]
    PROVE  /\ worker'[w].pc = pc /\ worker'[w].req = worker[w].req /\ worker'[w].high = worker[w].high
           /\ \A v \in Workers \ {w} : worker'[v] = worker[v]
  BY DEF TypeOK, WorkerState

\* The counters of MetricsCollector stay numbers.
LEMMA MetricsCount ==
    ASSUME NEW m \in Metrics
    PROVE  /\ [m EXCEPT !.total = @ + 1] \in Metrics
           /\ [m EXCEPT !.success = @ + 1] \in Metrics
           /\ [m EXCEPT !.failed = @ + 1] \in Metrics
           /\ [m EXCEPT !.rejected = @ + 1, !.failed = @ + 1] \in Metrics
<1>1. /\ m.total + 1 \in Nat /\ m.success + 1 \in Nat /\ m.failed + 1 \in Nat /\ m.rejected + 1 \in Nat
  BY DEF Metrics
<1>2. [m EXCEPT !.total = @ + 1] \in Metrics /\ [m EXCEPT !.success = @ + 1] \in Metrics
  BY <1>1 DEF Metrics
<1>3. [m EXCEPT !.failed = @ + 1] \in Metrics
  BY <1>1 DEF Metrics
<1>4. [m EXCEPT !.rejected = @ + 1, !.failed = @ + 1] \in Metrics
  BY ZenonT(30), <1>1 DEF Metrics
<1> QED
  BY Zenon, <1>2, <1>3, <1>4

\* record_pending and update_record keep a list of records.
LEMMA RecordsTyped ==
    ASSUME NEW rs \in Seq(Record), NEW t \in TaskIds
    PROVE  /\ WithPending(rs, t) \in Seq(Record)
           /\ \A s \in {"Running", "Success", "Failed"} : WithStatus(rs, t, s) \in Seq(Record)
<1>1. WithPending(rs, t) \in Seq(Record)
  <2> DEFINE all == Append(rs, [task_id |-> t, status |-> "Pending"])
  <2>1. [task_id |-> t, status |-> "Pending"] \in Record
    BY Zenon DEF Record
  <2>2. all \in Seq(Record) /\ Len(all) > 0
    BY <2>1
  <2> HIDE DEF all
  <2>3. Tail(all) \in Seq(Record)
    BY <2>2
  <2> QED
    BY Zenon, <2>2, <2>3 DEF WithPending, all
<1>2. ASSUME NEW s \in {"Running", "Success", "Failed"} PROVE WithStatus(rs, t, s) \in Seq(Record)
  <2>1. ASSUME NEW i \in 1..Len(rs) PROVE rs[i] \in Record /\ [rs[i] EXCEPT !.status = s] \in Record
    <3>1. rs[i] \in Record
      OBVIOUS
    <3> QED
      BY Zenon, <3>1 DEF Record
  <2>2. DOMAIN rs = 1..Len(rs) /\ Len(rs) \in Nat
    OBVIOUS
  <2> QED
    BY <2>1, <2>2 DEF WithStatus
<1> QED
  BY Zenon, <1>1, <1>2

\* Every step keeps the types.
LEMMA StepTypes ==
    ASSUME SetFacts, IInv, [Next]_vars
    PROVE  TypeOK'
<1> USE DEF Holding, Queueing, Unanswered
<1>0. TypeOK
  BY Zenon DEF IInv
<1>1. ASSUME NEW c \in Clients, NEW p \in Priorities, Inference(c, p) PROVE TypeOK'
  <2>1. counter + 1 \in TaskIds /\ counter' \in 0..MaxTasks
    BY <1>0, <1>1, SchedulerAssumption DEF Inference, TypeOK, TaskIds
  <2>2. [client[c] EXCEPT !.pc = "numbered", !.req = [task_id |-> counter + 1, priority |-> p]] \in ClientState
    BY ZenonT(30), <1>0, <2>1 DEF TypeOK, ClientState, Request
  <2> QED
    BY Zenon, <1>0, <1>1, <2>1, <2>2 DEF Inference, TypeOK
<1>2. ASSUME NEW c \in Clients, ReadLimits(c) PROVE TypeOK'
  <2>1. [client[c] EXCEPT !.pc = "admit", !.config = config] \in ClientState
    BY ZenonT(30), <1>0 DEF TypeOK, ClientState
  <2> QED
    BY <1>0, <1>2, <2>1 DEF ReadLimits, TypeOK
<1>3. ASSUME NEW c \in Clients, Admit(c) PROVE TypeOK'
  <2>1. client[c] \in ClientState /\ client[c].req \in Request
    BY Zenon, <1>0, <1>3 DEF IInv, TypeOK, TasksApart, Admit
  <2>2. [client[c] EXCEPT !.pc = "rejected"] \in ClientState /\ [client[c] EXCEPT !.pc = "accepted"] \in ClientState
    BY ZenonT(30), <2>1, ClientMoves
  <2>3. Append(pending, client[c].req) \in Seq(Request)
    BY <1>0, <2>1 DEF TypeOK
  <2>4. client' \in [Clients -> ClientState] /\ pending' \in Seq(Request)
    BY ZenonT(30), <1>0, <1>3, <2>2, <2>3 DEF Admit, TypeOK
  <2> QED
    BY Zenon, <1>0, <1>3, <2>4 DEF Admit, TypeOK
<1>4. ASSUME NEW c \in Clients, Reject(c) PROVE TypeOK'
  <2>1. client' \in [Clients -> ClientState]
    BY SMTT(30), <1>0, <1>4, IdleTyped DEF Reject, TypeOK
  <2>2. metrics' \in Metrics
    BY ZenonT(30), <1>0, <1>4, MetricsCount DEF Reject, TypeOK
  <2>3. replies' \in [TaskIds -> Nat]
    <3>1. client[c].req.task_id \in TaskIds
      BY Zenon, <1>4, RequestFields DEF IInv, TasksApart, Reject
    <3>2. replies \in [TaskIds -> Nat] /\ replies' = [replies EXCEPT ![client[c].req.task_id] = @ + 1]
      BY Zenon, <1>0, <1>4 DEF Reject, TypeOK
    <3> QED
      BY <3>1, <3>2
  <2> QED
    BY Zenon, <1>0, <1>4, <2>1, <2>2, <2>3 DEF Reject, TypeOK
<1>5. ASSUME NEW c \in Clients, CountAccepted(c) PROVE TypeOK'
  <2>1. client' \in [Clients -> ClientState]
    BY ZenonT(30), <1>0, <1>5, ClientMoves DEF CountAccepted, TypeOK
  <2>2. metrics' \in Metrics
    BY ZenonT(30), <1>0, <1>5, MetricsCount DEF CountAccepted, TypeOK
  <2> QED
    BY Zenon, <1>0, <1>5, <2>1, <2>2 DEF CountAccepted, TypeOK
<1>6. ASSUME NEW c \in Clients, RecordPending(c) PROVE TypeOK'
  <2>1. client' \in [Clients -> ClientState]
    BY ZenonT(30), <1>0, <1>6, ClientMoves DEF RecordPending, TypeOK
  <2>2. client[c].req.task_id \in TaskIds
    BY Zenon, <1>6, RequestFields DEF IInv, TasksApart, RecordPending
  <2>3. records' \in Seq(Record)
    BY Zenon, <1>0, <1>6, <2>2, RecordsTyped DEF RecordPending, TypeOK
  <2> QED
    BY Zenon, <1>0, <1>6, <2>1, <2>3 DEF RecordPending, TypeOK
<1>7. ASSUME NEW c \in Clients, NotifyOne(c) PROVE TypeOK'
  <2>1. client' \in [Clients -> ClientState]
    BY Zenon, <1>0, <1>7, IdleTyped DEF NotifyOne, TypeOK
  <2>2. worker' \in [Workers -> WorkerState]
    <3>1. CASE UNCHANGED worker
      BY Zenon, <1>0, <3>1 DEF TypeOK
    <3>2. ASSUME NEW w \in Workers, worker' = [worker EXCEPT ![w].pc = "lock"] PROVE worker' \in [Workers -> WorkerState]
      BY ZenonT(30), <1>0, <3>2, WorkerMoves DEF TypeOK
    <3> QED
      BY Zenon, <1>7, <3>1, <3>2 DEF NotifyOne
  <2> QED
    BY Zenon, <1>0, <1>7, <2>1, <2>2 DEF NotifyOne, TypeOK
<1>8. ASSUME NEW w \in Workers, ReadThreshold(w) PROVE TypeOK'
  <2>1. config.high_priority_threshold \in Nat
    BY Zenon, <1>0, SchedulerAssumption DEF TypeOK, Config
  <2>2. [worker[w] EXCEPT !.pc = "lock", !.high = config.high_priority_threshold] \in WorkerState
    BY ZenonT(30), <1>0, <2>1 DEF TypeOK, WorkerState
  <2> QED
    BY Zenon, <1>0, <1>8, <2>2 DEF ReadThreshold, TypeOK
<1>9. ASSUME NEW w \in Workers, PopRequest(w) PROVE TypeOK'
  <2>1. PICK i \in 1..Len(pending) : Pops(w, i)
    BY Zenon, <1>9, PopEffect
  <2>2. pending[i] \in Request
    BY <1>0, <2>1 DEF TypeOK
  <2>3. [worker[w] EXCEPT !.pc = "popped", !.req = pending[i]] \in WorkerState
    BY ZenonT(30), <1>0, <2>2 DEF TypeOK, WorkerState
  <2>4. pending' \in Seq(Request)
    BY <1>0, <2>1, ErasedAt DEF TypeOK, Pops
  <2> QED
    BY <1>0, <2>1, <2>3, <2>4 DEF Pops, TypeOK
<1>10. ASSUME NEW w \in Workers, FindEmpty(w) \/ Sleep(w) \/ WorkerExit(w) \/ WakeSpuriously(w) \/ Attempt(w)
       PROVE  TypeOK'
  <2>1. PICK pc \in {"checked", "sleeping", "done", "lock", "handled", "calling"} :
           worker' = [worker EXCEPT ![w].pc = pc]
    BY Zenon, <1>10 DEF FindEmpty, Sleep, WorkerExit, WakeSpuriously, Attempt
  <2>2. worker' \in [Workers -> WorkerState]
    BY ZenonT(30), <1>0, <2>1, WorkerMoves DEF TypeOK
  <2> QED
    BY Zenon, <1>0, <1>10, <2>2 DEF FindEmpty, Sleep, WorkerExit, WakeSpuriously, Attempt, TypeOK
<1>11. ASSUME NEW w \in Workers, StartRequest(w) \/ HandleSuccess(w) \/ HandleFailure(w) \/ CountFailure(w)
       PROVE  TypeOK'
  <2>1. PICK pc \in {"running", "succeeded", "failed", "handled"} : worker' = [worker EXCEPT ![w].pc = pc]
    BY SMTT(30), <1>11 DEF StartRequest, HandleSuccess, HandleFailure, CountFailure
  <2>2. worker' \in [Workers -> WorkerState]
    BY ZenonT(30), <1>0, <2>1, WorkerMoves DEF TypeOK
  <2>3. worker[w].req.task_id \in TaskIds
    BY Zenon, <1>11, RequestFields DEF IInv, TasksApart, StartRequest, HandleSuccess, HandleFailure, CountFailure
  <2>4. records' \in Seq(Record)
    <3>1. records' \in {records} \cup {WithStatus(records, worker[w].req.task_id, s) : s \in {"Running", "Success", "Failed"}}
      BY <1>11 DEF StartRequest, HandleSuccess, HandleFailure, CountFailure
    <3> QED
      BY ZenonT(30), <1>0, <2>3, <3>1, RecordsTyped DEF TypeOK
  <2>5. metrics' \in Metrics
    BY ZenonT(30), <1>0, <1>11, MetricsCount DEF StartRequest, HandleSuccess, HandleFailure, CountFailure, TypeOK
  <2>6. replies' \in [TaskIds -> Nat] /\ status' \in {"Ready", "Running", "Stopping", "Stopped"}
    BY <1>0, <1>11 DEF StartRequest, HandleSuccess, HandleFailure, CountFailure, TypeOK
  <2> QED
    BY ZenonT(30), <1>0, <1>11, <2>2, <2>4, <2>5, <2>6 DEF StartRequest, HandleSuccess, HandleFailure, CountFailure, TypeOK
<1>12. ASSUME NEW w \in Workers, CountSuccess(w) \/ TestStopping(w) \/ StoreReady(w) PROVE TypeOK'
  <2>1. worker' \in [Workers -> WorkerState]
    <3>1. [worker[w] EXCEPT !.pc = "handled"] \in WorkerState /\ [worker[w] EXCEPT !.pc = "ready"] \in WorkerState
      BY ZenonT(30), <1>0, WorkerMoves DEF TypeOK
    <3> QED
      BY ZenonT(30), <1>0, <1>12, <3>1, IdleTyped DEF CountSuccess, TestStopping, StoreReady, TypeOK
  <2>2. metrics' \in Metrics
    BY ZenonT(30), <1>0, <1>12, MetricsCount DEF CountSuccess, TestStopping, StoreReady, TypeOK
  <2> QED
    BY Zenon, <1>0, <1>12, <2>1, <2>2 DEF CountSuccess, TestStopping, StoreReady, TypeOK
<1>13. CASE StopFlag \/ StopNotify \/ StopJoin \/ ReloadLimits \/ UNCHANGED vars
  <2>1. worker' \in [Workers -> WorkerState]
    <3>1. CASE StopNotify
      <4>1. \A w \in Workers : [worker[w] EXCEPT !.pc = "lock"] \in WorkerState
        BY ZenonT(30), <1>0, WorkerMoves DEF TypeOK
      <4> QED
        BY SMTT(30), <1>0, <3>1, <4>1 DEF StopNotify, TypeOK
    <3> QED
      BY Zenon, <1>0, <1>13, <3>1 DEF StopFlag, StopJoin, ReloadLimits, vars, TypeOK
  <2> QED
    BY Zenon, <1>0, <1>13, <2>1 DEF StopFlag, StopNotify, StopJoin, ReloadLimits, vars, TypeOK
<1> QED
  BY Zenon, <1>1, <1>2, <1>3, <1>4, <1>5, <1>6, <1>7, <1>8, <1>9, <1>10, <1>11, <1>12, <1>13
     DEF Next, ClientStep, WorkerStep

(***************************************************************************)
(* Who has a request                                                       *)
(***************************************************************************)

\* A step after which nobody has a request that they did not have before.
Quiet ==
    /\ counter' = counter /\ pending' = pending /\ replies' = replies
    /\ \A c \in Clients : client'[c].pc # "idle" =>
         /\ client[c].pc # "idle" /\ client'[c].req = client[c].req
         /\ client'[c].pc \in Holding => client[c].pc \in Holding
    /\ \A w \in Workers : worker'[w].pc \in Unanswered =>
         worker[w].pc \in Unanswered /\ worker'[w].req = worker[w].req

\* Such a step leaves every request with its one owner.
LEMMA QuietTasks ==
    ASSUME IInv, Quiet
    PROVE  TasksApart' /\ ServedOnce'
<1>1. \A w \in Workers : \A t : Serving(w, t)' => Serving(w, t)
  BY Zenon DEF Quiet, Serving, Unanswered
<1>2. \A t \in TaskIds : Untouched(t) => Untouched(t)'
  BY Zenon, <1>1 DEF Quiet, Untouched
<1>3. \A c \in Clients : client[c].pc # "idle" => client[c].req.task_id \in TaskIds
  BY Zenon, RequestFields DEF IInv, TasksApart
<1>4. TasksApart'
  <2>1. ASSUME NEW c \in Clients, client'[c].pc # "idle"
        PROVE  /\ client'[c].req \in Request /\ client'[c].req.task_id <= counter'
               /\ \A d \in Clients : client'[d].pc # "idle" /\ client'[d].req.task_id = client'[c].req.task_id => c = d
               /\ client'[c].pc \in Holding => Untouched(client[c].req.task_id)'
    <3>1. client[c].pc # "idle" /\ client'[c].req = client[c].req
      BY Zenon, <2>1 DEF Quiet
    <3>2. client'[c].req \in Request /\ client'[c].req.task_id <= counter'
      BY Zenon, <3>1 DEF Quiet, IInv, TasksApart
    <3>3. ASSUME NEW d \in Clients, client'[d].pc # "idle", client'[d].req.task_id = client'[c].req.task_id
          PROVE  c = d
      <4>1. client[d].pc # "idle" /\ client'[d].req = client[d].req
        BY Zenon, <3>3 DEF Quiet
      <4>2. client[d].req.task_id = client[c].req.task_id
        BY Zenon, <3>1, <3>3, <4>1
      <4> QED
        BY Zenon, <3>1, <4>1, <4>2 DEF IInv, TasksApart
    <3>4. client[c].pc \in Holding => Untouched(client[c].req.task_id)
      BY Zenon, <3>1 DEF IInv, TasksApart
    <3>5. client'[c].pc \in Holding => Untouched(client[c].req.task_id)'
      BY Zenon, <1>2, <1>3, <2>1, <3>1, <3>4 DEF Quiet
    <3> QED
      BY Zenon, <3>2, <3>3, <3>5
  <2>2. \A t \in TaskIds : t > counter' => Untouched(t)'
    BY Zenon, <1>2 DEF Quiet, IInv, TasksApart
  <2>3. \A w \in Workers : worker'[w].pc \in Unanswered => worker'[w].req \in Request
    BY Zenon DEF Quiet, IInv, TasksApart
  <2> QED
    BY Zenon, <2>1, <2>2, <2>3 DEF TasksApart
<1>5. ServedOnce'
  BY Zenon, <1>1 DEF Quiet, IInv, ServedOnce
<1> QED
  BY Zenon, <1>4, <1>5

\* A worker sends the one reply to its request and lets go of it.
LEMMA AnswerTasks ==
    ASSUME IInv, NEW w \in Workers, worker[w].pc \in Unanswered,
           replies' = [replies EXCEPT ![worker[w].req.task_id] = @ + 1],
           worker'[w].pc \notin Unanswered,
           \A v \in Workers \ {w} : worker'[v] = worker[v],
           UNCHANGED <<counter, client, pending>>
    PROVE  TasksApart' /\ ServedOnce'
<1>0. PICK t : t = worker[w].req.task_id
  BY Zenon
<1>1. Serving(w, t) /\ t \in TaskIds /\ replies \in [TaskIds -> Nat]
  BY Zenon, <1>0, RequestFields DEF IInv, TasksApart, TypeOK, Serving, Unanswered
<1>2. replies[t] = 0
  BY <1>1 DEF IInv, ServedOnce
<1>3. /\ \A v \in Workers : \A u : Serving(v, u)' => Serving(v, u) /\ v # w
      /\ \A u : ~ Serving(w, u)'
  BY Zenon DEF Serving, Unanswered
<1>4. \A v \in Workers : ~ Serving(v, t)'
  <2>1. \A v \in Workers : Serving(v, t) => v = w
    BY Zenon, <1>1 DEF IInv, ServedOnce
  <2> QED
    BY Zenon, <1>3, <2>1
<1>5. \A i \in DOMAIN pending : pending[i].task_id # t
  BY Zenon, <1>1 DEF IInv, ServedOnce
<1>6. replies' = [replies EXCEPT ![t] = @ + 1]
  BY Zenon, <1>0
<1>7. replies'[t] = 1 /\ \A u \in TaskIds \ {t} : replies'[u] = replies[u]
  BY <1>1, <1>2, <1>6
<1>8. \A u \in TaskIds : Untouched(u) => u # t /\ Untouched(u)'
  BY Zenon, <1>1, <1>3, <1>7 DEF Untouched
<1>9. \A c \in Clients : client[c].pc # "idle" => client[c].req.task_id \in TaskIds
  BY Zenon, RequestFields DEF IInv, TasksApart
<1>10. TasksApart'
  <2>1. \A c \in Clients : client[c].pc # "idle" =>
         /\ client[c].req \in Request /\ client[c].req.task_id <= counter
         /\ \A d \in Clients : client[d].pc # "idle" /\ client[d].req.task_id = client[c].req.task_id => c = d
         /\ client[c].pc \in Holding => Untouched(client[c].req.task_id)'
    BY Zenon, <1>8, <1>9 DEF IInv, TasksApart
  <2>2. \A u \in TaskIds : u > counter => Untouched(u)'
    BY Zenon, <1>8 DEF IInv, TasksApart
  <2>3. \A v \in Workers : worker'[v].pc \in Unanswered => worker'[v].req \in Request
    BY Zenon DEF IInv, TasksApart
  <2> QED
    BY Zenon, <2>1, <2>2, <2>3 DEF TasksApart
<1>11. ServedOnce'
  <2>1. \A u \in TaskIds : /\ replies'[u] <= 1
                           /\ replies'[u] = 1 => /\ \A v \in Workers : ~ Serving(v, u)'
                                                 /\ \A i \in DOMAIN pending : pending[i].task_id # u
    <3>1. \A u \in TaskIds \ {t} : /\ replies[u] <= 1
                                   /\ replies[u] = 1 => /\ \A v \in Workers : ~ Serving(v, u)
                                                        /\ \A i \in DOMAIN pending : pending[i].task_id # u
      BY Zenon DEF IInv, ServedOnce
    <3> QED
      BY <1>3, <1>4, <1>5, <1>7, <3>1
  <2>2. /\ \A i, j \in DOMAIN pending : pending[i].task_id = pending[j].task_id => i = j
        /\ \A i \in DOMAIN pending, v \in Workers : ~ Serving(v, pending[i].task_id)'
        /\ \A u, v \in Workers, x \in TaskIds : Serving(u, x)' /\ Serving(v, x)' => u = v
    BY Zenon, <1>3 DEF IInv, ServedOnce
  <2> QED
    BY Zenon, <2>1, <2>2 DEF ServedOnce
<1> QED
  BY Zenon, <1>10, <1>11

\* Every step leaves a request with at most one owner and one reply.
LEMMA StepTasks ==
    ASSUME SetFacts, IInv, [Next]_vars
    PROVE  TasksApart' /\ ServedOnce'
<1>0. client \in [Clients -> ClientState] /\ worker \in [Workers -> WorkerState]
  BY Zenon DEF IInv, TypeOK
<1>1. ASSUME NEW c \in Clients, NEW p \in Priorities, Inference(c, p) PROVE TasksApart' /\ ServedOnce'
  <2>1. PICK t : t = counter + 1
    BY Zenon
  <2>2. t \in TaskIds /\ counter \in Nat /\ counter' = t /\ t > counter
    BY <1>1, <2>1, SchedulerAssumption DEF Inference, IInv, TypeOK, TaskIds
  <2>3. /\ client'[c].pc = "numbered" /\ client'[c].req = [task_id |-> t, priority |-> p]
        /\ \A d \in Clients \ {c} : client'[d] = client[d]
    BY Zenon, <1>0, <1>1, <2>1 DEF Inference, ClientState
  <2>4. client'[c].req \in Request /\ client'[c].req.task_id = t
    BY <2>2, <2>3 DEF Request
  <2>5. \A u : Untouched(u) => Untouched(u)'
    BY Zenon, <1>1 DEF Inference, Untouched, Serving
  <2>6. Untouched(t)
    BY Zenon, <2>2 DEF IInv, TasksApart
  <2>7. \A d \in Clients \ {c} : client[d].pc # "idle" =>
          /\ client[d].req \in Request /\ client[d].req.task_id <= counter /\ client[d].req.task_id \in Nat
          /\ \A e \in Clients : client[e].pc # "idle" /\ client[e].req.task_id = client[d].req.task_id => d = e
          /\ client[d].pc \in Holding => Untouched(client[d].req.task_id)
    BY Zenon, RequestFields DEF IInv, TasksApart
  <2>8. TasksApart'
    <3>1. ASSUME NEW d \in Clients, client'[d].pc # "idle"
          PROVE  /\ client'[d].req \in Request /\ client'[d].req.task_id <= counter'
                 /\ \A e \in Clients : client'[e].pc # "idle" /\ client'[e].req.task_id = client'[d].req.task_id => d = e
                 /\ client'[d].pc \in Holding => Untouched(client[d].req.task_id)'
      <4>1. CASE d = c
        <5>1. \A e \in Clients \ {c} : client'[e].pc # "idle" => client'[e].req.task_id # t
          BY <2>2, <2>3, <2>7
        <5>2. client'[d].req.task_id = t /\ client'[d].req \in Request
          BY Zenon, <2>4, <4>1
        <5>3. client'[d].req.task_id <= counter'
          BY <2>2, <5>2 DEF TaskIds
        <5>4. Untouched(client[d].req.task_id)'
          BY Zenon, <2>5, <2>6, <5>2
        <5>5. \A e \in Clients : client'[e].pc # "idle" /\ client'[e].req.task_id = client'[d].req.task_id => d = e
          BY Zenon, <4>1, <5>1, <5>2
        <5> QED
          BY Zenon, <5>2, <5>3, <5>4, <5>5
      <4>2. CASE d # c
        <5>1. client'[d] = client[d] /\ client[d].pc # "idle"
          BY Zenon, <2>3, <3>1, <4>2
        <5>2. client[d].req.task_id # t
          BY <2>2, <2>7, <4>2, <5>1
        <5>3. \A e \in Clients : client'[e].pc # "idle" /\ client'[e].req.task_id = client'[d].req.task_id => d = e
          BY <2>3, <2>4, <2>7, <4>2, <5>1, <5>2
        <5>4. client'[d].pc \in Holding => Untouched(client[d].req.task_id)'
          BY Zenon, <2>5, <2>7, <4>2, <5>1
        <5>5. client[d].req \in Request /\ client[d].req.task_id <= counter /\ client[d].req.task_id \in Nat
          BY Zenon, <2>7, <4>2, <5>1
        <5>6. client'[d].req \in Request /\ client'[d].req.task_id <= counter'
          BY <2>1, <2>2, <5>1, <5>5
        <5> QED
          BY Zenon, <5>3, <5>4, <5>6
      <4> QED
        BY Zenon, <4>1, <4>2
    <3>2. \A u \in TaskIds : u > counter' => Untouched(u)'
      BY <2>2, <2>5 DEF IInv, TasksApart, TaskIds
    <3>3. \A w \in Workers : worker'[w].pc \in Unanswered => worker'[w].req \in Request
      BY Zenon, <1>1 DEF Inference, IInv, TasksApart
    <3> QED
      BY Zenon, <3>1, <3>2, <3>3 DEF TasksApart
  <2>9. ServedOnce'
    BY Zenon, <1>1 DEF Inference, IInv, ServedOnce, Serving
  <2> QED
    BY Zenon, <2>8, <2>9
<1>2. ASSUME NEW c \in Clients,
             ReadLimits(c) \/ CountAccepted(c) \/ RecordPending(c) \/ NotifyOne(c)
      PROVE  TasksApart' /\ ServedOnce'
  <2>1. \A d \in Clients : client'[d].pc # "idle" =>
          /\ client[d].pc # "idle" /\ client'[d].req = client[d].req
          /\ client'[d].pc \in Holding => client[d].pc \in Holding
    <3>1. /\ \A d \in Clients \ {c} : client'[d] = client[d]
          /\ client'[c].pc # "idle" => client'[c].req = client[c].req
          /\ client'[c].pc \in Holding => client'[c].pc = "admit" /\ client[c].pc = "numbered"
          /\ client[c].pc # "idle"
      <4>1. CASE ReadLimits(c)
        BY Zenon, <1>0, <4>1 DEF ReadLimits, ClientState
      <4>2. CASE CountAccepted(c)
        BY Zenon, <1>0, <4>2 DEF CountAccepted, ClientState, Holding
      <4>3. CASE RecordPending(c)
        BY Zenon, <1>0, <4>3 DEF RecordPending, ClientState, Holding
      <4>4. CASE NotifyOne(c)
        BY Zenon, <1>0, <4>4 DEF NotifyOne, IdleClient, Holding
      <4> QED
        BY Zenon, <1>2, <4>1, <4>2, <4>3, <4>4
    <3> QED
      BY Zenon, <3>1 DEF Holding
  <2>2. \A w \in Workers : worker'[w].pc \in Unanswered =>
          worker[w].pc \in Unanswered /\ worker'[w].req = worker[w].req
    BY <1>0, <1>2 DEF ReadLimits, CountAccepted, RecordPending, NotifyOne, WorkerState, Unanswered
  <2>3. Quiet
    BY Zenon, <1>2, <2>1, <2>2 DEF Quiet, ReadLimits, CountAccepted, RecordPending, NotifyOne
  <2> QED
    BY Zenon, <2>3, QuietTasks
<1>3. ASSUME NEW c \in Clients, Admit(c) PROVE TasksApart' /\ ServedOnce'
  <2>1. PICK r : r = client[c].req
    OBVIOUS
  <2>2. PICK t : t = r.task_id
    BY Zenon
  <2>3. r \in Request /\ t \in TaskIds /\ Untouched(t) /\ pending \in Seq(Request)
    BY Zenon, <1>3, <2>1, <2>2, RequestFields DEF Admit, IInv, TypeOK, TasksApart, Holding
  <2>4. /\ client'[c].pc \in {"rejected", "accepted"} /\ client'[c].req = r
        /\ \A d \in Clients \ {c} : client'[d] = client[d]
    BY Zenon, <1>0, <1>3, <2>1 DEF Admit, ClientState
  <2>5. UNCHANGED <<counter, worker, replies>>
    BY Zenon, <1>3 DEF Admit
  <2>6. CASE pending' = pending
    <3>1. \A d \in Clients : client'[d].pc # "idle" =>
            /\ client[d].pc # "idle" /\ client'[d].req = client[d].req
            /\ client'[d].pc \in Holding => client[d].pc \in Holding
      BY Zenon, <1>3, <2>1, <2>4 DEF Admit, Holding
    <3>2. Quiet
      BY Zenon, <2>5, <2>6, <3>1 DEF Quiet
    <3> QED
      BY Zenon, <3>2, QuietTasks
  <2>7. CASE client'[c].pc = "accepted" /\ pending' = Append(pending, r)
    <3>1. /\ DOMAIN pending' = 1..(Len(pending) + 1) /\ DOMAIN pending = 1..Len(pending) /\ Len(pending) \in Nat
          /\ pending'[Len(pending) + 1] = r
          /\ \A i \in DOMAIN pending : pending'[i] = pending[i]
      BY <2>3, <2>7
    <3>2. \A i \in DOMAIN pending' : (i \in DOMAIN pending /\ pending'[i] = pending[i]) \/ (i = Len(pending) + 1 /\ pending'[i].task_id = t)
      BY <2>2, <3>1
    <3>3. \A w \in Workers : \A u : Serving(w, u)' <=> Serving(w, u)
      BY Zenon, <2>5 DEF Serving
    <3>4. \A u : u # t /\ Untouched(u) => Untouched(u)'
      BY Zenon, <2>5, <3>2, <3>3 DEF Untouched
    <3>5. TasksApart'
      <4>1. ASSUME NEW d \in Clients, client'[d].pc # "idle"
            PROVE  /\ client'[d].req \in Request /\ client'[d].req.task_id <= counter'
                   /\ \A e \in Clients : client'[e].pc # "idle" /\ client'[e].req.task_id = client'[d].req.task_id => d = e
                   /\ client'[d].pc \in Holding => Untouched(client[d].req.task_id)'
        <5>1. \A e \in Clients : client'[e].pc # "idle" => client[e].pc # "idle" /\ client'[e].req = client[e].req
          BY Zenon, <1>3, <2>1, <2>4 DEF Admit
        <5>2. /\ client[d].req \in Request /\ client[d].req.task_id <= counter
              /\ \A e \in Clients : client[e].pc # "idle" /\ client[e].req.task_id = client[d].req.task_id => d = e
              /\ client[d].pc \in Holding => Untouched(client[d].req.task_id)
          BY Zenon, <4>1, <5>1 DEF IInv, TasksApart
        <5>3. \A e \in Clients : client'[e].pc # "idle" /\ client'[e].req.task_id = client'[d].req.task_id => d = e
          BY Zenon, <4>1, <5>1, <5>2
        <5>4. ASSUME client'[d].pc \in Holding PROVE Untouched(client[d].req.task_id)'
          <6>1. d # c /\ client'[d] = client[d]
            BY Zenon, <2>4, <2>7, <5>4 DEF Holding
          <6>2. client[d].req.task_id # t
            BY Zenon, <1>3, <2>1, <2>2, <5>2, <6>1 DEF Admit
          <6> QED
            BY Zenon, <3>4, <5>2, <5>4, <6>1, <6>2
        <5> QED
          BY Zenon, <2>5, <4>1, <5>1, <5>2, <5>3, <5>4
      <4>2. \A u \in TaskIds : u > counter' => Untouched(u)'
        <5>1. t <= counter /\ t \in Nat /\ counter \in Nat
          BY <1>3, <2>1, <2>2, <2>3, RequestFields DEF Admit, IInv, TasksApart, TypeOK
        <5> QED
          BY <2>5, <3>4, <5>1 DEF IInv, TasksApart
      <4>3. \A w \in Workers : worker'[w].pc \in Unanswered => worker'[w].req \in Request
        BY Zenon, <2>5 DEF IInv, TasksApart
      <4> QED
        BY Zenon, <4>1, <4>2, <4>3 DEF TasksApart
    <3>6. ServedOnce'
      <4>1. \A i, j \in DOMAIN pending' : pending'[i].task_id = pending'[j].task_id => i = j
        BY Zenon, <2>3, <3>2 DEF IInv, ServedOnce, Untouched
      <4>2. \A i \in DOMAIN pending', w \in Workers : ~ Serving(w, pending[i].task_id)'
        <5>1. \A i \in DOMAIN pending', w \in Workers : ~ Serving(w, pending'[i].task_id)
          BY Zenon, <2>3, <3>2 DEF IInv, ServedOnce, Untouched
        <5> QED
          BY Zenon, <2>5, <5>1 DEF Serving
      <4>3. \A u, v \in Workers, x \in TaskIds : Serving(u, x)' /\ Serving(v, x)' => u = v
        BY Zenon, <3>3 DEF IInv, ServedOnce
      <4>4. \A u \in TaskIds : /\ replies'[u] <= 1
                               /\ replies'[u] = 1 => /\ \A w \in Workers : ~ Serving(w, u)'
                                                     /\ \A i \in DOMAIN pending' : pending'[i].task_id # u
        BY <2>3, <2>5, <3>2, <3>3 DEF IInv, ServedOnce, Untouched
      <4> QED
        BY Zenon, <4>1, <4>2, <4>3, <4>4 DEF ServedOnce
    <3> QED
      BY Zenon, <3>5, <3>6
  <2> QED
    BY Zenon, <1>0, <1>3, <2>1, <2>6, <2>7 DEF Admit, ClientState
<1>4. ASSUME NEW c \in Clients, Reject(c) PROVE TasksApart' /\ ServedOnce'
  <2>1. PICK t : t = client[c].req.task_id
    OBVIOUS
  <2>2. t \in TaskIds /\ Untouched(t) /\ t <= counter /\ t \in Nat /\ counter \in Nat
    BY <1>4, <2>1, RequestFields DEF Reject, IInv, TypeOK, TasksApart, Holding
  <2>3. /\ client'[c].pc = "idle" /\ \A d \in Clients \ {c} : client'[d] = client[d]
        /\ UNCHANGED <<counter, worker, pending>>
    BY <1>0, <1>4 DEF Reject, IdleClient
  <2>4. replies'[t] = 1 /\ \A u \in TaskIds \ {t} : replies'[u] = replies[u]
    <3>1. replies \in [TaskIds -> Nat] /\ replies' = [replies EXCEPT ![t] = @ + 1] /\ replies[t] = 0
      BY <1>4, <2>1, <2>2 DEF Reject, IInv, TypeOK, Untouched
    <3> QED
      BY <2>2, <3>1
  <2>5. \A w \in Workers : \A u : Serving(w, u)' <=> Serving(w, u)
    BY Zenon, <2>3 DEF Serving
  <2>6. \A u \in TaskIds : u # t /\ Untouched(u) => Untouched(u)'
    BY Zenon, <2>3, <2>4, <2>5 DEF Untouched
  <2>7. TasksApart'
    <3>1. ASSUME NEW d \in Clients, client'[d].pc # "idle"
          PROVE  /\ client'[d].req \in Request /\ client'[d].req.task_id <= counter'
                 /\ \A e \in Clients : client'[e].pc # "idle" /\ client'[e].req.task_id = client'[d].req.task_id => d = e
                 /\ client'[d].pc \in Holding => Untouched(client[d].req.task_id)'
      <4>1. d # c /\ client'[d] = client[d] /\ client[d].pc # "idle"
        BY Zenon, <2>3, <3>1
      <4>2. /\ client[d].req \in Request /\ client[d].req.task_id <= counter
            /\ \A e \in Clients : client[e].pc # "idle" /\ client[e].req.task_id = client[d].req.task_id => d = e
            /\ client[d].pc \in Holding => Untouched(client[d].req.task_id)
        BY Zenon, <4>1 DEF IInv, TasksApart
      <4>3. client[d].req.task_id # t /\ client[d].req.task_id \in TaskIds
        BY Zenon, <1>4, <2>1, <4>1, <4>2, RequestFields DEF Reject
      <4>4. \A e \in Clients : client'[e].pc # "idle" /\ client'[e].req.task_id = client'[d].req.task_id => d = e
        BY Zenon, <2>3, <4>1, <4>2
      <4>5. client'[d].pc \in Holding => Untouched(client[d].req.task_id)'
        BY Zenon, <2>6, <4>1, <4>2, <4>3
      <4> QED
        BY Zenon, <2>3, <4>1, <4>2, <4>4, <4>5
    <3>2. \A u \in TaskIds : u > counter' => Untouched(u)'
      BY <2>2, <2>3, <2>6 DEF IInv, TasksApart
    <3>3. \A w \in Workers : worker'[w].pc \in Unanswered => worker'[w].req \in Request
      BY Zenon, <2>3 DEF IInv, TasksApart
    <3> QED
      BY Zenon, <3>1, <3>2, <3>3 DEF TasksApart
  <2>8. ServedOnce'
    <3>1. \A u \in TaskIds : /\ replies'[u] <= 1
                             /\ replies'[u] = 1 => /\ \A w \in Workers : ~ Serving(w, u)'
                                                   /\ \A i \in DOMAIN pending : pending[i].task_id # u
      <4>1. \A u \in TaskIds : /\ replies[u] <= 1
                               /\ replies[u] = 1 => /\ \A w \in Workers : ~ Serving(w, u)
                                                    /\ \A i \in DOMAIN pending : pending[i].task_id # u
        BY Zenon DEF IInv, ServedOnce
      <4>2. ASSUME NEW u \in TaskIds, u # t
            PROVE  /\ replies'[u] <= 1
                   /\ replies'[u] = 1 => /\ \A w \in Workers : ~ Serving(w, u)'
                                         /\ \A i \in DOMAIN pending : pending[i].task_id # u
        BY Zenon, <2>4, <2>5, <4>1, <4>2
      <4>3. /\ replies'[t] <= 1
            /\ \A w \in Workers : ~ Serving(w, t)'
            /\ \A i \in DOMAIN pending : pending[i].task_id # t
        <5>1. replies'[t] <= 1
          BY <2>4
        <5> QED
          BY Zenon, <2>2, <2>5, <5>1 DEF Untouched
      <4> QED
        BY Zenon, <4>2, <4>3
    <3> QED
      BY Zenon, <2>3, <2>5, <3>1 DEF IInv, ServedOnce
  <2> QED
    BY <2>7, <2>8
<1>5. ASSUME NEW w \in Workers,
             \/ ReadThreshold(w) \/ FindEmpty(w) \/ Sleep(w) \/ WorkerExit(w) \/ WakeSpuriously(w)
             \/ StartRequest(w) \/ Attempt(w) \/ CountSuccess(w) \/ HandleFailure(w)
             \/ TestStopping(w) \/ StoreReady(w)
      PROVE  TasksApart' /\ ServedOnce'
  <2>1. ASSUME NEW v \in Workers, worker'[v].pc \in Unanswered
        PROVE  worker[v].pc \in Unanswered /\ worker'[v].req = worker[v].req
    <3>1. CASE v # w
      <4>1. worker'[v] = worker[v]
        BY Zenon, <1>0, <1>5, <3>1 DEF ReadThreshold, FindEmpty, Sleep, WorkerExit, WakeSpuriously, StartRequest,
             Attempt, CountSuccess, HandleFailure, TestStopping, StoreReady
      <4> QED
        BY Zenon, <2>1, <4>1
    <3>2. CASE v = w
      <4>1. CASE ReadThreshold(w) \/ FindEmpty(w) \/ Sleep(w) \/ WorkerExit(w) \/ WakeSpuriously(w) \/ CountSuccess(w)
        <5>1. worker'[w].pc \in {"lock", "checked", "sleeping", "done", "handled"}
          <6>1. CASE ReadThreshold(w)
            BY Zenon, <1>0, <6>1 DEF ReadThreshold, WorkerState
          <6>2. CASE FindEmpty(w) \/ Sleep(w) \/ WorkerExit(w) \/ WakeSpuriously(w) \/ CountSuccess(w)
            <7>1. PICK pc \in {"lock", "checked", "sleeping", "done", "handled"} : worker' = [worker EXCEPT ![w].pc = pc]
              BY Zenon, <6>2 DEF FindEmpty, Sleep, WorkerExit, WakeSpuriously, CountSuccess
            <7> QED
              BY ZenonT(30), <7>1, WorkerAt DEF IInv
          <6> QED
            BY Zenon, <4>1, <6>1, <6>2
        <5> QED
          BY Zenon, <2>1, <3>2, <5>1 DEF Unanswered
      <4>2. CASE TestStopping(w) \/ StoreReady(w)
        <5>1. worker'[w].pc \in {"ready", "config"}
          BY <1>0, <4>2 DEF TestStopping, StoreReady, NewWorker, WorkerState
        <5> QED
          BY Zenon, <2>1, <3>2, <5>1 DEF Unanswered
      <4>3. CASE StartRequest(w) \/ Attempt(w) \/ HandleFailure(w)
        BY <1>0, <3>2, <4>3 DEF StartRequest, Attempt, HandleFailure, WorkerState, Unanswered
      <4> QED
        BY Zenon, <1>5, <4>1, <4>2, <4>3
    <3> QED
      BY Zenon, <3>1, <3>2
  <2>2. UNCHANGED <<counter, pending, replies, client>>
    BY Zenon, <1>5 DEF ReadThreshold, FindEmpty, Sleep, WorkerExit, WakeSpuriously, StartRequest, Attempt,
         CountSuccess, HandleFailure, TestStopping, StoreReady
  <2>3. Quiet
    BY <2>1, <2>2 DEF Quiet
  <2> QED
    BY Zenon, <2>3, QuietTasks
<1>6. ASSUME NEW w \in Workers, HandleSuccess(w) \/ CountFailure(w) PROVE TasksApart' /\ ServedOnce'
  <2>1. /\ worker[w].pc \in Unanswered
        /\ replies' = [replies EXCEPT ![worker[w].req.task_id] = @ + 1]
        /\ worker'[w].pc \notin Unanswered
        /\ \A v \in Workers \ {w} : worker'[v] = worker[v]
        /\ UNCHANGED <<counter, client, pending>>
    BY <1>0, <1>6 DEF HandleSuccess, CountFailure, WorkerState, Unanswered
  <2> QED
    BY ZenonT(30), <2>1, AnswerTasks
<1>7. ASSUME NEW w \in Workers, PopRequest(w) PROVE TasksApart' /\ ServedOnce'
  <2>1. PICK i \in 1..Len(pending) : Pops(w, i)
    BY Zenon, <1>7, PopEffect
  <2>2. PICK r : r = pending[i]
    BY Zenon
  <2>3. PICK t : t = r.task_id
    BY Zenon
  <2>4. pending \in Seq(Request) /\ r \in Request /\ t \in TaskIds /\ i \in DOMAIN pending /\ DOMAIN pending = 1..Len(pending)
    BY <2>1, <2>2, <2>3, RequestFields DEF IInv, TypeOK
  <2>5. /\ DOMAIN pending' = 1..(Len(pending) - 1)
        /\ \A k \in DOMAIN pending' : /\ pending'[k] = pending[Shift(i, k)]
                                      /\ Shift(i, k) \in DOMAIN pending /\ Shift(i, k) # i
    <3>1. pending' = Without(pending, i)
      BY <2>1 DEF Pops
    <3>2. /\ pending' \in Seq(Request) /\ Len(pending') = Len(pending) - 1
          /\ \A k \in 1..(Len(pending) - 1) : /\ pending'[k] = pending[Shift(i, k)]
                                              /\ Shift(i, k) \in 1..Len(pending) /\ Shift(i, k) # i
      BY ZenonT(30), <2>1, <2>4, <3>1, ErasedAt
    <3> QED
      BY SMTT(30), <2>4, <3>2
  <2>6. \A k, m \in DOMAIN pending' : Shift(i, k) = Shift(i, m) => k = m
    BY <2>1, <2>4, <2>5 DEF Shift
  <2>7. /\ worker'[w].pc = "popped" /\ worker'[w].req = r /\ worker[w].pc = "lock"
        /\ \A v \in Workers \ {w} : worker'[v] = worker[v]
        /\ UNCHANGED <<counter, client, replies>>
    BY Zenon, <1>0, <2>1, <2>2 DEF Pops, WorkerState
  <2>8. /\ \A v \in Workers \ {w} : \A u : Serving(v, u)' <=> Serving(v, u)
        /\ \A u : Serving(w, u)' <=> u = t
    BY Zenon, <2>3, <2>7 DEF Serving
  <2>9. \A u : Untouched(u) => Untouched(u)'
    <3> SUFFICES ASSUME NEW u, Untouched(u) PROVE Untouched(u)'
      BY Zenon
    <3>1. u # t
      BY Zenon, <2>2, <2>3, <2>4 DEF Untouched
    <3> QED
      BY Zenon, <2>5, <2>7, <2>8, <3>1 DEF Untouched
  <2>10. TasksApart'
    <3>1. \A c \in Clients : client[c].pc # "idle" =>
            /\ client[c].req \in Request /\ client[c].req.task_id <= counter
            /\ \A d \in Clients : client[d].pc # "idle" /\ client[d].req.task_id = client[c].req.task_id => c = d
            /\ client[c].pc \in Holding => Untouched(client[c].req.task_id)'
      BY Zenon, <2>7, <2>9 DEF IInv, TasksApart
    <3>2. \A u \in TaskIds : u > counter => Untouched(u)'
      BY Zenon, <2>9 DEF IInv, TasksApart
    <3>3. \A v \in Workers : worker'[v].pc \in Unanswered => worker'[v].req \in Request
      BY Zenon, <2>4, <2>7 DEF IInv, TasksApart
    <3> QED
      BY Zenon, <2>7, <3>1, <3>2, <3>3 DEF TasksApart
  <2>11. ServedOnce'
    <3>1. /\ \A k, m \in DOMAIN pending : pending[k].task_id = pending[m].task_id => k = m
          /\ \A k \in DOMAIN pending, v \in Workers : ~ Serving(v, pending[k].task_id)
          /\ \A u, v \in Workers, x \in TaskIds : Serving(u, x) /\ Serving(v, x) => u = v
          /\ \A x \in TaskIds : /\ replies[x] <= 1
                                /\ replies[x] = 1 => /\ \A v \in Workers : ~ Serving(v, x)
                                                     /\ \A k \in DOMAIN pending : pending[k].task_id # x
      BY Zenon DEF IInv, ServedOnce
    <3>2. \A k, m \in DOMAIN pending' : pending'[k].task_id = pending'[m].task_id => k = m
      BY <2>5, <2>6, <3>1
    <3>3. \A v \in Workers : ~ Serving(v, t)
      BY Zenon, <2>2, <2>3, <2>4, <3>1
    <3>4. \A k \in DOMAIN pending' : pending'[k].task_id # t /\ \A v \in Workers : ~ Serving(v, pending'[k].task_id)
      BY Zenon, <2>2, <2>3, <2>4, <2>5, <3>1
    <3>5. \A k \in DOMAIN pending', v \in Workers : ~ Serving(v, pending[k].task_id)'
      BY Zenon, <2>8, <3>4
    <3>6. \A u, v \in Workers, x \in TaskIds : Serving(u, x)' /\ Serving(v, x)' => u = v
      BY <2>8, <3>1, <3>3
    <3>7. \A x \in TaskIds : replies[x] = 1 => x # t
      BY SMTT(30), <2>2, <2>3, <2>4, <3>1
    <3>8. \A x \in TaskIds : /\ replies'[x] <= 1
                             /\ replies'[x] = 1 => /\ \A v \in Workers : ~ Serving(v, x)'
                                                   /\ \A k \in DOMAIN pending' : pending'[k].task_id # x
      BY ZenonT(30), <2>5, <2>7, <2>8, <3>1, <3>7
    <3> QED
      BY Zenon, <3>2, <3>5, <3>6, <3>8 DEF ServedOnce
  <2> QED
    BY Zenon, <2>10, <2>11
<1>8. CASE StopFlag \/ StopNotify \/ StopJoin \/ ReloadLimits \/ UNCHANGED vars
  <2>1. \A v \in Workers : worker'[v].pc \in Unanswered =>
          worker[v].pc \in Unanswered /\ worker'[v].req = worker[v].req
    BY <1>0, <1>8 DEF StopFlag, StopNotify, StopJoin, ReloadLimits, vars, WorkerState, Unanswered
  <2>2. UNCHANGED <<counter, pending, replies, client>>
    BY Zenon, <1>8 DEF StopFlag, StopNotify, StopJoin, ReloadLimits, vars
  <2>3. Quiet
    BY Zenon, <2>1, <2>2 DEF Quiet
  <2> QED
    BY <2>3, QuietTasks
<1> QED
  BY Zenon, <1>1, <1>2, <1>3, <1>4, <1>5, <1>6, <1>7, <1>8 DEF Next, ClientStep, WorkerStep

(***************************************************************************)
(* The mutex and the condition variable                                    *)
(***************************************************************************)

\* A worker moves on, and is neither about to wait nor waiting.
LEMMA AwakeMutex ==
    ASSUME IInv, NEW w \in Workers, worker[w].pc # "done", worker'[w].pc \notin {"checked", "sleeping"},
           \A v \in Workers \ {w} : worker'[v] = worker[v],
           UNCHANGED stop, pending' = pending \/ QueueUnlocked
    PROVE  MutexHeld' /\ NoLostWakeup'
<1>1. \A v \in Workers : worker'[v].pc \in {"checked", "sleeping"} => v # w /\ worker'[v].pc = worker[v].pc
  BY Zenon
<1>2. \A v \in Workers : worker'[v].pc = "checked" => pending' = << >>
  BY Zenon, <1>1 DEF IInv, MutexHeld, QueueUnlocked
<1>3. \A u, v \in Workers : worker'[u].pc = "checked" /\ worker'[v].pc = "checked" => u = v
  BY <1>1 DEF IInv, MutexHeld
<1>4. stop' \in {"join", "stopped"} =>
        \A u, v \in Workers : {worker'[u].pc, worker'[v].pc} \subseteq {"checked", "sleeping"} => u = v
  BY <1>1 DEF IInv, MutexHeld
<1>5. stop' # "stopped"
  BY Zenon DEF IInv, MutexHeld
<1>6. NoLostWakeup'
  BY Zenon DEF NoLostWakeup
<1> QED
  BY Zenon, <1>2, <1>3, <1>4, <1>5, <1>6 DEF MutexHeld

\* The workers stay where they are.
LEMMA WorkersStay ==
    ASSUME IInv, UNCHANGED <<worker, stop, status>>, pending' = pending \/ QueueUnlocked
    PROVE  MutexHeld' /\ ThresholdCopied'
<1>1. \A w \in Workers : worker'[w].pc = "checked" => pending' = << >>
  BY Zenon DEF IInv, MutexHeld, QueueUnlocked
<1> QED
  BY Zenon, <1>1 DEF IInv, MutexHeld, ThresholdCopied

\* Every step keeps the queue empty while a worker is about to wait, and loses no wakeup.
LEMMA StepMutex ==
    ASSUME SetFacts, IInv, [Next]_vars
    PROVE  MutexHeld' /\ NoLostWakeup'
<1>0. TypeOK
  BY Zenon DEF IInv
<1>1. ASSUME NEW c \in Clients, NEW p \in Priorities, Inference(c, p) PROVE MutexHeld' /\ NoLostWakeup'
  <2>1. MutexHeld'
    BY Zenon, <1>1, WorkersStay DEF Inference
  <2>2. client[c].pc = "idle" /\ \A d \in Clients \ {c} : client'[d] = client[d]
    BY Zenon, <1>0, <1>1 DEF Inference, TypeOK
  <2>3. NoLostWakeup'
    BY Zenon, <1>1, <2>2 DEF Inference, IInv, NoLostWakeup, stopping
  <2> QED
    BY Zenon, <2>1, <2>3
<1>2. ASSUME NEW c \in Clients, ReadLimits(c) \/ Reject(c) PROVE MutexHeld' /\ NoLostWakeup'
  <2>1. MutexHeld'
    BY Zenon, <1>2, WorkersStay DEF ReadLimits, Reject
  <2>2. client[c].pc \in {"numbered", "rejected"} /\ \A d \in Clients \ {c} : client'[d] = client[d]
    BY Zenon, <1>0, <1>2 DEF ReadLimits, Reject, TypeOK
  <2>3. NoLostWakeup'
    BY Zenon, <1>2, <2>2 DEF ReadLimits, Reject, IInv, NoLostWakeup, stopping
  <2> QED
    BY Zenon, <2>1, <2>3
<1>3. ASSUME NEW c \in Clients, Admit(c) PROVE MutexHeld' /\ NoLostWakeup'
  <2>1. MutexHeld'
    BY Zenon, <1>3, WorkersStay DEF Admit
  <2>2. PICK pc \in {"rejected", "accepted"} : /\ client' = [client EXCEPT ![c].pc = pc]
                                               /\ pc = "rejected" => pending' = pending
    BY ZenonT(30), <1>3 DEF Admit
  <2>3. /\ client[c].pc = "admit" /\ client'[c].pc = pc
        /\ \A d \in Clients \ {c} : client'[d] = client[d]
    BY ZenonT(30), <1>0, <1>3, <2>2, ClientAt DEF Admit
  <2>4. NoLostWakeup'
    BY Zenon, <1>3, <2>2, <2>3 DEF Admit, IInv, NoLostWakeup, stopping
  <2> QED
    BY Zenon, <2>1, <2>4
<1>4. ASSUME NEW c \in Clients, CountAccepted(c) \/ RecordPending(c) PROVE MutexHeld' /\ NoLostWakeup'
  <2>1. MutexHeld'
    BY Zenon, <1>4, WorkersStay DEF CountAccepted, RecordPending
  <2>2. PICK pc \in {"counted", "recorded"} : client' = [client EXCEPT ![c].pc = pc]
    BY Zenon, <1>4 DEF CountAccepted, RecordPending
  <2>3. client'[c].pc \in {"counted", "recorded"}
    BY ZenonT(30), <1>0, <2>2, ClientAt
  <2>4. NoLostWakeup'
    BY Zenon, <2>3 DEF NoLostWakeup
  <2> QED
    BY Zenon, <2>1, <2>4
<1>5. ASSUME NEW c \in Clients, NotifyOne(c) PROVE MutexHeld' /\ NoLostWakeup'
  <2>1. CASE UNCHANGED worker /\ \A w \in Workers : worker[w].pc # "sleeping"
    <3>1. MutexHeld'
      BY Zenon, <1>5, <2>1, WorkersStay DEF NotifyOne
    <3>2. NoLostWakeup'
      BY Zenon, <2>1, SchedulerAssumption DEF NoLostWakeup
    <3> QED
      BY Zenon, <3>1, <3>2
  <2>2. ASSUME NEW w \in Workers, worker[w].pc = "sleeping", worker' = [worker EXCEPT ![w].pc = "lock"]
        PROVE  MutexHeld' /\ NoLostWakeup'
    <3>1. worker'[w].pc = "lock" /\ \A v \in Workers \ {w} : worker'[v] = worker[v]
      BY ZenonT(30), <1>0, <2>2, WorkerAt
    <3> QED
      BY Zenon, <1>5, <2>2, <3>1, AwakeMutex DEF NotifyOne
  <2> QED
    BY Zenon, <1>5, <2>1, <2>2 DEF NotifyOne
<1>6. ASSUME NEW w \in Workers, PopRequest(w) \/ ReadThreshold(w) \/ TestStopping(w) \/ StoreReady(w)
      PROVE  MutexHeld' /\ NoLostWakeup'
  <2>1. /\ worker'[w].pc \in {"popped", "lock", "config", "ready"} /\ worker[w].pc # "done"
        /\ \A v \in Workers \ {w} : worker'[v] = worker[v]
    <3>1. CASE PopRequest(w) \/ ReadThreshold(w)
      BY ZenonT(30), <1>0, <3>1 DEF PopRequest, ReadThreshold, TypeOK, WorkerState
    <3>2. CASE TestStopping(w) \/ StoreReady(w)
      BY <1>0, <3>2 DEF TestStopping, StoreReady, TypeOK, WorkerState, NewWorker
    <3> QED
      BY Zenon, <1>6, <3>1, <3>2
  <2>2. UNCHANGED stop /\ (pending' = pending \/ QueueUnlocked)
    BY <1>6 DEF PopRequest, ReadThreshold, TestStopping, StoreReady
  <2> QED
    BY Zenon, <2>1, <2>2, AwakeMutex
<1>7. ASSUME NEW w \in Workers,
             \/ WorkerExit(w) \/ WakeSpuriously(w) \/ StartRequest(w) \/ Attempt(w) \/ HandleSuccess(w)
             \/ CountSuccess(w) \/ HandleFailure(w) \/ CountFailure(w)
      PROVE  MutexHeld' /\ NoLostWakeup'
  <2>1. PICK pc \in {"done", "lock", "running", "calling", "handled", "succeeded", "failed"} :
          worker' = [worker EXCEPT ![w].pc = pc]
    BY <1>7 DEF WorkerExit, WakeSpuriously, StartRequest, Attempt, HandleSuccess, CountSuccess, HandleFailure,
         CountFailure
  <2>2. worker'[w].pc \notin {"checked", "sleeping"} /\ \A v \in Workers \ {w} : worker'[v] = worker[v]
    BY ZenonT(30), <1>0, <2>1, WorkerAt
  <2>3. worker[w].pc # "done" /\ UNCHANGED <<stop, pending>>
    BY Zenon, <1>7 DEF WorkerExit, WakeSpuriously, StartRequest, Attempt, HandleSuccess, CountSuccess, HandleFailure,
         CountFailure
  <2> QED
    BY <2>2, <2>3, AwakeMutex
<1>8. ASSUME NEW w \in Workers, FindEmpty(w) PROVE MutexHeld' /\ NoLostWakeup'
  <2>1. /\ worker'[w].pc = "checked" /\ \A v \in Workers \ {w} : worker'[v] = worker[v]
        /\ worker' = [worker EXCEPT ![w].pc = "checked"]
    BY ZenonT(30), <1>0, <1>8, WorkerAt DEF FindEmpty
  <2>2. pending' = << >> /\ stop' = "no" /\ \A v \in Workers : worker[v].pc # "checked"
    BY <1>8 DEF FindEmpty, stopping, QueueUnlocked
  <2>3. \A u, v \in Workers : worker'[u].pc = "checked" /\ worker'[v].pc = "checked" => u = v
    BY Zenon, <2>1, <2>2
  <2> QED
    BY Zenon, <2>1, <2>2, <2>3 DEF MutexHeld, NoLostWakeup
<1>9. ASSUME NEW w \in Workers, Sleep(w) PROVE MutexHeld' /\ NoLostWakeup'
  <2>1. worker'[w].pc = "sleeping" /\ \A v \in Workers \ {w} : worker'[v] = worker[v]
    BY ZenonT(30), <1>0, <1>9, WorkerAt DEF Sleep
  <2>2. worker[w].pc = "checked" /\ UNCHANGED <<stop, pending, status>>
    BY Zenon, <1>9 DEF Sleep
  <2>3. pending' = << >>
    BY Zenon, <2>2 DEF IInv, MutexHeld
  <2>4. \A u, v \in Workers : worker'[u].pc = "checked" /\ worker'[v].pc = "checked" => u = v
    BY <2>1 DEF IInv, MutexHeld
  <2>5. stop' \in {"join", "stopped"} =>
          \A u, v \in Workers : {worker'[u].pc, worker'[v].pc} \subseteq {"checked", "sleeping"} => u = v
    <3>1. \A v \in Workers : worker'[v].pc \in {"checked", "sleeping"} => worker[v].pc \in {"checked", "sleeping"}
      BY Zenon, <2>1, <2>2
    <3> QED
      BY <2>2, <3>1 DEF IInv, MutexHeld
  <2>6. stop' # "stopped"
    BY Zenon, <2>2 DEF IInv, MutexHeld
  <2> QED
    BY Zenon, <2>3, <2>4, <2>5, <2>6 DEF MutexHeld, NoLostWakeup
<1>10. CASE StopFlag
  BY Zenon, <1>10 DEF StopFlag, IInv, MutexHeld, NoLostWakeup, stopping
<1>11. CASE StopNotify
  <2>1. \A w \in Workers : worker'[w].pc # "sleeping" /\ (worker'[w].pc = "checked" <=> worker[w].pc = "checked")
    BY Zenon, <1>0, <1>11 DEF StopNotify, TypeOK, WorkerState
  <2>2. stop' = "join" /\ UNCHANGED pending
    BY Zenon, <1>11 DEF StopNotify
  <2>3. \A u, v \in Workers : {worker'[u].pc, worker'[v].pc} \subseteq {"checked", "sleeping"} => u = v
    BY Zenon, <2>1 DEF IInv, MutexHeld
  <2>4. \A w \in Workers : worker'[w].pc = "checked" => pending' = << >>
    BY Zenon, <2>1, <2>2 DEF IInv, MutexHeld
  <2> QED
    BY Zenon, <2>1, <2>2, <2>3, <2>4 DEF MutexHeld, NoLostWakeup, stopping
<1>12. CASE StopJoin
  BY Zenon, <1>12 DEF StopJoin, IInv, MutexHeld, NoLostWakeup, stopping
<1>13. CASE ReloadLimits \/ UNCHANGED vars
  BY <1>13 DEF ReloadLimits, vars, IInv, MutexHeld, NoLostWakeup, stopping
<1> QED
  BY ZenonT(30), <1>1, <1>2, <1>3, <1>4, <1>5, <1>6, <1>7, <1>8, <1>9, <1>10, <1>11, <1>12, <1>13
     DEF Next, ClientStep, WorkerStep

\* Every step leaves the threshold of a worker that may take a request the copy of a setting.
LEMMA StepThreshold ==
    ASSUME IInv, [Next]_vars
    PROVE  ThresholdCopied'
<1>0. TypeOK /\ ThresholdCopied
  BY Zenon DEF IInv
<1> DEFINE Waits == {"lock", "checked", "sleeping"}
           Copied(w) == worker'[w].pc \in Waits => \E k \in Configs : worker'[w].high = k.high_priority_threshold
<1>1. ASSUME NEW w \in Workers, worker'[w].pc \in Waits => worker[w].pc \in Waits /\ worker'[w].high = worker[w].high
      PROVE  Copied(w)
  BY Zenon, <1>0, <1>1 DEF ThresholdCopied
<1>2. ASSUME NEW w \in Workers, NEW pc, worker' = [worker EXCEPT ![w].pc = pc], pc \in Waits => worker[w].pc \in Waits
      PROVE  \A v \in Workers : Copied(v)
  <2>1. /\ worker'[w].pc = pc /\ worker'[w].high = worker[w].high
        /\ \A v \in Workers \ {w} : worker'[v] = worker[v]
    BY ZenonT(30), <1>0, <1>2, WorkerAt
  <2>2. ASSUME NEW v \in Workers PROVE Copied(v)
    <3>1. worker'[v].pc \in Waits => worker[v].pc \in Waits /\ worker'[v].high = worker[v].high
      BY Zenon, <1>2, <2>1
    <3> QED
      BY Zenon, <1>1, <3>1
  <2> QED
    BY Zenon, <2>2
<1>3. ASSUME UNCHANGED worker PROVE \A v \in Workers : Copied(v)
  BY Zenon, <1>0, <1>3 DEF ThresholdCopied
<1>4. ASSUME NEW w \in Workers, ReadThreshold(w) PROVE \A v \in Workers : Copied(v)
  <2>1. worker'[w].high = config.high_priority_threshold /\ \A v \in Workers \ {w} : worker'[v] = worker[v]
    BY Zenon, <1>0, <1>4 DEF ReadThreshold, TypeOK, WorkerState
  <2>2. Copied(w)
    BY Zenon, <1>0, <2>1 DEF TypeOK
  <2>3. ASSUME NEW v \in Workers \ {w} PROVE Copied(v)
    BY Zenon, <1>1, <2>1
  <2> QED
    BY Zenon, <2>2, <2>3
<1>5. ASSUME NEW w \in Workers, PopRequest(w) \/ TestStopping(w) \/ StoreReady(w)
      PROVE  \A v \in Workers : Copied(v)
  <2>1. worker'[w].pc \notin Waits /\ \A v \in Workers \ {w} : worker'[v] = worker[v]
    <3>1. CASE PopRequest(w)
      BY Zenon, <1>0, <3>1 DEF PopRequest, TypeOK, WorkerState
    <3>2. CASE TestStopping(w) \/ StoreReady(w)
      BY <1>0, <3>2 DEF TestStopping, StoreReady, TypeOK, WorkerState, NewWorker
    <3> QED
      BY Zenon, <1>5, <3>1, <3>2
  <2> QED
    BY Zenon, <1>1, <2>1
<1>6. ASSUME NEW w \in Workers, FindEmpty(w) \/ Sleep(w) \/ WakeSpuriously(w)
      PROVE  \A v \in Workers : Copied(v)
  <2>1. PICK pc \in Waits : worker' = [worker EXCEPT ![w].pc = pc]
    BY Zenon, <1>6 DEF FindEmpty, Sleep, WakeSpuriously
  <2>2. worker[w].pc \in Waits
    BY Zenon, <1>6 DEF FindEmpty, Sleep, WakeSpuriously
  <2> QED
    BY ZenonT(30), <1>2, <2>1, <2>2
<1>7. ASSUME NEW w \in Workers,
             \/ WorkerExit(w) \/ StartRequest(w) \/ Attempt(w) \/ HandleSuccess(w)
             \/ CountSuccess(w) \/ HandleFailure(w) \/ CountFailure(w)
      PROVE  \A v \in Workers : Copied(v)
  <2>1. PICK pc \in {"done", "running", "calling", "handled", "succeeded", "failed"} :
          worker' = [worker EXCEPT ![w].pc = pc]
    BY Zenon, <1>7 DEF WorkerExit, StartRequest, Attempt, HandleSuccess, CountSuccess, HandleFailure, CountFailure
  <2> QED
    BY ZenonT(30), <1>2, <2>1
<1>8. ASSUME NEW c \in Clients, NotifyOne(c) PROVE \A v \in Workers : Copied(v)
  <2>1. CASE UNCHANGED worker
    BY Zenon, <1>3, <2>1
  <2>2. ASSUME NEW w \in Workers, worker[w].pc = "sleeping", worker' = [worker EXCEPT ![w].pc = "lock"]
        PROVE  \A v \in Workers : Copied(v)
    BY ZenonT(30), <1>2, <2>2
  <2> QED
    BY Zenon, <1>8, <2>1, <2>2 DEF NotifyOne
<1>9. CASE StopNotify
  <2>1. ASSUME NEW w \in Workers
        PROVE  worker'[w].pc \in Waits => worker[w].pc \in Waits /\ worker'[w].high = worker[w].high
    BY Zenon, <1>0, <1>9 DEF StopNotify, TypeOK, WorkerState
  <2> QED
    BY Zenon, <1>1, <2>1 DEF ThresholdCopied
<1>10. CASE StopFlag \/ StopJoin \/ ReloadLimits \/ UNCHANGED vars
  <2>1. UNCHANGED worker
    BY Zenon, <1>10 DEF StopFlag, StopJoin, ReloadLimits, vars
  <2> QED
    BY Zenon, <1>3, <2>1 DEF ThresholdCopied
<1>11. ASSUME NEW c \in Clients,
              \/ ReadLimits(c) \/ Admit(c) \/ Reject(c) \/ CountAccepted(c) \/ RecordPending(c)
              \/ \E p \in Priorities : Inference(c, p)
       PROVE  \A v \in Workers : Copied(v)
  <2>1. UNCHANGED worker
    BY ZenonT(30), <1>11 DEF ReadLimits, Admit, Reject, CountAccepted, RecordPending, Inference
  <2> QED
    BY <1>3, <2>1
<1> QED
  <2>1. (\A v \in Workers : Copied(v)) => ThresholdCopied'
    BY Zenon DEF ThresholdCopied
  <2>2. CASE \E c \in Clients : ClientStep(c) \/ \E p \in Priorities : Inference(c, p)
    BY Zenon, <1>8, <1>11, <2>1, <2>2 DEF ClientStep
  <2>3. CASE \E w \in Workers : WorkerStep(w) \/ WakeSpuriously(w)
    BY Zenon, <1>4, <1>5, <1>6, <1>7, <2>1, <2>3 DEF WorkerStep
  <2> QED
    BY Zenon, <1>9, <1>10, <2>2, <2>3 DEF Next

(***************************************************************************)
(* The limits                                                              *)
(***************************************************************************)

\* The positions of a queue that hold a request of a set.
PositionsOf(q, P) == {i \in DOMAIN q : q[i] \in P}

\* There are at most as many as requests.
LEMMA PositionsFinite ==
    ASSUME SetFacts, NEW q \in Seq(Request), NEW P
    PROVE  /\ IsFiniteSet(PositionsOf(q, P)) /\ Cardinality(PositionsOf(q, P)) \in Nat
           /\ Cardinality(PositionsOf(q, P)) <= Len(q)
<1>1. Len(q) \in Nat /\ PositionsOf(q, P) \in SUBSET (1..Len(q))
  BY DEF PositionsOf
<1>2. IsFiniteSet(1..Len(q)) /\ Cardinality(1..Len(q)) = Len(q)
  BY Zenon, <1>1 DEF SetFacts
<1>3. IsFiniteSet(PositionsOf(q, P)) /\ Cardinality(PositionsOf(q, P)) <= Cardinality(1..Len(q))
  BY Zenon, <1>1, <1>2 DEF SetFacts
<1>4. Cardinality(PositionsOf(q, P)) \in Nat
  BY Zenon, <1>3 DEF SetFacts
<1> QED
  BY Zenon, <1>2, <1>3, <1>4

\* A request that is queued adds one to the sets it is in.
LEMMA AppendCount ==
    ASSUME SetFacts, NEW q \in Seq(Request), NEW r \in Request, NEW P
    PROVE  Cardinality(PositionsOf(Append(q, r), P)) =
             Cardinality(PositionsOf(q, P)) + (IF r \in P THEN 1 ELSE 0)
<1>1. PICK n \in Nat : n = Len(q)
  OBVIOUS
<1>2. /\ DOMAIN q = 1..n /\ DOMAIN Append(q, r) = 1..(n + 1)
      /\ \A i \in 1..n : Append(q, r)[i] = q[i]
      /\ Append(q, r)[n + 1] = r
  BY <1>1
<1>3. n + 1 \notin PositionsOf(q, P)
  BY <1>2 DEF PositionsOf
<1>4. IsFiniteSet(PositionsOf(q, P)) /\ Cardinality(PositionsOf(q, P)) \in Nat
  BY Zenon, PositionsFinite
<1>5. CASE r \in P
  <2>1. PositionsOf(Append(q, r), P) = PositionsOf(q, P) \cup {n + 1}
    <3>1. ASSUME NEW i PROVE i \in PositionsOf(Append(q, r), P) <=> i \in PositionsOf(q, P) \cup {n + 1}
      <4>1. i \in 1..(n + 1) <=> i \in 1..n \/ i = n + 1
        OBVIOUS
      <4> QED
        BY Zenon, <1>2, <1>5, <4>1 DEF PositionsOf
    <3> QED
      BY Zenon, <3>1
  <2>2. Cardinality(PositionsOf(q, P) \cup {n + 1}) = Cardinality(PositionsOf(q, P)) + 1
    BY Zenon, <1>3, <1>4 DEF SetFacts
  <2> QED
    BY Zenon, <1>5, <2>1, <2>2
<1>6. CASE r \notin P
  <2>1. PositionsOf(Append(q, r), P) = PositionsOf(q, P)
    <3>1. ASSUME NEW i PROVE i \in PositionsOf(Append(q, r), P) <=> i \in PositionsOf(q, P)
      <4>1. i \in 1..(n + 1) <=> i \in 1..n \/ i = n + 1
        OBVIOUS
      <4> QED
        BY Zenon, <1>2, <1>6, <4>1 DEF PositionsOf
    <3> QED
      BY ZenonT(30), <3>1
  <2> QED
    BY <1>4, <1>6, <2>1
<1> QED
  BY Zenon, <1>5, <1>6

\* A request that is taken out leaves one less in the sets it was in.
LEMMA ErasedCount ==
    ASSUME SetFacts, NEW q \in Seq(Request), NEW i \in 1..Len(q), NEW P
    PROVE  Cardinality(PositionsOf(Without(q, i), P)) =
             Cardinality(PositionsOf(q, P)) - (IF q[i] \in P THEN 1 ELSE 0)
<1>1. PICK n \in Nat : n = Len(q)
  OBVIOUS
<1>2. PICK z : z = Without(q, i)
  BY Zenon
<1>3. z \in Seq(Request) /\ Len(z) = n - 1
  BY Zenon, <1>1, <1>2, ErasedAt
<1>4. DOMAIN q = 1..n /\ DOMAIN z = 1..(n - 1) /\ i \in 1..n
  BY <1>1, <1>3
<1>5. \A k \in 1..(n - 1) : z[k] = q[Shift(i, k)] /\ Shift(i, k) \in 1..n /\ Shift(i, k) # i
  BY ZenonT(30), <1>1, <1>2, ErasedAt
<1>6. PICK S : S = PositionsOf(z, P)
  OBVIOUS
<1>7. PICK T : T = PositionsOf(q, P) \ {i}
  BY ZenonT(30)
<1>8. PICK f : f = [k \in S |-> Shift(i, k)]
  BY ZenonT(30)
<1>9. \A k \in S : k \in 1..(n - 1) /\ z[k] \in P
  BY Zenon, <1>4, <1>6 DEF PositionsOf
<1>10. f \in [S -> T]
  <2>1. \A k \in S : Shift(i, k) \in T
    BY Zenon, <1>4, <1>5, <1>7, <1>9 DEF PositionsOf
  <2> QED
    BY Zenon, <1>8, <2>1
<1>11. \A x, y \in S : f[x] = f[y] => x = y
  BY <1>4, <1>8, <1>9 DEF Shift
<1>12. ASSUME NEW m \in T PROVE \E k \in S : f[k] = m
  <2>1. m \in 1..n /\ m # i /\ q[m] \in P
    BY Zenon, <1>4, <1>7 DEF PositionsOf
  <2>2. PICK k \in 1..(n - 1) : Shift(i, k) = m
    <3>1. CASE m < i
      <4>1. m \in 1..(n - 1) /\ Shift(i, m) = m
        BY <1>4, <2>1, <3>1 DEF Shift
      <4> QED
        BY Zenon, <4>1
    <3>2. CASE ~ (m < i)
      <4>1. m - 1 \in 1..(n - 1) /\ Shift(i, m - 1) = m
        BY <1>4, <2>1, <3>2 DEF Shift
      <4> QED
        BY Zenon, <4>1
    <3> QED
      BY Zenon, <3>1, <3>2
  <2>3. k \in S
    BY Zenon, <1>4, <1>5, <1>6, <2>1, <2>2 DEF PositionsOf
  <2> QED
    BY Zenon, <1>8, <2>2, <2>3
<1>13. IsFiniteSet(S)
  BY Zenon, <1>3, <1>6, PositionsFinite
<1>14. Cardinality(T) = Cardinality(S)
  <2>1. \E g \in [S -> T] : /\ \A x, y \in S : g[x] = g[y] => x = y
                            /\ \A m \in T : \E x \in S : g[x] = m
    BY Zenon, <1>10, <1>11, <1>12
  <2>2. \A A : IsFiniteSet(A) =>
          \A B : (\E g \in [A -> B] : /\ \A x, y \in A : g[x] = g[y] => x = y
                                     /\ \A m \in B : \E x \in A : g[x] = m)
                  => Cardinality(B) = Cardinality(A)
    BY ZenonT(30) DEF SetFacts
  <2> QED
    BY Zenon, <1>13, <2>1, <2>2
<1>15. IsFiniteSet(PositionsOf(q, P)) /\ Cardinality(PositionsOf(q, P)) \in Nat
  BY Zenon, PositionsFinite
<1>16. CASE q[i] \in P
  <2>1. i \in PositionsOf(q, P)
    BY Zenon, <1>4, <1>16 DEF PositionsOf
  <2>2. Cardinality(T) = Cardinality(PositionsOf(q, P)) - 1
    BY <1>7, <1>15, <2>1 DEF SetFacts
  <2> QED
    BY Zenon, <1>2, <1>6, <1>14, <1>16, <2>2
<1>17. CASE q[i] \notin P
  <2>1. T = PositionsOf(q, P)
    BY SMTT(30), <1>7, <1>17 DEF PositionsOf
  <2> QED
    BY <1>2, <1>6, <1>14, <1>15, <1>17, <2>1
<1> QED
  BY Zenon, <1>16, <1>17

\* The requests that are below the high class under every setting, and the background requests.
LowRequests == {r \in Request : \A k \in Configs : r.priority < k.high_priority_threshold}
BackgroundRequests == {r \in Request : r.priority < 4}

\* Only inference and pop_next_request change the queue, and only pop_next_request the slot.
LEMMA QueueSteps ==
    ASSUME [Next]_vars
    PROVE  (\E w \in Workers : PopRequest(w)) \/ (\E c \in Clients : Admit(c)) \/ UNCHANGED <<pending, slot>>
  BY ZenonT(30)
     DEF Next, ClientStep, WorkerStep, vars, Inference, ReadLimits, Reject, CountAccepted, RecordPending, NotifyOne,
       ReadThreshold, FindEmpty, Sleep, WakeSpuriously, WorkerExit, StartRequest, Attempt, HandleSuccess, CountSuccess,
       HandleFailure, CountFailure, TestStopping, StoreReady, StopFlag, StopNotify, StopJoin, ReloadLimits

\* Every step keeps the queue within the largest of the limits.
LEMMA StepBounds ==
    ASSUME SetFacts, IInv, [Next]_vars
    PROVE  AdmissionBounds'
<1>0. TypeOK /\ pending \in Seq(Request)
  BY DEF IInv, TypeOK
<1>1. \A q \in Seq(Request) :
        /\ {i \in DOMAIN q : \A k \in Configs : q[i].priority < k.high_priority_threshold} = PositionsOf(q, LowRequests)
        /\ {i \in DOMAIN q : q[i].priority < 4} = PositionsOf(q, BackgroundRequests)
  <2> TAKE q \in Seq(Request)
  <2>1. \A i \in DOMAIN q : q[i] \in Request
    OBVIOUS
  <2> QED
    BY Zenon, <2>1 DEF PositionsOf, LowRequests, BackgroundRequests
<1> DEFINE Bounds(q) ==
             /\ \E k \in Configs : Len(q) <= k.max_queue_size
             /\ \E k \in Configs : Cardinality(PositionsOf(q, LowRequests)) <= overload_threshold(k)
             /\ \E k \in Configs : Cardinality(PositionsOf(q, BackgroundRequests)) <= k.low_priority_drop_threshold
<1>2. Limited => Bounds(pending)
  BY Zenon, <1>0, <1>1 DEF IInv, AdmissionBounds, NeverHigh, Background
<1>3. ASSUME pending' \in Seq(Request), Limited => Bounds(pending') PROVE AdmissionBounds'
  BY ZenonT(30), <1>1, <1>3 DEF AdmissionBounds, NeverHigh, Background, Limited
<1>4. CASE UNCHANGED pending
  BY Zenon, <1>0, <1>2, <1>3, <1>4
<1>5. \A k \in Configs : k.max_queue_size \in Nat /\ k.low_priority_drop_threshold \in Nat
                         /\ overload_threshold(k) \in Nat
                         /\ (overload_threshold(k) > 0 => k.max_queue_size > 0)
  <2> TAKE k \in Configs
  <2>1. k.max_queue_size \in Nat /\ k.low_priority_drop_threshold \in Nat
    BY Zenon, SchedulerAssumption DEF Config
  <2>2. \A n \in Nat : (n * 9) \div 10 \in Nat /\ ((n * 9) \div 10 > 0 => n > 0)
    OBVIOUS
  <2> QED
    BY Zenon, <2>1, <2>2 DEF overload_threshold
<1>6. ASSUME NEW w \in Workers, PopRequest(w) PROVE AdmissionBounds'
  <2>1. PICK i \in 1..Len(pending) : Pops(w, i)
    BY Zenon, <1>6, PopEffect
  <2>2. pending' = Without(pending, i)
    BY Zenon, <2>1 DEF Pops
  <2>3. pending' \in Seq(Request) /\ Len(pending') = Len(pending) - 1 /\ Len(pending) \in Nat
    BY <1>0, <2>2, ErasedAt
  <2>4. ASSUME NEW P PROVE /\ Cardinality(PositionsOf(pending, P)) \in Nat
                           /\ Cardinality(PositionsOf(pending', P)) \in Nat
                           /\ Cardinality(PositionsOf(pending', P)) <= Cardinality(PositionsOf(pending, P))
    <3>1. Cardinality(PositionsOf(pending', P)) = Cardinality(PositionsOf(pending, P)) - (IF pending[i] \in P THEN 1 ELSE 0)
      BY Zenon, <1>0, <2>2, ErasedCount
    <3>2. Cardinality(PositionsOf(pending, P)) \in Nat /\ Cardinality(PositionsOf(pending', P)) \in Nat
      BY Zenon, <1>0, <2>3, PositionsFinite
    <3> QED
      BY <3>1, <3>2
  <2>5. ASSUME Limited PROVE Bounds(pending')
    <3>1. \E k \in Configs : Len(pending') <= k.max_queue_size
      <4>1. PICK k \in Configs : Len(pending) <= k.max_queue_size
        BY Zenon, <1>2, <2>5
      <4>2. k.max_queue_size \in Nat
        BY Zenon, <1>5
      <4>3. Len(pending') <= k.max_queue_size
        BY <2>3, <4>1, <4>2
      <4> QED
        BY Zenon, <4>3
    <3>2. \E k \in Configs : Cardinality(PositionsOf(pending', LowRequests)) <= overload_threshold(k)
      <4>1. PICK k \in Configs : Cardinality(PositionsOf(pending, LowRequests)) <= overload_threshold(k)
        BY Zenon, <1>2, <2>5
      <4>2. overload_threshold(k) \in Nat
        BY Zenon, <1>5
      <4>3. Cardinality(PositionsOf(pending', LowRequests)) <= overload_threshold(k)
        BY <2>4, <4>1, <4>2
      <4> QED
        BY Zenon, <4>3
    <3>3. \E k \in Configs : Cardinality(PositionsOf(pending', BackgroundRequests)) <= k.low_priority_drop_threshold
      <4>1. PICK k \in Configs : Cardinality(PositionsOf(pending, BackgroundRequests)) <= k.low_priority_drop_threshold
        BY Zenon, <1>2, <2>5
      <4>2. k.low_priority_drop_threshold \in Nat
        BY Zenon, <1>5
      <4>3. Cardinality(PositionsOf(pending', BackgroundRequests)) <= k.low_priority_drop_threshold
        BY <2>4, <4>1, <4>2
      <4> QED
        BY Zenon, <4>3
    <3> QED
      BY Zenon, <3>1, <3>2, <3>3
  <2> QED
    BY Zenon, <1>3, <2>3, <2>5
<1>7. ASSUME NEW c \in Clients, Admit(c) PROVE AdmissionBounds'
  <2>1. CASE Rejected(client[c].config, Len(pending), client[c].req.priority)
    BY Zenon, <1>4, <1>7, <2>1 DEF Admit
  <2>2. CASE ~ Rejected(client[c].config, Len(pending), client[c].req.priority)
    <3>1. PICK r : r = client[c].req
      BY Zenon
    <3>2. PICK k : k = client[c].config
      BY Zenon
    <3>3. r \in Request /\ k \in Configs /\ pending' = Append(pending, r)
      BY Zenon, <1>0, <1>7, <2>2, <3>1, <3>2 DEF Admit, IInv, TypeOK, ClientState, TasksApart
    <3>4. ~ Rejected(k, Len(pending), r.priority)
      BY Zenon, <2>2, <3>1, <3>2
    <3>5. pending' \in Seq(Request) /\ Len(pending') = Len(pending) + 1 /\ Len(pending) \in Nat
      BY <1>0, <3>3
    <3>6. ASSUME NEW P
          PROVE  /\ Cardinality(PositionsOf(pending, P)) \in Nat
                 /\ Cardinality(PositionsOf(pending, P)) <= Len(pending)
                 /\ r \in P => Cardinality(PositionsOf(pending', P)) = Cardinality(PositionsOf(pending, P)) + 1
                 /\ r \notin P => Cardinality(PositionsOf(pending', P)) = Cardinality(PositionsOf(pending, P))
      <4>1. Cardinality(PositionsOf(pending', P)) = Cardinality(PositionsOf(pending, P)) + (IF r \in P THEN 1 ELSE 0)
        BY Zenon, <1>0, <3>3, AppendCount
      <4>2. Cardinality(PositionsOf(pending, P)) \in Nat /\ Cardinality(PositionsOf(pending, P)) <= Len(pending)
        BY Zenon, <1>0, PositionsFinite
      <4> QED
        BY <4>1, <4>2
    <3>7. r.priority \in Nat /\ k.max_queue_size \in Nat /\ k.low_priority_drop_threshold \in Nat
          /\ overload_threshold(k) \in Nat
      BY Zenon, <1>5, <3>3, RequestFields
    <3>8. ASSUME Limited PROVE Bounds(pending')
      <4>1. overload_threshold(k) > 0 /\ k.max_queue_size > 0 /\ k.low_priority_drop_threshold > 0
        BY Zenon, <1>5, <3>3, <3>8 DEF Limited
      <4>2. Len(pending') <= k.max_queue_size
        BY <3>4, <3>5, <3>7, <4>1 DEF Rejected
      <4>3. \E j \in Configs : Cardinality(PositionsOf(pending', LowRequests)) <= overload_threshold(j)
        <5>1. CASE r \in LowRequests
          <6>1. r.priority < k.high_priority_threshold
            BY Zenon, <3>3, <5>1 DEF LowRequests
          <6>2. Len(pending) < overload_threshold(k)
            BY <3>4, <3>5, <3>7, <4>1, <6>1 DEF Rejected
          <6>3. Cardinality(PositionsOf(pending', LowRequests)) <= overload_threshold(k)
            BY <3>5, <3>6, <3>7, <5>1, <6>2
          <6> QED
            BY Zenon, <3>3, <6>3
        <5>2. CASE r \notin LowRequests
          BY Zenon, <1>2, <3>6, <3>8, <5>2
        <5> QED
          BY Zenon, <5>1, <5>2
      <4>4. \E j \in Configs : Cardinality(PositionsOf(pending', BackgroundRequests)) <= j.low_priority_drop_threshold
        <5>1. CASE r \in BackgroundRequests
          <6>1. r.priority < 4
            BY Zenon, <5>1 DEF BackgroundRequests
          <6>2. Len(pending) < k.low_priority_drop_threshold
            BY <3>4, <3>5, <3>7, <4>1, <6>1 DEF Rejected
          <6>3. Cardinality(PositionsOf(pending', BackgroundRequests)) <= k.low_priority_drop_threshold
            BY <3>5, <3>6, <3>7, <5>1, <6>2
          <6> QED
            BY Zenon, <3>3, <6>3
        <5>2. CASE r \notin BackgroundRequests
          BY Zenon, <1>2, <3>6, <3>8, <5>2
        <5> QED
          BY Zenon, <5>1, <5>2
      <4> QED
        BY Zenon, <3>3, <4>2, <4>3, <4>4
    <3> QED
      BY Zenon, <1>3, <3>5, <3>8
  <2> QED
    BY Zenon, <2>1, <2>2
<1> QED
  BY <1>4, <1>6, <1>7, QueueSteps

============================================================================
