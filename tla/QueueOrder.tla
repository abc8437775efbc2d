----------------------------- MODULE QueueOrder -----------------------------
(***************************************************************************)
(* The order in which pop_next_request serves the pending requests         *)
(* (node/vllm-client/src/main.cpp): three classes visited by a nine-slot   *)
(* schedule, and within a class the highest priority, then the oldest      *)
(* task_id.                                                                *)
(***************************************************************************)
EXTENDS Integers, Sequences

Classes == 0..2    \* high, normal, background

kScheduleSize == 9
kSchedule == <<0, 0, 0, 0, 0, 1, 1, 1, 2>>
Slots == 0..(kScheduleSize - 1)

\* The class that slot s of the schedule serves.
SlotClass(s) == kSchedule[(s % kScheduleSize) + 1]

\* priority_class: normal starts at priority 4.
priority_class(priority, high) ==
    IF priority >= high THEN 0 ELSE IF priority >= 4 THEN 1 ELSE 2

\* The positions of the requests of class c in queue q.
InClass(q, c, high) == {i \in DOMAIN q : priority_class(q[i].priority, high) = c}

Before(a, b) == a.priority > b.priority \/ (a.priority = b.priority /\ a.task_id < b.task_id)

\* find_best_request_in_class_locked, for a class that has a request.
BestInClass(q, c, high) ==
    CHOOSE i \in InClass(q, c, high) :
        \A j \in InClass(q, c, high) \ {i} : Before(q[i], q[j])

\* The slots the loop of pop_next_request probes before it reaches one of a class in N.
Probes(N, slot) ==
    CHOOSE n \in 1..kScheduleSize :
        /\ SlotClass(slot + n - 1) \in N
        /\ \A m \in 1..(n - 1) : SlotClass(slot + m - 1) \notin N

\* The class served, and the slot left behind, when the classes in N have requests.
ServedClass(N, slot) == SlotClass(slot + Probes(N, slot) - 1)

RestartedSlot(N, slot) == 0

NextSlot(N, slot) == (slot + Probes(N, slot)) % kScheduleSize
=============================================================================
