------------------------------ MODULE ClassQueue ------------------------------
(***************************************************************************)
(* What pop_next_request promises of the queue when requests are told      *)
(* apart only by their priority class: how many of each class wait, and    *)
(* which class the nine-slot schedule serves next.  Scheduler implements   *)
(* this specification while high_priority_threshold stays the same.        *)
(***************************************************************************)
EXTENDS QueueOrder

CONSTANT MaxPending    \* bound on the requests of one class

ASSUME QueueAssumption == MaxPending \in Nat

VARIABLES
    count,    \* how many requests of each class are queued
    at        \* the slot the schedule stands at

Waiting == {c \in Classes : count[c] > 0}

QueueInit ==
    /\ count = [c \in Classes |-> 0]
    /\ at = 0

\* inference accepts a request of class c.
Push(c) ==
    /\ count[c] < MaxPending
    /\ count' = [count EXCEPT ![c] = @ + 1]
    /\ UNCHANGED at

\* Mutant of Pop: only the slot the schedule stands at is probed.
PopOneSlot ==
    /\ SlotClass(at) \in Waiting
    /\ at' = (at + 1) % kScheduleSize
    /\ count' = [count EXCEPT ![SlotClass(at)] = @ - 1]

\* pop_next_request takes a request.
Pop ==
    /\ Waiting # {}
    /\ at' = NextSlot(Waiting, at)
    /\ count' = [count EXCEPT ![ServedClass(Waiting, at)] = @ - 1]

QueueSpec == QueueInit /\ [][(\E c \in Classes : Push(c)) \/ Pop]_<<count, at>>
===============================================================================
