---------------------------- MODULE ClassSchedule ----------------------------
(***************************************************************************)
(* How the nine-slot schedule shares the workers among the priority        *)
(* classes: ClassQueue with a history variable.  skipped counts, for a     *)
(* class that has requests, the requests of other classes served since it  *)
(* was last served or empty.                                               *)
(***************************************************************************)
EXTENDS ClassQueue

VARIABLE skipped

scheduleVars == <<count, at, skipped>>

ScheduleInit == QueueInit /\ skipped = [c \in Classes |-> 0]

Arrive(c) == Push(c) /\ UNCHANGED skipped

Serve ==
    /\ Pop
    /\ skipped' = [c \in Classes |->
                     IF c = ServedClass(Waiting, at) \/ count[c] = 0 THEN 0 ELSE skipped[c] + 1]

ScheduleNext == (\E c \in Classes : Arrive(c)) \/ Serve

ScheduleSpec == ScheduleInit /\ [][ScheduleNext]_scheduleVars

\* The workers keep asking for requests.
FairSchedule == ScheduleSpec /\ WF_scheduleVars(Serve)

\* The counters are in range and the slot is one of the nine.
ScheduleTypeOK ==
    /\ count \in [Classes -> 0..MaxPending]
    /\ at \in Slots
    /\ skipped \in [Classes -> Nat]

\* The slot that pop_next_request keeps from one call to the next bounds how often a waiting class
\* is passed over: the high class at most 4 times in a row, the normal one 6, the background one 8.
BoundedOvertaking ==
    /\ skipped[0] <= 4
    /\ skipped[1] <= 6
    /\ skipped[2] <= 8

\* A waiting class that was passed over is served in the end, whatever keeps arriving in the
\* others (pop_next_request with workers that keep asking for requests).
NoClassStarves == \A c \in Classes : skipped[c] > 0 ~> skipped[c] = 0
=============================================================================
