----------------------------- MODULE MCScheduler -----------------------------
(***************************************************************************)
(* Small instances of Scheduler for TLC.                                   *)
(***************************************************************************)
EXTENDS Scheduler, TLC

CONSTANTS c1, c2, w1, w2

Limits(max, low, high) ==
    [max_queue_size |-> max, low_priority_drop_threshold |-> low, high_priority_threshold |-> high]

\* Two slots, of which only high requests get the second; one background request.
OneConfig == {Limits(2, 1, 8)}

\* Reload moves between a queue of two and a queue of three.
ReloadConfigs == {Limits(3, 2, 8), Limits(2, 1, 8)}

Interchangeable == Permutations(Clients) \cup Permutations(Workers)
==============================================================================
