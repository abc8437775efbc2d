--------------------------- MODULE Observability ----------------------------
(***************************************************************************)
(* ObservabilityMetrics of a node (observability_metrics.cpp).             *)
(*                                                                         *)
(* The threads that observe test enabled_, and then add a sample to its    *)
(* series under series_mtx_.  A worker thread takes all the series at      *)
(* intervals and writes them to the store.  Two threads control it: the    *)
(* RPC thread of the node configures it anew at a reload, and the thread   *)
(* that ends the node stops it; nothing keeps the two apart.               *)
(***************************************************************************)
EXTENDS Integers

CONSTANTS
    Observers,  \* the threads that observe
    MaxSamples, \* bound on the samples observed
    MaxReloads  \* bound on the reloads

ASSUME ObservabilityAssumption == MaxSamples \in Nat /\ MaxReloads \in Nat

VARIABLES
    enabled,    \* enabled_
    running,    \* running_
    worker,     \* where the worker thread is; "none" when worker_ is not joinable
    engine,     \* whether engine_ is open
    series,     \* the samples in series_
    taken,      \* the samples that each thread has taken from series_ to write
    store,      \* the samples written
    wanted,     \* config_.enabled
    status,     \* last_status_
    ctl,        \* where each thread that controls is
    obs,        \* where each observer is
    observed,   \* history: how many samples were added
    failed,     \* history: the samples of batches that could not be written
    late,       \* history: the samples that no flush was left for: added after the last flush of a stop,
                \* or while a configure that could not start the worker was under way
    overlap,    \* history: both controllers have been at work together
    reloads,    \* history: how many reloads there were
    crashed     \* whether the process has ended

MetricsVars == <<enabled, running, worker, engine, series, taken, store, wanted, status, ctl, obs, observed,
          failed, late, overlap, reloads, crashed>>

Controllers == {"reload", "shutdown"}
Flushers == Controllers \cup {"worker"}
Samples == 1..MaxSamples

\* load_model has configured it: disabled.
MetricsInit ==
    /\ enabled = FALSE /\ running = FALSE /\ worker = "none" /\ engine = FALSE
    /\ series = {} /\ store = {} /\ failed = {} /\ late = {}
    /\ taken = [f \in Flushers |-> {}]
    /\ wanted = FALSE /\ status = "disabled"
    /\ ctl = [k \in Controllers |-> "idle"]
    /\ obs = [o \in Observers |-> "idle"]
    /\ observed = 0 /\ overlap = FALSE /\ reloads = 0 /\ crashed = FALSE

-----------------------------------------------------------------------------
\* observe_*: the test of enabled_ ...
Observe(o) ==
    /\ ~ crashed /\ obs[o] = "idle" /\ enabled
    /\ obs' = [obs EXCEPT ![o] = "passed"]
    /\ UNCHANGED <<enabled, running, worker, engine, series, taken, store, wanted, status, ctl, failed,
                   late, overlap, reloads, crashed, observed>>

\* ... and add_*_locked, with series_mtx_.
AddSample(o) ==
    LET s == observed + 1 IN
    /\ ~ crashed /\ obs[o] # "idle" /\ observed < MaxSamples
    /\ observed' = s
    /\ series' = series \cup {s}
    /\ late' = IF obs[o] = "overtaken" THEN late \cup {s} ELSE late
    /\ obs' = [obs EXCEPT ![o] = "idle"]
    /\ UNCHANGED <<enabled, running, worker, engine, taken, store, wanted, status, ctl, failed, overlap,
                   reloads, crashed>>
-----------------------------------------------------------------------------
\* Mutant: the series are read and stay where they are.
CopySeries(f) == taken' = [taken EXCEPT ![f] = series] /\ UNCHANGED series

\* flush_once swaps the series out, with series_mtx_.
TakeSeries(f) == taken' = [taken EXCEPT ![f] = series] /\ series' = {}

\* flush_once writes what it has taken, with engine_mtx_, or fails: the store is closed, or refuses.
WriteTaken(f) ==
    /\ taken' = [taken EXCEPT ![f] = {}]
    /\ \/ engine /\ store' = store \cup taken[f] /\ status' = "running" /\ UNCHANGED failed
       \/ failed' = failed \cup taken[f] /\ status' = "error" /\ UNCHANGED store

\* Mutant: the worker waits for the end without a timeout.
WorkerTakesAtEnd ==
    /\ ~ crashed /\ worker = "wait" /\ ~ running
    /\ TakeSeries("worker")
    /\ worker' = IF series = {} THEN "ended" ELSE "last"
    /\ UNCHANGED <<enabled, running, engine, store, wanted, status, ctl, obs, failed, late, overlap,
                   reloads, crashed, observed>>

\* worker_loop wakes, at the interval or for the end, and takes the series, if there are any; it may
\* have read running_ before that was reset.
WorkerTakes ==
    /\ ~ crashed /\ worker = "wait"
    /\ IF series = {}
       THEN worker' = (IF running THEN "wait" ELSE "ended") /\ UNCHANGED <<series, taken>>
       ELSE worker' \in (IF running THEN {"write"} ELSE {"write", "last"}) /\ TakeSeries("worker")
    /\ UNCHANGED <<enabled, running, engine, store, wanted, status, ctl, obs, failed, late, overlap,
                   reloads, crashed, observed>>

WorkerWrites ==
    /\ ~ crashed /\ worker \in {"write", "last"}
    /\ WriteTaken("worker")
    /\ worker' = IF worker = "write" THEN "wait" ELSE "ended"
    /\ UNCHANGED <<enabled, running, engine, series, wanted, ctl, obs, late, overlap, reloads, crashed, observed>>
-----------------------------------------------------------------------------
\* History: the observers that have tested enabled_ are too late for the last flush.
Overtaken == [o \in Observers |-> IF obs[o] = "passed" THEN "overtaken" ELSE obs[o]]

\* Controller k goes from one step to the next.
Goes(k, from, to) == ~ crashed /\ ctl[k] = from /\ ctl' = [ctl EXCEPT ![k] = to]

\* configure and stop both begin with stop: it resets enabled_ ...
StopBegins(k) ==
    /\ Goes(k, "idle", "halt")
    /\ k = "reload" => reloads < MaxReloads
    /\ reloads' = IF k = "reload" THEN reloads + 1 ELSE reloads
    /\ enabled' = FALSE
    /\ overlap' = (overlap \/ \E j \in Controllers \ {k} : ctl[j] \notin {"idle", "done"})
    /\ UNCHANGED <<running, worker, engine, series, taken, store, wanted, status, obs, failed, late,
                   crashed, observed>>

\* ... and running_ ...
Halts(k) ==
    /\ Goes(k, "halt", "test")
    /\ running' = FALSE
    /\ UNCHANGED <<enabled, worker, engine, series, taken, store, wanted, status, obs, failed, late,
                   overlap, reloads, crashed, observed>>

\* ... asks whether worker_ is joinable ...
TestsWorker(k) ==
    /\ Goes(k, "test", IF worker = "none" THEN "flush" ELSE "join")
    /\ UNCHANGED <<enabled, running, worker, engine, series, taken, store, wanted, status, obs, failed,
                   late, overlap, reloads, crashed, observed>>

\* ... joins it ...
Joins(k) ==
    /\ Goes(k, "join", "flush")
    /\ worker = "ended"
    /\ worker' = "none"
    /\ UNCHANGED <<enabled, running, engine, series, taken, store, wanted, status, obs, failed, late,
                   overlap, reloads, crashed, observed>>

\* ... which the other controller may have done since it asked ...
JoinsTwice(k) ==
    /\ ~ crashed /\ ctl[k] = "join" /\ worker = "none"
    /\ crashed' = TRUE
    /\ UNCHANGED <<enabled, running, worker, engine, series, taken, store, wanted, status, ctl, obs,
                   failed, late, overlap, reloads, observed>>

\* Mutant: stop trusts the last flush of the worker.
TakesNothing(k) ==
    /\ Goes(k, "flush", "close")
    /\ UNCHANGED <<enabled, running, worker, engine, series, taken, store, wanted, status, obs, failed,
                   late, overlap, reloads, crashed, observed>>

\* ... flushes once more ...
TakesLast(k) ==
    /\ Goes(k, "flush", IF series = {} THEN "close" ELSE "write")
    /\ TakeSeries(k)
    /\ obs' = Overtaken
    /\ UNCHANGED <<enabled, running, worker, engine, store, wanted, status, failed, late, overlap, reloads,
                   crashed, observed>>

WritesLast(k) ==
    /\ Goes(k, "write", "close")
    /\ WriteTaken(k)
    /\ UNCHANGED <<enabled, running, worker, engine, series, wanted, obs, late, overlap, reloads,
                   crashed, observed>>

\* ... and closes the store; configure goes on.
Closes(k) ==
    /\ Goes(k, "close", IF k = "reload" THEN "open" ELSE "done")
    /\ engine' = FALSE
    /\ status' = IF wanted THEN "stopped" ELSE "disabled"
    /\ UNCHANGED <<enabled, running, worker, series, taken, store, wanted, obs, failed, late, overlap,
                   reloads, crashed, observed>>

\* configure: the new configuration does not enable it, or has no db_dir, or its store does not open.
StaysOff ==
    /\ Goes("reload", "open", "idle")
    /\ wanted' \in BOOLEAN
    /\ status' = IF wanted' THEN "error" ELSE "disabled"
    /\ UNCHANGED <<enabled, running, worker, engine, series, taken, store, obs, failed, late, overlap,
                   reloads, crashed, observed>>

\* configure opens the store ...
Opens ==
    /\ Goes("reload", "open", "enable")
    /\ engine' = TRUE
    /\ wanted' = TRUE /\ status' = "starting"
    /\ UNCHANGED <<enabled, running, worker, series, taken, store, obs, failed, late, overlap, reloads,
                   crashed, observed>>

\* ... sets enabled_ ...
Enables ==
    /\ Goes("reload", "enable", "run")
    /\ enabled' = TRUE
    /\ UNCHANGED <<running, worker, engine, series, taken, store, wanted, status, obs, failed, late,
                   overlap, reloads, crashed, observed>>

\* ... and running_ ...
Runs ==
    /\ Goes("reload", "run", "spawn")
    /\ running' = TRUE
    /\ UNCHANGED <<enabled, worker, engine, series, taken, store, wanted, status, obs, failed, late,
                   overlap, reloads, crashed, observed>>

\* ... starts the worker ...
Spawns ==
    /\ Goes("reload", "spawn", "announce")
    /\ worker' = "wait"
    /\ UNCHANGED <<enabled, running, engine, series, taken, store, wanted, status, obs, failed, late,
                   overlap, reloads, crashed, observed>>

\* Mutant: configure does not take enabled_ back.
SpawnFailsEnabled ==
    /\ Goes("reload", "spawn", "idle")
    /\ running' = FALSE
    /\ status' = "error"
    /\ UNCHANGED <<enabled, worker, engine, series, taken, store, wanted, obs, failed, late, overlap,
                   reloads, crashed, observed>>

\* ... or cannot, and takes both back, leaving the store open ...
SpawnFails ==
    /\ Goes("reload", "spawn", "idle")
    /\ enabled' = FALSE /\ running' = FALSE
    /\ status' = "error"
    /\ obs' = Overtaken /\ late' = late \cup series
    /\ UNCHANGED <<worker, engine, series, taken, store, wanted, failed, overlap, reloads, crashed, observed>>

\* ... and says that it runs.
Announces ==
    /\ Goes("reload", "announce", "idle")
    /\ status' = "running"
    /\ UNCHANGED <<enabled, running, worker, engine, series, taken, store, wanted, obs, failed, late,
                   overlap, reloads, crashed, observed>>

StopStep(k) ==
    \/ Halts(k) \/ TestsWorker(k) \/ Joins(k) \/ JoinsTwice(k) \/ TakesLast(k) \/ WritesLast(k)
    \/ Closes(k)

ConfigureStep == StaysOff \/ Opens \/ Enables \/ Runs \/ Spawns \/ SpawnFails \/ Announces

MetricsNext ==
    \/ \E o \in Observers : Observe(o) \/ AddSample(o)
    \/ WorkerTakes \/ WorkerWrites
    \/ \E k \in Controllers : StopBegins(k) \/ StopStep(k)
    \/ ConfigureStep

\* wait_for bounds the sleep of the worker, and a thread that has begun to stop or configure goes on.
MetricsFairness ==
    /\ WF_MetricsVars(WorkerTakes) /\ WF_MetricsVars(WorkerWrites)
    /\ \A k \in Controllers : WF_MetricsVars(StopStep(k))
    /\ WF_MetricsVars(ConfigureStep)

MetricsSpec == MetricsInit /\ [][MetricsNext]_MetricsVars /\ MetricsFairness
-----------------------------------------------------------------------------
\* Every variable has its type.
MetricsTypeOK ==
    /\ enabled \in BOOLEAN /\ running \in BOOLEAN /\ engine \in BOOLEAN
    /\ wanted \in BOOLEAN /\ overlap \in BOOLEAN /\ crashed \in BOOLEAN
    /\ worker \in {"none", "wait", "write", "last", "ended"}
    /\ series \subseteq Samples /\ store \subseteq Samples /\ failed \subseteq Samples
    /\ late \subseteq Samples /\ taken \in [Flushers -> SUBSET Samples]
    /\ status \in {"disabled", "error", "starting", "running", "stopped"}
    /\ ctl \in [Controllers -> {"idle", "halt", "test", "join", "flush", "write", "close", "open",
                                "enable", "run", "spawn", "announce", "done"}]
    /\ obs \in [Observers -> {"idle", "passed", "overtaken"}]
    /\ observed \in 0..MaxSamples /\ reloads \in 0..MaxReloads

\* Every sample that was added is in exactly one place: in its series, in the batch of one thread, in the
\* store, or in a batch that was given up.  flush_once of several threads, at the same time, loses none
\* and writes none twice.
OnePlace ==
    /\ \A s \in 1..observed : s \in series \cup store \cup failed \/ \E f \in Flushers : s \in taken[f]
    /\ series \cap (store \cup failed) = {} /\ store \cap failed = {}
    /\ \A f \in Flushers :
         /\ taken[f] \cap (series \cup store \cup failed) = {}
         /\ \A g \in Flushers \ {f} : taken[f] \cap taken[g] = {}

Resting == ~ crashed /\ \A k \in Controllers : ctl[k] \in {"idle", "done"}

\* While it is off no sample is left in a series but those of observers that tested enabled_ before the
\* stop and added after its last flush, and those of a configure that could not start its worker; unless
\* a reload met the end of the node.
OnlyLateLeft == Resting /\ ~ enabled /\ ~ overlap => series \subseteq late

\* While it is enabled the store is open, the worker runs, and the status says that it runs or that a
\* flush failed; and the worker is not joined twice: unless a reload met the end of the node.
EnabledIsServed ==
    \/ overlap
    \/ /\ Resting /\ enabled =>
            running /\ engine /\ worker \in {"wait", "write"} /\ status \in {"running", "error"}
       /\ ~ crashed

\* What is observed while it is enabled is written or given up, and what stop or configure began comes
\* to its end: unless a reload met the end of the node.
FlushedInTheEnd ==
    /\ \A s \in Samples : (s \in series /\ enabled) ~> (s \in store \cup failed \/ ~ enabled \/ overlap)
    /\ \A k \in Controllers : ctl[k] # "idle" ~> (ctl[k] \in {"idle", "done"} \/ overlap)
=============================================================================
