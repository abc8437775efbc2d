# A TLA+ model of VllmRoute

VllmRoute puts a scheduler in front of vLLM servers. Clients connect by TCP to the unit manager,
which passes their messages over ZeroMQ to nodes; the node `vllm-client` queues inference requests,
picks a vLLM endpoint for each, calls it over HTTP and streams the answer back. This directory
models the parts of that system in which threads, retries, reloads, lost calls and shutdown meet,
checks the models with TLC and proves most of their safety properties with TLAPS.

## 1. Inventory

| Part | Source | State | Operations | Modules |
|---|---|---|---|---|
| Endpoint runtime | `node/vllm-client/src/main.cpp` | `endpoints_`, the runtime fields of `VllmEndpoint`, thresholds | `select_endpoint`, `update_endpoint_result`, `health_loop`, `reload_config` | `EndpointRuntime` |
| Configuration, profiles, routing | same | `fallback_chain_`, `allow_model_fallback_`, `model_profiles_`, `base_url_`, the list; the scan's candidate | `parse_config`, `reload_config`, `apply_profile_to_request`, the loop of `select_endpoint` | `ModelConfig`, `Routing` |
| Request queue and worker pool | same | `pending_`, `queue_schedule_slot_`, `records_`, `MetricsCollector`, `stopping_`, `status_` | `inference`, `pop_next_request`, `worker_loop`, `stop`, `reload_config` | `QueueOrder`, `ClassQueue`, `ClassSchedule`, `Scheduler` |
| Handling of a request | same | attempt, stream state, deadline | `handle_request`, `wait_for_endpoint`, `call_vllm`, the stream parser | `Reply`, `RequestHandling` |
| Streamed input | same | `stream_states_` | `assemble_stream_input`, expiry, erase | `StreamInput` |
| Sessions and channels of a node | same, `infra-controller/` | `event_queue_`, `request_id_`, `out_zmq_url_`, `llm_task_channel_`, `sessions_`, `shared_task_` | `setup`, `exit`, `taskinfo`, `pause`, `metrics_query`, `reload_config`, the subscriber, the destructors | `NodeSessions` |
| Registry of the unit manager | `unit-manager/` | `port_list`, `work_id_number_counter`, `key_sql` | register, release, `sql_*`, `zmq_bus_publisher_push`, `unit_action_match` | `UnitRegistry` |
| Node and registry together | both, `hybrid-comm/` | | RPC calls that may get no answer | `UnitSystem` |
| TCP access | `unit-manager/`, `network/` | loops and their functors, connections, `connections_`, `counter_port` | accept, establish, send, write, close, destroy, stop | `TcpAccess` |
| Observability | `observability_metrics.cpp` | `series_`, `engine_`, `worker_`, the flags and the status | `observe_*`, `flush_once`, `worker_loop`, `configure`, `stop` | `Observability` |

`Maps` holds the two operators on `std::unordered_map` that several modules use. A module `X_proofs`
holds the theorems about `X`, a module `MCX` its instances for TLC. The proofs about `ClassSchedule`
and `Scheduler` are in `SchedulerQueue_proofs` and `Scheduler_proofs`, those about `TcpAccess` in
`TcpConnections_proofs` and `TcpAccess_proofs`, and those about `Routing`, `RequestHandling` and
`Observability` in `VllmNode_proofs`; for that the definitions of `Routing` and `Observability` have
names of their own (`ScanSpec`, `MetricsSpec`).

Interactions: a client's message reaches `unit_action_match` through its TCP session. Setup, exit and
queries become calls on the RPC server of the node; an inference goes through the unit to the
subscriber of a channel, which calls `inference`. That makes a request under the configuration of the
moment and puts it in the queue; workers take requests from it and run `handle_request`, which asks
`select_endpoint` for an endpoint and reports the result to `update_endpoint_result`; the health
thread judges the same endpoints. `reload_config`, on an RPC thread, replaces models, endpoint list,
limits and metrics store under all of them; `stop()` ends everything.

What is hard here: the copies of settings that threads take under one lock and use under another;
endpoint objects replaced while calls are out; a condition variable notified without its mutex;
request records written by two threads; retries of an output that has begun; answers addressed
through members that two threads share; calls whose lost answer looks like success; functors that
hold bare pointers. `PROJECT.json` lists these hazards by source line, with the properties that watch
them.

## 2. Modules and their correspondence to the code

Each step of a model is what one thread does under one lock, or between two observable points.

**EndpointRuntime.** Endpoint objects (`ep`) are shared pointers: the list `endpoints`, the workers'
calls and the health thread's snapshot refer to them, and an object nothing refers to is destroyed
(`Collected`). A call is three steps: `SelectEndpoint` (reserves a slot, half-opens a circuit whose
time has passed), `CallReturns` (reads the thresholds), `UpdateEndpointResult` (releases and judges).
Health checks have the same three parts. `ReloadEndpoints` makes new objects that copy the runtime
fields of the last listed object of the same key, with no calls. `CircuitOpenElapses` is the clock.
Which available endpoint `select_endpoint` prefers is left open here; it is `Routing`. A threshold of 0
stands for every value below 1: `parse_config` takes such values, `reload_config` raises them to 1
(`Reloadable`).

**Routing, ModelConfig.** `Routing` is the scan of `select_endpoint` as a loop, one endpoint per step:
support, degradation, rank, score, and the reset of the candidate by an endpoint of better rank; its
list and its request are arbitrary. `ModelConfig` says where they come from: `parse_config` and
`reload_config` over JSON bodies in which every key may be absent or malformed, the default endpoint,
the filled fallback chain, profiles and the model a client asks for. A reload may come between the
making of a request and each of its routings, but not during a scan, which holds `endpoints_mtx_`.

**QueueOrder, ClassQueue, ClassSchedule.** `QueueOrder` holds the operators of the nine-slot
schedule and of the order inside a class. `ClassQueue` is the abstract queue: how many requests of
each class wait, and the slot. `ClassSchedule` adds how often each waiting class was passed over.

**Scheduler.** Session threads in `inference`, workers in `worker_loop`, `stop()` and reloads. A
worker that found the queue empty holds `queue_mtx_` until it sleeps (`checked`), and the steps
that need the mutex are disabled meanwhile; `stop()` does not take it. `handle_request` is reduced
to success, failure or being given up; the tasks in `Untimed` have a `timeout_ms` that is not positive,
which curl takes as no timeout, so their calls need not end.

**Reply, RequestHandling.** `Reply` is what a client may see: pieces, then at most one end.
`RequestHandling` is one `handle_request` from the loop over the attempts to the reply, the record
and the metrics, with the deadline and `stop()` as steps that may come at any moment.

**StreamInput.** The subscriber threads in `task_user_data`, each with the streams of its session:
the table lookup that drops expired streams, the store under the state's own mutex, and the assembly
or the error are separate steps. Clients are assumed to send a message to its end before they reuse
its request id, and to set `finish` on the chunk of the highest index and send it last; the others
may come in any order and repeatedly. The assumption matters: the code takes the number of chunks it
holds for the length of the message, so if index 1 expired and index 0 then came with `finish`, it
would pass index 0 on as the whole.

**UnitRegistry.** The `sys` RPC thread registers and releases units and sets and unsets keys; a TCP
thread in `unit_action_match` looks a unit up and pushes through it, without the registry's mutex.
A release is two steps, the delete and the erase of the keys. A push through a deleted unit is
undefined: it may end the process (`PushCrashes`) or appear to work. URLs are reduced to their port.
`PushResult` follows the macro: the `else` after the `ALOGW` in `zmq_bus_publisher_push` binds to the
`if` inside it, so with the default `log_level` a push to an unknown work id returns 0 and the client
gets no "inference data push false". A message with an empty work id, on which `remote_call` throws,
is not modelled.

**NodeSessions, UnitSystem.** `NodeSessions` has the three kinds of thread of a node: the RPC thread
(`Enqueue`, `QueryStarts`, `QueryAnswers`), the event thread (`TakeEvent` and one step for every part
of a handler between two calls), and the subscriber thread of each channel (`Receive`,
`StoreAddress`, `UserData`). The addresses of the answers are in `shared`, which the first two write, and
in the channels, which the last two write. `UnitSystem` joins the calls of the node to the actions of the registry:
`register_unit` may be carried out and not answered (`RegisterLost`: `std::stoi` throws and the node
ends), a release may not be carried out and the node goes on (`Releases`). Without free ports the
registry answers -1, and the node keeps a session of that number. Work ids are assumed to be well
formed, and only a node without pending events is shut down.

**TcpAccess.** The base loop and the I/O loops, each with its queue of functors, the batch that
`doPendingFunctors` has swapped out, and `quit_`. A connection has its state, channel, session,
output buffer and what has been written. The signal handler runs on the main thread, between the
steps of the base loop: it quits the base loop (`StopServer`), queues the destruction of the connections
one by one, in any order, while the I/O loops go on (`DestroyNext`), and then quits and joins the I/O
loops one by one. `stop.behind` is history: the connections whose destruction was still pending, behind
a running batch, when their loop was told to quit. Use of a destroyed loop or server may end the
process.

**Observability.** Samples are told apart, so that one can be followed from its series through the
batch of a flush to the store or to a failed write. The worker, the reload and the end of the node
may all flush; each test of a flag is a step apart from what is done on its strength. `late` and
`overlap` are history: the samples that came too late for the last flush, and whether a reload and
the end of the node were at work together.

## 3. Runs

| Run | Instance | What it shows |
|---|---|---|
| `endpoint_reload` | 1 server, 2 workers, 2 objects, 3 threshold triples, fair health loop | accounting, limits, verdicts and the circuit's hold survive reloads under calls; endpoints heal once nothing fails |
| `endpoint_limit` | 1 server with one slot, 3 objects | *violated*: a reload lets a server have more calls than `max_concurrency` |
| `class_schedule` | at most 3 pending of each class | bounded overtaking; no class starves |
| `scheduler_stop` | 1 client, 2 workers, 2 requests, the first without a timeout, 1 record, fair threads | no request lost, served twice or miscounted, with `stop()` anywhere; every request is answered, also beside a call that hangs; `stop()` drains all workers but one and those that hang |
| `scheduler_queue` | 1 client, 1 worker, 3 requests of 3 classes, 2 settings | stale limits still bound the queue; the threaded queue implements `ClassQueue` |
| `request_handling` | all switches, -1 to 2 retries | one coherent output, one end, agreeing outcome, termination unless a call without a timeout hangs; implements `Reply` |
| `routing` | 18 JSON bodies, 3 models, lists of up to 3 endpoints, 3 actions, 6 messages | an endpoint is lost only to a barred one; a filled chain reaches every endpoint of its list; the model a request is for goes first |
| `stream_input` | 2 sessions, 2 messages each, of 3 kinds around both limits | messages arrive whole and refusals have a cause of their own, while states expire under the thread that extends them |
| `unit_registry` | 3 ports, 2 work ids, 2 clients, 3 calls | ports exact; keys lead to units that live; units, channels, subscribers and sessions stay together; only a push overlapping a release meets a deleted unit |
| `unit_answers` | the same, without `sql_set` and `sql_unset` | *violated*: an answer is about to go to a client that did not ask for it |
| `tcp_access` | 2 I/O loops, 2 connections, 2 answers, counter that wraps at once | session numbers, order of the answers, no send to a deleted connection, one removal, what a stop reaches |
| `observability` | 2 observers, 2 samples, 2 reloads, fair worker and controllers | every sample in exactly one place, only late ones left, enabled means served, everything flushed |

The two violated properties state what the documentation says; `PROJECT.json` quotes it. The trace of
`unit_answers` is a metrics query that the event thread's `taskinfo` or `setup` overtakes: both store
their address in `out_zmq_url_`. Without that conjunct TLC finds the other way in ten steps: a
`taskinfo` of one client changes the push URL of a channel between the arrival of another client's
inference and its submission.

Several properties hold only with the exception they name, and the exception is what the model found.
Each can be seen in the definition:
- `LostOnlyToBarred`: an endpoint that must not be degraded to can still displace a usable candidate,
  because the scan drops its candidate before it asks.
- `FilledChainReachesAll`: a chain filled for one list is kept when a reload brings another one, so a
  model that only the new list serves is out of reach of plain requests.
- `AtMostOneMissesStop`: one worker can miss the notification of `stop()`, which then waits for ever.
- `RunningMeansServed`, `OutcomeAgrees`: a request that is given up at `stop()` gets no final message
  and its record stays `Running`.
- `EveryRequestAnswered`, `StopEnds`, `Terminates`: a call whose `timeout_ms` is 0 may keep its worker,
  and `stop()`, for ever.
- `OwnModelFirst`: a model that a client asks for and that the chain, configured or filled, already
  holds keeps its place there; an endpoint that serves it may be passed over for a model before it.
- `UnitsFollowChannels`: a release that the registry never got is not repeated, and its ports stay
  taken.
- `StopReachesSessions`: a session survives the stop when its loop is told to quit while it runs a batch
  that does not hold the session's `connectDestroyed` yet.
- `EnabledIsServed`, `FlushedInTheEnd`: a reload that meets the end of the node may join twice.

The deadline of a request is tested only before an attempt, so a result may come after it;
`sample/test.py` line 264 calls it an "End-to-end request deadline in milliseconds".

*Bounds.* `StreakCap` saturates the streaks at the largest threshold: only comparisons with
thresholds read them. Two workers are enough for every pairwise race of workers; the endpoint and
unit instances are small because their safety properties are also proved for all constants. The
scheduler's runs have one session thread: two at once, with two workers and fairness, are out of
TLC's reach. The races between session threads over the queue, the records and the counters are
covered by the proofs, which hold for any number of them; only the liveness of the scheduler rests
on one session thread.
`max_task_records` is 1 in `scheduler_stop` so that records are evicted. The queue bounds are small
enough that each of the three rejections occurs. The stream limits are three chunks and three bytes,
and a state expires at the first tick of the clock. With an odd number of ports they run out between
the two ports of a unit; with three of them a node has one unit with ports and then the session -1.
That two units that live share no port is therefore left to the proofs, which hold for any number of ports.
`tcp_access` has one connection on each of two loops; the same properties were checked once with a
third connection, two on one loop, and one answer (7.1 million states, past the time of a run), and are
proved for any number.
`LastNumber` is 0, so the counter is set back after every connection and two loops may meet in it. In
`routing` there is one request at a time, because requests share nothing but the settings, and
neither `VLLM_BASE_URL` nor `VLLM_MOCK` is set. Deadlock is not checked where a process, a
request or a bounded client comes to its end. Symmetry is used only in runs without liveness
properties.

*Fairness.* Threads run. `Scheduler` assumes strong fairness of the client and worker threads,
because a thread that asks for `queue_mtx_` again and again gets it in the end (a mutex that others
release infinitely often). A call ends when its request has a timeout; `timeout_ms` may be 0, by
`parse_config`, a profile or the request itself, and then nothing is assumed (`MayHang`, and `timeout`
in `RequestHandling`), and the properties say what that can cost. Nothing is assumed to call
`stop()`, to reload, or to wake a worker without a notification. `EndpointRuntime` assumes that the
health loop goes on, nothing of the workers; its checks end as long as `health_check_timeout_ms` is
positive, which the default and every reload ensure and `parse_config` does not. That failures and
reloads end is part of the property `Recovers`.
`Observability` assumes weak fairness of the worker, whose sleep `wait_for` bounds, and of a stop or
a configure that has begun; no observer, reload or end of the node is assumed to come.
`ClassSchedule` assumes that a queue that is not empty is popped.

## 4. Proofs

All are checked by TLAPS for every value of the constants that satisfies the named assumptions; the
invariants were checked by TLC first.

`EndpointRuntime_proofs` (from `EndpointAssumption`). The inductive invariant `IInv` joins the
types, `InflightExact`, `CallsBounded` and `VerdictsFollowStreaks`. None of the last two survives
alone: a release is only safe when the object really carries the call, which is the exact
accounting, and the half-open bound needs `half_open_inflight <= inflight`. Each action has its
lemma; the lemmas on single objects (`TakenSound`, `ReleasedSound`, `JudgedSound`, `CopiedSound`) do
the field reasoning. Theorems: `TypeCorrect`, `ExactAccounting`, `BoundedCalls`, `SoundVerdicts`, and
`CircuitHolds`, the action property that an open circuit is left only by time or by successes. They hold
for thresholds below 1 as well, where the first failure or success decides.

`SchedulerQueue_proofs`, `Scheduler_proofs` (from `QueueAssumption` and `SchedulerAssumption`: finite
sets of session threads and of workers, at least one worker and one setting, natural limits, any tasks
without a timeout).
- `Overtaking`: the high class is passed over at most 4 times in a row, the normal class 6, the
  background class 8. The count alone is not inductive; `SkipsFollowSlot` bounds it by the slot the
  schedule has reached, and `PopSkips` shows a pop keeps it.
- The invariant `IInv` of `Scheduler` joins the checked invariants to what they need. `TasksApart`:
  session threads never have the same task, and what a session thread has not queued yet, nobody else
  has; `ServedOnce` is not inductive without it. `RecordsFollow`: a task has one record, made after the
  task was queued, whose status stays behind where the task is; that is why the two threads that
  write records cannot take a status back. `MutexHeld`: at most one worker is between its test and
  its wait, and then the queue is empty; `NoLostWakeup` and `AtMostOneMissesStop` come from it.
  `ThresholdCopied`: the threshold a worker pops with is that of some setting.
- `PopEffect` says what a pop takes (a request of the class the schedule comes to, from the place the
  scan finds), and `ErasedAt` where the others are afterwards. For each conjunct there is one lemma
  over all actions: `StepTypes`, `StepTasks`, `StepMutex`, `StepThreshold`, `StepBounds`,
  `StepRecords`, `StepBalance`. `StepBalance` gives each action the amounts by which it changes the
  nine sums of `MetricsBalance`, and `ChangesBalance` adds them up once.
- Theorems: `RequestsServedOnce`, `WakeupsKept`, `StopMissedByOne`, `RunningServed`,
  `CountersBalance`, `QueueBounded`, `StatusAdvances` (the action property), and `QueueByClass`, that
  the threaded queue implements `ClassQueue`. The last assumes `OneThreshold`: when the settings have
  different thresholds, a request changes its class on reload and there is no one queue by class.
- What these proofs use of numbers and finite sets is the formula `SetFacts`, which the lemmas
  assume; `SetFactsHold` proves it from the library, next to the theorems.

`VllmNode_proofs`, three independent parts.
- Routing (from `RoutingAssumption`). The loop invariant of the scan, `ScanIInv`: what it remembers of
  its candidate is that candidate's rank and score, and `LostOnlyToBarred` of the part of the list
  already examined. A turn of the loop skips, keeps, takes or drops (`Turn`), and `TurnLoses` follows
  each. `LosesOnlyToBarred`, and `FindsTheBest` where nothing is barred, hold of every list and
  request; the lists of `ModelConfig` are among them. That a set of numbers has a least element is
  assumed by the lemmas as `LeastExists` and proved from the library at the end.
- RequestHandling (from `HandlingAssumption`). `Pieces` ties a message to the attempt under way and to
  its place in the output, `Progress` says that only deltas are sent before a call succeeds and none
  is left when the next attempt begins, `Attempts` counts. Without `Progress` a retry could not be
  told from a continuation. `OutputIsCoherent`, `OutcomesAgree` and `RetriesAreUsedUp` follow.
- Observability (from `ObservabilityAssumption`). Samples are numbered, so a new one is nowhere yet
  (`Counted`), and a thread that takes a batch has none left (`Batches`), which makes `OnePlace`
  inductive. The rest is `Orderly`: as long as one controller works at a time, each of its steps finds what the step before it left (`Phase`). It is claimed only
  without `overlap`, which never goes away again. Theorems `SamplesInOnePlace`, `StopLeavesOnlyLate`,
  `EnabledMeansServed`.

`UnitRegistry_proofs` (from `RegistryAssumption`). `PortsApart`, that no two live
units share a port, is what a release needs in order to give back exactly two; `Threads` says what the
two threads have in hand. Theorems `PortsAreExact`, `KeysLeadToUnits`, `DeletedMeansOverlap`.

`UnitSystem_proofs` (also from `NodeAssumption` and `SqlAssumption`). Every step of the composed
system is a step of the registry or leaves it alone (`SystemImplementsRegistry`), so the registry's
theorems hold of it. `NodeInv` adds what the event thread relies on between its steps (`SessionWork`),
for `ChannelsHaveUnits` and `SessionsKeepChannels`.

`TcpConnections_proofs`, `TcpAccess_proofs` (from `TcpAssumption`: at least one I/O loop; any number of
connections and answers, any last number). The first has the invariant `IInv`, what a step does to the
queue of a loop, and the parts of the invariant about single connections; the second has the rest and
the theorems.
- `Work(l)` is the batch of a loop followed by what is pending. Taking a batch leaves it as it is, so
  a step can only put a functor at its end (`Pushed`) or take its first (`Popped`).
  `StepWork` says which step does which, and most of the proof is about places in that one sequence.
- `Life` goes with each connection: its state, channel and session agree, exactly one functor is going
  to establish it as long as its channel is new, and after the stop what is not closed yet has a
  `connectDestroyed` behind its `connectEstablished` (`Doomed`). `ClosedOnce` is not inductive without
  it: a connection that is established a second time would also close a second time.
- `Placed` keeps each functor in the loop it belongs to, and a send behind the making of its session;
  `ConnectionsHeld` comes from it.
- `Reached` and `Joined` follow the signal handler. No loop is told to quit (`Told`) before the
  destruction of every connection is queued, and a loop that was told to takes what is pending as a
  batch before it ends, unless it was running one: then what was pending is in `stop.behind`.
  `StopReaches` comes from them.
- `Numbered` counts the loops between `fetch_add` and the end of `onConnection` (`Between`): the counter
  passes the last number by no more than these, and numbers given out since it was last set back are
  below it. `NumbersOnce` comes from it.
- `AnswersOrdered` needs only `Answered`, that no answer is newer than the newest.

Model-checked only: the properties of `StreamInput`, and those of `ModelConfig` that are not
`Routing`'s; the refinement of `Reply`; and all liveness.
This TLAPS supports neither fairness nor `ENABLED`, nor induction over data, so what the folds of
`ModelConfig` and `StreamInput` compute stays with TLC.

## 5. Not modelled

- *Reporting.* `taskinfo`, `metrics_query`, `snapshot`, queue and latency statistics, percentiles, the
  arithmetic of a series: they read state and format it.
- *Texts.* JSON and HTTP syntax, prompt text, token estimates, logging, work id formatting are
  abstracted to what they decide.
- *TCP input.* What one read returns is taken for one message; the bytes are not modelled.
- *Unused code.* `TcpClient` and `Connector`, and `shutdown`, `forceClose`, `startRead` and `stopRead`
  of a connection: no program of the repository calls them.
- *Memory.* The cycle between a connection and its session, which keeps both for ever, matters here
  only because sends rely on it (`SendsFindConnection`).
- *Shutdown of a busy node*, and a signal that interrupts the main thread inside a critical section.
- *Outside the repository.* The time-series engine, ZeroMQ, curl, the operating system.
- *Start-up, samples, scripts and the demonstration node* add no behaviour.

Three quarters of the repository's lines are two third-party headers, `utils/json.hpp` and
`libzmq/zmq.h`. Of the code that is the project's own, the map covers the parts that change shared
state; what remains of it is the list above.
