------------------------------ MODULE Scheduler ------------------------------
(***************************************************************************)
(* The request queue of vllm_task and the threads around it                *)
(* (node/vllm-client/src/main.cpp): the session threads that call          *)
(* inference, the worker pool that runs pop_next_request and               *)
(* handle_request, the queue's mutex and condition variable, the request   *)
(* records, the counters of MetricsCollector, hot reload of the queue      *)
(* limits, and stop().                                                     *)
(*                                                                         *)
(* Every step is what one thread does under one lock.  A worker that found *)
(* the queue empty still holds queue_mtx_ when it goes to sleep            *)
(* ("checked"); every other critical section of queue_mtx_ is one step.    *)
(* The attempts of handle_request are the module RequestHandling; here a   *)
(* handled request succeeds, fails, or is given up because of stop().      *)
(***************************************************************************)
EXTENDS QueueOrder, FiniteSets

CONSTANTS
    Clients,          \* the session threads that call inference
    Workers,          \* the threads of workers_
    Priorities,       \* the priorities requests are given
    Configs,          \* the queue settings that parse_config and reload_config can install
    MaxTasks,         \* bound on task_id
    Untimed,          \* the tasks whose timeout_ms is not positive, which curl takes as no timeout
    max_task_records, \* the limit on records_
    mock_mode         \* requests are answered by run_mock

Config == [max_queue_size : Nat, low_priority_drop_threshold : Nat, high_priority_threshold : Nat]

ASSUME SchedulerAssumption ==
    /\ IsFiniteSet(Clients)
    /\ IsFiniteSet(Workers) /\ Workers # {}
    /\ Configs # {} /\ Configs \subseteq Config
    /\ Priorities \subseteq Nat
    /\ MaxTasks \in Nat /\ Untimed \subseteq 1..MaxTasks
    /\ max_task_records \in Nat \ {0}
    /\ mock_mode \in BOOLEAN

VARIABLES
    config,      \* max_queue_size_, low_priority_drop_threshold_, high_priority_threshold_
    counter,     \* task_id_counter_
    client,      \* where each session thread is in inference
    pending,     \* pending_
    slot,        \* queue_schedule_slot_
    worker,      \* where each worker is in worker_loop
    records,     \* records_
    metrics,     \* the counters of MetricsCollector
    stop,        \* where stop() is; stopping_ is set from "flagged" on
    status,      \* status_
    replies      \* how many final replies each task was sent

vars == <<config, counter, client, pending, slot, worker, records, metrics, stop, status, replies>>

TaskIds == 1..MaxTasks
Request == [task_id : TaskIds, priority : Priorities]
NoRequest == [task_id |-> 0, priority |-> 0]

IdleClient == [pc |-> "idle", req |-> NoRequest, config |-> CHOOSE c \in Configs : TRUE]
NewWorker == [pc |-> "config", high |-> 0, req |-> NoRequest]

stopping == stop # "no"

overload_threshold(c) == (c.max_queue_size * 9) \div 10

\* Mutant of Rejected: the limits are off by one.
RejectedLate(c, n, priority) ==
    \/ c.max_queue_size > 0 /\ n > c.max_queue_size
    \/ /\ overload_threshold(c) > 0 /\ n > overload_threshold(c)
       /\ priority < c.high_priority_threshold
    \/ /\ c.low_priority_drop_threshold > 0 /\ n > c.low_priority_drop_threshold
       /\ priority < 4

\* The conditions under which inference turns a request away from a queue of n requests.
Rejected(c, n, priority) ==
    \/ c.max_queue_size > 0 /\ n >= c.max_queue_size
    \/ /\ overload_threshold(c) > 0 /\ n >= overload_threshold(c)
       /\ priority < c.high_priority_threshold
    \/ /\ c.low_priority_drop_threshold > 0 /\ n >= c.low_priority_drop_threshold
       /\ priority < 4

\* record_pending: append, then drop the oldest records over the limit.
WithPending(rs, t) ==
    LET all == Append(rs, [task_id |-> t, status |-> "Pending"]) IN
    IF Len(all) > max_task_records THEN Tail(all) ELSE all

\* update_record: nothing happens when the record is not there.
WithStatus(rs, t, s) ==
    [i \in DOMAIN rs |-> IF rs[i].task_id = t THEN [rs[i] EXCEPT !.status = s] ELSE rs[i]]

\* Mutant of Without: the request is copied, not moved out.
NotErased(q, i) == q

Without(q, i) == SubSeq(q, 1, i - 1) \o SubSeq(q, i + 1, Len(q))

\* A critical section of queue_mtx_ other than the one a sleeping worker gave up.
QueueUnlocked == \A w \in Workers : worker[w].pc # "checked"

Init ==
    /\ config \in Configs
    /\ counter = 0
    /\ client = [c \in Clients |-> IdleClient]
    /\ pending = << >>
    /\ slot = 0
    /\ worker = [w \in Workers |-> NewWorker]
    /\ records = << >>
    /\ metrics = [total |-> 0, success |-> 0, failed |-> 0, rejected |-> 0]
    /\ stop = "no"
    /\ status = "Ready"
    /\ replies = [t \in TaskIds |-> 0]
-----------------------------------------------------------------------------
\* inference takes a task_id before it takes any lock ...
Inference(c, p) ==
    /\ client[c].pc = "idle"
    /\ counter < MaxTasks
    /\ counter' = counter + 1
    /\ client' = [client EXCEPT ![c] =
                    [@ EXCEPT !.pc = "numbered", !.req = [task_id |-> counter + 1, priority |-> p]]]
    /\ UNCHANGED <<config, pending, slot, worker, records, metrics, stop, status, replies>>

\* ... then copies the queue limits under config_mtx_ ...
ReadLimits(c) ==
    /\ client[c].pc = "numbered"
    /\ client' = [client EXCEPT ![c] = [@ EXCEPT !.pc = "admit", !.config = config]]
    /\ UNCHANGED <<config, counter, pending, slot, worker, records, metrics, stop, status, replies>>

\* ... and, under queue_mtx_, queues the request or turns it away by the limits it copied.
Admit(c) ==
    LET turnedAway == Rejected(client[c].config, Len(pending), client[c].req.priority) IN
    /\ client[c].pc = "admit"
    /\ QueueUnlocked
    /\ client' = [client EXCEPT ![c].pc = IF turnedAway THEN "rejected" ELSE "accepted"]
    /\ pending' = IF turnedAway THEN pending ELSE Append(pending, client[c].req)
    /\ UNCHANGED <<config, counter, slot, worker, records, metrics, stop, status, replies>>

\* Mutant of Reject: on_queue_reject counts the reject but not the failure.
RejectNotFailed(c) ==
    /\ client[c].pc = "rejected"
    /\ metrics' = [metrics EXCEPT !.rejected = @ + 1]
    /\ replies' = [replies EXCEPT ![client[c].req.task_id] = @ + 1]
    /\ client' = [client EXCEPT ![c] = IdleClient]
    /\ UNCHANGED <<config, counter, pending, slot, worker, records, stop, status>>

\* on_queue_reject and emit_error.
Reject(c) ==
    /\ client[c].pc = "rejected"
    /\ metrics' = [metrics EXCEPT !.rejected = @ + 1, !.failed = @ + 1]
    /\ replies' = [replies EXCEPT ![client[c].req.task_id] = @ + 1]
    /\ client' = [client EXCEPT ![c] = IdleClient]
    /\ UNCHANGED <<config, counter, pending, slot, worker, records, stop, status>>

\* on_request_accepted.
CountAccepted(c) ==
    /\ client[c].pc = "accepted"
    /\ metrics' = [metrics EXCEPT !.total = @ + 1]
    /\ client' = [client EXCEPT ![c].pc = "counted"]
    /\ UNCHANGED <<config, counter, pending, slot, worker, records, stop, status, replies>>

\* record_pending: by now a worker may have taken the request, or finished it.
RecordPending(c) ==
    /\ client[c].pc = "counted"
    /\ records' = WithPending(records, client[c].req.task_id)
    /\ client' = [client EXCEPT ![c].pc = "recorded"]
    /\ UNCHANGED <<config, counter, pending, slot, worker, metrics, stop, status, replies>>

\* Mutant of NotifyOne: the notification is missing.
NotifyNobody(c) ==
    /\ client[c].pc = "recorded"
    /\ client' = [client EXCEPT ![c] = IdleClient]
    /\ UNCHANGED <<config, counter, pending, slot, worker, records, metrics, stop, status, replies>>

\* queue_cv_.notify_one wakes one sleeping worker, if there is one.
NotifyOne(c) ==
    LET asleep == {w \in Workers : worker[w].pc = "sleeping"} IN
    /\ client[c].pc = "recorded"
    /\ client' = [client EXCEPT ![c] = IdleClient]
    /\ \/ asleep = {} /\ UNCHANGED worker
       \/ \E w \in asleep : worker' = [worker EXCEPT ![w].pc = "lock"]
    /\ UNCHANGED <<config, counter, pending, slot, records, metrics, stop, status, replies>>
-----------------------------------------------------------------------------
\* pop_next_request copies the class threshold before it waits, however long it then waits ...
ReadThreshold(w) ==
    /\ worker[w].pc = "config"
    /\ worker' = [worker EXCEPT ![w] =
                    [@ EXCEPT !.pc = "lock", !.high = config.high_priority_threshold]]
    /\ UNCHANGED <<config, counter, client, pending, slot, records, metrics, stop, status, replies>>

\* The classes that have a request, by the threshold the worker copied.
WaitingClasses(w) == {k \in Classes : InClass(pending, k, worker[w].high) # {}}

\* Mutant of PopRequest: the slot advances once however many slots were probed.
PopAdvancingOnce(w) ==
    LET best == BestInClass(pending, ServedClass(WaitingClasses(w), slot), worker[w].high) IN
    /\ worker[w].pc = "lock"
    /\ QueueUnlocked
    /\ pending # << >>
    /\ slot' = (slot + 1) % kScheduleSize
    /\ worker' = [worker EXCEPT ![w] = [@ EXCEPT !.pc = "popped", !.req = pending[best]]]
    /\ pending' = Without(pending, best)
    /\ UNCHANGED <<config, counter, client, records, metrics, stop, status, replies>>

\* ... takes queue_mtx_ and the request the schedule is at ...
PopRequest(w) ==
    LET N == WaitingClasses(w)
        best == BestInClass(pending, ServedClass(N, slot), worker[w].high)
    IN
    /\ worker[w].pc = "lock"
    /\ QueueUnlocked
    /\ pending # << >>
    /\ slot' = NextSlot(N, slot)
    /\ worker' = [worker EXCEPT ![w] = [@ EXCEPT !.pc = "popped", !.req = pending[best]]]
    /\ pending' = Without(pending, best)
    /\ UNCHANGED <<config, counter, client, records, metrics, stop, status, replies>>

\* Mutant of FindEmpty: the predicate of the wait does not test stopping_.
FindEmptyStopping(w) ==
    /\ worker[w].pc = "lock"
    /\ QueueUnlocked
    /\ pending = << >>
    /\ worker' = [worker EXCEPT ![w].pc = "checked"]
    /\ UNCHANGED <<config, counter, client, pending, slot, records, metrics, stop, status, replies>>

\* ... or finds the predicate of the wait false, still holding the mutex ...
FindEmpty(w) ==
    /\ worker[w].pc = "lock"
    /\ QueueUnlocked
    /\ pending = << >> /\ ~ stopping
    /\ worker' = [worker EXCEPT ![w].pc = "checked"]
    /\ UNCHANGED <<config, counter, client, pending, slot, records, metrics, stop, status, replies>>

\* ... and then sleeps, giving the mutex up in the same step ...
Sleep(w) ==
    /\ worker[w].pc = "checked"
    /\ worker' = [worker EXCEPT ![w].pc = "sleeping"]
    /\ UNCHANGED <<config, counter, client, pending, slot, records, metrics, stop, status, replies>>

\* ... from which it may also wake without a notification ...
WakeSpuriously(w) ==
    /\ worker[w].pc = "sleeping"
    /\ worker' = [worker EXCEPT ![w].pc = "lock"]
    /\ UNCHANGED <<config, counter, client, pending, slot, records, metrics, stop, status, replies>>

\* ... or returns false, which ends the worker: stopping, and nothing left to drain.
WorkerExit(w) ==
    /\ worker[w].pc = "lock"
    /\ QueueUnlocked
    /\ pending = << >> /\ stopping
    /\ worker' = [worker EXCEPT ![w].pc = "done"]
    /\ UNCHANGED <<config, counter, client, pending, slot, records, metrics, stop, status, replies>>

\* Mutant of StartRequest: the record is marked as a success up front.
StartAsSuccess(w) ==
    /\ worker[w].pc = "popped"
    /\ records' = WithStatus(records, worker[w].req.task_id, "Success")
    /\ status' = "Running"
    /\ worker' = [worker EXCEPT ![w].pc = "running"]
    /\ UNCHANGED <<config, counter, client, pending, slot, metrics, stop, replies>>

\* worker_loop marks the record and the task as running.
StartRequest(w) ==
    /\ worker[w].pc = "popped"
    /\ records' = WithStatus(records, worker[w].req.task_id, "Running")
    /\ status' = "Running"
    /\ worker' = [worker EXCEPT ![w].pc = "running"]
    /\ UNCHANGED <<config, counter, client, pending, slot, metrics, stop, replies>>

\* handle_request makes no attempt once stopping_ is set; run_mock does not look at it.
Attempt(w) ==
    /\ worker[w].pc = "running"
    /\ worker' = [worker EXCEPT ![w].pc =
                    IF stopping /\ ~ mock_mode THEN "handled" ELSE "calling"]
    /\ UNCHANGED <<config, counter, client, pending, slot, records, metrics, stop, status, replies>>

\* The result was sent to the client; then the record is updated ...
HandleSuccess(w) ==
    /\ worker[w].pc = "calling"
    /\ replies' = [replies EXCEPT ![worker[w].req.task_id] = @ + 1]
    /\ records' = WithStatus(records, worker[w].req.task_id, "Success")
    /\ worker' = [worker EXCEPT ![w].pc = "succeeded"]
    /\ UNCHANGED <<config, counter, client, pending, slot, metrics, stop, status>>

\* ... and the success counted.
CountSuccess(w) ==
    /\ worker[w].pc = "succeeded"
    /\ metrics' = [metrics EXCEPT !.success = @ + 1]
    /\ worker' = [worker EXCEPT ![w].pc = "handled"]
    /\ UNCHANGED <<config, counter, client, pending, slot, records, stop, status, replies>>

\* Mutant of HandleFailure: the record is not updated.
FailureUnrecorded(w) ==
    /\ worker[w].pc = "calling"
    /\ ~ mock_mode
    /\ worker' = [worker EXCEPT ![w].pc = IF stopping THEN "handled" ELSE "failed"]
    /\ UNCHANGED <<config, counter, client, pending, slot, records, metrics, stop, status, replies>>

\* The attempts failed or the deadline passed.  The record is updated, unless stop() came meanwhile: then
\* the request is given up without a word ...
HandleFailure(w) ==
    /\ worker[w].pc = "calling"
    /\ ~ mock_mode
    /\ worker' = [worker EXCEPT ![w].pc = IF stopping THEN "handled" ELSE "failed"]
    /\ records' = IF stopping THEN records
                  ELSE WithStatus(records, worker[w].req.task_id, "Failed")
    /\ UNCHANGED <<config, counter, client, pending, slot, metrics, stop, status, replies>>

\* ... the failure counted, and the error sent.
CountFailure(w) ==
    /\ worker[w].pc = "failed"
    /\ metrics' = [metrics EXCEPT !.failed = @ + 1]
    /\ replies' = [replies EXCEPT ![worker[w].req.task_id] = @ + 1]
    /\ worker' = [worker EXCEPT ![w].pc = "handled"]
    /\ UNCHANGED <<config, counter, client, pending, slot, records, stop, status>>

\* worker_loop tests stopping_ ...
TestStopping(w) ==
    /\ worker[w].pc = "handled"
    /\ worker' = [worker EXCEPT ![w] = IF stopping THEN NewWorker ELSE [@ EXCEPT !.pc = "ready"]]
    /\ UNCHANGED <<config, counter, client, pending, slot, records, metrics, stop, status, replies>>

\* ... and then stores Ready, whatever stop() or another worker stored in between.
StoreReady(w) ==
    /\ worker[w].pc = "ready"
    /\ status' = "Ready"
    /\ worker' = [worker EXCEPT ![w] = NewWorker]
    /\ UNCHANGED <<config, counter, client, pending, slot, records, metrics, stop, replies>>
-----------------------------------------------------------------------------
\* stop() sets stopping_ without queue_mtx_ ...
StopFlag ==
    /\ stop = "no"
    /\ stop' = "flagged"
    /\ UNCHANGED <<config, counter, client, pending, slot, worker, records, metrics, status, replies>>

\* ... stores Stopping and wakes every worker that sleeps at this moment ...
StopNotify ==
    /\ stop = "flagged"
    /\ stop' = "join"
    /\ status' = "Stopping"
    /\ worker' = [w \in Workers |->
                    IF worker[w].pc = "sleeping" THEN [worker[w] EXCEPT !.pc = "lock"]
                    ELSE worker[w]]
    /\ UNCHANGED <<config, counter, client, pending, slot, records, metrics, replies>>

\* ... and joins them all.
StopJoin ==
    /\ stop = "join"
    /\ \A w \in Workers : worker[w].pc = "done"
    /\ stop' = "stopped"
    /\ status' = "Stopped"
    /\ UNCHANGED <<config, counter, client, pending, slot, worker, records, metrics, replies>>

\* reload_config installs new limits under config_mtx_; requests that are queued stay.
ReloadLimits ==
    /\ config' \in Configs
    /\ UNCHANGED <<counter, client, pending, slot, worker, records, metrics, stop, status, replies>>
-----------------------------------------------------------------------------
ClientStep(c) ==
    ReadLimits(c) \/ Admit(c) \/ Reject(c) \/ CountAccepted(c) \/ RecordPending(c) \/ NotifyOne(c)

WorkerStep(w) ==
    \/ ReadThreshold(w) \/ PopRequest(w) \/ FindEmpty(w) \/ Sleep(w) \/ WorkerExit(w)
    \/ StartRequest(w) \/ Attempt(w) \/ HandleSuccess(w) \/ CountSuccess(w) \/ HandleFailure(w)
    \/ CountFailure(w) \/ TestStopping(w) \/ StoreReady(w)

Next ==
    \/ \E c \in Clients : ClientStep(c) \/ \E p \in Priorities : Inference(c, p)
    \/ \E w \in Workers : WorkerStep(w) \/ WakeSpuriously(w)
    \/ StopFlag \/ StopNotify \/ StopJoin \/ ReloadLimits

Spec == Init /\ [][Next]_vars

\* The worker is in a vLLM call that need not end.
MayHang(w) == ~ mock_mode /\ worker[w].pc = "calling" /\ worker[w].req.task_id \in Untimed

\* Threads run, and queue_mtx_ is granted in the end to a thread that keeps asking for it; a vLLM
\* call ends if it has a timeout.  Nobody has to wake without a notification, call stop or reload.
Fairness ==
    /\ \A c \in Clients : SF_vars(ClientStep(c))
    /\ \A w \in Workers : SF_vars(~ MayHang(w) /\ WorkerStep(w))
    /\ WF_vars(StopNotify) /\ WF_vars(StopJoin)

FairSpec == Spec /\ Fairness
-----------------------------------------------------------------------------
Limited ==
    \A c \in Configs : overload_threshold(c) > 0 /\ c.low_priority_drop_threshold > 0

\* The queued requests that are below the high class under every setting, and the background ones.
NeverHigh == {i \in DOMAIN pending : \A c \in Configs : pending[i].priority < c.high_priority_threshold}
Background == {i \in DOMAIN pending : pending[i].priority < 4}

\* The limits inference applies to copies of the settings still bound the queue while reload_config
\* changes them.  When every setting limits it, the queue never holds more than the largest
\* max_queue_size, no more requests below the high class than the largest overload threshold,
\* and no more background requests than the largest low_priority_drop_threshold.
AdmissionBounds ==
    Limited =>
        /\ \E c \in Configs : Len(pending) <= c.max_queue_size
        /\ \E c \in Configs : Cardinality(NeverHigh) <= overload_threshold(c)
        /\ \E c \in Configs : Cardinality(Background) <= c.low_priority_drop_threshold

\* The worker has request t and has not sent its reply.
Serving(w, t) == worker[w].req.task_id = t /\ worker[w].pc \in {"popped", "running", "calling", "failed"}

\* A request is in the queue or with one worker, never twice, and is sent at most one final reply:
\* a rejection from inference, or the result or the error from the worker that popped it.
ServedOnce ==
    /\ \A i, j \in DOMAIN pending : pending[i].task_id = pending[j].task_id => i = j
    /\ \A i \in DOMAIN pending, w \in Workers : ~ Serving(w, pending[i].task_id)
    /\ \A v, w \in Workers, t \in TaskIds : Serving(v, t) /\ Serving(w, t) => v = w
    /\ \A t \in TaskIds :
         /\ replies[t] <= 1
         /\ replies[t] = 1 => /\ \A w \in Workers : ~ Serving(w, t)
                              /\ \A i \in DOMAIN pending : pending[i].task_id # t

\* The condition variable loses no request: as long as stop() was not called, a queue that holds a
\* request has a worker that is awake or a session thread that has yet to call notify_one.
NoLostWakeup ==
    pending # << >> /\ ~ stopping =>
        \/ \E w \in Workers : worker[w].pc # "sleeping"
        \/ \E c \in Clients : client[c].pc \in {"accepted", "counted", "recorded"}

\* stop() sets stopping_ and notifies without queue_mtx_, so a worker that tested the predicate
\* before can sleep through it; but after the notification at most one worker can.  When stop() returns
\* no thread stores into status_ any more, so Stopped stays, although a worker that tested stopping_
\* before may store Ready over Stopping.
AtMostOneMissesStop ==
    /\ stop \in {"join", "stopped"} =>
         Cardinality({w \in Workers : worker[w].pc \in {"checked", "sleeping"}}) <= 1
    /\ stop = "stopped" => status = "Stopped" /\ \A w \in Workers : worker[w].pc = "done"

\* A record says Running only while a worker has the request, or when stop() made the worker give
\* it up; update_record and record_pending come from different threads in any order.
RunningMeansServed ==
    \A i \in DOMAIN records : records[i].status = "Running" =>
        stopping \/ \E w \in Workers : Serving(w, records[i].task_id)

Rank(s) == CASE s = "Pending" -> 0 [] s = "Running" -> 1 [] OTHER -> 2

\* Whatever the order of the threads, the status taskinfo shows of a request never goes back, and a
\* final status never changes.
RecordsAdvance ==
    [][\A i \in DOMAIN records, j \in DOMAIN records' :
         records[i].task_id = records'[j].task_id =>
            \/ records'[j] = records[i]
            \/ Rank(records'[j].status) > Rank(records[i].status)]_vars

ClientsAt(pcs) == Cardinality({c \in Clients : client[c].pc \in pcs})
WorkersAt(pcs) == Cardinality({w \in Workers : worker[w].pc \in pcs})

\* The counters of MetricsCollector lose nothing: every task id is counted once as accepted or
\* rejected or is still on its way to be, and every accepted request is a success, a failure, or
\* still queued or served; only requests given up at stop() are missing from the outcomes.
MetricsBalance ==
    LET accepted == metrics.total + ClientsAt({"accepted"})
        outcomes == metrics.success + (metrics.failed - metrics.rejected)
        underway == Len(pending) + WorkersAt({"popped", "running", "calling", "succeeded", "failed"})
    IN
    /\ counter = accepted + metrics.rejected + ClientsAt({"numbered", "admit", "rejected"})
    /\ IF stopping THEN accepted >= outcomes + underway ELSE accepted = outcomes + underway

\* Every request that inference was called with is answered, unless the node is stopped.  A call
\* without a timeout that never ends keeps only its own request and its own worker: it leaves another
\* request unanswered only when every worker is in such a call.
EveryRequestAnswered ==
    \A t \in TaskIds :
        \/ counter >= t ~> replies[t] = 1 \/ stopping
        \/ <>[](\E w \in Workers : MayHang(w) /\ worker[w].req.task_id = t)
        \/ <>[](\A w \in Workers : MayHang(w))

\* stop() drains: once it has notified it returns, or waits for good for workers of which at most one
\* has missed the notification; the others are in calls without a timeout.
StopEnds ==
    \/ stop = "join" ~> stop = "stopped"
    \/ <>[]/\ WorkersAt({"sleeping"}) <= 1
           /\ \E w \in Workers : worker[w].pc # "done"
           /\ \A w \in Workers : worker[w].pc \in {"sleeping", "done"} \/ MayHang(w)
-----------------------------------------------------------------------------
HighThreshold == CHOOSE h \in {c.high_priority_threshold : c \in Configs} : TRUE

ByClass == INSTANCE ClassQueue WITH
    MaxPending <- MaxTasks,
    at <- slot,
    count <- [k \in Classes |-> Cardinality(InClass(pending, k, HighThreshold))]

\* When all settings have the same high_priority_threshold, the queue under all its threads behaves
\* as the class queue whose fairness ClassSchedule states: each admission adds a request to its
\* class, and each pop, whichever worker makes it, takes one of the class the schedule is at.
ImplementsClassQueue == ByClass!QueueSpec
=============================================================================
