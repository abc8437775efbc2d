-------------------------- MODULE EndpointRuntime --------------------------
(***************************************************************************)
(* The runtime state of the vLLM endpoints behind one vllm_task: in-flight *)
(* accounting, the health verdict, the circuit breaker, the health loop    *)
(* and the hot reload of the endpoint list                                 *)
(* (node/vllm-client/src/main.cpp).                                        *)
(*                                                                         *)
(* A VllmEndpoint is a shared_ptr object: the endpoint list, the worker    *)
(* that is calling it and the snapshot of the health loop each hold a      *)
(* reference, and a reload replaces the objects of the list.  Objects are  *)
(* therefore named separately from the endpoint_runtime_key they stand     *)
(* for.  Which of the available endpoints scores best is abstracted to a   *)
(* choice; module Routing models the scoring itself.                       *)
(***************************************************************************)
EXTENDS Integers, FiniteSets, Sequences

CONSTANTS
    Objects,      \* names of VllmEndpoint objects (allocations)
    Keys,         \* endpoint_runtime_key values: base_url|served_model
    Workers,      \* worker threads, each with at most one call in flight
    Configs,      \* "endpoints" arrays a load or a reload may carry
    Thresholds,   \* recovery / unhealthy / circuit_failure triples in use
    StreakCap,    \* a streak is counted up to this bound
    nullptr       \* no object

Entry == [key : Keys, max_concurrency : Nat \ {0}]

\* 0 stands for every value below 1: parse_config takes them as they are.
Threshold == [recovery : 0..StreakCap, unhealthy : 0..StreakCap,
              circuit : 0..StreakCap]

ASSUME EndpointAssumption ==
    /\ IsFiniteSet(Workers)
    /\ nullptr \notin Objects
    /\ Keys # {}
    /\ StreakCap \in Nat \ {0}
    /\ Configs \subseteq Seq(Entry) /\ <<>> \notin Configs
    /\ Thresholds # {} /\ Thresholds \subseteq Threshold

VARIABLES
    ep,          \* the fields of every VllmEndpoint object
    endpoints,   \* endpoints_: the current list of objects
    thresholds,  \* recovery_threshold_, unhealthy_threshold_, circuit_failure_threshold_
    call,        \* what every worker does between select_endpoint and update_endpoint_result
    health       \* the health loop: snapshot still to check, verdict not yet applied

vars == <<ep, endpoints, thresholds, call, health>>

CircuitStates == {"Closed", "Open", "HalfOpen"}

\* cooling: the circuit is Open and now_ms() < circuit_open_until_ms.
Endpoint == [key : Keys, max_concurrency : Nat \ {0}, healthy : BOOLEAN,
             circuit_state : CircuitStates, cooling : BOOLEAN,
             consecutive_failures : 0..StreakCap,
             consecutive_successes : 0..StreakCap,
             inflight : Nat, half_open_inflight : Nat]

NewEndpoint(k, m) ==
    [key |-> k, max_concurrency |-> m, healthy |-> TRUE,
     circuit_state |-> "Closed", cooling |-> FALSE,
     consecutive_failures |-> 0, consecutive_successes |-> 0,
     inflight |-> 0, half_open_inflight |-> 0]

\* The value of an object no shared_ptr refers to.
Destroyed == NewEndpoint(CHOOSE k \in Keys : TRUE, 1)

Listed == {endpoints[i] : i \in DOMAIN endpoints}

AnyThreshold == CHOOSE t \in Thresholds : TRUE
IdleCall == [pc |-> "idle", ep |-> nullptr, thr |-> AnyThreshold]
CallState == [pc : {"idle", "calling", "applying"}, ep : Objects \cup {nullptr},
              thr : Thresholds]

HealthState == [pc : {"scan", "applying"}, queue : Seq(Objects), thr : Thresholds]

CallsOn(o) == {w \in Workers : call[w].pc # "idle" /\ call[w].ep = o}

(***************************************************************************)
(* What one step does to the fields of one endpoint.                       *)
(***************************************************************************)

\* A streak counter only matters up to the largest threshold.
Bump(n) == IF n < StreakCap THEN n + 1 ELSE n

Less(n) == IF n > 0 THEN n - 1 ELSE 0

\* Mutant of HalfOpened: circuit_open_until_ms is not looked at.
HalfOpenedEarly(e) ==
    IF e.circuit_state = "Open"
    THEN [e EXCEPT !.circuit_state = "HalfOpen", !.cooling = FALSE, !.half_open_inflight = 0]
    ELSE e

\* The side effect of endpoint_available_locked: an Open circuit whose time is up half-opens.
HalfOpened(e) ==
    IF e.circuit_state = "Open" /\ ~e.cooling
    THEN [e EXCEPT !.circuit_state = "HalfOpen", !.half_open_inflight = 0]
    ELSE e

\* Mutant of Available: one call too many.
AvailableAtLimit(e) ==
    /\ e.circuit_state # "Open"
    /\ e.circuit_state = "HalfOpen" => e.half_open_inflight = 0
    /\ e.healthy \/ e.circuit_state = "HalfOpen"
    /\ e.inflight <= e.max_concurrency

\* The answer of endpoint_available_locked, after that side effect.
Available(e) ==
    /\ e.circuit_state # "Open"
    /\ e.circuit_state = "HalfOpen" => e.half_open_inflight = 0
    /\ e.healthy \/ e.circuit_state = "HalfOpen"
    /\ e.inflight < e.max_concurrency

\* The end of select_endpoint for the endpoint it returns.
Taken(e) ==
    [e EXCEPT !.inflight = @ + 1,
              !.half_open_inflight = IF e.circuit_state = "HalfOpen" THEN @ + 1 ELSE @]

\* The first two statements of update_endpoint_result under endpoints_mtx_.
Released(e) ==
    [e EXCEPT !.inflight = Less(@), !.half_open_inflight = Less(@)]

\* A failure, of a call or of a health check: the two are judged alike.
Failed(e, t) ==
    LET n    == Bump(e.consecutive_failures)
        open == n >= t.circuit
    IN  [e EXCEPT !.consecutive_failures = n,
                  !.consecutive_successes = 0,
                  !.healthy = IF n >= t.unhealthy THEN FALSE ELSE @,
                  !.circuit_state = IF open THEN "Open" ELSE @,
                  !.cooling = IF open THEN TRUE ELSE @]

\* Mutant of Succeeded: the failure streak survives a success.
SuccessKeepsFailures(e, t) ==
    LET n         == Bump(e.consecutive_successes)
        recovered == n >= t.recovery
    IN  [e EXCEPT !.consecutive_successes = n,
                  !.healthy = IF recovered THEN TRUE ELSE @,
                  !.circuit_state = IF recovered THEN "Closed" ELSE @,
                  !.cooling = IF recovered THEN FALSE ELSE @]

\* Mutant of Succeeded: recovery restores the health verdict but not the circuit.
SuccessLeavesCircuit(e, t) ==
    LET n == Bump(e.consecutive_successes)
    IN  [e EXCEPT !.consecutive_successes = n,
                  !.consecutive_failures = 0,
                  !.healthy = IF n >= t.recovery THEN TRUE ELSE @]

\* A success: at the recovery threshold the endpoint is healthy and its circuit Closed.
Succeeded(e, t) ==
    LET n         == Bump(e.consecutive_successes)
        recovered == n >= t.recovery
    IN  [e EXCEPT !.consecutive_successes = n,
                  !.consecutive_failures = 0,
                  !.healthy = IF recovered THEN TRUE ELSE @,
                  !.circuit_state = IF recovered THEN "Closed" ELSE @,
                  !.cooling = IF recovered THEN FALSE ELSE @]

Judged(e, ok, t) == IF ok THEN Succeeded(e, t) ELSE Failed(e, t)

\* Mutant of CopiedRuntime: the in-flight counts move to the new object too.
CopiedWithInflight(target, source) == [source EXCEPT !.max_concurrency = target.max_concurrency]

\* copy_endpoint_runtime_fields: the verdicts move to the new object, the in-flight counts do not.
CopiedRuntime(target, source) ==
    [source EXCEPT !.max_concurrency = target.max_concurrency,
                   !.inflight = 0, !.half_open_inflight = 0]

(***************************************************************************)
(* Initial state: load_model has built the list, with entries of equal key *)
(* sharing one object (share_endpoint_runtime), and start() has run.       *)
(***************************************************************************)

\* The last entry of configuration c for key k: it overwrites the fields of the shared object.
LastEntry(c, k) ==
    c[CHOOSE i \in DOMAIN c : c[i].key = k /\ \A j \in DOMAIN c : c[j].key = k => j <= i]

Init ==
    /\ thresholds \in Thresholds
    /\ \E c \in Configs : \E obj \in [{c[i].key : i \in DOMAIN c} -> Objects] :
         /\ \A k1, k2 \in DOMAIN obj : obj[k1] = obj[k2] => k1 = k2
         /\ endpoints = [i \in DOMAIN c |-> obj[c[i].key]]
         /\ ep = [o \in Objects |->
                    IF \E k \in DOMAIN obj : obj[k] = o
                    THEN LET k == CHOOSE x \in DOMAIN obj : obj[x] = o
                         IN  NewEndpoint(k, LastEntry(c, k).max_concurrency)
                    ELSE Destroyed]
    /\ call = [w \in Workers |-> IdleCall]
    /\ health = [pc |-> "scan", queue |-> <<>>, thr |-> AnyThreshold]

(***************************************************************************)
(* Steps                                                                   *)
(***************************************************************************)

\* shared_ptr: an object that no list, call or snapshot holds any more is destroyed.
Collected(fields, list, calls, queue) ==
    [o \in Objects |->
        IF \/ \E i \in DOMAIN list : list[i] = o
           \/ \E w \in Workers : calls[w].ep = o
           \/ \E i \in DOMAIN queue : queue[i] = o
        THEN fields[o] ELSE Destroyed]

\* The loop of select_endpoint up to its choice, for a request that the endpoints in S support.
Probed(S) == [o \in Objects |-> IF o \in S THEN HalfOpened(ep[o]) ELSE ep[o]]

\* select_endpoint returns an endpoint and the worker calls it.
SelectEndpoint(w) ==
    /\ call[w].pc = "idle"
    /\ \E S \in SUBSET Listed : \E o \in S :
         /\ Available(Probed(S)[o])
         /\ ep' = [Probed(S) EXCEPT ![o] = Taken(@)]
         /\ call' = [call EXCEPT ![w] = [IdleCall EXCEPT !.pc = "calling", !.ep = o]]
    /\ UNCHANGED <<endpoints, thresholds, health>>

\* select_endpoint returns nullptr: nothing is available, fits the context or may be degraded to.
SelectNothing(w) ==
    /\ call[w].pc = "idle"
    /\ \E S \in SUBSET Listed : ep' = Probed(S)
    /\ UNCHANGED <<endpoints, thresholds, call, health>>

\* call_vllm returns; update_endpoint_result reads the thresholds under config_mtx_.
CallReturns(w) ==
    /\ call[w].pc = "calling"
    /\ call' = [call EXCEPT ![w].pc = "applying", ![w].thr = thresholds]
    /\ UNCHANGED <<ep, endpoints, thresholds, health>>

\* The rest of update_endpoint_result, under endpoints_mtx_, for a call that went ok or not.
UpdateEndpointResult(w, ok) ==
    LET o == call[w].ep IN
    /\ call[w].pc = "applying"
    /\ call' = [call EXCEPT ![w] = IdleCall]
    /\ ep' = Collected([ep EXCEPT ![o] = Judged(Released(@), ok, call[w].thr)],
                       endpoints, call', health.queue)
    /\ UNCHANGED <<endpoints, thresholds, health>>

\* health_loop takes a new snapshot of endpoints_.
HealthSnapshot ==
    /\ health.pc = "scan" /\ health.queue = <<>>
    /\ health' = [health EXCEPT !.queue = endpoints]
    /\ UNCHANGED <<ep, endpoints, thresholds, call>>

\* check_endpoint_health answers; update_endpoint_health reads the thresholds.
CheckEndpointHealth ==
    /\ health.pc = "scan" /\ health.queue # <<>>
    /\ health' = [health EXCEPT !.pc = "applying", !.thr = thresholds]
    /\ UNCHANGED <<ep, endpoints, thresholds, call>>

\* The rest of update_endpoint_health, under endpoints_mtx_, for a check that went ok or not.
UpdateEndpointHealth(ok) ==
    LET o == Head(health.queue) IN
    /\ health.pc = "applying"
    /\ health' = [pc |-> "scan", queue |-> Tail(health.queue), thr |-> AnyThreshold]
    /\ ep' = Collected([ep EXCEPT ![o] = Judged(@, ok, health.thr)],
                       endpoints, call, health'.queue)
    /\ UNCHANGED <<endpoints, thresholds, call>>

\* The time until circuit_open_until_ms passes.
CircuitOpenElapses(o) ==
    /\ ep[o].cooling
    /\ ep' = [ep EXCEPT ![o].cooling = FALSE]
    /\ UNCHANGED <<endpoints, thresholds, call, health>>

Referenced(o) ==
    \/ o \in Listed
    \/ \E w \in Workers : call[w].ep = o
    \/ \E i \in DOMAIN health.queue : health.queue[i] = o

\* commit_reloaded_endpoints_locked: the object for entry e; old_by_key keeps the last one of a key.
Committed(e) ==
    LET old == {i \in DOMAIN endpoints : ep[endpoints[i]].key = e.key}
        new == NewEndpoint(e.key, e.max_concurrency)
    IN  IF old = {} THEN new
        ELSE CopiedRuntime(new, ep[endpoints[CHOOSE i \in old : \A j \in old : j <= i]])

\* reload_config lets no threshold be below 1.
Reloadable == {t \in Thresholds : t.recovery >= 1 /\ t.unhealthy >= 1 /\ t.circuit >= 1}

\* reload_config with an endpoint list: every entry gets a new object.
ReloadEndpoints ==
    /\ \E c \in Configs : \E new \in [DOMAIN c -> {o \in Objects : ~Referenced(o)}] :
         /\ \A i, j \in DOMAIN c : new[i] = new[j] => i = j
         /\ endpoints' = new
         /\ ep' = Collected([o \in Objects |->
                               IF \E i \in DOMAIN c : new[i] = o
                               THEN Committed(c[CHOOSE i \in DOMAIN c : new[i] = o])
                               ELSE ep[o]],
                            endpoints', call, health.queue)
    /\ thresholds' \in Reloadable
    /\ UNCHANGED <<call, health>>

\* reload_config without one: only the thresholds change.
ReloadThresholds ==
    /\ thresholds' \in Reloadable
    /\ UNCHANGED <<ep, endpoints, call, health>>

Next ==
    \/ \E w \in Workers : SelectEndpoint(w)
    \/ \E w \in Workers : SelectNothing(w)
    \/ \E w \in Workers : CallReturns(w)
    \/ \E w \in Workers, ok \in BOOLEAN : UpdateEndpointResult(w, ok)
    \/ HealthSnapshot
    \/ CheckEndpointHealth
    \/ \E ok \in BOOLEAN : UpdateEndpointHealth(ok)
    \/ \E o \in Objects : CircuitOpenElapses(o)
    \/ ReloadEndpoints
    \/ ReloadThresholds

Spec == Init /\ [][Next]_vars

\* health_loop never stops checking, and a check ends: health_check_timeout_ms is positive, as it is
\* by default and after every reload_config (parse_config would take a 0, which curl takes as none).
\* Nothing is said of the workers, whose calls need not have a timeout.
Fairness ==
    WF_vars(HealthSnapshot \/ CheckEndpointHealth \/ \E ok \in BOOLEAN : UpdateEndpointHealth(ok))

FairSpec == Spec /\ Fairness

(***************************************************************************)
(* Properties                                                              *)
(***************************************************************************)

\* Every field of every object, and every thread, is in its range.
TypeOK ==
    /\ ep \in [Objects -> Endpoint]
    /\ endpoints \in Seq(Objects)
    /\ thresholds \in Thresholds
    /\ call \in [Workers -> CallState]
    /\ \A w \in Workers : call[w].pc # "idle" => call[w].ep \in Objects
    /\ health \in HealthState
    /\ health.pc = "applying" => health.queue # <<>>

\* In-flight accounting is exact: whatever reloads, health checks and circuit changes happen
\* between select_endpoint and update_endpoint_result, an object's inflight is the number of
\* calls workers really have on it, so no slot leaks and none is given back twice.
InflightExact ==
    \A o \in Objects : ep[o].inflight = Cardinality(CallsOn(o))

CallBounds(e) ==
    /\ e.inflight <= e.max_concurrency
    /\ e.half_open_inflight <= 1
    /\ e.half_open_inflight <= e.inflight

\* No object carries more calls than its max_concurrency, and its half-open probe count never
\* exceeds one or the calls still out: a probe cannot be leaked and block the endpoint forever.
CallsBounded == \A o \in Objects : CallBounds(ep[o])

BelowUnhealthy(n) == \E t \in Thresholds : n < t.unhealthy
BelowCircuit(n) == \E t \in Thresholds : n < t.circuit
BelowRecovery(n) == \E t \in Thresholds : n < t.recovery

Verdicts(e) ==
    /\ e.consecutive_failures > 0 =>
         /\ e.healthy => BelowUnhealthy(e.consecutive_failures)
         /\ e.circuit_state = "Closed" => BelowCircuit(e.consecutive_failures)
    /\ e.consecutive_successes > 0 =>
         \/ e.healthy /\ e.circuit_state = "Closed"
         \/ BelowRecovery(e.consecutive_successes)
    /\ e.consecutive_failures = 0 \/ e.consecutive_successes = 0
    /\ e.cooling => e.circuit_state = "Open"

\* The verdicts agree with the streaks they were drawn from: an endpoint that has failed and is
\* healthy, or has a Closed circuit, has failed fewer times in a row than a threshold that was in
\* force; one that has succeeded and is unhealthy or tripped has succeeded fewer times in a row than
\* a recovery threshold; and never are there both streaks.
VerdictsFollowStreaks == \A o \in Objects : Verdicts(ep[o])

Tripped(e) == e.circuit_state = "Open" /\ e.cooling
EntriesFor(k) == {i \in DOMAIN endpoints : ep[endpoints[i]].key = k}
Blocked(k) == EntriesFor(k) # {} /\ \A i \in EntriesFor(k) : Tripped(ep[endpoints[i]])

\* A server whose circuit is Open stays blocked, across reloads that replace its objects, until
\* the open time has passed or enough successes have closed the circuit: no step half-opens it
\* early, and none closes it without a streak of successes.
BlockedUntilEarned ==
    [][\A k \in Keys : Blocked(k) =>
          \A i \in EntriesFor(k)' :
              LET e == ep'[endpoints'[i]] IN
              \/ e.circuit_state = "Open"
              \/ /\ e.circuit_state = "Closed" /\ e.consecutive_successes > 0
                 /\ \E t \in Thresholds : e.consecutive_successes >= t.recovery]_vars

NothingFails ==
    ~(UpdateEndpointHealth(FALSE) \/ \E w \in Workers : UpdateEndpointResult(w, FALSE))

\* Once no call and no health check fails any more and the list is no longer reloaded, the health
\* loop alone brings every listed endpoint back to healthy with a Closed circuit, for good.
Recovers ==
    (<>[][NothingFails]_vars /\ <>[][FALSE]_endpoints) =>
        <>[](\A i \in DOMAIN endpoints :
                ep[endpoints[i]].healthy /\ ep[endpoints[i]].circuit_state = "Closed")

\* config-guide.md: max_concurrency is the "Per-endpoint middleware concurrency limit".  The calls
\* in flight to a configured endpoint never exceed the limit every configuration gives it.
ConcurrencyPerKey ==
    \A k \in Keys : \A i \in EntriesFor(k) :
        Cardinality({w \in Workers : call[w].pc # "idle" /\ ep[call[w].ep].key = k})
            <= ep[endpoints[i]].max_concurrency
=============================================================================
