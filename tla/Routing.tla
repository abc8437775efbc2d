------------------------------- MODULE Routing -------------------------------
(***************************************************************************)
(* The choice of select_endpoint (node/vllm-client/src/main.cpp): one scan *)
(* of endpoints_ that keeps the best endpoint so far, against what the     *)
(* scan is for.  The endpoints and the request do not change during the    *)
(* scan: it runs under endpoints_mtx_.  What is available is the answer of *)
(* endpoint_available_locked, modelled in EndpointRuntime.                 *)
(***************************************************************************)
EXTENDS Integers, Sequences

CONSTANTS
    Models,          \* model names
    Lists,           \* the endpoint lists that are scanned
    RoutedRequests   \* the requests that are routed

Roles == {"primary", "overflow", "fallback"}

Endpoint ==
    [served_model : Models, logical_models : SUBSET Models, role : Roles, available : BOOLEAN,
     fits : BOOLEAN, weight : Int, inflight : Nat, max_concurrency : Int, avg_latency : Nat,
     consecutive_failures : Nat, half_open : BOOLEAN]

\* high: the priority reaches high_priority_threshold.
Request == [logical_model : Models, fallback_chain : Seq(Models), allow_degrade : BOOLEAN, high : BOOLEAN]

ASSUME RoutingAssumption ==
    /\ \A l \in Lists : l \in Seq(Endpoint)
    /\ \A r \in RoutedRequests : r \in Request

VARIABLES
    routed,       \* req
    endpoints,
    next,         \* the position the scan is at
    best,         \* the position of the best endpoint so far, or 0
    best_rank,
    best_score

ScanVars == <<routed, endpoints, next, best, best_rank, best_score>>

INT_MAX == 2147483647
INT_MIN == -2147483647 - 1

InChain(m) == \E k \in DOMAIN routed.fallback_chain : routed.fallback_chain[k] = m

\* The distance std::find gives for a model of the chain.
Position(m) ==
    (CHOOSE k \in DOMAIN routed.fallback_chain :
        /\ routed.fallback_chain[k] = m
        /\ \A j \in 1..(k - 1) : routed.fallback_chain[j] # m) - 1

fallback_allows(requested, served) ==
    \/ served = requested
    \/ InChain(requested) /\ InChain(served) /\ Position(served) >= Position(requested)

is_degraded_endpoint(e) ==
    /\ e.served_model # routed.logical_model
    /\ routed.fallback_chain = << >> \/ e.served_model # routed.fallback_chain[1]
    /\ e.role # "primary" \/ routed.logical_model \notin e.logical_models

Named(e) == e.served_model = routed.logical_model \/ routed.logical_model \in e.logical_models

endpoint_supports_request(e) ==
    Named(e) \/ (routed.allow_degrade /\ fallback_allows(routed.logical_model, e.served_model))

model_preference_rank(e) ==
    IF InChain(e.served_model) THEN Position(e.served_model)
    ELSE IF Named(e) THEN 0 ELSE INT_MAX

AtLeast1(n) == IF n > 1 THEN n ELSE 1
Penalty(condition, points) == IF condition THEN points ELSE 0

Score(e) ==
    e.weight * 10
      - (e.inflight * 500) \div AtLeast1(e.max_concurrency)
      - e.avg_latency \div 20
      - e.consecutive_failures * 250
      - Penalty(is_degraded_endpoint(e), 2000)
      - Penalty(e.role = "fallback" /\ routed.high, 500)
      - Penalty(e.role = "overflow", 50)
      - Penalty(e.half_open, 300)

\* The conditions at the head of the loop body.
Considered(e) ==
    /\ endpoint_supports_request(e)
    /\ e.available
    /\ e.fits
    /\ model_preference_rank(e) # INT_MAX

ScanInit ==
    /\ routed \in RoutedRequests
    /\ endpoints \in Lists
    /\ next = 1
    /\ best = 0
    /\ best_rank = INT_MAX
    /\ best_score = INT_MIN

\* The endpoint displaces the best so far: there is none, or its rank is better.
Resets(e) == best = 0 \/ model_preference_rank(e) < best_rank

\* Mutant of MayTake: degradation is never forbidden.
AlwaysTakes(e) == TRUE

\* The request may go to an endpoint that passed the other tests.
MayTake(e) == is_degraded_endpoint(e) => routed.allow_degrade

Beats(e) == Resets(e) \/ Score(e) > best_score

\* One turn of the loop.  An endpoint of a better rank displaces the best so far before it is known
\* whether the request may be degraded to it.
Examine ==
    LET e == endpoints[next] IN
    /\ next <= Len(endpoints)
    /\ next' = next + 1
    /\ IF ~ Considered(e) \/ (best # 0 /\ model_preference_rank(e) > best_rank)
       THEN UNCHANGED <<best, best_rank, best_score>>
       ELSE /\ best_rank' = IF Resets(e) THEN model_preference_rank(e) ELSE best_rank
            /\ IF MayTake(e) /\ Beats(e)
               THEN best' = next /\ best_score' = Score(e)
               ELSE /\ best' = IF Resets(e) THEN 0 ELSE best
                    /\ best_score' = IF Resets(e) THEN INT_MIN ELSE best_score
    /\ UNCHANGED <<routed, endpoints>>

ScanSpec == ScanInit /\ [][Examine]_ScanVars
-----------------------------------------------------------------------------
Rank(i) == model_preference_rank(endpoints[i])

\* The positions before n of the endpoints the request may go to.
Eligible(n) ==
    {i \in 1..(n - 1) : /\ Considered(endpoints[i])
                        /\ is_degraded_endpoint(endpoints[i]) => routed.allow_degrade}

\* The positions before n that only "no degradation" rules out.
Barred(n) ==
    {i \in 1..(n - 1) : /\ Considered(endpoints[i])
                        /\ is_degraded_endpoint(endpoints[i]) /\ ~ routed.allow_degrade}

\* i goes before j: a better rank, then a better score, then an earlier place in the list.
Preferred(i, j) ==
    \/ Rank(i) < Rank(j)
    \/ Rank(i) = Rank(j) /\ Score(endpoints[i]) > Score(endpoints[j])
    \/ Rank(i) = Rank(j) /\ Score(endpoints[i]) = Score(endpoints[j]) /\ i <= j

\* The scan variables keep their types.
ScanTypeOK ==
    /\ routed \in RoutedRequests
    /\ endpoints \in Lists
    /\ next \in 1..(Len(endpoints) + 1)
    /\ best \in 0..Len(endpoints)
    /\ best_rank \in Nat
    /\ best_score \in Int

\* The single pass of select_endpoint finds the optimum: unless degradation is forbidden and some
\* endpoint is barred for it, the endpoint chosen is eligible and goes before every other eligible
\* one, and none is chosen only when none is eligible.
ChoosesTheBest ==
    Barred(next) = {} =>
        /\ best = 0 <=> Eligible(next) = {}
        /\ best # 0 => best \in Eligible(next) /\ \A i \in Eligible(next) : Preferred(best, i)

\* With degradation forbidden the choice is never a degraded endpoint, and an eligible endpoint is
\* passed over for a worse one, or for none, only when a barred endpoint of better rank follows it.
LostOnlyToBarred ==
    /\ best # 0 => best \in Eligible(next)
    /\ \A i \in Eligible(next) :
          \/ best # 0 /\ Preferred(best, i)
          \/ \E b \in Barred(next) : b > i /\ Rank(b) < Rank(i)
=============================================================================
