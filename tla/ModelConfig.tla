----------------------------- MODULE ModelConfig -----------------------------
(***************************************************************************)
(* From a configuration to a choice (node/vllm-client/src/main.cpp):       *)
(* parse_config and reload_config keep the models' settings and the list   *)
(* of endpoints, apply_profile_to_request turns a client's message into a  *)
(* request under them, and select_endpoint scans the list for it, perhaps  *)
(* after a reload.  The scan is Routing's.                                 *)
(*                                                                         *)
(* A value that a JSON text does not give, or gives in a type for which    *)
(* the code takes the default, is Absent; one the code skips or refuses is *)
(* Malformed.  The limits and thresholds that the same two functions store *)
(* are in Scheduler and EndpointRuntime.                                   *)
(***************************************************************************)
EXTENDS Routing, SequencesExt

CONSTANTS
    Absent, Malformed,
    model_, mock_mode_,     \* what a reload cannot change
    Bodies,                 \* the JSON bodies of setup and reload_config
    Actions,                \* what request_action returns
    Metas,                  \* what else a client's message says
    Runtimes                \* the runtime fields of an endpoint

VARIABLES
    config,      \* fallback_chain_, allow_model_fallback_, model_profiles_, base_url_
    listed,      \* endpoints_
    phase,       \* of the request: "idle", "made", "scan"
    made,        \* the request apply_profile_to_request has made
    chain_is,    \* where fallback_chain_ comes from: "given", "filled", or "stale", filled for another list
    origin       \* what made the request, and the chain_is of that moment

settings == <<config, listed, chain_is>>
request == <<phase, made, origin>>
allVars == <<ScanVars, settings, request>>

\* Between two requests.
NoRequest == [logical_model |-> model_, fallback_chain |-> << >>, allow_degrade |-> FALSE, high |-> FALSE]
NoOrigin == [profiled |-> FALSE, asked |-> Absent, behind |-> FALSE, chain_is |-> "given", relisted |-> FALSE]

Value(given, default) == IF given = Absent THEN default ELSE given

WithModel(chain, m) == IF Contains(chain, m) THEN chain ELSE Append(chain, m)

fill_default_fallback_chain(chain, list) ==
    IF chain # << >> THEN chain
    ELSE FoldLeft(WithModel, <<model_>>, [i \in DOMAIN list |-> list[i].served_model])
-----------------------------------------------------------------------------
\* The name of a profile falls back on the model it names, the model on the default one.
Profile(item) ==
    LET primary == Value(item.primary_model, model_)
        name == IF item.name = "" THEN primary ELSE item.name
    IN [name |-> name, actions |-> IF item.actions = {} THEN {name} ELSE item.actions,
        primary_model |-> IF primary = "" THEN model_ ELSE primary,
        fallback_models |-> item.fallback_models, allow_model_fallback |-> item.allow_model_fallback]

Objects(items) == SelectSeq(items, LAMBDA item : item # Malformed)

build_model_profiles_from_config(items) ==
    LET objects == Objects(items) IN [i \in DOMAIN objects |-> Profile(objects[i])]

\* The i-th endpoint of a list: the first one is the primary one unless it says otherwise.
Listed(item, i) ==
    LET served == Value(item.served_model, model_)
        logical == IF item.logical_models = {} THEN {model_} ELSE item.logical_models
    IN [served_model |-> served, logical_models |-> logical \cup {served},
        role |-> Value(item.role, IF i = 1 THEN "primary" ELSE "fallback"), weight |-> IF i = 1 THEN 100 ELSE 10]

DefaultEndpoint == [served_model |-> model_, logical_models |-> {model_}, role |-> "primary", weight |-> 100]

\* The items of "endpoints" or "vllm_endpoints"; a body without them lists the default endpoint.
Items(body) == Value(body.endpoints, << >>)

build_endpoints_from_config(body) ==
    LET objects == Objects(Items(body)) IN
    IF objects = << >> THEN <<DefaultEndpoint>> ELSE [i \in DOMAIN objects |-> Listed(objects[i], i)]

\* An item is valid if it names its model and, outside mock mode, its base_url.
EndpointsAccepted(body, base_url, strict) ==
    /\ body.endpoints # Malformed
    /\ strict => \A i \in DOMAIN Items(body) : Items(body)[i] # Malformed
    /\ LET objects == Objects(Items(body)) IN
       /\ \A i \in DOMAIN objects : objects[i].valid
       /\ objects = << >> => base_url \/ mock_mode_

\* degrade_policy, where there is one, hides the same keys of the body itself.
Policy(body) == IF body.degrade_policy # Absent THEN body.degrade_policy ELSE body.top

\* setup of the first session: load_model and parse_config, where VLLM_BASE_URL is not set.
parse_config(body) ==
    LET base_url == Value(body.vllm_base_url, FALSE)
        chain == Value(Policy(body).fallback_chain, << >>)
        list == build_endpoints_from_config(body)
    IN /\ body.model_profiles # Malformed
       /\ EndpointsAccepted(body, base_url, FALSE)
       /\ listed = list
       /\ config = [fallback_chain |-> fill_default_fallback_chain(chain, list),
                    allow_model_fallback |-> Value(Policy(body).allow_model_fallback, TRUE),
                    model_profiles |-> build_model_profiles_from_config(Value(body.model_profiles, << >>)),
                    base_url |-> base_url]
       /\ chain_is = IF chain = << >> THEN "filled" ELSE "given"

has_endpoint_reload_config(body) == body.endpoints # Absent \/ body.vllm_base_url # Absent

\* None of model, response_format, endpoint, worker_count and mock is given another value.
validate_static_reload_fields(body) == ~ body.changes_static

\* Mutant of NextChain: the chain is filled before the new list is known.
FilledTooEarly(chain, list) == fill_default_fallback_chain(chain, listed)

\* The chain that a reload leaves, given the list it leaves.
NextChain(chain, list) == fill_default_fallback_chain(chain, list)

\* A reload that is accepted.  It commits everything at once, under both mutexes, so not during a
\* scan; one that is refused changes nothing.
reload_config(body) ==
    LET policy == Policy(body)
        chain == Value(policy.fallback_chain, config.fallback_chain)
        base_url == Value(body.vllm_base_url, config.base_url)
        relists == has_endpoint_reload_config(body)
        list == IF relists THEN build_endpoints_from_config(body) ELSE listed
    IN
    /\ phase # "scan"
    /\ validate_static_reload_fields(body)
    /\ body.model_profiles # Malformed
    /\ relists => EndpointsAccepted(body, base_url, TRUE)
    /\ listed' = list
    /\ config' = [fallback_chain |-> NextChain(chain, list),
                  allow_model_fallback |-> Value(policy.allow_model_fallback, config.allow_model_fallback),
                  model_profiles |-> IF body.model_profiles = Absent THEN config.model_profiles
                                     ELSE build_model_profiles_from_config(body.model_profiles),
                  base_url |-> base_url]
    /\ chain_is' = IF chain = << >> THEN "filled"
                   ELSE IF policy.fallback_chain # Absent THEN "given"
                   ELSE IF relists /\ chain_is = "filled" THEN "stale" ELSE chain_is
    /\ origin' = IF phase = "made" THEN [origin EXCEPT !.relisted = @ \/ relists] ELSE origin
    /\ UNCHANGED <<ScanVars, phase, made>>
-----------------------------------------------------------------------------
\* The profiles for an action; the first one counts.
Profiles(action) ==
    SelectSeq(config.model_profiles, LAMBDA p : action # "" /\ (p.name = action \/ action \in p.actions))

\* Mutant of WithRequested: the model a client asks for is put last.
RequestedLast(chain, asked) == WithModel(chain, asked)

WithRequested(chain, asked) == IF Contains(chain, asked) THEN chain ELSE <<asked>> \o chain

\* A model that a client asks for counts only without a profile, and goes before the chain.
RequestChain(profiles, asked) ==
    IF profiles # << >>
    THEN FoldLeft(WithModel, <<profiles[1].primary_model>>, profiles[1].fallback_models)
    ELSE IF asked # Absent THEN WithRequested(config.fallback_chain, asked) ELSE config.fallback_chain

apply_profile_to_request(action, meta) ==
    LET profiles == Profiles(action)
        logical == IF profiles = << >> THEN Value(meta.model, model_) ELSE profiles[1].primary_model
        chain == RequestChain(profiles, meta.model)
    IN [logical_model |-> logical,
        fallback_chain |-> IF chain = << >> THEN <<logical>> ELSE chain,
        allow_degrade |-> Value(meta.allow_degrade,
                                config.allow_model_fallback /\ (profiles # << >> => profiles[1].allow_model_fallback)),
        high |-> meta.high]

\* inference makes a request of a client's message.
Inference(action, meta) ==
    /\ phase = "idle"
    /\ phase' = "made"
    /\ made' = apply_profile_to_request(action, meta)
    /\ origin' = [profiled |-> Profiles(action) # << >>, asked |-> meta.model,
                  behind |-> /\ Contains(config.fallback_chain, meta.model)
                             /\ Head(config.fallback_chain) # meta.model,
                  chain_is |-> chain_is, relisted |-> FALSE]
    /\ UNCHANGED <<ScanVars, settings>>

\* An endpoint of the list as the scan finds it.
InState(e, r) ==
    [served_model |-> e.served_model, logical_models |-> e.logical_models, role |-> e.role, weight |-> e.weight,
     available |-> r.available, fits |-> r.fits, inflight |-> r.inflight, max_concurrency |-> 1,
     avg_latency |-> r.avg_latency, consecutive_failures |-> r.consecutive_failures, half_open |-> r.half_open]

\* An attempt of handle_request: select_endpoint takes endpoints_mtx_ and begins its scan.
SelectEndpoint ==
    /\ phase = "made"
    /\ phase' = "scan"
    /\ routed' = made
    /\ \E r \in [DOMAIN listed -> Runtimes] : endpoints' = [i \in DOMAIN listed |-> InState(listed[i], r[i])]
    /\ UNCHANGED <<next, best, best_rank, best_score, settings, made, origin>>

Scan == phase = "scan" /\ Examine /\ UNCHANGED <<settings, request>>

\* select_endpoint returns: the request is done with, or another attempt follows.
SelectReturns ==
    /\ phase = "scan" /\ next > Len(endpoints)
    /\ \/ phase' = "made" /\ UNCHANGED <<made, origin>>
       \/ phase' = "idle" /\ made' = NoRequest /\ origin' = NoOrigin
    /\ routed' = NoRequest /\ endpoints' = << >>
    /\ next' = 1 /\ best' = 0 /\ best_rank' = INT_MAX /\ best_score' = INT_MIN
    /\ UNCHANGED settings

ConfigInit ==
    /\ \E body \in Bodies : parse_config(body)
    /\ phase = "idle"
    /\ made = NoRequest /\ origin = NoOrigin
    /\ routed = NoRequest /\ endpoints = << >>
    /\ next = 1 /\ best = 0 /\ best_rank = INT_MAX /\ best_score = INT_MIN

ConfigNext ==
    \/ \E body \in Bodies : reload_config(body)
    \/ \E action \in Actions, meta \in Metas : Inference(action, meta)
    \/ SelectEndpoint \/ Scan \/ SelectReturns

ConfigSpec == ConfigInit /\ [][ConfigNext]_allVars
-----------------------------------------------------------------------------
Plain == ~ origin.profiled /\ origin.asked = Absent

\* With the chain that fill_default_fallback_chain makes, every listed endpoint is in reach of a plain
\* request that may be degraded; unless the list was replaced after the chain was filled, also between
\* the making of the request and its routing: reload_config keeps a filled chain, so a model that only
\* the new list serves is then out of reach.
FilledChainReachesAll ==
    phase = "scan" /\ Plain /\ origin.chain_is = "filled" /\ ~ origin.relisted /\ routed.allow_degrade =>
        \A i \in DOMAIN endpoints : endpoint_supports_request(endpoints[i])

\* What the settings and the client said lets the request's model lead its chain: a profile's primary
\* model; a model the client asks for that fallback_chain, configured or filled, does not hold behind
\* another; the default model when fallback_chain is not configured.
Leads ==
    \/ origin.profiled
    \/ origin.asked # Absent /\ ~ origin.behind
    \/ origin.asked = Absent /\ origin.chain_is # "given"

\* An endpoint that can be used and serves the very model of a request is never passed over for another
\* model, or for none, whatever was reloaded before and after the request was made; provided the model
\* leads.  apply_profile_to_request leaves an asked model where fallback_chain has it, also in a chain
\* fill_default_fallback_chain made, and there a model before it goes first.
OwnModelFirst ==
    phase = "scan" /\ Leads =>
        \A i \in Eligible(next) :
            endpoints[i].served_model = routed.logical_model => best # 0 /\ Rank(best) = 0
=============================================================================
