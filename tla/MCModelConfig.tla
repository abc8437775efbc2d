---------------------------- MODULE MCModelConfig ----------------------------
(***************************************************************************)
(* An instance of ModelConfig for TLC.                                     *)
(***************************************************************************)
EXTENDS ModelConfig

NoPolicy == [fallback_chain |-> Absent, allow_model_fallback |-> Absent]

Nothing ==
    [changes_static |-> FALSE, vllm_base_url |-> Absent, endpoints |-> Absent, model_profiles |-> Absent,
     degrade_policy |-> Absent, top |-> NoPolicy]

Item(served, logical, role) ==
    [served_model |-> served, logical_models |-> logical, role |-> role, valid |-> TRUE]

\* One server of the default model; two models, the second alone; a stand-in for the small model that
\* serves another one; an item that is no object, and one without a base_url.
EndpointLists ==
    {<<Item(Absent, {}, Absent)>>, <<Item("big", {}, Absent), Item("small", {}, Absent)>>,
     <<Item("small", {}, "overflow"), Item("other", {"small"}, "fallback"), Item("big", {}, "primary")>>,
     <<Malformed, Item("small", {"big"}, Absent)>>, <<[Item("big", {}, Absent) EXCEPT !.valid = FALSE]>>, Malformed}

ProfileItem(name, actions, primary) ==
    [name |-> name, actions |-> actions, primary_model |-> primary, fallback_models |-> <<"big", "small", "other">>,
     allow_model_fallback |-> TRUE]

ProfileLists ==
    {<< >>, <<Malformed, ProfileItem("", {}, ""), ProfileItem("", {"code"}, "small")>>,
     <<[ProfileItem("code", {}, Absent) EXCEPT !.allow_model_fallback = FALSE], ProfileItem("x", {"code"}, "other")>>,
     Malformed}

Chains == {<< >>, <<"small", "big">>, <<"big", "other", "small">>}

MCBodies ==
    {[Nothing EXCEPT !.endpoints = l] : l \in EndpointLists}
    \cup {[Nothing EXCEPT !.model_profiles = p] : p \in ProfileLists}
    \cup {[Nothing EXCEPT !.top.fallback_chain = c] : c \in Chains}
    \cup {[Nothing EXCEPT !.top.fallback_chain = <<"other">>,
                          !.degrade_policy = p,
                          !.endpoints = <<Item("other", {"other"}, Absent), Item("big", {}, Absent)>>] :
             p \in {[NoPolicy EXCEPT !.allow_model_fallback = FALSE], [NoPolicy EXCEPT !.fallback_chain = << >>]}}
    \cup {[Nothing EXCEPT !.vllm_base_url = b] : b \in BOOLEAN}
    \cup {[Nothing EXCEPT !.changes_static = TRUE, !.top.fallback_chain = <<"other">>, !.vllm_base_url = TRUE]}

MCMetas ==
    [model : {Absent, "small", "other"}, allow_degrade : {Absent, FALSE}, high : {FALSE}]

Running ==
    [available |-> TRUE, fits |-> TRUE, inflight |-> 0, avg_latency |-> 0, consecutive_failures |-> 0,
     half_open |-> FALSE]

MCRuntimes == {Running, [Running EXCEPT !.consecutive_failures = 5], [Running EXCEPT !.available = FALSE]}

\* The lists a scan may find, and more than the requests it may be for.
MCLists ==
    UNION {LET list == build_endpoints_from_config(body) IN
             {[i \in DOMAIN list |-> InState(list[i], r[i])] : r \in [DOMAIN list -> Runtimes]} :
           body \in {b \in Bodies : EndpointsAccepted(b, TRUE, FALSE)}}

MCRequests ==
    [logical_model : Models, fallback_chain : UNION {[1..n -> Models] : n \in 0..4}, allow_degrade : BOOLEAN,
     high : {FALSE}]
==============================================================================
