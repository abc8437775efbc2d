---------------------------- MODULE UnitRegistry ----------------------------
(***************************************************************************)
(* The registry of units in the unit manager (unit-manager/src,            *)
(* remote_server.cpp and zmq_bus.cpp): ZeroMQ ports, work ids and key_sql. *)
(*                                                                         *)
(* The thread of the "sys" RPC server registers and releases units and     *)
(* sets and unsets keys.  The TCP threads bring client messages; under     *)
(* unit_action_match_mtx one of them at a time looks a unit up in key_sql  *)
(* and then pushes the message through it, without unit_registry_mtx.  A   *)
(* release deletes the unit before it erases its keys.                     *)
(***************************************************************************)
EXTENDS Integers, FiniteSets, Maps

CONSTANTS
    NPorts,     \* the size of port_list
    MaxUnits    \* bound on work_id_number_counter, which starts at 0 here

ASSUME RegistryAssumption == NPorts \in Nat /\ MaxUnits \in Nat

VARIABLES
    port_list,  \* the ports taken
    counter,    \* work_id_number_counter
    unit,       \* the unit_data objects, by the number in their work id
    key_sql,    \* what each key holds
    rpc,        \* where the "sys" RPC thread is
    match,      \* where the thread in unit_action_match is
    reply,      \* the error code sent for the last client message, 0 if none
    clobbered   \* history: the units whose keys sql_set or sql_unset changed

vars == <<port_list, counter, unit, key_sql, rpc, match, reply, clobbered>>

Ports == 0..(NPorts - 1)
WorkIds == 0..(MaxUnits - 1)
NoPort == -1

\* A unit has two keys: its work id, and the work id with ".out_port".
UnitKey(n) == <<"unit", n>>
OutKey(n) == <<"out_port", n>>
Keys == {"unit", "out_port"} \X WorkIds

\* A key holds a pointer to a unit, the URL with a port, or another text.
Pointer(n) == <<"pointer", n>>
Url(p) == <<"url", p>>
Text == <<"text", 0>>

Idle == [pc |-> "idle"]

Init ==
    /\ port_list = {}
    /\ counter = 0
    /\ unit = << >>
    /\ key_sql = << >>
    /\ rpc = Idle /\ match = Idle
    /\ reply = 0
    /\ clobbered = {}
-----------------------------------------------------------------------------
Lowest(S) == CHOOSE p \in S : \A q \in S : p <= q

\* allocate_zmq_port_locked: the first free port, or -1.
allocate_zmq_port(taken) == IF Ports \subseteq taken THEN NoPort ELSE Lowest(Ports \ taken)

\* Mutant: the first port is kept when there is no second.
TakenKeepingFirst(output, inference) == port_list \cup ({output, inference} \ {NoPort})

\* What is taken after sys_allocate_unit has asked for two ports and got these.
TakenAfter(output, inference) ==
    IF NoPort \in {output, inference} THEN port_list ELSE port_list \cup {output, inference}

\* rpc_allocate_unit: registers a unit, or answers -1 when there are no two free ports.
AllocateUnit ==
    LET output == allocate_zmq_port(port_list)
        inference == allocate_zmq_port(port_list \cup {output})
        n == counter
    IN
    /\ rpc.pc = "idle" /\ counter < MaxUnits
    /\ port_list' = TakenAfter(output, inference)
    /\ IF NoPort \in {output, inference}
       THEN UNCHANGED <<counter, unit, key_sql>>
       ELSE /\ counter' = counter + 1
            /\ unit' = With(unit, n, [output |-> output, inference |-> inference, alive |-> TRUE])
            /\ key_sql' = With(With(key_sql, OutKey(n), Url(output)), UnitKey(n), Pointer(n))
    /\ clobbered' = clobbered \ {n}
    /\ UNCHANGED <<rpc, match, reply>>

\* History: the message being pushed meets the release of its unit.
MarkOverlap(n) ==
    IF match.pc = "push" /\ match.work_id = n THEN [match EXCEPT !.overlaps = TRUE] ELSE match

Holds(k, v) == k \in DOMAIN key_sql /\ key_sql[k] = v

\* sys_release_unit gives the ports back and deletes the unit; for a key that holds no unit it
\* does nothing, and the RPC answers all the same.
ReleaseUnit(n) ==
    /\ rpc.pc = "idle" /\ Holds(UnitKey(n), Pointer(n))
    /\ port_list' = port_list \ {unit[n].output, unit[n].inference}
    /\ unit' = [unit EXCEPT ![n].alive = FALSE]
    /\ rpc' = [pc |-> "erase", work_id |-> n]
    /\ match' = MarkOverlap(n)
    /\ UNCHANGED <<counter, key_sql, reply, clobbered>>

\* Mutant: only the key of the URL is erased.
EraseOutKey ==
    /\ rpc.pc = "erase"
    /\ key_sql' = Without(key_sql, {OutKey(rpc.work_id)})
    /\ rpc' = Idle
    /\ UNCHANGED <<port_list, counter, unit, match, reply, clobbered>>

\* sys_release_unit erases both keys.
EraseKeys ==
    /\ rpc.pc = "erase"
    /\ key_sql' = Without(key_sql, {UnitKey(rpc.work_id), OutKey(rpc.work_id)})
    /\ rpc' = Idle
    /\ UNCHANGED <<port_list, counter, unit, match, reply, clobbered>>

\* rpc_sql_set stores a text under any key.
SqlSet(k) ==
    /\ rpc.pc = "idle"
    /\ key_sql' = With(key_sql, k, Text)
    /\ clobbered' = clobbered \cup {k[2]}
    /\ UNCHANGED <<port_list, counter, unit, rpc, match, reply>>

\* rpc_sql_unset erases any key.
SqlUnset(k) ==
    /\ rpc.pc = "idle"
    /\ key_sql' = Without(key_sql, {k})
    /\ clobbered' = clobbered \cup {k[2]}
    /\ UNCHANGED <<port_list, counter, unit, rpc, match, reply>>
-----------------------------------------------------------------------------
\* unit_action_match gets a message without one of its fields, or no JSON.
BadMessage ==
    /\ match.pc = "idle"
    /\ reply' = -2
    /\ UNCHANGED <<port_list, counter, unit, key_sql, rpc, match, clobbered>>

\* Any action but inference: remote_call fails when the unit has no socket; a call that times out
\* counts as made.  The work id is not empty: remote_call throws on one.
RemoteCall(made) ==
    /\ match.pc = "idle"
    /\ reply' = IF made THEN 0 ELSE -9
    /\ UNCHANGED <<port_list, counter, unit, key_sql, rpc, match, clobbered>>

\* An inference for work id n: zmq_bus_publisher_push reads the pointer.
PushLookup(n) ==
    /\ match.pc = "idle"
    /\ match' = [pc |-> "push", work_id |-> n, found |-> Holds(UnitKey(n), Pointer(n)),
                 overlaps |-> rpc.pc = "erase" /\ rpc.work_id = n]
    /\ reply' = 0
    /\ UNCHANGED <<port_list, counter, unit, key_sql, rpc, clobbered>>

\* The default log_level is above SAMPLE_LOG_WARN.
LogsWarnings == TRUE

\* What zmq_bus_publisher_push returns: its else belongs to the if inside the ALOGW before it.
PushResult == IF LogsWarnings THEN 0 ELSE -1

\* zmq_bus_publisher_push sends through the unit, if it has one, and unit_action_match ends.
PushSend ==
    /\ match.pc = "push"
    /\ reply' = IF PushResult = 0 THEN 0 ELSE -4
    /\ match' = Idle
    /\ UNCHANGED <<port_list, counter, unit, key_sql, rpc, clobbered>>

\* The pointer is to a deleted unit: the send may end the process.
PushCrashes ==
    /\ match.pc = "push" /\ match.found /\ ~ unit[match.work_id].alive
    /\ match' = [pc |-> "crashed"] /\ rpc' = [pc |-> "crashed"]
    /\ UNCHANGED <<port_list, counter, unit, key_sql, reply, clobbered>>

Next ==
    \/ AllocateUnit \/ EraseKeys
    \/ \E n \in WorkIds : ReleaseUnit(n) \/ PushLookup(n)
    \/ \E k \in Keys : SqlSet(k) \/ SqlUnset(k)
    \/ BadMessage \/ PushSend \/ PushCrashes \/ \E made \in BOOLEAN : RemoteCall(made)

Spec == Init /\ [][Next]_vars
-----------------------------------------------------------------------------
Live == {n \in DOMAIN unit : unit[n].alive}
PortsOf(n) == {unit[n].output, unit[n].inference}

\* Every variable has its type.
TypeOK ==
    /\ port_list \subseteq Ports
    /\ counter \in 0..MaxUnits
    /\ DOMAIN unit = 0..(counter - 1)
    /\ \A n \in DOMAIN unit : unit[n] \in [output : Ports, inference : Ports, alive : BOOLEAN]
    /\ DOMAIN key_sql \subseteq Keys
    /\ rpc.pc \in {"idle", "erase", "crashed"} /\ match.pc \in {"idle", "push", "crashed"}
    /\ reply \in {0, -2, -4, -9} /\ clobbered \subseteq WorkIds

\* The ports taken are exactly the two of every unit that lives, and no two units share one: when
\* the ports run out between the first and the second of a unit, and when units come and go.
PortsExact ==
    /\ port_list = UNION {PortsOf(n) : n \in Live}
    /\ Cardinality(port_list) = 2 * Cardinality(Live)

\* A pointer in key_sql leads to a unit that lives, except while its release is between the delete
\* and the erase; a unit that lives is found under its keys, with its own output URL, unless
\* sql_set or sql_unset was used on them.
KeysFollowUnits ==
    /\ \A n \in WorkIds : Holds(UnitKey(n), Pointer(n)) =>
         n \in Live \/ rpc.pc = "crashed" \/ (rpc.pc = "erase" /\ rpc.work_id = n)
    /\ \A n \in Live : n \in clobbered \/
         (Holds(UnitKey(n), Pointer(n)) /\ Holds(OutKey(n), Url(unit[n].output)))

\* A client message meets a deleted unit only when it overlaps the release of that unit: one that
\* comes after the release was answered never does.
DeletedOnlyIfOverlapping ==
    match.pc = "push" /\ match.found /\ match.work_id \notin Live => match.overlaps
=============================================================================
