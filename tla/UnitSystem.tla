----------------------------- MODULE UnitSystem -----------------------------
(***************************************************************************)
(* A node and the unit manager together: the clients reach the node        *)
(* through unit_action_match, the node registers and releases its units    *)
(* in the registry, and an inference goes through the unit to the          *)
(* subscriber of the channel with its number.                              *)
(*                                                                         *)
(* Every call between the two is a ZeroMQ request with a timeout, so the   *)
(* caller may get no answer whether or not the request was carried out.    *)
(***************************************************************************)
EXTENDS UnitRegistry, NodeSessions

CONSTANTS
    SqlKeys     \* the keys that sql_set and sql_unset are used on

ASSUME SqlAssumption == SqlKeys \subseteq Keys

SystemVars == <<vars, nodeVars>>

SystemInit == Init /\ NodeInit

\* A client names a session it was given, or all of them.
Named == WorkIds \cup {Refused}

\* unit_action_match calls the RPC server of the node.
ClientCalls(c) ==
    /\ RemoteCall(TRUE)
    /\ \/ Enqueue(c, "setup", AllSessions) \/ Enqueue(c, "pause", AllSessions)
       \/ \E id \in Named \cup {AllSessions} : Enqueue(c, "taskinfo", id)
       \/ \E id \in Named : Enqueue(c, "exit", id)
       \/ QueryStarts(c)

\* register_unit is carried out and answered.
Registers ==
    /\ AllocateUnit
    /\ RegisterAnswered(IF counter' = counter THEN Refused ELSE counter)

\* Another node registers a unit.
OtherRegisters ==
    /\ AllocateUnit
    /\ foreign' = foreign \cup (counter..(counter' - 1))
    /\ UNCHANGED <<event_queue, ev, rt, shared, channel, sub, sessions, task, events>>

\* register_unit is not answered in time, carried out or not.
RegisterLost == RegisterFails /\ (AllocateUnit \/ UNCHANGED vars)

\* sys_release_unit finds the unit, or finds none and answers all the same.
Released(n) ==
    \/ n \in WorkIds /\ ReleaseUnit(n)
    \/ rpc.pc = "idle" /\ (n \in WorkIds => ~ Holds(UnitKey(n), Pointer(n))) /\ UNCHANGED vars

\* release_unit is carried out, or is not.
Releases ==
    /\ ev.pc = "release"
    /\ \/ Released(ev.id) /\ ReleaseCalled(TRUE)
       \/ UNCHANGED vars /\ ReleaseCalled(FALSE)

\* The message of client c reaches the subscriber of the unit, if it has one.
Pushes(c) ==
    /\ PushSend
    /\ LET n == match.work_id IN
       IF match.found /\ unit[n].alive /\ n \in DOMAIN sub /\ Alive
       THEN Receive(n, c)
       ELSE UNCHANGED nodeVars

\* A process that ends with a node gives nothing back, but for one unit when it is told to end.
ShutsDown ==
    \/ ShutdownClean /\ UNCHANGED vars
    \/ \E n \in DOMAIN channel : ShutdownThrows(n) /\ Released(n)

RegistryStep ==
    /\ \/ EraseKeys \/ BadMessage \/ RemoteCall(FALSE) \/ PushCrashes
       \/ \E n \in WorkIds : PushLookup(n)
       \/ \E k \in SqlKeys : SqlSet(k) \/ SqlUnset(k)
    /\ UNCHANGED nodeVars

NodeStep ==
    /\ \/ QueryAnswers \/ TakeEvent \/ SetupSucceeds \/ SetupRefused \/ Taskinfo \/ Pause
       \/ Exit \/ ExitThrows \/ ExitStops \/ ChannelRaces \/ DropChannel
       \/ \E n \in DOMAIN sub : StoreAddress(n) \/ UserData(n)
    /\ UNCHANGED vars

SystemNext ==
    \/ \E c \in Clients : ClientCalls(c) \/ Pushes(c)
    \/ Registers \/ OtherRegisters \/ RegisterLost \/ Releases \/ ShutsDown
    \/ RegistryStep \/ NodeStep

SystemSpec == SystemInit /\ [][SystemNext]_SystemVars
-----------------------------------------------------------------------------
\* The channels of the node are units of the registry that live, and the units that live are channels
\* of the node: but for the one being released, those whose keys sql_set or sql_unset changed, those
\* whose release the registry never got, and those of other nodes.
UnitsFollowChannels ==
    Alive =>
      /\ \A n \in DOMAIN channel \ {Refused} : n \in Live \/ (ev.pc = "drop" /\ ev.id = n)
      /\ Live \subseteq DOMAIN channel \cup foreign \cup clobbered

\* Every session has its channel, with a subscriber, and no subscriber runs without its session: but
\* for the one that exit is stopping.  The session that the registry gave no ports, -1, may lose its
\* channel to the next setup that gets none.
SessionsHaveChannels ==
    Alive =>
      /\ sessions \ {Refused} \subseteq DOMAIN sub /\ DOMAIN sub \subseteq DOMAIN channel
      /\ \A n \in DOMAIN sub : n \in sessions \/ (ev.pc = "stop" /\ ev.id = n)

\* docs/architecture.md: PUSH/PULL is for "Point-to-point response delivery back to the TCP session".
\* When metrics_query or reload_config is about to answer, and when task_user_data is about to read where
\* the answers to an inference go, the URL there is that of the client that asked.
AnswersReachAsker ==
    /\ rt.pc = "query" => shared.url = rt.client
    /\ \A n \in DOMAIN sub : sub[n].pc = "set" => channel[n].url = sub[n].client
=============================================================================
