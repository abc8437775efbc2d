------------------------- MODULE UnitSystem_proofs --------------------------
(***************************************************************************)
(* Proofs about UnitSystem, for any clients and any number of ports, units *)
(* and sessions: the system implements the registry, so that what is       *)
(* proved of the registry holds of it, and channels, units, sessions and   *)
(* subscribers stay together.                                              *)
(***************************************************************************)
EXTENDS UnitSystem, UnitRegistry_proofs

\* A step of the system is a step of the registry, or leaves it alone.
LEMMA SystemStep ==
    ASSUME [SystemNext]_SystemVars
    PROVE  [Next]_vars
<1> USE DEF Next
<1>1. ASSUME NEW c \in Clients, ClientCalls(c) PROVE Next
  BY ZenonT(30), <1>1 DEF ClientCalls
<1>2. ASSUME NEW c \in Clients, Pushes(c) PROVE Next
  BY <1>2 DEF Pushes
<1>3. CASE Registers \/ OtherRegisters \/ RegisterLost
  BY <1>3 DEF Registers, OtherRegisters, RegisterLost
<1>4. ASSUME NEW n, Released(n) PROVE [Next]_vars
  BY <1>4 DEF Released
<1>5. CASE Releases \/ ShutsDown
  BY ZenonT(30), <1>4, <1>5 DEF Releases, ShutsDown
<1>6. CASE RegistryStep
  BY <1>6, SqlAssumption DEF RegistryStep
<1>7. CASE NodeStep
  BY <1>7 DEF NodeStep
<1>8. CASE UNCHANGED SystemVars
  BY <1>8 DEF SystemVars
<1> QED
  BY ZenonT(30), <1>1, <1>2, <1>3, <1>5, <1>6, <1>7, <1>8 DEF SystemNext

\* The node, its clients and the calls between them use the registry only through its operations.
THEOREM SystemImplementsRegistry == SystemSpec => Spec
<1>1. SystemInit => Init
  BY DEF SystemInit
<1>2. [SystemNext]_SystemVars => [Next]_vars
  BY SystemStep
<1> QED
  BY <1>1, <1>2, PTL DEF SystemSpec, Spec

\* The ports taken are exactly those of the units that live, with the node and its clients at work.
THEOREM SystemPortsExact == SystemSpec => []PortsExact
BY SystemImplementsRegistry, PortsAreExact, PTL
-----------------------------------------------------------------------------
\* The numbers that units had so far, and that of a setup the registry had no ports for.
Numbers == -1..(counter - 1)

Event == [op : {"setup", "pause", "taskinfo", "exit"}, client : Clients, id : Int]

\* The event thread is idle or at its end, or works on an event, or gives a unit back.
Handling == [pc : {"setup", "pause", "taskinfo", "exit", "enter", "stop"}, client : Clients, id : Int]
GivingBack == [pc : {"release", "drop"}, id : Int]
Still == [pc : {"idle", "dead", "ended"}]

EventType == event_queue \in Seq(Event) /\ ev \in Handling \cup GivingBack \cup Still

\* What the event thread relies on while it works on a session.
SessionWork ==
    /\ DOMAIN channel \subseteq Numbers /\ sessions \subseteq Numbers
    /\ ev.pc \in {"enter", "stop", "release", "drop"} =>
         ev.id \in Numbers /\ (ev.id \notin sessions \/ ev.id = Refused)
    /\ ev.pc = "enter" => ev.id \in DOMAIN channel \ DOMAIN sub
    /\ ev.pc = "drop" /\ ev.id \in Live => ev.id \in foreign \cup clobbered

NodeInv == EventType /\ (Alive => SessionWork) /\ UnitsFollowChannels /\ SessionsHaveChannels

\* At the start there is nothing to keep together.
LEMMA InitNode == SystemInit => NodeInv
<1> SUFFICES ASSUME SystemInit PROVE NodeInv
  OBVIOUS
<1>1. DOMAIN channel = {} /\ DOMAIN sub = {} /\ sessions = {} /\ DOMAIN unit = {} /\ ev.pc = "idle"
  BY DEF SystemInit, Init, NodeInit, Resting
<1>2. EventType
  BY DEF SystemInit, NodeInit, Resting, EventType, Still
<1> QED
  BY <1>1, <1>2 DEF NodeInv, SessionWork, UnitsFollowChannels, SessionsHaveChannels, Live

\* A step that leaves the sessions, the units and the work of the event thread as they are.
LEMMA SameSessions ==
    ASSUME NodeInv, EventType',
           ev'.pc = ev.pc /\ ev'.id = ev.id,
           DOMAIN channel' = DOMAIN channel, DOMAIN sub' = DOMAIN sub, sessions' = sessions,
           counter' = counter, Live' = Live, foreign \subseteq foreign', clobbered \subseteq clobbered'
    PROVE  NodeInv'
<1>1. Alive' = Alive /\ Numbers' = Numbers
  BY DEF Alive, Numbers
<1>2. Alive' => SessionWork'
  BY <1>1 DEF NodeInv, SessionWork
<1>3. UnitsFollowChannels'
  BY <1>1 DEF NodeInv, UnitsFollowChannels
<1>4. SessionsHaveChannels'
  BY <1>1 DEF NodeInv, SessionsHaveChannels
<1> QED
  BY <1>2, <1>3, <1>4 DEF NodeInv

\* A step in which the process ends.
LEMMA NodeGone ==
    ASSUME EventType, UNCHANGED event_queue, ev' \in Still, ev'.pc # "idle"
    PROVE  NodeInv'
<1>1. ~ Alive' /\ EventType'
  BY DEF Alive, EventType, Still
<1> QED
  BY <1>1 DEF NodeInv, UnitsFollowChannels, SessionsHaveChannels

\* A call of a client on the RPC server of the node.
LEMMA CallKeeps ==
    ASSUME NodeInv, NEW c \in Clients, ClientCalls(c)
    PROVE  NodeInv'
<1>1. counter' = counter /\ Live' = Live /\ clobbered' = clobbered
  BY DEF ClientCalls, RemoteCall, Live
<1>2. CASE \E op \in {"setup", "pause", "taskinfo", "exit"}, id \in Int : Enqueue(c, op, id)
  <2>1. EventType'
    BY <1>2 DEF Enqueue, NodeInv, EventType, Event
  <2> QED
    BY Zenon, <1>1, <1>2, <2>1, SameSessions DEF Enqueue
<1>3. CASE QueryStarts(c)
  BY Zenon, <1>1, <1>3, SameSessions DEF QueryStarts, NodeInv, EventType
<1>4. AllSessions \in Int /\ Named \subseteq Int
  BY RegistryAssumption DEF AllSessions, Named, WorkIds, Refused
<1> QED
  BY <1>2, <1>3, <1>4 DEF ClientCalls

\* The steps of the registry alone, and of a message on its way to a subscriber.
LEMMA PushKeeps ==
    ASSUME NodeInv, RegistryStep \/ \E c \in Clients : Pushes(c)
    PROVE  NodeInv'
<1>1. counter' = counter /\ Live' = Live /\ clobbered \subseteq clobbered'
  BY ZenonT(30) DEF RegistryStep, Pushes, EraseKeys, PushCrashes, BadMessage, RemoteCall, PushLookup,
                       SqlSet, SqlUnset, PushSend, Live
<1>2. /\ UNCHANGED <<event_queue, ev, sessions, foreign>>
      /\ DOMAIN channel' = DOMAIN channel /\ DOMAIN sub' = DOMAIN sub
  BY ZenonT(30) DEF RegistryStep, Pushes, Receive, nodeVars
<1> QED
  BY <1>1, <1>2, SameSessions DEF NodeInv, EventType

\* The registry answers a setup, with a number or with none; another node registers a unit.
LEMMA RegisterKeeps ==
    ASSUME IInv, NodeInv, Registers \/ OtherRegisters
    PROVE  NodeInv'
<1>1. /\ counter \in Nat /\ counter' \in {counter, counter + 1}
      /\ Live' = Live \cup (counter..(counter' - 1)) /\ counter \notin Live
      /\ clobbered' = clobbered \ {counter}
  <2>1. AllocateUnit
    BY DEF Registers, OtherRegisters
  <2>2. counter \in Nat /\ counter \notin Live /\ clobbered' = clobbered \ {counter}
    <3>1. counter \in Nat /\ DOMAIN unit = 0..(counter - 1)
      BY DEF IInv, TypeOK
    <3>2. counter \notin Live
      BY <3>1 DEF Live
    <3> QED
      BY Zenon, <2>1, <3>1, <3>2 DEF AllocateUnit
  <2>3. CASE UNCHANGED <<port_list, counter, unit, key_sql>>
    BY <2>2, <2>3 DEF Live
  <2>4. ASSUME NEW o, NEW i, Gains(o, i)
        PROVE  counter' = counter + 1 /\ Live' = Live \cup (counter..(counter' - 1))
    BY <2>2, <2>4, GainsLive DEF Gains
  <2> QED
    BY Zenon, <2>1, <2>2, <2>3, <2>4, AllocateEffect
<1> DEFINE new == counter..(counter' - 1)
<1>2. /\ new = IF counter' = counter THEN {} ELSE {counter}
      /\ counter \notin Numbers /\ -1 \in Numbers /\ Numbers' = Numbers \cup new
  <2>1. counter' = counter => new = {} /\ Numbers' = Numbers
    BY <1>1 DEF Numbers
  <2>2. counter' = counter + 1 => new = {counter} /\ Numbers' = Numbers \cup {counter}
    BY <1>1 DEF Numbers
  <2>3. counter \notin Numbers /\ -1 \in Numbers
    BY <1>1 DEF Numbers
  <2> QED
    BY ZenonT(30), <1>1, <2>1, <2>2, <2>3
<1> HIDE DEF new
<1>3. CASE OtherRegisters
  <2>1. UNCHANGED <<event_queue, ev, channel, sub, sessions>> /\ foreign' = foreign \cup new
    BY <1>3 DEF OtherRegisters, new
  <2>2. EventType' /\ Alive' = Alive
    BY Zenon, <2>1 DEF NodeInv, EventType, Alive
  <2>3. Alive' => SessionWork'
    BY Zenon, <1>1, <1>2, <2>1, <2>2 DEF NodeInv, SessionWork, new
  <2>4. UnitsFollowChannels'
    BY Zenon, <1>1, <1>2, <2>1, <2>2 DEF NodeInv, UnitsFollowChannels, new
  <2>5. SessionsHaveChannels'
    BY Zenon, <2>1, <2>2 DEF NodeInv, SessionsHaveChannels
  <2> QED
    BY Zenon, <2>2, <2>3, <2>4, <2>5 DEF NodeInv
<1>4. CASE Registers
  <2> DEFINE n == IF counter' = counter THEN Refused ELSE counter
  <2>1. /\ ev.pc = "setup" /\ ev \in Handling
        /\ DOMAIN channel' = DOMAIN channel \cup {n} /\ DOMAIN sub' = DOMAIN sub \ {n}
        /\ ev' = [ev EXCEPT !.pc = "enter", !.id = n]
        /\ UNCHANGED <<event_queue, sessions, foreign>>
    BY <1>4 DEF Registers, RegisterAnswered, With, Without, Restrict, NodeInv, EventType, Handling, GivingBack, Still
  <2>2. n \in Numbers' /\ n \in Int /\ new \subseteq {n} /\ (n # Refused => n \in new)
    BY <1>1, <1>2 DEF Refused
  <2> HIDE DEF n
  <2>3. ev' \in Handling /\ ev'.pc = "enter" /\ ev'.id = n
    BY ZenonT(30), <2>1, <2>2 DEF Handling
  <2>4. EventType' /\ Alive' /\ Alive
    BY <2>1, <2>3 DEF NodeInv, EventType, Alive
  <2>5. SessionWork
    BY <2>4 DEF NodeInv
  <2>6. SessionWork'
    BY ZenonT(30), <1>2, <2>1, <2>2, <2>3, <2>5 DEF SessionWork
  <2>7. UnitsFollowChannels'
    BY ZenonT(30), <1>1, <1>2, <2>1, <2>2, <2>3, <2>4, <2>5 DEF NodeInv, UnitsFollowChannels, SessionWork, new
  <2>8. SessionsHaveChannels'
    BY Zenon, <1>2, <2>1, <2>2, <2>3, <2>4, <2>5 DEF NodeInv, SessionsHaveChannels, SessionWork
  <2> QED
    BY Zenon, <2>4, <2>6, <2>7, <2>8 DEF NodeInv
<1> QED
  BY Zenon, <1>3, <1>4

\* release_unit finds the unit of the channel, or finds that its keys were changed, or is not carried out.
LEMMA ReleaseKeeps ==
    ASSUME IInv, NodeInv, Releases
    PROVE  NodeInv'
<1> DEFINE n == ev.id
<1>1. /\ ev.pc = "release" /\ ev' = [pc |-> "drop", id |-> n]
      /\ UNCHANGED <<event_queue, channel, sub, sessions>>
      /\ foreign \subseteq foreign'
  BY DEF Releases, ReleaseCalled
<1>2. counter' = counter /\ clobbered' = clobbered /\ Live \ {n} \subseteq Live' /\ Live' \subseteq Live
  <2>1. CASE n \in WorkIds /\ ReleaseUnit(n)
    BY ZenonT(30), <2>1, ReleaseLive DEF ReleaseUnit
  <2>2. CASE UNCHANGED vars
    BY <2>2 DEF vars, Live
  <2> QED
    BY ZenonT(30), <2>1, <2>2 DEF Releases, Released
<1>3. n \in Live' => n \in foreign' \cup clobbered
  <2>1. CASE n \in WorkIds /\ ReleaseUnit(n)
    BY ZenonT(30), <2>1, ReleaseLive
  <2>2. CASE UNCHANGED vars /\ (n \in WorkIds => ~ Holds(UnitKey(n), Pointer(n)))
    <3>1. Live' = Live /\ Live \subseteq WorkIds
      BY <2>2, RegistryAssumption DEF vars, Live, IInv, TypeOK, WorkIds
    <3> QED
      BY Zenon, <2>2, <3>1 DEF IInv, KeysFollowUnits
  <2>3. CASE ReleaseCalled(FALSE)
    BY Zenon, <2>3 DEF ReleaseCalled
  <2> QED
    BY ZenonT(30), <2>1, <2>2, <2>3 DEF Releases, Released
<1>4. ev \in GivingBack /\ ev' \in GivingBack /\ ev'.pc = "drop" /\ ev'.id = n
  BY Zenon, <1>1 DEF NodeInv, EventType, Handling, GivingBack, Still
<1>5. Alive /\ Alive' /\ EventType' /\ Numbers' = Numbers
  BY Zenon, <1>1, <1>2, <1>4 DEF Alive, NodeInv, EventType, Numbers
<1> HIDE DEF n
<1>6. SessionWork'
  BY Zenon, <1>1, <1>2, <1>3, <1>4, <1>5 DEF NodeInv, SessionWork, n
<1>7. UnitsFollowChannels'
  BY Zenon, <1>1, <1>2, <1>3, <1>4, <1>5 DEF NodeInv, UnitsFollowChannels, n
<1>8. SessionsHaveChannels'
  BY Zenon, <1>1, <1>2, <1>4, <1>5 DEF NodeInv, SessionsHaveChannels, n
<1> QED
  BY Zenon, <1>5, <1>6, <1>7, <1>8 DEF NodeInv

\* The event thread makes a session, takes one out, stops its subscriber and drops its channel.
LEMMA EventKeeps ==
    ASSUME NodeInv, UNCHANGED vars,
           TakeEvent \/ SetupSucceeds \/ SetupRefused \/ Taskinfo \/ Pause \/ Exit \/ ExitStops \/ DropChannel
    PROVE  NodeInv'
<1>1. counter' = counter /\ Live' = Live /\ clobbered' = clobbered /\ Numbers' = Numbers
  BY DEF vars, Live, Numbers
<1>2. foreign' = foreign /\ Alive
  BY DEF TakeEvent, SetupSucceeds, SetupRefused, Taskinfo, Pause, Exit, ExitStops, DropChannel, Alive
<1>3. SessionWork /\ EventType /\ UnitsFollowChannels /\ SessionsHaveChannels
  BY <1>2 DEF NodeInv
<1>4. Resting \in Still /\ Resting.pc = "idle"
  BY SMTT(30) DEF Resting, Still
<1>5. CASE TakeEvent
  <2>1. Head(event_queue) \in Event /\ Tail(event_queue) \in Seq(Event)
    BY <1>3, <1>5 DEF TakeEvent, EventType
  <2>2. EventType' /\ ev'.pc \in {"setup", "pause", "taskinfo", "exit"} /\ ev.pc = "idle"
    BY Zenon, <1>5, <2>1 DEF TakeEvent, EventType, Event, Handling
  <2> QED
    BY SMTT(30), <1>1, <1>2, <1>3, <1>5, <2>2
       DEF TakeEvent, NodeInv, SessionWork, UnitsFollowChannels, SessionsHaveChannels, Alive
<1>6. CASE SetupSucceeds
  <2>1. /\ ev.pc = "enter" /\ ev'.pc = "idle" /\ sessions' = sessions \cup {ev.id}
        /\ DOMAIN sub' = DOMAIN sub \cup {ev.id} /\ UNCHANGED <<event_queue, channel>> /\ EventType'
    BY Zenon, <1>3, <1>4, <1>6 DEF SetupSucceeds, With, EventType
  <2> QED
    BY Zenon, <1>1, <1>2, <1>3, <2>1 DEF NodeInv, SessionWork, UnitsFollowChannels, SessionsHaveChannels, Alive
<1>7. CASE SetupRefused
  <2>1. /\ ev.pc = "enter" /\ ev'.pc = "release" /\ ev'.id = ev.id /\ ev' \in GivingBack
        /\ UNCHANGED <<event_queue, channel, sub, sessions>>
    BY SMTT(30), <1>3, <1>7 DEF SetupRefused, EventType, Handling, GivingBack, Still
  <2> QED
    BY SMTT(30), <1>1, <1>2, <1>3, <2>1
       DEF NodeInv, EventType, SessionWork, UnitsFollowChannels, SessionsHaveChannels, Alive
<1>8. CASE Taskinfo \/ Pause
  <2>1. /\ ev.pc \in {"taskinfo", "pause"} /\ ev'.pc = "idle" /\ ev' \in Still
        /\ DOMAIN channel' = DOMAIN channel /\ DOMAIN sub' = DOMAIN sub /\ UNCHANGED <<event_queue, sessions>>
    BY SMTT(30), <1>4, <1>8 DEF Taskinfo, Pause, SetPushUrl
  <2> QED
    BY Zenon, <1>1, <1>2, <1>3, <2>1
       DEF NodeInv, EventType, SessionWork, UnitsFollowChannels, SessionsHaveChannels, Alive
<1>9. CASE Exit
  <2>1. /\ ev.pc = "exit" /\ sessions' = sessions \ {ev.id}
        /\ DOMAIN channel' = DOMAIN channel /\ DOMAIN sub' = DOMAIN sub /\ UNCHANGED event_queue
        /\ ev \in Handling
    BY <1>3, <1>9 DEF Exit, SetPushUrl, EventType, Handling, GivingBack, Still
  <2>2. IF ev.id \in sessions THEN ev' \in Handling /\ ev'.pc = "stop" /\ ev'.id = ev.id
        ELSE ev' \in Still /\ ev'.pc = "idle"
    BY SMTT(30), <1>4, <1>9, <2>1 DEF Exit, Handling
  <2> QED
    BY Zenon, <1>1, <1>2, <1>3, <2>1, <2>2
       DEF NodeInv, EventType, SessionWork, UnitsFollowChannels, SessionsHaveChannels, Alive
<1>10. CASE ExitStops
  <2>1. /\ ev.pc = "stop" /\ ev'.pc = "release" /\ ev'.id = ev.id /\ ev' \in GivingBack
        /\ DOMAIN sub' = DOMAIN sub \ {ev.id} /\ UNCHANGED <<event_queue, channel, sessions>>
    BY SMTT(30), <1>3, <1>10 DEF ExitStops, Without, Restrict, EventType, Handling, GivingBack, Still
  <2> QED
    BY SMTT(30), <1>1, <1>2, <1>3, <2>1
       DEF NodeInv, EventType, SessionWork, UnitsFollowChannels, SessionsHaveChannels, Alive
<1>11. CASE DropChannel
  <2>1. /\ ev.pc = "drop" /\ ev'.pc = "idle" /\ ev' \in Still
        /\ DOMAIN channel' = DOMAIN channel \ {ev.id} /\ DOMAIN sub' = DOMAIN sub \ {ev.id}
        /\ UNCHANGED <<event_queue, sessions>>
    BY <1>4, <1>11 DEF DropChannel, WithoutChannel, Without, Restrict
  <2> QED
    BY SMTT(30), <1>1, <1>2, <1>3, <2>1
       DEF NodeInv, EventType, SessionWork, UnitsFollowChannels, SessionsHaveChannels, Alive
<1> QED
  BY Zenon, <1>5, <1>6, <1>7, <1>8, <1>9, <1>10, <1>11

\* Every step of the system keeps channels, units, sessions and subscribers together.
LEMMA StepNode ==
    ASSUME IInv, NodeInv, [SystemNext]_SystemVars
    PROVE  NodeInv'
<1>1. CASE UNCHANGED SystemVars
  <2>1. Live' = Live /\ UNCHANGED <<counter, clobbered, event_queue, ev, channel, sub, sessions, foreign>>
    BY <1>1 DEF SystemVars, vars, nodeVars, Live
  <2> QED
    BY Zenon, <2>1, SameSessions DEF NodeInv, EventType
<1>2. CASE RegisterLost \/ ShutsDown
  <2>1. UNCHANGED event_queue /\ ev' \in Still /\ ev'.pc # "idle"
    BY <1>2 DEF RegisterLost, RegisterFails, NodeDies, ShutsDown, ShutdownClean, ShutdownThrows, Still
  <2> QED
    BY Zenon, <2>1, NodeGone DEF NodeInv
<1>3. CASE NodeStep
  <2>1. UNCHANGED vars
    BY <1>3 DEF NodeStep
  <2>2. CASE ExitThrows \/ ChannelRaces
    <3>1. UNCHANGED event_queue /\ ev' \in Still /\ ev'.pc # "idle"
      BY <2>2 DEF ExitThrows, ChannelRaces, NodeDies, Still
    <3> QED
      BY Zenon, <3>1, NodeGone DEF NodeInv
  <2>3. CASE QueryAnswers \/ \E n \in DOMAIN sub : StoreAddress(n) \/ UserData(n)
    <3>1. /\ UNCHANGED <<event_queue, ev, sessions, foreign, counter, clobbered>> /\ Live' = Live
          /\ DOMAIN channel' = DOMAIN channel /\ DOMAIN sub' = DOMAIN sub
      BY <2>1, <2>3 DEF QueryAnswers, StoreAddress, UserData, vars, Live
    <3> QED
      BY <3>1, SameSessions DEF NodeInv, EventType
  <2> QED
    BY ZenonT(30), <1>3, <2>1, <2>2, <2>3, EventKeeps DEF NodeStep
<1> QED
  BY ZenonT(30), <1>1, <1>2, <1>3, CallKeeps, PushKeeps, RegisterKeeps, ReleaseKeeps DEF SystemNext

\* The system keeps its invariant, with that of the registry.
THEOREM SystemCorrect == SystemSpec => [](IInv /\ NodeInv)
<1>1. SystemSpec => []IInv
  BY SystemImplementsRegistry, RegistryCorrect, PTL
<1>2. IInv /\ NodeInv /\ [SystemNext]_SystemVars => NodeInv'
  BY StepNode
<1> QED
  BY <1>1, <1>2, InitNode, PTL DEF SystemSpec

\* sys_register_unit and sys_release_unit of the node and the registry of the unit manager agree, though
\* their calls may go unanswered: a channel has a unit that lives, and a unit that lives has a channel,
\* with the exceptions that UnitsFollowChannels names.
THEOREM ChannelsHaveUnits == SystemSpec => []UnitsFollowChannels
<1>1. NodeInv => UnitsFollowChannels
  BY DEF NodeInv
<1> QED
  BY <1>1, SystemCorrect, PTL

\* setup, exit and the refusals of either keep sessions, channels and subscribers together.
THEOREM SessionsKeepChannels == SystemSpec => []SessionsHaveChannels
<1>1. NodeInv => SessionsHaveChannels
  BY DEF NodeInv
<1> QED
  BY <1>1, SystemCorrect, PTL
=============================================================================
