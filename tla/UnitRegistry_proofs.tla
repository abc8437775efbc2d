------------------------ MODULE UnitRegistry_proofs -------------------------
(***************************************************************************)
(* Proofs about UnitRegistry, for every number of ports and of units: the  *)
(* ports taken are exactly those of the units that live, the keys follow   *)
(* the units, and a message meets a deleted unit only when it overlaps the *)
(* release of that unit.                                                   *)
(***************************************************************************)
EXTENDS UnitRegistry, FiniteSetTheorems, TLAPS

\* The two ports of a unit differ, and two units that live share none.
PortsApart ==
    \A n \in Live : /\ unit[n].output # unit[n].inference
                    /\ \A m \in Live \ {n} : PortsOf(m) \cap PortsOf(n) = {}

\* Where the two threads are: a release erases the keys of a unit it has deleted, and the process
\* ends for both.
Threads ==
    /\ rpc.pc = "erase" => rpc.work_id \in WorkIds \ Live
    /\ rpc.pc = "crashed" => match.pc = "crashed"
    /\ match.pc = "push" =>
         match \in [pc : {"push"}, work_id : WorkIds, found : BOOLEAN, overlaps : BOOLEAN]

IInv == TypeOK /\ PortsExact /\ PortsApart /\ KeysFollowUnits /\ Threads /\ DeletedOnlyIfOverlapping

\* Every nonempty set of natural numbers has a least element.
LEMMA LeastNat ==
    ASSUME NEW S, S \subseteq Nat, S # {}
    PROVE  \E k \in S : \A j \in S : k <= j
<1>1. PICK k \in S : \A j \in S : ~ (<<j, k>> \in OpToRel(<, Nat))
  BY NatLessThanWellFounded, WFMin
<1>2. ASSUME NEW j \in S PROVE k <= j
  <2>1. <<j, k>> \in Nat \X Nat
    OBVIOUS
  <2>2. ~ (j < k)
    BY <1>1, <2>1 DEF OpToRel
  <2> QED
    BY <2>1, <2>2
<1> QED
  BY <1>2

\* allocate_zmq_port_locked gives -1 or a port that is free.
LEMMA AllocatedIsFree ==
    ASSUME NEW taken
    PROVE  /\ allocate_zmq_port(taken) \in (Ports \ taken) \cup {NoPort}
           /\ NoPort \notin Ports
<1>1. Ports \subseteq Nat /\ NoPort \notin Ports
  BY RegistryAssumption DEF Ports, NoPort
<1>2. CASE ~ (Ports \subseteq taken)
  <2> DEFINE free == Ports \ taken
  <2>1. free # {} /\ free \subseteq Nat
    BY ZenonT(30), <1>1, <1>2
  <2> HIDE DEF free
  <2>2. \E k \in free : \A j \in free : k <= j
    BY ZenonT(30), <2>1, LeastNat
  <2>3. Lowest(free) \in free
    BY <2>2 DEF Lowest
  <2> QED
    BY <1>1, <1>2, <2>3 DEF free, allocate_zmq_port
<1> QED
  BY <1>1, <1>2 DEF allocate_zmq_port

\* At the start no port is taken, and there is no unit and no key.
LEMMA InitIInv == Init => IInv
<1> SUFFICES ASSUME Init PROVE IInv
  OBVIOUS
<1>1. DOMAIN unit = {} /\ DOMAIN key_sql = {} /\ counter = 0 /\ port_list = {} /\ clobbered = {}
      /\ rpc.pc = "idle" /\ match.pc = "idle" /\ reply = 0
  BY DEF Init, Idle
<1>2. Live = {} /\ UNION {PortsOf(n) : n \in Live} = {}
  BY <1>1 DEF Live
<1>3. TypeOK
  BY <1>1, RegistryAssumption DEF TypeOK
<1>4. PortsExact
  BY <1>1, <1>2, FS_EmptySet DEF PortsExact
<1> QED
  BY <1>1, <1>2, <1>3, <1>4
     DEF IInv, PortsApart, KeysFollowUnits, Threads, DeletedOnlyIfOverlapping, Holds
-----------------------------------------------------------------------------
\* What a registration with the ports o and i does to the units and the keys.
Gains(o, i) ==
    /\ {o, i} \subseteq Ports \ port_list /\ o # i
    /\ port_list' = port_list \cup {o, i}
    /\ counter' = counter + 1 /\ counter \in WorkIds
    /\ DOMAIN unit' = DOMAIN unit \cup {counter} /\ counter \notin DOMAIN unit
    /\ unit'[counter] = [output |-> o, inference |-> i, alive |-> TRUE]
    /\ \A n \in DOMAIN unit : unit'[n] = unit[n]
    /\ DOMAIN key_sql' = DOMAIN key_sql \cup {UnitKey(counter), OutKey(counter)}
    /\ key_sql'[UnitKey(counter)] = Pointer(counter) /\ key_sql'[OutKey(counter)] = Url(o)
    /\ \A k \in DOMAIN key_sql \ {UnitKey(counter), OutKey(counter)} : key_sql'[k] = key_sql[k]

\* rpc_allocate_unit registers a unit with two ports that were free, or changes nothing.
LEMMA AllocateEffect ==
    ASSUME IInv, AllocateUnit
    PROVE  \/ UNCHANGED <<port_list, counter, unit, key_sql>>
           \/ \E o, i : Gains(o, i)
<1> DEFINE o == allocate_zmq_port(port_list)
           i == allocate_zmq_port(port_list \cup {o})
<1>1. o \in (Ports \ port_list) \cup {NoPort} /\ i \in (Ports \ (port_list \cup {o})) \cup {NoPort}
  BY AllocatedIsFree
<1>2. CASE NoPort \in {o, i}
  BY <1>2 DEF AllocateUnit, TakenAfter
<1>3. CASE NoPort \notin {o, i}
  <2> DEFINE n == counter
             new == [output |-> o, inference |-> i, alive |-> TRUE]
  <2>1. /\ port_list' = port_list \cup {o, i}
        /\ counter' = counter + 1 /\ counter < MaxUnits
        /\ unit' = With(unit, n, new)
        /\ key_sql' = With(With(key_sql, OutKey(n), Url(o)), UnitKey(n), Pointer(n))
    BY <1>3 DEF AllocateUnit, TakenAfter
  <2>2. {o, i} \subseteq Ports \ port_list /\ o # i
    BY <1>1, <1>3
  <2> HIDE DEF o, i, new
  <2>3. counter \in Nat /\ counter \in WorkIds /\ counter \notin DOMAIN unit
    BY <2>1, RegistryAssumption DEF IInv, TypeOK, WorkIds
  <2>4. /\ DOMAIN unit' = DOMAIN unit \cup {counter}
        /\ unit'[counter] = new
        /\ \A m \in DOMAIN unit : unit'[m] = unit[m]
    BY <2>1, <2>3 DEF With
  <2>5. UnitKey(n) # OutKey(n)
    BY DEF UnitKey, OutKey
  <2> HIDE DEF n
  <2>6. /\ DOMAIN key_sql' = DOMAIN key_sql \cup {UnitKey(n), OutKey(n)}
        /\ key_sql'[UnitKey(n)] = Pointer(n) /\ key_sql'[OutKey(n)] = Url(o)
        /\ \A k \in DOMAIN key_sql \ {UnitKey(n), OutKey(n)} : key_sql'[k] = key_sql[k]
    BY <2>1, <2>5 DEF With
  <2>7. Gains(o, i)
    BY ZenonT(30), <2>1, <2>2, <2>3, <2>4, <2>6 DEF n, new, Gains
  <2> QED
    BY <2>7
<1> QED
  BY <1>2, <1>3

\* The units that live after a registration, and their ports.
LEMMA GainsLive ==
    ASSUME IInv, NEW o, NEW i, Gains(o, i)
    PROVE  /\ Live' = Live \cup {counter} /\ counter \notin Live
           /\ \A n \in Live' \ Live : PortsOf(n)' = {o, i}
           /\ \A n \in Live : PortsOf(n)' = PortsOf(n) /\ unit'[n] = unit[n]
<1>1. Live' = Live \cup {counter} /\ counter \notin Live
  BY DEF Gains, Live
<1>2. unit'[counter].output = o /\ unit'[counter].inference = i
  BY DEF Gains, IInv, TypeOK
<1>3. \A n \in Live : unit'[n] = unit[n]
  BY DEF Gains, Live
<1> QED
  BY <1>1, <1>2, <1>3 DEF PortsOf

\* The units that live after a release, and their ports.
LEMMA ReleaseLive ==
    ASSUME IInv, NEW n \in WorkIds, ReleaseUnit(n)
    PROVE  /\ n \in Live /\ Live' = Live \ {n}
           /\ port_list' = port_list \ PortsOf(n)
           /\ DOMAIN unit' = DOMAIN unit /\ unit'[n] = [unit[n] EXCEPT !.alive = FALSE]
           /\ \A m \in DOMAIN unit \ {n} : unit'[m] = unit[m]
           /\ \A m \in Live \ {n} : PortsOf(m)' = PortsOf(m)
<1>1. n \in Live
  BY DEF ReleaseUnit, IInv, KeysFollowUnits
<1>2. /\ DOMAIN unit' = DOMAIN unit /\ unit'[n] = [unit[n] EXCEPT !.alive = FALSE]
      /\ \A m \in DOMAIN unit \ {n} : unit'[m] = unit[m]
  BY <1>1 DEF ReleaseUnit, Live
<1>3. ~ unit'[n].alive
  BY <1>1, <1>2 DEF IInv, TypeOK, Live
<1>4. Live' = Live \ {n}
  BY ZenonT(30), <1>1, <1>2, <1>3 DEF Live
<1>5. \A m \in Live \ {n} : PortsOf(m)' = PortsOf(m)
  BY <1>2 DEF PortsOf, Live
<1> QED
  BY <1>1, <1>2, <1>4, <1>5 DEF ReleaseUnit, PortsOf

\* The steps other than a registration and a release leave the ports and the units alone.
LEMMA OtherSteps ==
    ASSUME IInv, [Next]_vars
    PROVE  \/ \E o, i : AllocateUnit /\ Gains(o, i)
           \/ \E n \in WorkIds : ReleaseUnit(n)
           \/ UNCHANGED <<port_list, counter, unit>>
<1>1. CASE AllocateUnit
  BY <1>1, AllocateEffect
<1>2. CASE Next /\ ~ AllocateUnit
  BY ZenonT(30), <1>2 DEF Next, EraseKeys, PushLookup, SqlSet, SqlUnset, BadMessage, PushSend, PushCrashes,
              RemoteCall
<1> QED
  BY <1>1, <1>2 DEF vars

\* A unit is known by its number, and there are finitely many.
LEMMA FiniteRegistry ==
    ASSUME IInv
    PROVE  /\ IsFiniteSet(Live) /\ IsFiniteSet(port_list)
           /\ Cardinality(Live) \in Nat /\ Cardinality(port_list) \in Nat
<1>1. IsFiniteSet(0..(counter - 1)) /\ IsFiniteSet(0..(NPorts - 1))
  BY FS_Interval, RegistryAssumption DEF IInv, TypeOK
<1>2. IsFiniteSet(Live) /\ IsFiniteSet(port_list)
  BY ZenonT(30), <1>1, FS_Subset DEF IInv, TypeOK, Live, Ports
<1> QED
  BY <1>2, FS_CardinalityType

\* The ports taken stay those of the units that live, two each, when units come and go.
LEMMA StepPorts ==
    ASSUME IInv, [Next]_vars
    PROVE  PortsExact' /\ PortsApart'
<1>1. ASSUME NEW o, NEW i, Gains(o, i) PROVE PortsExact' /\ PortsApart'
  <2>1. /\ Live' = Live \cup {counter} /\ counter \notin Live
        /\ \A n \in Live' \ Live : PortsOf(n)' = {o, i}
        /\ \A n \in Live : PortsOf(n)' = PortsOf(n) /\ unit'[n] = unit[n]
    BY <1>1, GainsLive
  <2>2. {o, i} \cap port_list = {} /\ o # i /\ port_list' = port_list \cup {o, i}
    BY <1>1 DEF Gains
  <2>3. \A n \in Live : PortsOf(n) \subseteq port_list
    BY DEF IInv, PortsExact
  <2>4. port_list' = UNION {PortsOf(n)' : n \in Live'}
    BY <2>1, <2>2 DEF IInv, PortsExact
  <2>5. Cardinality(port_list') = Cardinality(port_list) + 2
    <3>1. /\ IsFiniteSet(port_list \cup {o})
          /\ Cardinality(port_list \cup {o}) = Cardinality(port_list) + 1
      BY ZenonT(30), <2>2, FiniteRegistry, FS_AddElement
    <3>2. Cardinality((port_list \cup {o}) \cup {i}) = Cardinality(port_list \cup {o}) + 1
      BY <2>2, <3>1, FS_AddElement
    <3>3. (port_list \cup {o}) \cup {i} = port_list'
      BY <2>2
    <3> QED
      BY <3>1, <3>2, <3>3, FiniteRegistry
  <2>6. Cardinality(Live') = Cardinality(Live) + 1
    BY ZenonT(30), <2>1, FiniteRegistry, FS_AddElement
  <2>7. PortsExact'
    BY <2>4, <2>5, <2>6, FiniteRegistry DEF IInv, PortsExact
  <2>8. PortsApart'
    <3> SUFFICES ASSUME NEW n \in Live'
                 PROVE  /\ unit'[n].output # unit'[n].inference
                        /\ \A m \in Live' \ {n} : PortsOf(m)' \cap PortsOf(n)' = {}
      BY DEF PortsApart
    <3>1. unit'[n].output # unit'[n].inference
      BY <1>1, <2>1, <2>2 DEF Gains, IInv, PortsApart
    <3>2. ASSUME NEW m \in Live' \ {n} PROVE PortsOf(m)' \cap PortsOf(n)' = {}
      BY <2>1, <2>2, <2>3 DEF IInv, PortsApart
    <3> QED
      BY <3>1, <3>2
  <2> QED
    BY <2>7, <2>8
<1>2. ASSUME NEW n \in WorkIds, ReleaseUnit(n) PROVE PortsExact' /\ PortsApart'
  <2>1. /\ n \in Live /\ Live' = Live \ {n}
        /\ port_list' = port_list \ PortsOf(n)
        /\ \A m \in DOMAIN unit \ {n} : unit'[m] = unit[m]
        /\ \A m \in Live \ {n} : PortsOf(m)' = PortsOf(m)
    BY ZenonT(30), <1>2, ReleaseLive
  <2> DEFINE o == unit[n].output
             i == unit[n].inference
  <2>2. o # i /\ PortsOf(n) = {o, i} /\ o \in port_list /\ i \in port_list
    BY <2>1 DEF IInv, PortsApart, PortsExact, PortsOf
  <2> HIDE DEF o, i
  <2>3. port_list' = UNION {PortsOf(m)' : m \in Live'}
    BY <2>1 DEF IInv, PortsExact, PortsApart
  <2>4. Cardinality(port_list') = Cardinality(port_list) - 2
    <3>1. /\ IsFiniteSet(port_list \ {o})
          /\ Cardinality(port_list \ {o}) = Cardinality(port_list) - 1
      BY <2>2, FiniteRegistry, FS_RemoveElement
    <3>2. Cardinality((port_list \ {o}) \ {i}) = Cardinality(port_list \ {o}) - 1
      BY <2>2, <3>1, FS_RemoveElement
    <3>3. (port_list \ {o}) \ {i} = port_list'
      BY <2>1, <2>2
    <3> QED
      BY <3>1, <3>2, <3>3, FiniteRegistry
  <2>5. Cardinality(Live') = Cardinality(Live) - 1
    BY ZenonT(30), <2>1, FiniteRegistry, FS_RemoveElement
  <2>6. PortsExact'
    BY <2>3, <2>4, <2>5, FiniteRegistry DEF IInv, PortsExact
  <2>7. PortsApart'
    BY <2>1 DEF IInv, PortsApart, Live
  <2> QED
    BY <2>6, <2>7
<1>3. ASSUME UNCHANGED <<port_list, counter, unit>> PROVE PortsExact' /\ PortsApart'
  BY <1>3 DEF IInv, PortsExact, PortsApart, Live, PortsOf
<1> QED
  BY <1>1, <1>2, <1>3, OtherSteps

\* A step keeps the types of the registry.
LEMMA StepTypes ==
    ASSUME IInv, [Next]_vars
    PROVE  TypeOK'
<1> DEFINE Units == /\ port_list \subseteq Ports
                    /\ counter \in 0..MaxUnits
                    /\ DOMAIN unit = 0..(counter - 1)
                    /\ \A n \in DOMAIN unit : unit[n] \in [output : Ports, inference : Ports, alive : BOOLEAN]
           Others == /\ rpc.pc \in {"idle", "erase", "crashed"}
                     /\ match.pc \in {"idle", "push", "crashed"}
                     /\ reply \in {0, -2, -4, -9}
                     /\ clobbered \subseteq WorkIds
<1>1. Units /\ Others /\ DOMAIN key_sql \subseteq Keys
  BY DEF IInv, TypeOK
<1>2. Units'
  <2>1. ASSUME NEW o, NEW i, Gains(o, i) PROVE Units'
    <3>1. port_list' \subseteq Ports /\ counter' \in 0..MaxUnits
      BY <1>1, <2>1, RegistryAssumption DEF Gains, WorkIds
    <3>2. DOMAIN unit' = 0..(counter' - 1)
      BY <1>1, <2>1, RegistryAssumption DEF Gains, WorkIds
    <3>3. \A n \in DOMAIN unit' : unit'[n] \in [output : Ports, inference : Ports, alive : BOOLEAN]
      <4>1. unit'[counter] \in [output : Ports, inference : Ports, alive : BOOLEAN]
        BY <2>1 DEF Gains
      <4> QED
        BY ZenonT(30), <1>1, <2>1, <4>1 DEF Gains
    <3> QED
      BY <3>1, <3>2, <3>3
  <2>2. ASSUME NEW n \in WorkIds, ReleaseUnit(n) PROVE Units'
    <3>1. /\ n \in Live
          /\ DOMAIN unit' = DOMAIN unit /\ unit'[n] = [unit[n] EXCEPT !.alive = FALSE]
          /\ \A m \in DOMAIN unit \ {n} : unit'[m] = unit[m]
      BY <2>2, ReleaseLive
    <3>2. unit'[n] \in [output : Ports, inference : Ports, alive : BOOLEAN]
      <4>1. unit[n] \in [output : Ports, inference : Ports, alive : BOOLEAN]
        BY <1>1, <3>1 DEF Live
      <4> QED
        BY ZenonT(30), <3>1, <4>1
    <3> QED
      BY <1>1, <2>2, <3>1, <3>2 DEF ReleaseUnit
  <2> QED
    BY <1>1, <2>1, <2>2, OtherSteps
<1>3. DOMAIN key_sql' \subseteq Keys
  <2>1. CASE AllocateUnit
    <3>1. \A n \in WorkIds : UnitKey(n) \in Keys /\ OutKey(n) \in Keys
      BY DEF UnitKey, OutKey, Keys
    <3>2. ASSUME NEW o, NEW i, Gains(o, i) PROVE DOMAIN key_sql' \subseteq Keys
      <4>1. DOMAIN key_sql' = DOMAIN key_sql \cup {UnitKey(counter), OutKey(counter)} /\ counter \in WorkIds
        BY <3>2 DEF Gains
      <4> QED
        BY <1>1, <3>1, <4>1
    <3> QED
      BY <1>1, <2>1, <3>2, AllocateEffect
  <2>2. CASE \E k \in Keys : SqlSet(k)
    BY <1>1, <2>2 DEF SqlSet, With
  <2>3. CASE EraseKeys \/ \E k \in Keys : SqlUnset(k)
    BY ZenonT(30), <1>1, <2>3 DEF EraseKeys, SqlUnset, Without, Restrict
  <2> QED
    BY <1>1, <2>1, <2>2, <2>3
       DEF Next, vars, ReleaseUnit, PushLookup, BadMessage, PushSend, PushCrashes, RemoteCall
<1>4. Others'
  <2>1. CASE \E n \in WorkIds : ReleaseUnit(n)
    <3>1. match'.pc = match.pc
      BY <2>1 DEF ReleaseUnit, MarkOverlap, IInv, Threads
    <3> QED
      BY <1>1, <2>1, <3>1 DEF ReleaseUnit
  <2>2. CASE \E k \in Keys : SqlSet(k) \/ SqlUnset(k)
    <3>1. \A k \in Keys : k[2] \in WorkIds
      BY DEF Keys
    <3> QED
      BY <1>1, <2>2, <3>1 DEF SqlSet, SqlUnset
  <2> QED
    BY <1>1, <2>1, <2>2
       DEF Next, vars, AllocateUnit, EraseKeys, PushLookup, BadMessage, PushSend, PushCrashes,
           RemoteCall, Idle
<1> QED
  BY <1>2, <1>3, <1>4 DEF TypeOK

\* A step keeps the threads where they may be, and a message that meets a deleted unit overlaps its
\* release.
LEMMA StepThreads ==
    ASSUME IInv, [Next]_vars
    PROVE  Threads' /\ DeletedOnlyIfOverlapping'
<1>1. /\ \A n : n \in Live /\ n \notin Live' => n \in WorkIds /\ ReleaseUnit(n)
      /\ rpc.pc # "idle" => Live' = Live
  <2>1. ASSUME NEW o, NEW i, AllocateUnit, Gains(o, i) PROVE rpc.pc = "idle" /\ Live \subseteq Live'
    BY <2>1, GainsLive DEF AllocateUnit
  <2>2. ASSUME NEW n \in WorkIds, ReleaseUnit(n) PROVE rpc.pc = "idle" /\ Live' = Live \ {n}
    BY ZenonT(30), <2>2, ReleaseLive DEF ReleaseUnit
  <2>3. ASSUME UNCHANGED unit PROVE Live' = Live
    BY <2>3 DEF Live
  <2> QED
    BY <2>1, <2>2, <2>3, OtherSteps
<1>2. Threads /\ DeletedOnlyIfOverlapping /\ KeysFollowUnits
  BY DEF IInv
<1>3. CASE UNCHANGED <<rpc, match>> /\ ~ \E n \in WorkIds : ReleaseUnit(n)
  BY <1>1, <1>2, <1>3 DEF Threads, DeletedOnlyIfOverlapping
<1>4. CASE \E n \in WorkIds : ReleaseUnit(n)
  <2>1. PICK n \in WorkIds : ReleaseUnit(n)
    BY <1>4
  <2>2. Live' = Live \ {n} /\ rpc' = [pc |-> "erase", work_id |-> n] /\ match' = MarkOverlap(n)
    BY ZenonT(30), <2>1, ReleaseLive DEF ReleaseUnit
  <2>3. CASE match.pc = "push" /\ match.work_id = n
    <3>1. /\ match' \in [pc : {"push"}, work_id : WorkIds, found : BOOLEAN, overlaps : BOOLEAN]
          /\ match'.overlaps
      BY ZenonT(30), <1>2, <2>2, <2>3 DEF MarkOverlap, Threads
    <3> QED
      BY <2>2, <3>1 DEF Threads, DeletedOnlyIfOverlapping
  <2>4. CASE ~ (match.pc = "push" /\ match.work_id = n)
    BY <1>2, <2>2, <2>4 DEF MarkOverlap, Threads, DeletedOnlyIfOverlapping
  <2> QED
    BY <2>3, <2>4
<1>5. CASE \E n \in WorkIds : PushLookup(n)
  <2>1. PICK n \in WorkIds : PushLookup(n)
    BY <1>5
  <2>2. Live' = Live /\ rpc' = rpc
    BY <2>1 DEF PushLookup, Live
  <2>3. /\ match' = [pc |-> "push", work_id |-> n, found |-> Holds(UnitKey(n), Pointer(n)),
                     overlaps |-> rpc.pc = "erase" /\ rpc.work_id = n]
        /\ match.pc = "idle"
    BY <2>1 DEF PushLookup
  <2>4. match' \in [pc : {"push"}, work_id : WorkIds, found : BOOLEAN, overlaps : BOOLEAN]
    BY <2>3 DEF Holds
  <2>5. match'.found /\ match'.work_id \notin Live => match'.overlaps
    BY ZenonT(30), <1>2, <2>3 DEF KeysFollowUnits, Threads
  <2> QED
    BY <1>2, <2>2, <2>3, <2>4, <2>5 DEF Threads, DeletedOnlyIfOverlapping
<1>6. CASE EraseKeys \/ PushSend \/ PushCrashes
  BY <1>1, <1>2, <1>6
     DEF EraseKeys, PushSend, PushCrashes, Idle, Threads, DeletedOnlyIfOverlapping
<1> QED
  BY ZenonT(30), <1>3, <1>4, <1>5, <1>6
     DEF Next, vars, AllocateUnit, SqlSet, SqlUnset, BadMessage, RemoteCall

\* The keys of units are told apart, and so is what they hold.
LEMMA KeysApart ==
    /\ \A m, n : UnitKey(m) # OutKey(n) /\ (m # n => UnitKey(m) # UnitKey(n) /\ OutKey(m) # OutKey(n))
    /\ \A n : UnitKey(n)[2] = n /\ OutKey(n)[2] = n /\ Text # Pointer(n)
BY DEF UnitKey, OutKey, Text, Pointer

\* A step keeps the keys and the units together.
LEMMA StepKeys ==
    ASSUME IInv, [Next]_vars
    PROVE  KeysFollowUnits'
<1>1. KeysFollowUnits /\ Threads
  BY DEF IInv
<1>2. ASSUME NEW o, NEW i, AllocateUnit, Gains(o, i) PROVE KeysFollowUnits'
  <2>1. /\ Live' = Live \cup {counter}
        /\ \A n \in Live : unit'[n] = unit[n] /\ n # counter
        /\ unit'[counter].output = o /\ rpc.pc = "idle" /\ rpc' = rpc /\ clobbered' = clobbered \ {counter}
    <3>1. rpc.pc = "idle" /\ rpc' = rpc /\ clobbered' = clobbered \ {counter}
      BY <1>2 DEF AllocateUnit
    <3>2. unit'[counter].output = o
      BY <1>2 DEF Gains
    <3> QED
      BY <1>2, <3>1, <3>2, GainsLive
  <2> DEFINE new == {UnitKey(counter), OutKey(counter)}
  <2>2. /\ DOMAIN key_sql' = DOMAIN key_sql \cup new
        /\ key_sql'[UnitKey(counter)] = Pointer(counter) /\ key_sql'[OutKey(counter)] = Url(o)
        /\ \A k \in DOMAIN key_sql \ new : key_sql'[k] = key_sql[k]
    BY <1>2 DEF Gains
  <2>3. \A n : n # counter => UnitKey(n) \notin new /\ OutKey(n) \notin new
    BY KeysApart
  <2> HIDE DEF new
  <2>4. ASSUME NEW n \in WorkIds, Holds(UnitKey(n), Pointer(n))' PROVE n \in Live'
    <3>1. UnitKey(n) \in DOMAIN key_sql' /\ key_sql'[UnitKey(n)] = Pointer(n)
      BY <2>4 DEF Holds, UnitKey, Pointer
    <3>2. n # counter => Holds(UnitKey(n), Pointer(n))
      BY <2>2, <2>3, <3>1 DEF Holds
    <3> QED
      BY <1>1, <2>1, <3>2 DEF KeysFollowUnits, Threads
  <2>5. ASSUME NEW n \in Live'
        PROVE  n \in clobbered' \/ (Holds(UnitKey(n), Pointer(n)) /\ Holds(OutKey(n), Url(unit[n].output)))'
    <3> SUFFICES ASSUME n \notin clobbered'
                 PROVE  /\ UnitKey(n) \in DOMAIN key_sql' /\ key_sql'[UnitKey(n)] = Pointer(n)
                        /\ OutKey(n) \in DOMAIN key_sql' /\ key_sql'[OutKey(n)] = Url(unit'[n].output)
      BY DEF Holds, UnitKey, OutKey, Pointer, Url
    <3>1. CASE n = counter
      BY <2>1, <2>2, <3>1 DEF new
    <3>2. CASE n # counter
      <4>1. n \in Live /\ n \notin clobbered /\ unit'[n] = unit[n]
        BY <2>1, <3>2
      <4>2. Holds(UnitKey(n), Pointer(n)) /\ Holds(OutKey(n), Url(unit[n].output))
        BY <1>1, <4>1 DEF KeysFollowUnits
      <4> QED
        BY <2>2, <2>3, <3>2, <4>1, <4>2 DEF Holds
    <3> QED
      BY <3>1, <3>2
  <2> QED
    BY <2>4, <2>5 DEF KeysFollowUnits
<1>3. ASSUME NEW n \in WorkIds, ReleaseUnit(n) PROVE KeysFollowUnits'
  <2>1. /\ Live' = Live \ {n} /\ n \in Live /\ rpc' = [pc |-> "erase", work_id |-> n] /\ rpc.pc = "idle"
        /\ \A m \in DOMAIN unit \ {n} : unit'[m] = unit[m]
        /\ UNCHANGED <<key_sql, clobbered>>
    BY ZenonT(30), <1>3, ReleaseLive DEF ReleaseUnit
  <2> QED
    BY ZenonT(30), <1>1, <2>1 DEF KeysFollowUnits, Holds, UnitKey, OutKey, Pointer, Url, Live
<1>4. CASE EraseKeys
  <2>1. PICK w \in WorkIds \ Live : w = rpc.work_id
    BY <1>1, <1>4 DEF EraseKeys, Threads
  <2>2. /\ DOMAIN key_sql' = DOMAIN key_sql \ {UnitKey(w), OutKey(w)}
        /\ \A k \in DOMAIN key_sql' : key_sql'[k] = key_sql[k]
        /\ rpc.pc = "erase" /\ rpc'.pc = "idle" /\ UNCHANGED <<unit, clobbered>>
    BY <1>4, <2>1 DEF EraseKeys, Without, Restrict, Idle
  <2>3. Live' = Live
    BY <2>2 DEF Live
  <2>4. ASSUME NEW n \in WorkIds, Holds(UnitKey(n), Pointer(n))' PROVE n \in Live'
    <3>1. n # w /\ Holds(UnitKey(n), Pointer(n))
      BY <2>2, <2>4 DEF Holds, UnitKey, Pointer
    <3> QED
      BY <1>1, <2>1, <2>2, <2>3, <3>1 DEF KeysFollowUnits
  <2>5. ASSUME NEW n \in Live, n \notin clobbered
        PROVE  (Holds(UnitKey(n), Pointer(n)) /\ Holds(OutKey(n), Url(unit[n].output)))'
    <3>1. Holds(UnitKey(n), Pointer(n)) /\ Holds(OutKey(n), Url(unit[n].output)) /\ n # w
      BY <1>1, <2>1, <2>5 DEF KeysFollowUnits
    <3>2. {UnitKey(n), OutKey(n)} \subseteq DOMAIN key_sql'
      BY SMTT(30), <2>2, <3>1, KeysApart DEF Holds
    <3> QED
      BY <2>2, <3>1, <3>2 DEF Holds, UnitKey, OutKey, Pointer, Url
  <2> QED
    BY <2>2, <2>3, <2>4, <2>5 DEF KeysFollowUnits
<1>5. ASSUME NEW k \in Keys, SqlSet(k) \/ SqlUnset(k) PROVE KeysFollowUnits'
  <2>1. /\ \A x \in DOMAIN key_sql \ {k} : x \in DOMAIN key_sql' /\ key_sql'[x] = key_sql[x]
        /\ \A x \in DOMAIN key_sql' : x # k => x \in DOMAIN key_sql
        /\ k \in DOMAIN key_sql' => key_sql'[k] = Text
        /\ clobbered' = clobbered \cup {k[2]} /\ UNCHANGED <<unit, rpc>>
    BY <1>5 DEF SqlSet, SqlUnset, With, Without, Restrict
  <2>2. Live' = Live
    BY <2>1 DEF Live
  <2>3. ASSUME NEW n \in WorkIds, Holds(UnitKey(n), Pointer(n))' PROVE Holds(UnitKey(n), Pointer(n))
    <3>1. UnitKey(n) \in DOMAIN key_sql' /\ key_sql'[UnitKey(n)] = Pointer(n)
      BY <2>3 DEF Holds, UnitKey, Pointer
    <3> QED
      BY <2>1, <3>1, KeysApart DEF Holds
  <2>4. ASSUME NEW n \in Live, n \notin clobbered'
        PROVE  (Holds(UnitKey(n), Pointer(n)) /\ Holds(OutKey(n), Url(unit[n].output)))'
    <3>1. Holds(UnitKey(n), Pointer(n)) /\ Holds(OutKey(n), Url(unit[n].output))
      BY <1>1, <2>1, <2>4 DEF KeysFollowUnits
    <3>2. UnitKey(n) # k /\ OutKey(n) # k
      BY <2>1, <2>4, KeysApart
    <3> QED
      BY <2>1, <3>1, <3>2 DEF Holds, UnitKey, OutKey, Pointer, Url
  <2> QED
    BY <1>1, <2>1, <2>2, <2>3, <2>4 DEF KeysFollowUnits
<1>6. ASSUME UNCHANGED <<unit, key_sql, clobbered>>, rpc' = rpc \/ rpc'.pc = "crashed" PROVE KeysFollowUnits'
  BY ZenonT(30), <1>1, <1>6 DEF KeysFollowUnits, Holds, Live, UnitKey, OutKey, Pointer, Url
<1>7. CASE AllocateUnit
  <2>1. CASE UNCHANGED <<port_list, counter, unit, key_sql>>
    <3>1. clobbered' = clobbered \ {counter} /\ counter \notin Live /\ rpc' = rpc /\ Live' = Live
      BY <1>7, <2>1 DEF AllocateUnit, IInv, TypeOK, Live
    <3> QED
      BY <1>1, <2>1, <3>1 DEF KeysFollowUnits, Holds, UnitKey, OutKey, Pointer, Url
  <2> QED
    BY <1>2, <1>7, <2>1, AllocateEffect
<1>8. CASE UNCHANGED vars \/ PushCrashes \/ BadMessage \/ PushSend
  BY <1>6, <1>8 DEF vars, PushCrashes, BadMessage, PushSend
<1>9. ASSUME NEW n \in WorkIds, PushLookup(n) PROVE KeysFollowUnits'
  BY <1>6, <1>9 DEF PushLookup
<1>10. ASSUME NEW made \in BOOLEAN, RemoteCall(made) PROVE KeysFollowUnits'
  BY <1>6, <1>10 DEF RemoteCall
<1> QED
  BY <1>3, <1>4, <1>5, <1>7, <1>8, <1>9, <1>10 DEF Next

\* The registry keeps its types, its ports, its keys and its threads together.
THEOREM RegistryCorrect == Spec => []IInv
<1>1. IInv /\ [Next]_vars => IInv'
  BY StepTypes, StepPorts, StepKeys, StepThreads DEF IInv
<1> QED
  BY <1>1, InitIInv, PTL DEF Spec

\* sys_allocate_unit and sys_release_unit neither leak a port nor give one to two units, for every
\* number of ports: the ports taken are exactly the two of every unit that lives.
THEOREM PortsAreExact == Spec => []PortsExact
<1>1. IInv => PortsExact
  BY DEF IInv
<1> QED
  BY <1>1, RegistryCorrect, PTL

\* key_sql leads to units that live, but between the delete and the erase of sys_release_unit, and a
\* unit that lives is found under its keys unless sql_set or sql_unset was used on them.
THEOREM KeysLeadToUnits == Spec => []KeysFollowUnits
<1>1. IInv => KeysFollowUnits
  BY DEF IInv
<1> QED
  BY <1>1, RegistryCorrect, PTL

\* zmq_bus_publisher_push meets a deleted unit only when the message overlaps the release of it.
THEOREM DeletedMeansOverlap == Spec => []DeletedOnlyIfOverlapping
<1>1. IInv => DeletedOnlyIfOverlapping
  BY DEF IInv
<1> QED
  BY <1>1, RegistryCorrect, PTL
=============================================================================
