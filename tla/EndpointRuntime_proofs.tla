----------------------- MODULE EndpointRuntime_proofs -----------------------
(***************************************************************************)
(* Proofs about EndpointRuntime for every set of objects, keys, workers,   *)
(* configurations and thresholds.                                          *)
(***************************************************************************)
EXTENDS EndpointRuntime, FiniteSetTheorems, TLAPS

(***************************************************************************)
(* Positions in a list                                                     *)
(***************************************************************************)

\* Every nonempty set of natural numbers has a least element.
LEMMA LeastNat ==
    ASSUME NEW S, S \subseteq Nat, S # {}
    PROVE  \E k \in S : \A j \in S : k <= j
<1>1. PICK k \in S : \A j \in S : ~ (<<j, k>> \in OpToRel(<, Nat))
  BY NatLessThanWellFounded, WFMin
<1>2. ASSUME NEW j \in S PROVE k <= j
  <2>1. <<j, k>> \in Nat \X Nat
    OBVIOUS
  <2>2. ~ (j < k)
    BY <1>1, <2>1 DEF OpToRel
  <2> QED
    BY <2>1, <2>2
<1> QED
  BY <1>2

\* Every nonempty set of positions of a list has a last one.
LEMMA LastIndex ==
    ASSUME NEW n \in Nat, NEW S \in SUBSET (1..n), S # {}
    PROVE  \E i \in S : \A j \in S : j <= i
  <1> DEFINE T == {n - i : i \in S}
  <1>1. T \in SUBSET Nat
    OBVIOUS
  <1>2. T # {}
    <2>1. PICK i \in S : TRUE
      BY ZenonT(30)
    <2>2. n - i \in T
      OBVIOUS
    <2> QED
      BY <2>2
  <1>3. PICK x \in T : \A y \in T : x <= y
    <2> HIDE DEF T
    <2> QED
      BY ZenonT(30), <1>1, <1>2, LeastNat
  <1>4. PICK i \in S : x = n - i
    OBVIOUS
  <1>5. ASSUME NEW j \in S PROVE j <= i
    <2>1. x <= n - j
      BY <1>3
    <2> QED
      BY <2>1, <1>4
  <1> QED
    BY <1>5

(***************************************************************************)
(* What every step keeps true of one endpoint's fields.                    *)
(***************************************************************************)

Sound(e) == e \in Endpoint /\ CallBounds(e) /\ Verdicts(e)

\* A threshold triple exists and its members lie in 0..StreakCap.
LEMMA SomeThreshold ==
    /\ AnyThreshold \in Thresholds
    /\ \A t \in Thresholds : /\ t.recovery \in 0..StreakCap
                             /\ t.unhealthy \in 0..StreakCap
                             /\ t.circuit \in 0..StreakCap
    /\ StreakCap \in Nat \ {0}
  BY EndpointAssumption DEF AnyThreshold, Threshold

\* A new endpoint object, and a destroyed one, satisfies the field invariant with no call out.
LEMMA NewSound ==
    ASSUME NEW k \in Keys, NEW m \in Nat \ {0}
    PROVE  Sound(NewEndpoint(k, m)) /\ NewEndpoint(k, m).inflight = 0
  BY SomeThreshold DEF Sound, CallBounds, Verdicts, NewEndpoint, Endpoint, CircuitStates,
                       BelowUnhealthy, BelowCircuit, BelowRecovery

\* A destroyed VllmEndpoint object carries no call.
LEMMA DestroyedSound == Sound(Destroyed) /\ Destroyed.inflight = 0
  <1>1. (CHOOSE k \in Keys : TRUE) \in Keys
    BY EndpointAssumption
  <1> QED
    BY <1>1, NewSound DEF Destroyed

\* Half-opening a circuit keeps the field invariant and the number of calls.
LEMMA HalfOpenedSound ==
    ASSUME NEW e, Sound(e)
    PROVE  Sound(HalfOpened(e)) /\ HalfOpened(e).inflight = e.inflight
  <1> DEFINE h == HalfOpened(e)
  <1>1. h \in Endpoint
    BY ZenonT(30) DEF Sound, HalfOpened, Endpoint, CircuitStates
  <1>2. /\ h.inflight = e.inflight /\ h.max_concurrency = e.max_concurrency
        /\ h.half_open_inflight = e.half_open_inflight \/ h.half_open_inflight = 0
    BY DEF Sound, HalfOpened, Endpoint
  <1>3. CallBounds(h)
    BY <1>1, <1>2 DEF Sound, CallBounds, Endpoint
  <1>4. Verdicts(h)
    BY DEF Sound, Verdicts, HalfOpened, Endpoint
  <1> QED
    BY <1>1, <1>2, <1>3, <1>4 DEF Sound

\* Taking an available endpoint adds one call and keeps the field invariant.
LEMMA TakenSound ==
    ASSUME NEW e, Sound(e), Available(e)
    PROVE  Sound(Taken(e)) /\ Taken(e).inflight = e.inflight + 1
  <1> DEFINE h == Taken(e)
  <1>0. /\ e.inflight + 1 \in Nat
        /\ (IF e.circuit_state = "HalfOpen" THEN e.half_open_inflight + 1
                                            ELSE e.half_open_inflight) \in Nat
    BY DEF Sound, Endpoint
  <1>1. h \in Endpoint
    BY ZenonT(30), <1>0 DEF Sound, Taken, Endpoint
  <1>2. /\ h.inflight = e.inflight + 1 /\ h.max_concurrency = e.max_concurrency
        /\ h.half_open_inflight = IF e.circuit_state = "HalfOpen"
                                  THEN e.half_open_inflight + 1 ELSE e.half_open_inflight
    BY DEF Sound, Taken, Endpoint
  <1>3. CallBounds(h)
    BY <1>1, <1>2 DEF Sound, CallBounds, Endpoint, Available
  <1>4. Verdicts(h)
    BY DEF Sound, Verdicts, Taken, Endpoint
  <1> QED
    BY <1>1, <1>2, <1>3, <1>4 DEF Sound

\* Releasing an endpoint that carries a call removes exactly one and keeps the field invariant.
LEMMA ReleasedSound ==
    ASSUME NEW e, Sound(e), e.inflight > 0
    PROVE  Sound(Released(e)) /\ Released(e).inflight = e.inflight - 1
  <1> DEFINE h == Released(e)
  <1>0. Less(e.inflight) \in Nat /\ Less(e.half_open_inflight) \in Nat
    BY DEF Sound, Less, Endpoint
  <1>1. h \in Endpoint
    BY ZenonT(30), <1>0 DEF Sound, Released, Endpoint
  <1>2. /\ h.inflight = e.inflight - 1 /\ h.max_concurrency = e.max_concurrency
        /\ h.half_open_inflight = Less(e.half_open_inflight)
    BY DEF Sound, Released, Less, Endpoint
  <1>3. CallBounds(h)
    BY <1>1, <1>2 DEF Sound, CallBounds, Less, Endpoint
  <1>4. Verdicts(h)
    BY DEF Sound, Verdicts, Released, Endpoint
  <1> QED
    BY <1>1, <1>2, <1>3, <1>4 DEF Sound

\* Judging a call or a health check by any threshold triple keeps the field invariant and the calls.
LEMMA JudgedSound ==
    ASSUME NEW e, Sound(e), NEW ok \in BOOLEAN, NEW t \in Thresholds
    PROVE  Sound(Judged(e, ok, t)) /\ Judged(e, ok, t).inflight = e.inflight
  <1> DEFINE h == Judged(e, ok, t)
  <1>1. CASE ok
    <2>0. Bump(e.consecutive_successes) \in 0..StreakCap /\ 0 \in 0..StreakCap
      BY SomeThreshold DEF Sound, Bump, Endpoint
    <2>1. h \in Endpoint
      BY ZenonT(30), <1>1, <2>0 DEF Sound, Judged, Succeeded, Endpoint, CircuitStates
    <2>2. /\ h.inflight = e.inflight /\ h.max_concurrency = e.max_concurrency
          /\ h.half_open_inflight = e.half_open_inflight
          /\ h.consecutive_failures = 0
          /\ h.consecutive_successes = Bump(e.consecutive_successes)
      BY <1>1 DEF Sound, Judged, Succeeded, Endpoint
    <2>3. CallBounds(h)
      BY <2>1, <2>2 DEF Sound, CallBounds
    <2>4. Verdicts(h)
      <3>1. ~(0 > 0)
        OBVIOUS
      <3>2. CASE h.consecutive_successes >= t.recovery
        <4>1. h.healthy = TRUE /\ h.circuit_state = "Closed" /\ h.cooling = FALSE
          BY <1>1, <2>2, <3>2 DEF Sound, Judged, Succeeded, Endpoint
        <4> QED
          BY <2>2, <3>1, <4>1 DEF Verdicts
      <3>3. CASE ~(h.consecutive_successes >= t.recovery)
        <4>1. /\ h.healthy = e.healthy /\ h.circuit_state = e.circuit_state
              /\ h.cooling = e.cooling
          BY <1>1, <2>2, <3>3 DEF Sound, Judged, Succeeded, Endpoint
        <4>2. BelowRecovery(h.consecutive_successes)
          BY <2>1, <3>3, SomeThreshold DEF BelowRecovery, Endpoint
        <4> QED
          BY <2>2, <3>1, <4>1, <4>2 DEF Verdicts, Sound
      <3> QED
        BY <3>2, <3>3
    <2> QED
      BY <2>1, <2>2, <2>3, <2>4 DEF Sound
  <1>2. CASE ~ok
    <2>0. Bump(e.consecutive_failures) \in 0..StreakCap /\ 0 \in 0..StreakCap
      BY SomeThreshold DEF Sound, Bump, Endpoint
    <2>1. h \in Endpoint
      BY ZenonT(30), <1>2, <2>0 DEF Sound, Judged, Failed, Endpoint, CircuitStates
    <2>2. /\ h.inflight = e.inflight /\ h.max_concurrency = e.max_concurrency
          /\ h.half_open_inflight = e.half_open_inflight
          /\ h.consecutive_successes = 0
          /\ h.consecutive_failures = Bump(e.consecutive_failures)
          /\ h.healthy = IF h.consecutive_failures >= t.unhealthy THEN FALSE ELSE e.healthy
          /\ h.circuit_state = IF h.consecutive_failures >= t.circuit
                               THEN "Open" ELSE e.circuit_state
          /\ h.cooling = IF h.consecutive_failures >= t.circuit THEN TRUE ELSE e.cooling
      BY <1>2 DEF Sound, Judged, Failed, Endpoint
    <2>3. CallBounds(h)
      BY Zenon, <2>1, <2>2 DEF Sound, CallBounds
    <2>4. Verdicts(h)
      <3>1. ~(0 > 0)
        OBVIOUS
      <3>2. h.healthy => BelowUnhealthy(h.consecutive_failures)
        <4>1. CASE h.consecutive_failures >= t.unhealthy
          BY ZenonT(30), <2>2, <4>1
        <4>2. CASE ~(h.consecutive_failures >= t.unhealthy)
          BY <2>1, <4>2, SomeThreshold DEF BelowUnhealthy, Endpoint
        <4> QED
          BY <4>1, <4>2
      <3>3. h.circuit_state = "Closed" => BelowCircuit(h.consecutive_failures)
        BY <2>1, <2>2, SomeThreshold DEF BelowCircuit, Endpoint
      <3>4. h.cooling => h.circuit_state = "Open"
        BY ZenonT(30), <2>2 DEF Sound, Verdicts
      <3> QED
        BY <2>2, <3>1, <3>2, <3>3, <3>4 DEF Verdicts
    <2> QED
      BY Zenon, <2>1, <2>2, <2>3, <2>4 DEF Sound
  <1> QED
    BY <1>1, <1>2

\* An object made by a reload satisfies the field invariant and starts without calls.
LEMMA CopiedSound ==
    ASSUME NEW e, Sound(e), NEW k \in Keys, NEW m \in Nat \ {0}
    PROVE  /\ Sound(CopiedRuntime(NewEndpoint(k, m), e))
           /\ CopiedRuntime(NewEndpoint(k, m), e).inflight = 0
  <1> DEFINE h == CopiedRuntime(NewEndpoint(k, m), e)
  <1>1. h \in Endpoint
    BY ZenonT(30) DEF Sound, CopiedRuntime, NewEndpoint, Endpoint
  <1>2. h.inflight = 0 /\ h.max_concurrency = m /\ h.half_open_inflight = 0
    BY DEF Sound, CopiedRuntime, NewEndpoint, Endpoint
  <1>3. CallBounds(h)
    BY <1>1, <1>2 DEF CallBounds
  <1>4. Verdicts(h)
    BY DEF Sound, Verdicts, CopiedRuntime, NewEndpoint, Endpoint
  <1> QED
    BY <1>1, <1>2, <1>3, <1>4 DEF Sound

(***************************************************************************)
(* The inductive invariant                                                 *)
(***************************************************************************)

\* The conjunction of the checked invariants is inductive: the bounds on one object need the
\* exact call count, and the count needs the types of the calls.
IInv == TypeOK /\ InflightExact /\ CallsBounded /\ VerdictsFollowStreaks

\* The field part of the invariant, and the part about threads and lists.
AllSound == ep \in [Objects -> Endpoint] /\ \A o \in Objects : Sound(ep[o])
ThreadsOK ==
    /\ endpoints \in Seq(Objects)
    /\ thresholds \in Thresholds
    /\ call \in [Workers -> CallState]
    /\ \A w \in Workers : call[w].pc # "idle" => call[w].ep \in Objects
    /\ health \in HealthState
    /\ health.pc = "applying" => health.queue # <<>>

\* The inductive invariant, split into what each VllmEndpoint satisfies, what each thread holds
\* and the accounting that ties the two.
LEMMA IInvParts == IInv <=> AllSound /\ ThreadsOK /\ InflightExact
  BY DEF IInv, TypeOK, AllSound, ThreadsOK, Sound, CallsBounded, VerdictsFollowStreaks

\* Destroying unreferenced objects keeps the field invariant and touches no object under call.
LEMMA CollectedSound ==
    ASSUME NEW fields, NEW list, NEW calls, NEW queue,
           \A o \in Objects : Sound(fields[o])
    PROVE  LET g == Collected(fields, list, calls, queue) IN
           /\ g \in [Objects -> Endpoint]
           /\ \A o \in Objects :
                 /\ Sound(g[o])
                 /\ \/ g[o].inflight = fields[o].inflight
                    \/ g[o].inflight = 0 /\ \A w \in Workers : calls[w].ep # o
  <1> DEFINE g == Collected(fields, list, calls, queue)
  <1>1. \A o \in Objects : \/ g[o] = fields[o]
                           \/ g[o] = Destroyed /\ \A w \in Workers : calls[w].ep # o
    BY DEF Collected
  <1>2. \A o \in Objects : Sound(g[o])
    BY <1>1, DestroyedSound
  <1>3. g \in [Objects -> Endpoint]
    BY <1>2 DEF Collected, Sound
  <1> QED
    BY <1>1, <1>2, <1>3, DestroyedSound

\* The calls on an object are finitely many, and at least one as long as a worker is calling it.
LEMMA CallsOnFinite ==
    ASSUME NEW o
    PROVE  IsFiniteSet(CallsOn(o)) /\ Cardinality(CallsOn(o)) \in Nat
  BY EndpointAssumption, FS_Subset, FS_CardinalityType DEF CallsOn

\* An object without calls counts zero.
LEMMA NoCalls ==
    ASSUME NEW o, \A w \in Workers : call[w].ep # o
    PROVE  Cardinality(CallsOn(o)) = 0
  <1>1. CallsOn(o) = {}
    BY DEF CallsOn
  <1> QED
    BY <1>1, FS_EmptySet

\* The list that build_endpoints_from_config makes, before any call, satisfies the invariant.
LEMMA InitIInv == Init => IInv
  <1> SUFFICES ASSUME Init PROVE AllSound /\ ThreadsOK /\ InflightExact
    BY IInvParts
  <1>1. PICK c \in Configs : \E obj \in [{c[i].key : i \in DOMAIN c} -> Objects] :
           /\ endpoints = [i \in DOMAIN c |-> obj[c[i].key]]
           /\ ep = [o \in Objects |->
                      IF \E k \in DOMAIN obj : obj[k] = o
                      THEN LET k == CHOOSE x \in DOMAIN obj : obj[x] = o
                           IN  NewEndpoint(k, LastEntry(c, k).max_concurrency)
                      ELSE Destroyed]
    BY ZenonT(30) DEF Init
  <1>2. PICK obj \in [{c[i].key : i \in DOMAIN c} -> Objects] :
           /\ endpoints = [i \in DOMAIN c |-> obj[c[i].key]]
           /\ ep = [o \in Objects |->
                      IF \E k \in DOMAIN obj : obj[k] = o
                      THEN LET k == CHOOSE x \in DOMAIN obj : obj[x] = o
                           IN  NewEndpoint(k, LastEntry(c, k).max_concurrency)
                      ELSE Destroyed]
    BY ZenonT(30), <1>1
  <1>3. c \in Seq(Entry) /\ Len(c) \in Nat /\ DOMAIN c = 1..Len(c)
    BY EndpointAssumption
  <1>4. ASSUME NEW k \in DOMAIN obj
        PROVE  k \in Keys /\ LastEntry(c, k).max_concurrency \in Nat \ {0}
    <2> DEFINE S == {i \in DOMAIN c : c[i].key = k}
    <2>1. S \in SUBSET (1..Len(c)) /\ S # {}
      BY <1>3
    <2>2. \E i \in S : \A j \in S : j <= i
      BY ZenonT(30), <1>3, <2>1, LastIndex
    <2>3. LastEntry(c, k) \in Entry
      BY <1>3, <2>2 DEF LastEntry
    <2>4. k \in Keys
      <3>1. PICK i \in DOMAIN c : c[i].key = k
        BY <2>1
      <3>2. c[i] \in Entry
        BY <1>3
      <3> QED
        BY <3>1, <3>2 DEF Entry
    <2> QED
      BY <2>3, <2>4 DEF Entry
  <1>5. ASSUME NEW o \in Objects PROVE Sound(ep[o]) /\ ep[o].inflight = 0
    <2>1. CASE \E k \in DOMAIN obj : obj[k] = o
      <3> DEFINE k == CHOOSE x \in DOMAIN obj : obj[x] = o
      <3>1. k \in DOMAIN obj
        BY <2>1
      <3>2. ep[o] = NewEndpoint(k, LastEntry(c, k).max_concurrency)
        BY <1>2, <2>1
      <3> QED
        BY ZenonT(30), <3>1, <3>2, <1>4, NewSound
    <2>2. CASE ~\E k \in DOMAIN obj : obj[k] = o
      BY Zenon, <1>2, <2>2, DestroyedSound
    <2> QED
      BY <2>1, <2>2
  <1>6. AllSound
    BY Zenon, <1>2, <1>5 DEF AllSound, Sound
  <1>7. ThreadsOK
    <2>1. endpoints \in Seq(Objects)
      BY <1>2, <1>3
    <2>2. call = [w \in Workers |-> IdleCall]
      BY DEF Init
    <2>3. IdleCall \in CallState /\ IdleCall.pc = "idle"
      BY Zenon, SomeThreshold DEF IdleCall, CallState
    <2>4. health \in HealthState /\ health.pc = "scan"
      BY SomeThreshold DEF Init, HealthState
    <2> QED
      BY <2>1, <2>2, <2>3, <2>4 DEF ThreadsOK, Init
  <1>8. InflightExact
    <2>1. \A w \in Workers : call[w].ep = nullptr
      BY DEF Init, IdleCall
    <2>2. ASSUME NEW o \in Objects PROVE Cardinality(CallsOn(o)) = 0
      BY Zenon, <2>1, NoCalls, EndpointAssumption
    <2> QED
      BY Zenon, <1>5, <2>2 DEF InflightExact
  <1> QED
    BY <1>6, <1>7, <1>8

\* select_endpoint adds the worker's call to the object it returns, and to no other.
LEMMA SelectIInv ==
    ASSUME IInv, NEW w \in Workers, SelectEndpoint(w) \/ SelectNothing(w)
    PROVE  IInv'
  <1> SUFFICES AllSound' /\ ThreadsOK' /\ InflightExact'
    BY IInvParts, PTL
  <1>1. AllSound /\ ThreadsOK /\ InflightExact
    BY IInvParts
  <1>2. ASSUME NEW S
        PROVE  /\ Probed(S) \in [Objects -> Endpoint]
               /\ \A o \in Objects : Sound(Probed(S)[o]) /\ Probed(S)[o].inflight = ep[o].inflight
    <2>1. \A o \in Objects : Probed(S)[o] = HalfOpened(ep[o]) \/ Probed(S)[o] = ep[o]
      BY DEF Probed
    <2>2. \A o \in Objects : Sound(Probed(S)[o]) /\ Probed(S)[o].inflight = ep[o].inflight
      BY <1>1, <2>1, HalfOpenedSound DEF AllSound
    <2> QED
      BY <2>2 DEF Probed, Sound
  <1>3. CASE SelectNothing(w)
    <2>1. PICK S : ep' = Probed(S)
      BY <1>3 DEF SelectNothing
    <2>2. AllSound'
      BY <1>2, <2>1 DEF AllSound
    <2>3. ThreadsOK'
      BY <1>1, <1>3 DEF ThreadsOK, SelectNothing
    <2>4. \A o \in Objects : CallsOn(o)' = CallsOn(o)
      BY <1>3 DEF SelectNothing, CallsOn
    <2>5. InflightExact'
      BY <1>1, <1>2, <2>1, <2>4 DEF InflightExact
    <2> QED
      BY Zenon, <2>2, <2>3, <2>5
  <1>4. CASE SelectEndpoint(w)
    <2>1. PICK S \in SUBSET Listed : \E o \in S :
             /\ Available(Probed(S)[o])
             /\ ep' = [Probed(S) EXCEPT ![o] = Taken(@)]
             /\ call' = [call EXCEPT ![w] = [IdleCall EXCEPT !.pc = "calling", !.ep = o]]
      BY ZenonT(30), <1>4 DEF SelectEndpoint
    <2>2. PICK o \in S :
             /\ Available(Probed(S)[o])
             /\ ep' = [Probed(S) EXCEPT ![o] = Taken(@)]
             /\ call' = [call EXCEPT ![w] = [IdleCall EXCEPT !.pc = "calling", !.ep = o]]
      BY ZenonT(30), <2>1
    <2>3. o \in Objects
      BY <1>1, <2>1 DEF ThreadsOK, Listed
    <2>4. ep' \in [Objects -> Endpoint] /\ \A x \in Objects : Sound(ep'[x]) /\
             ep'[x].inflight = IF x = o THEN ep[x].inflight + 1 ELSE ep[x].inflight
      <3>1. Sound(Taken(Probed(S)[o])) /\ Taken(Probed(S)[o]).inflight = ep[o].inflight + 1
        BY <1>2, <2>2, <2>3, TakenSound
      <3>2. \A x \in Objects : ep'[x] = IF x = o THEN Taken(Probed(S)[o]) ELSE Probed(S)[x]
        BY <1>2, <2>2, <2>3
      <3>3. ep' \in [Objects -> Endpoint]
        BY ZenonT(30), <1>2, <2>2, <3>1 DEF Sound
      <3> QED
        BY <1>2, <3>1, <3>2, <3>3
    <2>5. AllSound'
      BY <2>4 DEF AllSound
    <2> DEFINE mine == [IdleCall EXCEPT !.pc = "calling", !.ep = o]
    <2>6. mine \in CallState /\ mine.ep = o /\ mine.pc = "calling"
      BY ZenonT(30), <2>3, SomeThreshold DEF IdleCall, CallState
    <2>7. call' \in [Workers -> CallState] /\ call'[w] = mine
          /\ \A v \in Workers : v # w => call'[v] = call[v]
      BY <1>1, <2>2, <2>6 DEF ThreadsOK
    <2>8. ThreadsOK'
      <3>1. \A v \in Workers : call'[v].pc # "idle" => call'[v].ep \in Objects
        BY ZenonT(30), <1>1, <2>3, <2>6, <2>7 DEF ThreadsOK
      <3> QED
        BY ZenonT(30), <1>1, <1>4, <2>7, <3>1 DEF ThreadsOK, SelectEndpoint
    <2>9. w \notin CallsOn(o)
      BY ZenonT(30), <1>4 DEF SelectEndpoint, CallsOn
    <2>10. CallsOn(o)' = CallsOn(o) \cup {w}
      BY ZenonT(30), <2>6, <2>7 DEF CallsOn
    <2>11. ASSUME NEW x \in Objects, x # o PROVE CallsOn(x)' = CallsOn(x)
      <3>1. w \notin CallsOn(x)
        BY ZenonT(30), <1>4 DEF SelectEndpoint, CallsOn
      <3>2. w \notin CallsOn(x)'
        BY ZenonT(30), <2>6, <2>7, <2>11 DEF CallsOn
      <3> QED
        BY ZenonT(30), <2>7, <3>1, <3>2 DEF CallsOn
    <2>12. InflightExact'
      <3>1. Cardinality(CallsOn(o)') = Cardinality(CallsOn(o)) + 1
        BY ZenonT(30), <2>9, <2>10, CallsOnFinite, FS_AddElement
      <3> QED
        BY Zenon, <1>1, <2>4, <2>11, <3>1 DEF InflightExact
    <2> QED
      BY SMTT(30), <2>5, <2>8, <2>12
  <1> QED
    BY <1>3, <1>4

\* update_endpoint_result gives back exactly the slot of the worker that reports.
LEMMA ResultIInv ==
    ASSUME IInv, NEW w \in Workers, NEW ok \in BOOLEAN, UpdateEndpointResult(w, ok)
    PROVE  IInv'
  <1> SUFFICES AllSound' /\ ThreadsOK' /\ InflightExact'
    BY IInvParts, PTL
  <1>1. AllSound /\ ThreadsOK /\ InflightExact
    BY IInvParts
  <1> DEFINE o == call[w].ep
             h == Judged(Released(ep[o]), ok, call[w].thr)
             fields == [ep EXCEPT ![o] = h]
  <1>2. o \in Objects /\ call[w].thr \in Thresholds
    BY <1>1 DEF ThreadsOK, UpdateEndpointResult, CallState
  <1>3. w \in CallsOn(o)
    BY DEF UpdateEndpointResult, CallsOn
  <1>4. Cardinality(CallsOn(o) \ {w}) = Cardinality(CallsOn(o)) - 1
        /\ Cardinality(CallsOn(o)) \in Nat /\ Cardinality(CallsOn(o) \ {w}) \in Nat
    BY <1>3, CallsOnFinite, FS_RemoveElement, FS_CardinalityType
  <1>5. ep[o].inflight > 0
    BY <1>1, <1>2, <1>4 DEF InflightExact
  <1>6. Sound(h) /\ h.inflight = ep[o].inflight - 1
    <2>1. Sound(Released(ep[o])) /\ Released(ep[o]).inflight = ep[o].inflight - 1
      BY Zenon, <1>1, <1>2, <1>5, ReleasedSound DEF AllSound
    <2> QED
      BY Zenon, <1>2, <2>1, JudgedSound
  <1>7. \A x \in Objects : /\ fields[x] = IF x = o THEN h ELSE ep[x]
                           /\ Sound(fields[x])
    BY Zenon, <1>1, <1>2, <1>6 DEF AllSound
  <1>8. call' \in [Workers -> CallState] /\ call'[w] = IdleCall
        /\ \A v \in Workers : v # w => call'[v] = call[v]
    <2>1. IdleCall \in CallState
      BY SomeThreshold DEF IdleCall, CallState
    <2> QED
      BY <1>1, <2>1 DEF ThreadsOK, UpdateEndpointResult
  <1>9. ep' = Collected(fields, endpoints, call', health.queue)
    BY Zenon DEF UpdateEndpointResult
  <1>10. /\ ep' \in [Objects -> Endpoint]
         /\ \A x \in Objects :
               /\ Sound(ep'[x])
               /\ \/ ep'[x].inflight = fields[x].inflight
                  \/ ep'[x].inflight = 0 /\ \A v \in Workers : call'[v].ep # x
    <2> HIDE DEF fields
    <2> QED
      BY <1>7, <1>9, CollectedSound
  <1>11. AllSound'
    BY Zenon, <1>10 DEF AllSound
  <1>12. ThreadsOK'
    <2>1. IdleCall.pc = "idle"
      BY DEF IdleCall
    <2>2. \A v \in Workers : call'[v].pc # "idle" => call'[v].ep \in Objects
      BY Zenon, <1>1, <1>8, <2>1 DEF ThreadsOK
    <2> QED
      BY <1>1, <1>8, <2>2 DEF ThreadsOK, UpdateEndpointResult
  <1>13. ASSUME NEW x \in Objects
         PROVE  CallsOn(x)' = IF x = o THEN CallsOn(x) \ {w} ELSE CallsOn(x)
    <2>1. w \notin CallsOn(x)'
      BY <1>8 DEF CallsOn, IdleCall
    <2>2. x # o => w \notin CallsOn(x)
      BY Zenon DEF CallsOn
    <2> QED
      BY Zenon, <1>8, <2>1, <2>2 DEF CallsOn
  <1>14. InflightExact'
    <2> SUFFICES ASSUME NEW x \in Objects
                 PROVE  ep'[x].inflight = Cardinality(CallsOn(x)')
      BY Zenon DEF InflightExact
    <2>1. fields[x].inflight = Cardinality(CallsOn(x)')
      BY SMTT(30), <1>1, <1>4, <1>6, <1>7, <1>13 DEF InflightExact
    <2>2. CASE ep'[x].inflight = 0 /\ \A v \in Workers : call'[v].ep # x
      <3>1. CallsOn(x)' = {}
        BY <2>2 DEF CallsOn
      <3> QED
        BY <2>2, <3>1, FS_EmptySet
    <2> QED
      BY <1>10, <2>1, <2>2
  <1> QED
    BY <1>11, <1>12, <1>14

\* update_endpoint_health changes verdicts and no call.
LEMMA HealthIInv ==
    ASSUME IInv, NEW ok \in BOOLEAN, UpdateEndpointHealth(ok)
    PROVE  IInv'
  <1> SUFFICES AllSound' /\ ThreadsOK' /\ InflightExact'
    BY IInvParts, PTL
  <1>1. AllSound /\ ThreadsOK /\ InflightExact
    BY IInvParts
  <1> DEFINE o == Head(health.queue)
             h == Judged(ep[o], ok, health.thr)
             fields == [ep EXCEPT ![o] = h]
  <1>2. /\ o \in Objects /\ health.thr \in Thresholds
        /\ Tail(health.queue) \in Seq(Objects)
    BY <1>1 DEF ThreadsOK, UpdateEndpointHealth, HealthState
  <1>3. Sound(h) /\ h.inflight = ep[o].inflight
    BY <1>1, <1>2, JudgedSound DEF AllSound
  <1>4. \A x \in Objects : Sound(fields[x]) /\ fields[x].inflight = ep[x].inflight
    BY <1>1, <1>2, <1>3 DEF AllSound
  <1>5. ep' = Collected(fields, endpoints, call, health'.queue)
    BY DEF UpdateEndpointHealth
  <1>6. /\ ep' \in [Objects -> Endpoint]
        /\ \A x \in Objects :
              /\ Sound(ep'[x])
              /\ \/ ep'[x].inflight = fields[x].inflight
                 \/ ep'[x].inflight = 0 /\ \A v \in Workers : call[v].ep # x
    <2> HIDE DEF fields
    <2> QED
      BY <1>4, <1>5, CollectedSound
  <1>7. AllSound'
    BY <1>6 DEF AllSound
  <1>8. ThreadsOK'
    <2>1. health' \in HealthState /\ health'.pc = "scan"
      BY Zenon, <1>2, SomeThreshold DEF UpdateEndpointHealth, HealthState
    <2> QED
      BY Zenon, <1>1, <2>1 DEF ThreadsOK, UpdateEndpointHealth
  <1>9. InflightExact'
    <2>1. \A x \in Objects : CallsOn(x)' = CallsOn(x)
      BY Zenon DEF UpdateEndpointHealth, CallsOn
    <2> QED
      BY <1>1, <1>4, <1>6, <2>1, NoCalls DEF InflightExact
  <1> QED
    BY <1>7, <1>8, <1>9

\* What commit_reloaded_endpoints_locked makes of one entry: a sound object without calls, which
\* copies the runtime fields of a listed endpoint of the same key if there is one.
LEMMA CommittedSound ==
    ASSUME IInv, NEW e \in Entry
    PROVE  /\ Sound(Committed(e)) /\ Committed(e).inflight = 0 /\ Committed(e).key = e.key
           /\ \/ EntriesFor(e.key) = {}
              \/ \E i \in EntriesFor(e.key) :
                    Committed(e).circuit_state = ep[endpoints[i]].circuit_state
  <1>1. AllSound /\ ThreadsOK
    BY IInvParts
  <1>2. e.key \in Keys /\ e.max_concurrency \in Nat \ {0}
    BY DEF Entry
  <1> DEFINE new == NewEndpoint(e.key, e.max_concurrency)
             old == EntriesFor(e.key)
  <1>3. CASE old = {}
    <2>1. Committed(e) = new
      BY <1>3 DEF Committed, EntriesFor
    <2> QED
      BY <1>2, <1>3, <2>1, NewSound DEF NewEndpoint
  <1>4. CASE old # {}
    <2> DEFINE last == CHOOSE i \in old : \A j \in old : j <= i
    <2>1. old \in SUBSET (1..Len(endpoints)) /\ Len(endpoints) \in Nat
      BY <1>1 DEF ThreadsOK, EntriesFor
    <2>2. last \in old
      <3>1. \E i \in old : \A j \in old : j <= i
        BY ZenonT(30), <1>4, <2>1, LastIndex
      <3> QED
        BY <3>1
    <2>3. Committed(e) = CopiedRuntime(new, ep[endpoints[last]])
      BY <1>4 DEF Committed, EntriesFor
    <2>4. Sound(ep[endpoints[last]]) /\ ep[endpoints[last]].key = e.key
      <3>1. \A i \in old : endpoints[i] \in Objects /\ ep[endpoints[i]].key = e.key
        BY <1>1 DEF ThreadsOK, EntriesFor
      <3>2. \A o \in Objects : Sound(ep[o])
        BY Zenon, <1>1 DEF AllSound
      <3> HIDE DEF old, last
      <3> QED
        BY Zenon, <2>2, <3>1, <3>2
    <2>5. /\ Committed(e).key = e.key
          /\ Committed(e).circuit_state = ep[endpoints[last]].circuit_state
      BY Zenon, <2>3, <2>4 DEF CopiedRuntime, Sound, Endpoint
    <2>6. Sound(Committed(e)) /\ Committed(e).inflight = 0
      <3> DEFINE source == ep[endpoints[last]]
      <3>1. Sound(source) /\ Committed(e) = CopiedRuntime(new, source)
        BY <2>3, <2>4
      <3> HIDE DEF source
      <3> QED
        BY Zenon, <1>2, <3>1, CopiedSound
    <2> QED
      BY ZenonT(30), <2>2, <2>5, <2>6
  <1> QED
    BY <1>3, <1>4

\* A reload swaps the list for new objects, which no worker is calling.
LEMMA ReloadIInv ==
    ASSUME IInv, ReloadEndpoints
    PROVE  IInv'
  <1> SUFFICES AllSound' /\ ThreadsOK' /\ InflightExact'
    BY IInvParts, PTL
  <1>1. AllSound /\ ThreadsOK /\ InflightExact
    BY IInvParts
  <1>2. PICK c \in Configs : \E new \in [DOMAIN c -> {o \in Objects : ~Referenced(o)}] :
          /\ endpoints' = new
          /\ ep' = Collected([o \in Objects |->
                                IF \E i \in DOMAIN c : new[i] = o
                                THEN Committed(c[CHOOSE i \in DOMAIN c : new[i] = o])
                                ELSE ep[o]],
                             endpoints', call, health.queue)
    BY ZenonT(30) DEF ReloadEndpoints
  <1>3. PICK new \in [DOMAIN c -> {o \in Objects : ~Referenced(o)}] :
          /\ endpoints' = new
          /\ ep' = Collected([o \in Objects |->
                                IF \E i \in DOMAIN c : new[i] = o
                                THEN Committed(c[CHOOSE i \in DOMAIN c : new[i] = o])
                                ELSE ep[o]],
                             endpoints', call, health.queue)
    BY ZenonT(30), <1>2
  <1> DEFINE fields == [o \in Objects |->
                          IF \E i \in DOMAIN c : new[i] = o
                          THEN Committed(c[CHOOSE i \in DOMAIN c : new[i] = o])
                          ELSE ep[o]]
  <1>4. c \in Seq(Entry) /\ Len(c) \in Nat /\ DOMAIN c = 1..Len(c)
    BY EndpointAssumption
  <1>5. ASSUME NEW o \in Objects
        PROVE  /\ Sound(fields[o])
               /\ fields[o].inflight = Cardinality(CallsOn(o))
    <2>1. CASE \E i \in DOMAIN c : new[i] = o
      <3> DEFINE e == c[CHOOSE i \in DOMAIN c : new[i] = o]
      <3>1. e \in Entry /\ fields[o] = Committed(e)
        BY <1>4, <2>1
      <3>2. \A w \in Workers : call[w].ep # o
        BY Zenon, <2>1 DEF Referenced
      <3> QED
        BY Zenon, <3>1, <3>2, CommittedSound, NoCalls
    <2>2. CASE ~\E i \in DOMAIN c : new[i] = o
      BY Zenon, <1>1, <2>2 DEF AllSound, InflightExact
    <2> QED
      BY Zenon, <2>1, <2>2
  <1>6. /\ ep' \in [Objects -> Endpoint]
        /\ \A x \in Objects :
              /\ Sound(ep'[x])
              /\ \/ ep'[x].inflight = fields[x].inflight
                 \/ ep'[x].inflight = 0 /\ \A v \in Workers : call[v].ep # x
    <2>1. ep' = Collected(fields, endpoints', call, health.queue)
      BY <1>3
    <2>2. \A o \in Objects : Sound(fields[o])
      BY ZenonT(30), <1>5
    <2> HIDE DEF fields
    <2> QED
      BY <2>1, <2>2, CollectedSound
  <1>7. AllSound'
    BY ZenonT(30), <1>6 DEF AllSound
  <1>8. ThreadsOK'
    <2>1. endpoints' \in Seq(Objects)
      BY <1>3, <1>4
    <2> QED
      BY Zenon, <1>1, <2>1 DEF ThreadsOK, ReloadEndpoints, Reloadable
  <1>9. InflightExact'
    <2>1. \A x \in Objects : CallsOn(x)' = CallsOn(x)
      BY DEF ReloadEndpoints, CallsOn
    <2> HIDE DEF fields
    <2> QED
      BY Zenon, <1>5, <1>6, <2>1, NoCalls DEF InflightExact
  <1> QED
    BY <1>7, <1>8, <1>9

\* The steps that change only a thread, the thresholds or a timer.
LEMMA OtherIInv ==
    ASSUME IInv,
           \/ \E w \in Workers : CallReturns(w)
           \/ HealthSnapshot
           \/ CheckEndpointHealth
           \/ \E o \in Objects : CircuitOpenElapses(o)
           \/ ReloadThresholds
           \/ UNCHANGED vars
    PROVE  IInv'
  <1> SUFFICES AllSound' /\ ThreadsOK' /\ InflightExact'
    BY IInvParts, PTL
  <1>1. AllSound /\ ThreadsOK /\ InflightExact
    BY IInvParts
  <1>2. ASSUME NEW w \in Workers, CallReturns(w)
        PROVE  AllSound' /\ ThreadsOK' /\ InflightExact'
    <2>1. /\ call' \in [Workers -> CallState]
          /\ \A v \in Workers : /\ call'[v].ep = call[v].ep
                                /\ (call'[v].pc # "idle") = (call[v].pc # "idle")
      BY ZenonT(30), <1>1, <1>2 DEF ThreadsOK, CallReturns, CallState
    <2>2. \A x \in Objects : CallsOn(x)' = CallsOn(x)
      BY <2>1 DEF CallsOn
    <2>3. ThreadsOK'
      BY Zenon, <1>1, <1>2, <2>1 DEF ThreadsOK, CallReturns
    <2> QED
      BY Zenon, <1>1, <1>2, <2>2, <2>3 DEF AllSound, InflightExact, CallReturns
  <1>3. ASSUME HealthSnapshot \/ CheckEndpointHealth
        PROVE  AllSound' /\ ThreadsOK' /\ InflightExact'
    <2>1. health' \in HealthState /\ (health'.pc = "applying" => health'.queue # <<>>)
      BY ZenonT(30), <1>1, <1>3 DEF ThreadsOK, HealthSnapshot, CheckEndpointHealth, HealthState
    <2>2. UNCHANGED <<ep, endpoints, thresholds, call>>
      BY <1>3 DEF HealthSnapshot, CheckEndpointHealth
    <2> QED
      BY <1>1, <2>1, <2>2 DEF AllSound, ThreadsOK, InflightExact, CallsOn
  <1>4. ASSUME NEW o \in Objects, CircuitOpenElapses(o)
        PROVE  AllSound' /\ ThreadsOK' /\ InflightExact'
    <2> DEFINE h == [ep[o] EXCEPT !.cooling = FALSE]
    <2>1. ep' = [ep EXCEPT ![o] = h]
      BY <1>1, <1>4 DEF CircuitOpenElapses, AllSound
    <2>2. Sound(ep[o])
      BY <1>1 DEF AllSound
    <2>3. h \in Endpoint
      BY ZenonT(30), <2>2 DEF Sound, Endpoint
    <2>4. /\ h.inflight = ep[o].inflight /\ h.max_concurrency = ep[o].max_concurrency
          /\ h.half_open_inflight = ep[o].half_open_inflight
      BY <2>2 DEF Sound, Endpoint
    <2>5. Verdicts(h)
      BY <2>2 DEF Sound, Verdicts, Endpoint
    <2>6. Sound(h)
      BY Zenon, <2>2, <2>3, <2>4, <2>5 DEF Sound, CallBounds
    <2>7. AllSound' /\ \A x \in Objects : ep'[x].inflight = ep[x].inflight
      <3> HIDE DEF h
      <3> QED
        BY Zenon, <1>1, <2>1, <2>3, <2>4, <2>6 DEF AllSound
    <2> QED
      BY ZenonT(30), <1>1, <1>4, <2>7 DEF ThreadsOK, InflightExact, CallsOn, CircuitOpenElapses
  <1>5. ASSUME ReloadThresholds \/ UNCHANGED vars
        PROVE  AllSound' /\ ThreadsOK' /\ InflightExact'
    BY Zenon, <1>1, <1>5 DEF ReloadThresholds, Reloadable, vars, AllSound, ThreadsOK, InflightExact,
                            CallsOn
  <1> QED
    BY <1>2, <1>3, <1>4, <1>5

\* Every step of the workers, the health loop and reload_config keeps the invariant.
LEMMA NextIInv == IInv /\ [Next]_vars => IInv'
  BY Zenon, SelectIInv, ResultIInv, HealthIInv, ReloadIInv, OtherIInv DEF Next

\* The inductive invariant holds in every reachable state.
LEMMA Invariance == Spec => []IInv
  BY InitIInv, NextIInv, PTL DEF Spec

(***************************************************************************)
(* The theorems                                                            *)
(***************************************************************************)

\* Type correctness of the endpoint runtime.
THEOREM TypeCorrect == Spec => []TypeOK
  BY Invariance, PTL DEF IInv

\* update_endpoint_result gives back exactly what select_endpoint took, whatever reloads and
\* health checks come between.
THEOREM ExactAccounting == Spec => []InflightExact
  BY Invariance, PTL DEF IInv

\* No object ever exceeds its max_concurrency, and a half-open probe is never leaked.
THEOREM BoundedCalls == Spec => []CallsBounded
  BY Invariance, PTL DEF IInv

\* healthy and circuit_state always agree with the streaks they were judged by.
THEOREM SoundVerdicts == Spec => []VerdictsFollowStreaks
  BY Invariance, PTL DEF IInv

\* What may follow an Open circuit whose time is not up, in one step.
Earned(e) ==
    \/ e.circuit_state = "Open"
    \/ /\ e.circuit_state = "Closed" /\ e.consecutive_successes > 0
       /\ \E t \in Thresholds : e.consecutive_successes >= t.recovery

\* The end of a call leaves the key and the circuit of its endpoint alone.
LEMMA ReleasedVerdict ==
    ASSUME NEW e \in Endpoint
    PROVE  /\ Released(e) \in Endpoint /\ Released(e).key = e.key
           /\ Tripped(e) => Tripped(Released(e))
  <1>1. Less(e.inflight) \in Nat /\ Less(e.half_open_inflight) \in Nat
    BY DEF Less, Endpoint
  <1>2. Released(e) \in Endpoint
    BY ZenonT(30), <1>1 DEF Released, Endpoint
  <1>3. /\ Released(e).key = e.key
        /\ Released(e).circuit_state = e.circuit_state /\ Released(e).cooling = e.cooling
    BY DEF Released, Endpoint
  <1> QED
    BY <1>2, <1>3 DEF Tripped

\* One judgement leaves a tripped circuit Open unless it completes a streak of successes.
LEMMA TrippedJudged ==
    ASSUME NEW e \in Endpoint, Tripped(e), NEW ok \in BOOLEAN, NEW t \in Thresholds
    PROVE  Earned(Judged(e, ok, t)) /\ Judged(e, ok, t).key = e.key
  <1> DEFINE h == Judged(e, ok, t)
  <1>1. CASE ok
    <2>1. CASE Bump(e.consecutive_successes) >= t.recovery
      <3>1. /\ h.circuit_state = "Closed" /\ h.key = e.key
            /\ h.consecutive_successes = Bump(e.consecutive_successes)
        BY <1>1, <2>1 DEF Judged, Succeeded, Endpoint
      <3>2. Bump(e.consecutive_successes) > 0
        BY SomeThreshold DEF Bump, Endpoint
      <3> QED
        BY Zenon, <2>1, <3>1, <3>2 DEF Earned
    <2>2. CASE ~(Bump(e.consecutive_successes) >= t.recovery)
      <3>1. h.circuit_state = "Open" /\ h.key = e.key
        BY <1>1, <2>2 DEF Judged, Succeeded, Endpoint, Tripped
      <3> QED
        BY <3>1 DEF Earned
    <2> QED
      BY Zenon, <2>1, <2>2
  <1>2. CASE ~ok
    <2>1. h.circuit_state = "Open" /\ h.key = e.key
      BY <1>2 DEF Judged, Failed, Endpoint, Tripped
    <2> QED
      BY <2>1 DEF Earned
  <1> QED
    BY <1>1, <1>2

Kept(o) == ep'[o].key = ep[o].key /\ (Tripped(ep[o]) => Earned(ep'[o]))

\* A step that keeps the list keeps the key of every listed object, and what it may do to a
\* tripped circuit is earned.
LEMMA ListedKept ==
    ASSUME IInv, [Next]_vars, ~ReloadEndpoints
    PROVE  endpoints' = endpoints /\ \A o \in Listed : Kept(o)
  <1>1. AllSound /\ ThreadsOK /\ Listed \subseteq Objects
    BY IInvParts DEF ThreadsOK, Listed
  <1>2. \A o \in Objects : ep[o] \in Endpoint
    BY <1>1 DEF AllSound
  <1>3. \A o \in Objects : Tripped(ep[o]) => Earned(ep[o])
    BY DEF Tripped, Earned
  <1>4. ASSUME NEW w \in Workers, SelectEndpoint(w) \/ SelectNothing(w)
        PROVE  endpoints' = endpoints /\ \A o \in Listed : Kept(o)
    <2>1. ASSUME NEW S, NEW o \in Objects
          PROVE  /\ Probed(S)[o] \in Endpoint /\ Probed(S)[o].key = ep[o].key
                 /\ Tripped(ep[o]) => Probed(S)[o] = ep[o]
      BY ZenonT(30), <1>2 DEF Probed, HalfOpened, Tripped, Endpoint, CircuitStates
    <2>2. CASE SelectNothing(w)
      BY <1>1, <1>3, <2>1, <2>2 DEF SelectNothing, Kept
    <2>3. CASE SelectEndpoint(w)
      <3>1. PICK S \in SUBSET Listed : \E o \in S :
               Available(Probed(S)[o]) /\ ep' = [Probed(S) EXCEPT ![o] = Taken(@)]
        BY ZenonT(30), <2>3 DEF SelectEndpoint
      <3>2. PICK o \in S :
               Available(Probed(S)[o]) /\ ep' = [Probed(S) EXCEPT ![o] = Taken(@)]
        BY ZenonT(30), <3>1
      <3>3. o \in Objects /\ ~Tripped(ep[o])
        BY Zenon, <1>1, <2>1, <3>2 DEF Available, Tripped
      <3>4. \A x \in Objects : ep'[x] = IF x = o THEN Taken(Probed(S)[o]) ELSE Probed(S)[x]
        BY <3>2 DEF Probed
      <3>5. Taken(Probed(S)[o]).key = ep[o].key
        BY ZenonT(30), <2>1, <3>3 DEF Taken, Endpoint
      <3>6. \A x \in Objects : Kept(x)
        BY Zenon, <1>3, <2>1, <3>3, <3>4, <3>5 DEF Kept
      <3> QED
        BY <1>1, <2>3, <3>6 DEF SelectEndpoint
    <2> QED
      BY <1>4, <2>2, <2>3
  <1>5. ASSUME NEW fields, NEW calls, NEW queue, NEW x \in Listed
        PROVE  Collected(fields, endpoints, calls, queue)[x] = fields[x]
    BY Zenon, <1>1 DEF Collected, Listed
  <1>6. ASSUME NEW w \in Workers, NEW ok \in BOOLEAN, UpdateEndpointResult(w, ok)
        PROVE  endpoints' = endpoints /\ \A o \in Listed : Kept(o)
    <2> DEFINE o == call[w].ep
               h == Judged(Released(ep[o]), ok, call[w].thr)
    <2>1. o \in Objects /\ call[w].thr \in Thresholds
      BY Zenon, <1>1, <1>6 DEF ThreadsOK, UpdateEndpointResult, CallState
    <2>2. /\ Released(ep[o]) \in Endpoint /\ Released(ep[o]).key = ep[o].key
          /\ Tripped(ep[o]) => Tripped(Released(ep[o]))
      BY Zenon, <1>2, <2>1, ReleasedVerdict
    <2>3. h.key = ep[o].key
      BY Zenon, <2>1, <2>2 DEF Judged, Succeeded, Failed, Endpoint
    <2>4. Tripped(ep[o]) => Earned(h)
      BY Zenon, <2>1, <2>2, TrippedJudged
    <2> DEFINE fields == [ep EXCEPT ![o] = h]
    <2>5. \A x \in Listed : ep'[x] = fields[x]
      <3>1. ep' = Collected(fields, endpoints, call', health.queue)
        BY Zenon, <1>6 DEF UpdateEndpointResult
      <3> HIDE DEF fields
      <3> QED
        BY <1>5, <3>1
    <2>6. \A x \in Listed : Kept(x)
      <3> HIDE DEF h
      <3> QED
        BY Zenon, <1>1, <1>3, <2>1, <2>3, <2>4, <2>5 DEF Kept, AllSound
    <2> QED
      BY Zenon, <1>6, <2>6 DEF UpdateEndpointResult
  <1>7. ASSUME NEW ok \in BOOLEAN, UpdateEndpointHealth(ok)
        PROVE  endpoints' = endpoints /\ \A o \in Listed : Kept(o)
    <2> DEFINE o == Head(health.queue)
               h == Judged(ep[o], ok, health.thr)
    <2>1. o \in Objects /\ health.thr \in Thresholds
      BY <1>1, <1>7 DEF ThreadsOK, UpdateEndpointHealth, HealthState
    <2>2. h.key = ep[o].key
      BY Zenon, <1>2, <2>1 DEF Judged, Succeeded, Failed, Endpoint
    <2>3. Tripped(ep[o]) => Earned(h)
      BY <1>2, <2>1, TrippedJudged
    <2> DEFINE fields == [ep EXCEPT ![o] = h]
    <2>4. \A x \in Listed : ep'[x] = fields[x]
      <3>1. ep' = Collected(fields, endpoints, call, health'.queue)
        BY <1>7 DEF UpdateEndpointHealth
      <3> HIDE DEF fields
      <3> QED
        BY <1>5, <3>1
    <2>5. \A x \in Listed : Kept(x)
      <3> HIDE DEF h
      <3> QED
        BY Zenon, <1>1, <1>3, <2>1, <2>2, <2>3, <2>4 DEF Kept, AllSound
    <2> QED
      BY Zenon, <1>7, <2>5 DEF UpdateEndpointHealth
  <1>8. ASSUME NEW o \in Objects, CircuitOpenElapses(o)
        PROVE  endpoints' = endpoints /\ \A x \in Listed : Kept(x)
    <2>1. \A x \in Objects : /\ ep'[x].key = ep[x].key
                             /\ ep'[x].circuit_state = ep[x].circuit_state
      BY <1>1, <1>2, <1>8 DEF CircuitOpenElapses, AllSound, Endpoint
    <2> QED
      BY <1>1, <1>8, <2>1 DEF CircuitOpenElapses, Kept, Tripped, Earned
  <1>9. ASSUME UNCHANGED <<ep, endpoints>>
        PROVE  endpoints' = endpoints /\ \A o \in Listed : Kept(o)
    BY <1>1, <1>3, <1>9 DEF Kept
  <1>10. CASE \E w \in Workers : CallReturns(w)
    BY <1>9, <1>10 DEF CallReturns
  <1>11. CASE HealthSnapshot \/ CheckEndpointHealth \/ ReloadThresholds \/ UNCHANGED vars
    BY SMTT(30), <1>9, <1>11 DEF HealthSnapshot, CheckEndpointHealth, ReloadThresholds, vars
  <1> QED
    BY Zenon, <1>4, <1>6, <1>7, <1>8, <1>10, <1>11 DEF Next

\* A reload hands the Open circuit of a key on to every new object of that key.
LEMMA ReloadKept ==
    ASSUME IInv, ReloadEndpoints, NEW k \in Keys, Blocked(k), NEW i \in EntriesFor(k)'
    PROVE  Earned(ep'[endpoints'[i]])
  <1>1. PICK c \in Configs : \E new \in [DOMAIN c -> {o \in Objects : ~Referenced(o)}] :
          /\ \A a, b \in DOMAIN c : new[a] = new[b] => a = b
          /\ endpoints' = new
          /\ ep' = Collected([o \in Objects |->
                                IF \E a \in DOMAIN c : new[a] = o
                                THEN Committed(c[CHOOSE a \in DOMAIN c : new[a] = o])
                                ELSE ep[o]],
                             endpoints', call, health.queue)
    BY ZenonT(30) DEF ReloadEndpoints
  <1>2. PICK new \in [DOMAIN c -> {o \in Objects : ~Referenced(o)}] :
          /\ \A a, b \in DOMAIN c : new[a] = new[b] => a = b
          /\ endpoints' = new
          /\ ep' = Collected([o \in Objects |->
                                IF \E a \in DOMAIN c : new[a] = o
                                THEN Committed(c[CHOOSE a \in DOMAIN c : new[a] = o])
                                ELSE ep[o]],
                             endpoints', call, health.queue)
    BY ZenonT(30), <1>1
  <1>3. i \in DOMAIN c /\ new[i] \in Objects
    BY Zenon, <1>2 DEF EntriesFor
  <1>4. ep'[new[i]] = Committed(c[i])
    <2>1. (CHOOSE a \in DOMAIN c : new[a] = new[i]) = i
      BY <1>2, <1>3
    <2> QED
      BY Zenon, <1>2, <1>3, <2>1 DEF Collected
  <1>5. c[i] \in Entry
    BY SMTT(30), <1>3, EndpointAssumption
  <1>6. c[i].key = k
    BY Zenon, <1>2, <1>4, <1>5, CommittedSound DEF EntriesFor
  <1>7. Committed(c[i]).circuit_state = "Open"
    BY <1>5, <1>6, CommittedSound DEF Blocked, Tripped
  <1> QED
    BY <1>2, <1>4, <1>7 DEF Earned

\* A tripped circuit is left only by time or by a streak of successes, reloads included.
THEOREM CircuitHolds == Spec => BlockedUntilEarned
  <1>1. ASSUME IInv, [Next]_vars, NEW k \in Keys, Blocked(k), NEW i \in EntriesFor(k)'
        PROVE  Earned(ep'[endpoints'[i]])
    <2>1. CASE ReloadEndpoints
      BY Zenon, <1>1, <2>1, ReloadKept
    <2>2. CASE ~ReloadEndpoints
      <3>1. endpoints' = endpoints /\ \A o \in Listed : Kept(o)
        BY <1>1, <2>2, ListedKept
      <3>2. i \in DOMAIN endpoints /\ endpoints[i] \in Listed
        BY <1>1, <3>1 DEF EntriesFor, Listed
      <3>3. i \in EntriesFor(k)
        BY Zenon, <1>1, <3>1, <3>2 DEF EntriesFor, Kept
      <3> QED
        BY <1>1, <3>1, <3>2, <3>3 DEF Blocked, Kept
    <2> QED
      BY Zenon, <2>1, <2>2
  <1>2. IInv /\ [Next]_vars =>
          [\A k \in Keys : Blocked(k) =>
             \A i \in EntriesFor(k)' :
                 LET e == ep'[endpoints'[i]] IN
                 \/ e.circuit_state = "Open"
                 \/ /\ e.circuit_state = "Closed" /\ e.consecutive_successes > 0
                    /\ \E t \in Thresholds : e.consecutive_successes >= t.recovery]_vars
    BY <1>1 DEF Earned
  <1> QED
    BY <1>2, Invariance, PTL DEF Spec, BlockedUntilEarned
=============================================================================
