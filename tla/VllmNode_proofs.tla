------------------------- MODULE VllmNode_proofs ----------------------------
(***************************************************************************)
(* Proofs about three parts of the vLLM node.                              *)
(*                                                                         *)
(* RequestHandling: for any request settings and any number of retries and *)
(* deltas, the output is that of one attempt, the record, the metrics and  *)
(* the reply agree, and the retries are used up.  Observability: for any   *)
(* number of observers and reloads, no sample is written twice, a stop     *)
(* leaves only late ones, and metrics that are enabled are served.         *)
(* Routing: for all endpoint lists and requests, the scan of               *)
(* select_endpoint passes an eligible endpoint over only for a preferred   *)
(* one or because of a barred one.                                         *)
(***************************************************************************)
EXTENDS RequestHandling, Observability, Routing, TLAPS

(***************************************************************************)
(* The choice of an endpoint                                               *)
(***************************************************************************)

\* What the scan remembers of the best endpoint is its rank and its score.
Remembers ==
    best # 0 => best_rank = Rank(best) /\ best_score = Score(endpoints[best])

ScanIInv == ScanTypeOK /\ Remembers /\ LostOnlyToBarred

\* What is used of the natural numbers.
LeastExists == \A S \in SUBSET Nat : S # {} => \E k \in S : \A j \in S : k <= j

\* The distance std::find gives for a model that is in the chain is a natural number.
LEMMA PositionNat ==
    ASSUME LeastExists, routed \in Request, NEW m, InChain(m)
    PROVE  Position(m) \in Nat
<1> DEFINE chain == routed.fallback_chain
           places == {k \in DOMAIN chain : chain[k] = m}
<1>1. chain \in Seq(Models) /\ DOMAIN chain = 1..Len(chain) /\ Len(chain) \in Nat
  BY DEF Request
<1>2. places # {} /\ places \subseteq Nat
  BY <1>1 DEF InChain
<1>3. PICK k \in places : \A j \in places : k <= j
  BY ZenonT(30), <1>2 DEF LeastExists
<1>4. k \in DOMAIN chain /\ chain[k] = m /\ \A j \in 1..(k - 1) : chain[j] # m
  BY <1>1, <1>3
<1>5. (CHOOSE x \in DOMAIN chain : chain[x] = m /\ \A j \in 1..(x - 1) : chain[j] # m) \in DOMAIN chain
  BY <1>4
<1> QED
  BY <1>1, <1>5 DEF Position

\* The rank of every endpoint is a natural number.
LEMMA RankNat ==
    ASSUME LeastExists, routed \in Request, NEW e
    PROVE  model_preference_rank(e) \in Nat
BY PositionNat DEF model_preference_rank, INT_MAX

\* The score of every endpoint is an integer.
LEMMA ScoreInt ==
    ASSUME NEW e \in Endpoint
    PROVE  Score(e) \in Int
<1>1. AtLeast1(e.max_concurrency) \in Nat \ {0}
  BY DEF AtLeast1, Endpoint
<1>2. \A c, p : p \in Nat => Penalty(c, p) \in Int
  BY DEF Penalty
<1>3. \A n \in Int, d \in Nat \ {0} : n \div d \in Int
  BY SMTT(30)
<1>4. e.weight \in Int /\ e.inflight \in Nat /\ e.avg_latency \in Nat /\ e.consecutive_failures \in Nat
  BY DEF Endpoint
<1>5. e.weight * 10 \in Int /\ e.inflight * 500 \in Int /\ e.consecutive_failures * 250 \in Int
  BY SMTT(30), <1>4
<1>6. (e.inflight * 500) \div AtLeast1(e.max_concurrency) \in Int /\ e.avg_latency \div 20 \in Int
  BY SMTT(30), <1>1, <1>3, <1>4, <1>5
<1> QED
  BY SMTT(30), <1>2, <1>5, <1>6 DEF Score
-----------------------------------------------------------------------------
\* The scan changes neither the request nor the list: what is said of a position stays true of it.
LEMMA PositionsKeep ==
    ASSUME UNCHANGED <<routed, endpoints>>, NEW i
    PROVE  /\ Rank(i)' = Rank(i)
           /\ Score(endpoints[i])' = Score(endpoints[i])
           /\ Considered(endpoints[i])' = Considered(endpoints[i])
           /\ is_degraded_endpoint(endpoints[i])' = is_degraded_endpoint(endpoints[i])
           /\ routed.allow_degrade' = routed.allow_degrade
<1> QED
  BY SMTT(30) DEF Rank, Score, Considered, is_degraded_endpoint, model_preference_rank, Position, InChain, Named,
         endpoint_supports_request, fallback_allows, AtLeast1, Penalty, INT_MAX

\* The empty scan has found nothing, and there is nothing to find.
LEMMA ScanInitIInv == ScanInit => ScanIInv
<1> SUFFICES ASSUME ScanInit PROVE ScanIInv
  OBVIOUS
<1>1. ScanTypeOK
  <2>1. Len(endpoints) \in Nat
    BY RoutingAssumption DEF ScanInit
  <2> QED
    BY <2>1 DEF ScanInit, ScanTypeOK, INT_MAX, INT_MIN
<1>2. Remembers
  BY DEF ScanInit, Remembers
<1>3. LostOnlyToBarred
  BY DEF ScanInit, LostOnlyToBarred, Eligible
<1> QED
  BY <1>1, <1>2, <1>3 DEF ScanIInv

\* The endpoints of the list and the ranks and scores that the scan compares.
LEMMA Typed ==
    ASSUME LeastExists, ScanTypeOK
    PROVE  /\ Len(endpoints) \in Nat
           /\ \A i \in 1..Len(endpoints) : Rank(i) \in Nat /\ Score(endpoints[i]) \in Int
<1>1. routed \in Request /\ endpoints \in Seq(Endpoint)
  BY RoutingAssumption DEF ScanTypeOK
<1>2. Len(endpoints) \in Nat /\ \A i \in 1..Len(endpoints) : endpoints[i] \in Endpoint
  BY <1>1
<1> QED
  BY <1>1, <1>2, RankNat, ScoreInt DEF Rank

\* What one turn does with the endpoint it is at.
Ahead == best = 0 \/ Rank(next) < Rank(best)
Skips == ~ Considered(endpoints[next]) /\ UNCHANGED <<best, best_rank, best_score>>
Ranks == best # 0 /\ Rank(next) > Rank(best) /\ UNCHANGED <<best, best_rank, best_score>>
Takes ==
    /\ Considered(endpoints[next]) /\ MayTake(endpoints[next])
    /\ Ahead \/ (Rank(next) = Rank(best) /\ Score(endpoints[next]) > Score(endpoints[best]))
    /\ best' = next /\ best_rank' = Rank(next) /\ best_score' = Score(endpoints[next])
Drops ==
    /\ Considered(endpoints[next]) /\ ~ MayTake(endpoints[next])
    /\ Ahead
    /\ best' = 0 /\ best_rank' = Rank(next) /\ best_score' = INT_MIN
Keeps ==
    /\ best # 0 /\ Rank(next) = Rank(best)
    /\ ~ MayTake(endpoints[next]) \/ Score(endpoints[next]) <= Score(endpoints[best])
    /\ UNCHANGED <<best, best_rank, best_score>>

\* A turn of the loop is at a place of the list, and does one of these.
LEMMA Turn ==
    ASSUME LeastExists, ScanIInv, Examine
    PROVE  /\ next \in 1..Len(endpoints) /\ next' = next + 1 /\ UNCHANGED <<routed, endpoints>>
           /\ Skips \/ Ranks \/ Takes \/ Drops \/ Keeps
<1> DEFINE e == endpoints[next]
<1>1. next \in 1..Len(endpoints) /\ next' = next + 1 /\ UNCHANGED <<routed, endpoints>>
  BY Typed DEF ScanIInv, ScanTypeOK, Examine
<1> SUFFICES Skips \/ Ranks \/ Takes \/ Drops \/ Keeps
  BY <1>1
<1>2. Rank(next) \in Nat /\ Score(e) \in Int /\ Rank(next) = model_preference_rank(e)
  BY <1>1, Typed DEF ScanIInv, Rank
<1>3. best # 0 => /\ best \in 1..Len(endpoints) /\ Rank(best) \in Nat /\ Score(endpoints[best]) \in Int
                  /\ best_rank = Rank(best) /\ best_score = Score(endpoints[best])
  BY Typed DEF ScanIInv, ScanTypeOK, Remembers
<1>4. CASE ~ Considered(e)
  BY <1>4 DEF Examine, Skips
<1>5. CASE Considered(e) /\ best # 0 /\ Rank(next) > Rank(best)
  BY <1>2, <1>3, <1>5 DEF Examine, Ranks
<1>6. CASE Considered(e) /\ Ahead
  <2>1. Resets(e) /\ ~ (best # 0 /\ model_preference_rank(e) > best_rank)
    BY <1>2, <1>3, <1>6 DEF Resets, Ahead
  <2> QED
    <3>1. CASE MayTake(e)
      BY <1>2, <1>6, <2>1, <3>1 DEF Examine, Takes, Beats
    <3>2. CASE ~ MayTake(e)
      BY <1>2, <1>6, <2>1, <3>2 DEF Examine, Drops
    <3> QED
      BY <3>1, <3>2
<1>7. CASE Considered(e) /\ best # 0 /\ Rank(next) = Rank(best)
  <2>1. ~ Resets(e) /\ ~ (best # 0 /\ model_preference_rank(e) > best_rank)
    BY <1>2, <1>3, <1>7 DEF Resets
  <2> QED
    <3>1. CASE MayTake(e) /\ Score(e) > best_score
      BY <1>2, <1>3, <1>7, <2>1, <3>1 DEF Examine, Takes, Beats
    <3>2. CASE ~ MayTake(e)
      BY <1>2, <1>3, <1>7, <2>1, <3>2 DEF Examine, Keeps
    <3>3. CASE ~ (Score(e) > best_score)
      BY <1>2, <1>3, <1>7, <2>1, <3>3 DEF Examine, Keeps, Beats
    <3> QED
      BY <3>1, <3>2, <3>3
<1> QED
  BY <1>1, <1>2, <1>3, <1>4, <1>5, <1>6, <1>7 DEF Ahead

\* One turn of the loop keeps the types and what the scan remembers.
LEMMA TurnRemembers ==
    ASSUME LeastExists, ScanIInv, Examine
    PROVE  ScanTypeOK' /\ Remembers'
<1>1. /\ next \in 1..Len(endpoints) /\ next' = next + 1 /\ UNCHANGED <<routed, endpoints>>
      /\ Skips \/ Ranks \/ Takes \/ Drops \/ Keeps
  BY Turn
<1>2. ScanTypeOK'
  BY SMTT(30), <1>1, Typed DEF ScanIInv, ScanTypeOK, Skips, Ranks, Takes, Drops, Keeps, INT_MIN
<1>3. \A i : Rank(i)' = Rank(i) /\ Score(endpoints[i])' = Score(endpoints[i])
  BY <1>1, PositionsKeep
<1>4. Remembers'
  <2> SUFFICES ASSUME best' # 0
               PROVE  best_rank' = Rank(best)' /\ best_score' = Score(endpoints[best])'
    BY DEF Remembers
  <2> QED
    BY <1>1, <1>3 DEF ScanIInv, Remembers, Skips, Ranks, Takes, Drops, Keeps
<1> QED
  BY <1>2, <1>4

\* The eligible and the barred positions after a turn: those before it and perhaps the one it was at.
LEMMA PositionsGrow ==
    ASSUME next \in Nat \ {0}, next' = next + 1, UNCHANGED <<routed, endpoints>>
    PROVE  /\ \A i : i \in Eligible(next)' <=>
                     \/ i \in Eligible(next)
                     \/ i = next /\ Considered(endpoints[i]) /\ MayTake(endpoints[i])
           /\ \A i : i \in Barred(next)' <=>
                     \/ i \in Barred(next)
                     \/ i = next /\ Considered(endpoints[i]) /\ ~ MayTake(endpoints[i])
<1>1. 1..(next' - 1) = 1..(next - 1) \cup {next}
  OBVIOUS
<1> QED
  BY <1>1, PositionsKeep DEF Eligible, Barred, MayTake

\* One turn of the loop passes an eligible endpoint over only for a preferred one, or when it meets
\* a barred one of better rank.
LEMMA TurnLoses ==
    ASSUME LeastExists, ScanIInv, Examine
    PROVE  LostOnlyToBarred'
<1> DEFINE e(i) == endpoints[i]
           s(i) == Score(endpoints[i])
<1>1. /\ next \in 1..Len(endpoints) /\ next' = next + 1 /\ UNCHANGED <<routed, endpoints>>
      /\ Skips \/ Ranks \/ Takes \/ Drops \/ Keeps
  BY Turn
<1>2. \A i : Rank(i)' = Rank(i) /\ s(i)' = s(i)
  BY <1>1, PositionsKeep
<1>3. Len(endpoints) \in Nat /\ \A i \in 1..Len(endpoints) : Rank(i) \in Nat /\ s(i) \in Int
  BY Typed DEF ScanIInv
<1>4. /\ \A i : i \in Eligible(next)' <=> i \in Eligible(next) \/ (i = next /\ Considered(e(i)) /\ MayTake(e(i)))
      /\ \A i : i \in Barred(next)' <=> i \in Barred(next) \/ (i = next /\ Considered(e(i)) /\ ~ MayTake(e(i)))
  BY <1>1, <1>3, PositionsGrow
<1>5. \A i \in Eligible(next) \cup Barred(next) : i \in 1..Len(endpoints) /\ i < next
  BY <1>1, <1>3 DEF Eligible, Barred
<1>6. best # 0 => best \in Eligible(next) /\ best \in 1..Len(endpoints) /\ best < next
  BY <1>5 DEF ScanIInv, LostOnlyToBarred
<1>7. best' # 0 => best' \in Eligible(next)'
  BY <1>1, <1>4, <1>6 DEF Skips, Ranks, Takes, Drops, Keeps
<1>8. ASSUME NEW i, i \in Eligible(next)'
      PROVE  \/ best' # 0 /\ Preferred(best', i)
             \/ \E b : b \in Barred(next)' /\ b > i /\ Rank(b) < Rank(i)
  <2>1. i \in 1..Len(endpoints) /\ i <= next
    BY <1>1, <1>3, <1>4, <1>5, <1>8
  <2>2. CASE i \in Eligible(next) /\ ~ (best # 0 /\ Preferred(best, i))
    BY <1>4, <2>2 DEF ScanIInv, LostOnlyToBarred
  <2>3. CASE i \in Eligible(next) /\ best # 0 /\ Preferred(best, i)
    <3>1. CASE Skips \/ Ranks \/ Keeps
      BY <2>3, <3>1 DEF Preferred, Skips, Ranks, Keeps
    <3>2. CASE Takes
      <4>1. best' = next /\ best' # 0
        BY <1>1, <1>3, <3>2 DEF Takes
      <4>2. Preferred(next, i)
        BY <1>1, <1>3, <1>6, <2>1, <2>3, <3>2 DEF Preferred, Takes, Ahead
      <4> QED
        BY <4>1, <4>2
    <3>3. CASE Drops
      <4>1. next \in Barred(next)' /\ next > i /\ Rank(next) < Rank(i)
        BY <1>1, <1>3, <1>4, <1>5, <1>6, <2>1, <2>3, <3>3 DEF Preferred, Drops, Ahead
      <4> QED
        BY <4>1
    <3> QED
      BY <1>1, <3>1, <3>2, <3>3
  <2>4. CASE i = next /\ Considered(e(i)) /\ MayTake(e(i))
    BY <1>1, <1>3, <1>6, <2>4 DEF Preferred, Skips, Ranks, Takes, Drops, Keeps
  <2> QED
    BY <1>4, <1>8, <2>2, <2>3, <2>4
<1> QED
  BY <1>2, <1>7, <1>8 DEF LostOnlyToBarred, Preferred

(***************************************************************************)
(* The metrics                                                             *)
(***************************************************************************)
\* The samples that there are so far.
Observed == 1..observed

Counted ==
    /\ series \subseteq Observed /\ store \subseteq Observed /\ failed \subseteq Observed
    /\ \A f \in Flushers : taken[f] \subseteq Observed

\* A thread has a batch only while it writes, and configure finds no worker where it starts one.
Batches ==
    /\ worker \notin {"write", "last"} => taken["worker"] = {}
    /\ \A k \in Controllers : ctl[k] # "write" => taken[k] = {}
    /\ ctl["reload"] \in {"flush", "write", "close", "open", "enable", "run", "spawn"} => worker = "none"

\* Where the controllers are when only one is at work at a time, and what holds at each step of it.
AtRest == \A k \in Controllers : ctl[k] \in {"idle", "done"}
Alone == \A j, k \in Controllers : j = k \/ ctl[j] \in {"idle", "done"} \/ ctl[k] \in {"idle", "done"}

\* No observer is between its test of enabled_ and its sample, but those that are too late.
NonePassed == \A o \in Observers : obs[o] # "passed"
OnlyLate == series \subseteq late /\ NonePassed

Phase(k) ==
    /\ ctl[k] = "halt" => ~ enabled /\ (running \/ worker = "none")
    /\ ctl[k] \in {"test", "join", "flush", "write", "close", "open", "enable"} => ~ enabled /\ ~ running
    /\ ctl[k] = "join" => worker # "none"
    /\ ctl[k] \in {"flush", "write", "close", "open", "enable", "run", "spawn"} => worker = "none"
    /\ ctl[k] \in {"write", "close", "open", "enable"} => OnlyLate
    /\ ctl[k] \in {"enable", "run", "spawn", "announce"} => engine
    /\ ctl[k] = "run" => enabled /\ ~ running
    /\ ctl[k] \in {"spawn", "announce"} => enabled /\ running
    /\ ctl[k] = "announce" => worker # "none"

Rest ==
    IF enabled THEN running /\ engine /\ worker # "none" /\ status \in {"running", "error"}
    ELSE ~ running /\ worker = "none" /\ OnlyLate

Orderly ==
    /\ ~ crashed /\ Alone
    /\ \A k \in Controllers : Phase(k)
    /\ AtRest => Rest
    /\ running => worker \in {"none", "wait", "write"}

MetricsIInv == MetricsTypeOK /\ Counted /\ Batches /\ OnePlace /\ (overlap \/ Orderly)

\* The initial state is in order.
LEMMA MetricsInitIInv == MetricsInit => MetricsIInv
<1> SUFFICES ASSUME MetricsInit PROVE MetricsIInv
  OBVIOUS
<1>1. MetricsTypeOK
  <2>1. /\ taken \in [Flushers -> SUBSET Samples]
        /\ ctl \in [Controllers -> {"idle"}] /\ obs \in [Observers -> {"idle"}]
    BY DEF MetricsInit
  <2>2. observed \in 0..MaxSamples /\ reloads \in 0..MaxReloads
    BY ObservabilityAssumption DEF MetricsInit
  <2> QED
    BY ZenonT(30), <2>1, <2>2 DEF MetricsInit, MetricsTypeOK
<1>2. Counted /\ Batches
  BY Zenon DEF MetricsInit, Counted, Batches, Flushers
<1>4. OnePlace
  BY DEF MetricsInit, OnePlace
<1>3. Orderly
  BY Zenon DEF MetricsInit, Orderly, Alone, Phase, AtRest, Rest, OnlyLate, NonePassed
<1> QED
  BY Zenon, <1>1, <1>2, <1>3, <1>4 DEF MetricsIInv
-----------------------------------------------------------------------------
\* A step keeps the types.
LEMMA MetricsTypes ==
    ASSUME MetricsTypeOK, [MetricsNext]_MetricsVars
    PROVE  MetricsTypeOK'
<1> USE DEF MetricsTypeOK
<1>1. ASSUME NEW o \in Observers, Observe(o) PROVE MetricsTypeOK'
  BY Zenon, <1>1 DEF Observe
<1>2. ASSUME NEW o \in Observers, AddSample(o) PROVE MetricsTypeOK'
  BY <1>2, ObservabilityAssumption DEF AddSample, Samples
<1>3. CASE WorkerTakes
  BY <1>3 DEF WorkerTakes, TakeSeries
<1>4. CASE WorkerWrites
  <2>1. taken["worker"] \subseteq Samples
    BY DEF Flushers
  <2> QED
    BY ZenonT(30), <1>4, <2>1 DEF WorkerWrites, WriteTaken
<1>5. ASSUME NEW k \in Controllers, StopBegins(k) PROVE MetricsTypeOK'
  <2>1. reloads' \in 0..MaxReloads
    BY <1>5, ObservabilityAssumption DEF StopBegins
  <2>2. overlap' \in BOOLEAN
    BY Zenon, <1>5 DEF StopBegins
  <2> QED
    BY ZenonT(30), <1>5, <2>1, <2>2 DEF StopBegins, Goes
<1>6. ASSUME NEW k \in Controllers, StopStep(k) PROVE MetricsTypeOK'
  <2>1. taken[k] \subseteq Samples
    BY DEF Flushers
  <2>2. CASE Halts(k)
    BY ZenonT(30), <2>2 DEF Halts, Goes
  <2>7. CASE JoinsTwice(k)
    BY <2>7 DEF JoinsTwice
  <2>8. CASE TestsWorker(k)
    BY <2>8 DEF TestsWorker, Goes
  <2>3. CASE Joins(k)
    BY Zenon, <2>3 DEF Joins, Goes
  <2>4. CASE TakesLast(k)
    <3>1. obs' \in [Observers -> {"idle", "passed", "overtaken"}]
      BY <2>4 DEF TakesLast, Overtaken
    <3>2. taken' \in [Flushers -> SUBSET Samples] /\ series' = {}
      BY ZenonT(30), <2>4 DEF TakesLast, TakeSeries
    <3> QED
      BY <2>4, <3>1, <3>2 DEF TakesLast, Goes
  <2>5. CASE WritesLast(k)
    BY ZenonT(30), <2>1, <2>5 DEF WritesLast, WriteTaken, Goes
  <2>6. CASE Closes(k)
    BY ZenonT(30), <2>6 DEF Closes, Goes
  <2> QED
    BY Zenon, <1>6, <2>2, <2>3, <2>4, <2>5, <2>6, <2>7, <2>8 DEF StopStep
<1>7. CASE ConfigureStep
  <2>1. "reload" \in Controllers
    BY Zenon DEF Controllers
  <2>2. CASE StaysOff
    BY Zenon, <2>1, <2>2 DEF StaysOff, Goes
  <2>3. CASE Opens
    BY Zenon, <2>1, <2>3 DEF Opens, Goes
  <2>4. CASE Enables
    BY Zenon, <2>1, <2>4 DEF Enables, Goes
  <2>5. CASE Runs
    BY <2>1, <2>5 DEF Runs, Goes
  <2>6. CASE Spawns
    BY <2>1, <2>6 DEF Spawns, Goes
  <2>7. CASE SpawnFails
    BY ZenonT(30), <2>1, <2>7 DEF SpawnFails, Overtaken, Goes
  <2>8. CASE Announces
    BY Zenon, <2>1, <2>8 DEF Announces, Goes
  <2> QED
    BY Zenon, <1>7, <2>2, <2>3, <2>4, <2>5, <2>6, <2>7, <2>8 DEF ConfigureStep
<1>8. CASE UNCHANGED MetricsVars
  BY <1>8 DEF MetricsVars
<1> QED
  BY Zenon, <1>1, <1>2, <1>3, <1>4, <1>5, <1>6, <1>7, <1>8 DEF MetricsNext

\* flush_once of one thread leaves every sample in one place.
LEMMA FlushOnce ==
    ASSUME MetricsTypeOK, Counted, OnePlace, UNCHANGED observed, NEW f \in Flushers,
           \/ TakeSeries(f) /\ taken[f] = {} /\ UNCHANGED <<store, failed>>
           \/ WriteTaken(f) /\ UNCHANGED series
    PROVE  Counted' /\ OnePlace'
<1>1. /\ f \in DOMAIN taken /\ DOMAIN taken = Flushers
  BY DEF MetricsTypeOK
<1>2. CASE TakeSeries(f) /\ taken[f] = {} /\ UNCHANGED <<store, failed>>
  <2>1. taken'[f] = series /\ series' = {} /\ \A g \in Flushers \ {f} : taken'[g] = taken[g]
    BY <1>1, <1>2 DEF TakeSeries
  <2> QED
    BY ZenonT(30), <1>2, <2>1 DEF Counted, OnePlace, Observed
<1>3. CASE WriteTaken(f) /\ UNCHANGED series
  <2>1. /\ taken'[f] = {} /\ \A g \in Flushers \ {f} : taken'[g] = taken[g]
        /\ \/ store' = store \cup taken[f] /\ failed' = failed
           \/ failed' = failed \cup taken[f] /\ store' = store
    BY <1>1, <1>3 DEF WriteTaken
  <2> QED
    BY ZenonT(30), <1>3, <2>1 DEF Counted, OnePlace, Observed
<1> QED
  BY Zenon, <1>2, <1>3

\* A step leaves every sample in one place.
LEMMA StepPlaces ==
    ASSUME MetricsTypeOK, Counted, Batches, OnePlace, [MetricsNext]_MetricsVars
    PROVE  Counted' /\ OnePlace'
<1>1. ASSUME NEW o \in Observers, AddSample(o) PROVE Counted' /\ OnePlace'
  <2>1. /\ series' = series \cup {observed + 1} /\ observed' = observed + 1 /\ observed \in Nat
        /\ UNCHANGED <<taken, store, failed>>
    BY <1>1 DEF AddSample, MetricsTypeOK
  <2>2. observed + 1 \notin Observed /\ Observed' = Observed \cup {observed + 1}
    BY <2>1 DEF Observed
  <2> QED
    BY <2>1, <2>2 DEF Counted, OnePlace
<1>2. CASE WorkerTakes \/ WorkerWrites
  BY ZenonT(30), <1>2, FlushOnce DEF WorkerTakes, WorkerWrites, Flushers, Batches, Counted, OnePlace, Observed
<1>3. ASSUME NEW k \in Controllers, TakesLast(k) \/ WritesLast(k) PROVE Counted' /\ OnePlace'
  BY Zenon, <1>3, FlushOnce DEF TakesLast, WritesLast, Goes, Flushers, Batches
<1>4. ASSUME UNCHANGED <<series, taken, store, failed, observed>> PROVE Counted' /\ OnePlace'
  BY Zenon, <1>4 DEF Counted, OnePlace, Observed
<1>5. ASSUME NEW k \in Controllers, StopBegins(k) \/ (StopStep(k) /\ ~ TakesLast(k) /\ ~ WritesLast(k))
      PROVE  UNCHANGED <<series, taken, store, failed, observed>>
  BY Zenon, <1>5 DEF StopBegins, StopStep, Halts, TestsWorker, Joins, JoinsTwice, Closes
<1>6. CASE ConfigureStep
  BY Zenon, <1>4, <1>6 DEF ConfigureStep, StaysOff, Opens, Enables, Runs, Spawns, SpawnFails, Announces
<1>7. CASE (\E o \in Observers : Observe(o)) \/ UNCHANGED MetricsVars
  BY Zenon, <1>4, <1>7 DEF Observe, MetricsVars
<1> QED
  BY Zenon, <1>1, <1>2, <1>3, <1>4, <1>5, <1>6, <1>7 DEF MetricsNext, StopStep

\* A step of a thread leaves the batches with the threads that write.
LEMMA StepBatches ==
    ASSUME MetricsTypeOK, Batches, [MetricsNext]_MetricsVars
    PROVE  Batches'
<1>1. ASSUME UNCHANGED <<worker, taken, ctl>> PROVE Batches'
  BY Zenon, <1>1 DEF Batches
<1>2. CASE (\E o \in Observers : Observe(o) \/ AddSample(o)) \/ UNCHANGED MetricsVars
  BY Zenon, <1>1, <1>2 DEF Observe, AddSample, MetricsVars
<1>3. CASE WorkerTakes \/ WorkerWrites
  BY SMTT(30), <1>3 DEF WorkerTakes, WorkerWrites, TakeSeries, WriteTaken, Batches, MetricsTypeOK, Controllers, Flushers
<1>4. ASSUME NEW k \in Controllers, StopBegins(k) \/ StopStep(k) PROVE Batches'
  BY SMTT(30), <1>4 DEF StopBegins, StopStep, Halts, TestsWorker, Joins, JoinsTwice, TakesLast, WritesLast, Closes,
       Goes, TakeSeries, WriteTaken, Batches, MetricsTypeOK, Controllers, Flushers
<1>5. CASE ConfigureStep
  BY SMTT(30), <1>5 DEF ConfigureStep, StaysOff, Opens, Enables, Runs, Spawns, SpawnFails, Announces, Goes, Batches,
       MetricsTypeOK, Controllers
<1> QED
  BY Zenon, <1>2, <1>3, <1>4, <1>5 DEF MetricsNext
-----------------------------------------------------------------------------
\* A controller that is at work alone goes to a step where all is in order.
LEMMA ControlStep ==
    ASSUME MetricsTypeOK, Orderly, NEW k \in Controllers, NEW to,
           \A j \in Controllers \ {k} : ctl[j] \in {"idle", "done"},
           ctl' = [ctl EXCEPT ![k] = to],
           ~ crashed', running' => worker' \in {"none", "wait", "write"},
           Phase(k)',
           to \in {"idle", "done"} => Rest'
    PROVE  Orderly'
<1>1. ctl'[k] = to /\ \A j \in Controllers \ {k} : ctl'[j] = ctl[j]
  BY Zenon DEF MetricsTypeOK
<1>2. Alone'
  BY Zenon, <1>1 DEF Alone
<1>3. \A j \in Controllers \ {k} : Phase(j)'
  BY Zenon, <1>1 DEF Phase
<1>4. AtRest' => Rest'
  BY Zenon, <1>1 DEF AtRest
<1> QED
  BY Zenon, <1>2, <1>3, <1>4 DEF Orderly

\* While one controller is at work the other is not.
LEMMA OthersRest ==
    ASSUME Orderly, NEW k \in Controllers, ctl[k] \notin {"idle", "done"}
    PROVE  \A j \in Controllers \ {k} : ctl[j] \in {"idle", "done"}
BY Zenon DEF Orderly, Alone

\* Observers and the worker leave what one controller relies on in order.
LEMMA ServiceOrderly ==
    ASSUME MetricsTypeOK, Orderly,
           \/ \E o \in Observers : Observe(o) \/ AddSample(o)
           \/ WorkerTakes \/ WorkerWrites
    PROVE  Orderly'
<1>1. ctl' = ctl /\ crashed' = crashed /\ running' = running /\ enabled' = enabled /\ engine' = engine
  BY Zenon DEF Observe, AddSample, WorkerTakes, WorkerWrites
<1>2. /\ worker' = "none" <=> worker = "none"
      /\ running => worker' \in {"none", "wait", "write"}
  <2>1. CASE \E o \in Observers : Observe(o) \/ AddSample(o)
    BY Zenon, <2>1 DEF Observe, AddSample, Orderly
  <2>2. CASE WorkerTakes
    BY Zenon, <2>2 DEF WorkerTakes, TakeSeries
  <2>3. CASE WorkerWrites
    BY Zenon, <2>3 DEF WorkerWrites, Orderly
  <2> QED
    BY Zenon, <2>1, <2>2, <2>3
<1>3. status \in {"running", "error"} => status' \in {"running", "error"}
  BY Zenon DEF Observe, AddSample, WorkerTakes, WorkerWrites, WriteTaken
<1>4. ~ enabled /\ OnlyLate => OnlyLate'
  <2> SUFFICES ASSUME ~ enabled, OnlyLate PROVE OnlyLate'
    BY Zenon
  <2>1. ASSUME NEW o \in Observers, AddSample(o) PROVE OnlyLate'
    <3>1. obs[o] = "overtaken"
      BY Zenon, <2>1 DEF AddSample, MetricsTypeOK, OnlyLate, NonePassed
    <3> QED
      BY Zenon, <2>1, <3>1 DEF AddSample, MetricsTypeOK, OnlyLate, NonePassed
  <2>2. CASE WorkerTakes \/ WorkerWrites
    BY Zenon, <2>2 DEF WorkerTakes, WorkerWrites, TakeSeries, OnlyLate, NonePassed
  <2> QED
    BY Zenon, <2>1, <2>2 DEF Observe
<1>5. \A k \in Controllers : Phase(k)'
  BY Zenon, <1>1, <1>2, <1>4 DEF Orderly, Phase
<1>6. AtRest' => Rest'
  BY Zenon, <1>1, <1>2, <1>3, <1>4 DEF Orderly, AtRest, Rest
<1> QED
  BY Zenon, <1>1, <1>2, <1>5, <1>6 DEF Orderly, Alone

\* stop, from its first step to its last, keeps what one controller relies on in order.
LEMMA StopOrderly ==
    ASSUME MetricsTypeOK, Orderly, NEW k \in Controllers, ~ overlap', StopBegins(k) \/ StopStep(k)
    PROVE  Orderly'
<1> USE DEF Goes
<1>1. k \in DOMAIN ctl
  BY DEF MetricsTypeOK
<1>2. CASE StopBegins(k)
  <2>1. \A j \in Controllers \ {k} : ctl[j] \in {"idle", "done"}
    BY ZenonT(30), <1>2 DEF StopBegins
  <2>2. Rest
    BY Zenon, <1>2, <2>1 DEF StopBegins, Orderly, AtRest
  <2>3. Phase(k)'
    BY Zenon, <1>1, <1>2, <2>2 DEF StopBegins, Phase, Rest
  <2> QED
    BY ZenonT(30), <1>2, <2>1, <2>3, ControlStep DEF StopBegins, Orderly
<1>3. CASE StopStep(k)
  <2>1. Phase(k) /\ ~ crashed /\ (running => worker \in {"none", "wait", "write"})
    BY Zenon DEF Orderly
  <2>2. ctl[k] \notin {"idle", "done"}
    BY Zenon, <1>3 DEF StopStep, Halts, TestsWorker, Joins, JoinsTwice, TakesLast, WritesLast, Closes
  <2>3. \A j \in Controllers \ {k} : ctl[j] \in {"idle", "done"}
    BY <2>2, OthersRest
  <2>4. CASE Halts(k)
    BY ZenonT(30), <1>1, <2>1, <2>3, <2>4, ControlStep DEF Halts, Phase
  <2>5. CASE TestsWorker(k)
    BY ZenonT(30), <1>1, <2>1, <2>3, <2>5, ControlStep DEF TestsWorker, Phase
  <2>6. CASE Joins(k)
    BY ZenonT(30), <1>1, <2>1, <2>3, <2>6, ControlStep DEF Joins, Phase
  <2>7. CASE JoinsTwice(k)
    BY Zenon, <2>1, <2>7 DEF JoinsTwice, Phase
  <2>8. CASE TakesLast(k)
    <3>1. OnlyLate'
      BY <2>8 DEF TakesLast, TakeSeries, Overtaken, OnlyLate, NonePassed
    <3> QED
      BY Zenon, <1>1, <2>1, <2>3, <2>8, <3>1, ControlStep DEF TakesLast, Phase
  <2>9. CASE WritesLast(k)
    <3>1. OnlyLate' <=> OnlyLate
      BY <2>9 DEF WritesLast, OnlyLate, NonePassed
    <3> QED
      BY ZenonT(30), <1>1, <2>1, <2>3, <2>9, <3>1, ControlStep DEF WritesLast, Phase
  <2>10. CASE Closes(k)
    <3>1. OnlyLate' <=> OnlyLate
      BY Zenon, <2>10 DEF Closes, OnlyLate, NonePassed
    <3> QED
      BY ZenonT(30), <1>1, <2>1, <2>3, <2>10, <3>1, ControlStep DEF Closes, Phase, Rest
  <2> QED
    BY Zenon, <1>3, <2>4, <2>5, <2>6, <2>7, <2>8, <2>9, <2>10 DEF StopStep
<1> QED
  BY Zenon, <1>2, <1>3

\* configure, once it has stopped, keeps what one controller relies on in order.
LEMMA ConfigureOrderly ==
    ASSUME MetricsTypeOK, Orderly, ConfigureStep
    PROVE  Orderly'
<1> USE DEF Goes
<1> DEFINE k == "reload"
<1>1. k \in Controllers /\ k \in DOMAIN ctl
  BY DEF MetricsTypeOK, Controllers
<1> HIDE DEF k
<1>2. Phase(k) /\ ~ crashed /\ (running => worker \in {"none", "wait", "write"})
  BY Zenon, <1>1 DEF Orderly
<1>3. ctl[k] \notin {"idle", "done"}
  BY Zenon DEF k, ConfigureStep, StaysOff, Opens, Enables, Runs, Spawns, SpawnFails, Announces
<1>4. \A j \in Controllers \ {k} : ctl[j] \in {"idle", "done"}
  BY Zenon, <1>1, <1>3, OthersRest
<1>5. CASE StaysOff \/ Opens
  <2>1. OnlyLate' <=> OnlyLate
    BY <1>5 DEF StaysOff, Opens, OnlyLate, NonePassed
  <2> QED
    BY <1>1, <1>2, <1>4, <1>5, <2>1, ControlStep DEF k, StaysOff, Opens, Phase, Rest
<1>6. CASE Enables
  BY ZenonT(30), <1>1, <1>2, <1>4, <1>6, ControlStep DEF k, Enables, Phase
<1>7. CASE Runs
  BY ZenonT(30), <1>1, <1>2, <1>4, <1>7, ControlStep DEF k, Runs, Phase
<1>8. CASE Spawns
  BY ZenonT(30), <1>1, <1>2, <1>4, <1>8, ControlStep DEF k, Spawns, Phase
<1>9. CASE SpawnFails
  <2>1. OnlyLate'
    BY <1>9 DEF SpawnFails, Overtaken, OnlyLate, NonePassed
  <2> QED
    BY ZenonT(30), <1>1, <1>2, <1>4, <1>9, <2>1, ControlStep DEF k, SpawnFails, Phase, Rest
<1>10. CASE Announces
  BY ZenonT(30), <1>1, <1>2, <1>4, <1>10, ControlStep DEF k, Announces, Phase, Rest
<1> QED
  BY Zenon, <1>5, <1>6, <1>7, <1>8, <1>9, <1>10 DEF ConfigureStep

\* History keeps that both controllers have been at work together.
LEMMA OverlapStays ==
    ASSUME overlap, [MetricsNext]_MetricsVars
    PROVE  overlap'
<1>1. CASE \E o \in Observers : Observe(o) \/ AddSample(o)
  BY ZenonT(30), <1>1 DEF Observe, AddSample
<1>2. CASE WorkerTakes \/ WorkerWrites \/ UNCHANGED MetricsVars
  BY ZenonT(30), <1>2 DEF WorkerTakes, WorkerWrites, MetricsVars
<1>3. CASE \E k \in Controllers : StopBegins(k)
  BY ZenonT(30), <1>3 DEF StopBegins
<1>4. CASE \E k \in Controllers : StopStep(k)
  BY ZenonT(30), <1>4 DEF StopStep, Halts, TestsWorker, Joins, JoinsTwice, TakesLast, WritesLast, Closes
<1>5. CASE ConfigureStep
  BY ZenonT(30), <1>5 DEF ConfigureStep, StaysOff, Opens, Enables, Runs, Spawns, SpawnFails, Announces
<1> QED
  BY Zenon, <1>1, <1>2, <1>3, <1>4, <1>5 DEF MetricsNext

\* ObservabilityMetrics keeps its invariant.
THEOREM MetricsCorrect == MetricsSpec => []MetricsIInv
<1>1. ASSUME MetricsIInv, [MetricsNext]_MetricsVars PROVE MetricsIInv'
  <2>1. MetricsTypeOK' /\ Counted' /\ Batches' /\ OnePlace'
    BY Zenon, <1>1, MetricsTypes, StepPlaces, StepBatches DEF MetricsIInv
  <2>2. ASSUME ~ overlap' PROVE Orderly'
    <3>1. ~ overlap /\ MetricsTypeOK /\ Orderly
      BY Zenon, <1>1, <2>2, OverlapStays DEF MetricsIInv
    <3>2. CASE UNCHANGED MetricsVars
      BY <3>1, <3>2 DEF MetricsVars, Orderly, Alone, Phase, AtRest, Rest, OnlyLate, NonePassed
    <3> QED
      BY Zenon, <1>1, <2>2, <3>1, <3>2, ServiceOrderly, StopOrderly, ConfigureOrderly DEF MetricsNext
  <2> QED
    BY Zenon, <2>1, <2>2 DEF MetricsIInv
<1> QED
  BY <1>1, MetricsInitIInv, PTL DEF MetricsSpec

\* flush_once of several threads at the same time neither loses a sample, nor writes one twice, nor keeps
\* one that it has written, whatever the reloads and the end of the node do.
THEOREM SamplesInOnePlace == MetricsSpec => []OnePlace
<1>1. MetricsIInv => OnePlace
  BY DEF MetricsIInv
<1> QED
  BY <1>1, MetricsCorrect, PTL

\* Where no reload meets the end of the node, stop leaves in a series only the samples of observers
\* that its last flush came too early for.
THEOREM StopLeavesOnlyLate == MetricsSpec => []OnlyLateLeft
<1>1. MetricsIInv => OnlyLateLeft
  BY DEF MetricsIInv, Orderly, AtRest, Rest, OnlyLate, OnlyLateLeft, Resting
<1> QED
  BY <1>1, MetricsCorrect, PTL

\* Where no reload meets the end of the node, observing while it is enabled finds an open store and a
\* worker that runs, and no join is made twice.
THEOREM EnabledMeansServed == MetricsSpec => []EnabledIsServed
<1>1. MetricsIInv => EnabledIsServed
  <2> SUFFICES ASSUME MetricsIInv, ~ overlap
               PROVE  /\ Resting /\ enabled =>
                           running /\ engine /\ worker \in {"wait", "write"} /\ status \in {"running", "error"}
                      /\ ~ crashed
    BY DEF EnabledIsServed
  <2> QED
    BY DEF MetricsIInv, Orderly, AtRest, Rest, Resting
<1> QED
  BY <1>1, MetricsCorrect, PTL

(***************************************************************************)
(* The handling of a request                                               *)
(***************************************************************************)
Messages == [kind : Kinds, attempt : Nat, index : Nat, code : {0, -41, -42}]

\* What was sent so far but an error belongs to the attempt under way, and is numbered by its place.
Pieces == \A i \in DOMAIN out : out[i].kind # "error" => out[i].attempt = attempt /\ out[i].index = i - 1

Looping == {"loop", "select", "wait"}

\* Until a call succeeds only deltas were sent, as many as the attempt counts; and there are none when
\* the next attempt begins.
Progress ==
    /\ pc \notin {"success", "done"} => \A i \in DOMAIN out : out[i].kind = "delta"
    /\ pc \in Looping \cup {"call"} =>
         /\ Len(out) = IF req.enoutput THEN stream.index ELSE 0
         /\ ~ req.enstream => stream.index = 0
         /\ ~ req.mock => (stream.started <=> stream.index > 0)
    /\ pc \in Looping /\ ~ req.mock => stream.index = 0
    /\ req.mock => pc \in {"loop", "success", "done"}
    /\ pc # "done" /\ ~ req.enoutput => out = << >>
    /\ pc = "success" /\ req.enoutput => out # << >> /\ out[Len(out)].kind \in {"finish", "text"}
    /\ pc # "done" => record = "Running" /\ counted = << >>

\* The attempts made, where a failed call was the last thing that happened.
Attempts ==
    /\ pc \in {"select", "wait", "call"} => attempt <= req.max_retries
    /\ pc = "loop" /\ error # "" => attempt <= req.max_retries + 1
    /\ pc = "end" /\ error = "call" => attempt = req.max_retries + 1 \/ stopping
    /\ pc \in {"loop", "select", "wait"} /\ error = "" => attempt = 0

IInv == TypeOK /\ Pieces /\ Progress /\ Attempts /\ OutcomeAgrees /\ RetriesUsedUp

\* Nothing is in the empty sequence.
LEMMA EmptySequence == /\ \A S : << >> \in Seq(S)
                       /\ Len(<< >>) = 0 /\ DOMAIN << >> = {}
OBVIOUS

\* What a message at the end of a sequence changes.
LEMMA Appended ==
    ASSUME NEW S, NEW q \in Seq(S), NEW m \in S
    PROVE  /\ Append(q, m) \in Seq(S) /\ Append(q, m) # << >>
           /\ Len(q) \in Nat /\ Len(Append(q, m)) = Len(q) + 1 /\ Append(q, m)[Len(q) + 1] = m
           /\ DOMAIN Append(q, m) = DOMAIN q \cup {Len(q) + 1}
           /\ \A i \in DOMAIN q : Append(q, m)[i] = q[i] /\ i # Len(q) + 1
OBVIOUS

\* A request is one of those that the constants allow.
LEMMA Settings ==
    ASSUME req \in Requests
    PROVE  /\ req.max_retries \in Int /\ req.deadline \in BOOLEAN /\ req.waits \in BOOLEAN
           /\ req.mock \in BOOLEAN /\ req.enstream \in BOOLEAN /\ req.enoutput \in BOOLEAN
BY Zenon, HandlingAssumption DEF RequestSettings

\* A message with the attempt under way is one.
LEMMA MessageType ==
    ASSUME TypeOK, NEW kind \in Kinds, NEW i \in Nat, NEW code \in {0, -41, -42}
    PROVE  /\ Message(kind, i, code) \in Messages
           /\ Message(kind, i, code).kind = kind /\ Message(kind, i, code).index = i
           /\ Message(kind, i, code).attempt = attempt /\ Message(kind, i, code).code = code
BY DEF TypeOK, Message, Messages

\* The worker has done nothing yet.
LEMMA InitIInv == Init => IInv
<1> SUFFICES ASSUME Init PROVE IInv
  BY Zenon
<1>1. /\ stream \in [index : Nat, failed : BOOLEAN, started : BOOLEAN]
      /\ stream.index = 0 /\ stream.started = FALSE
  BY DEF Init, NewStream
<1>2. TypeOK
  <2>1. counted = << >> /\ out = << >>
    BY DEF Init
  <2>2. counted \in Seq({"ok", "failed", "timeout"}) /\ out \in Seq(Messages)
    BY Zenon, <2>1, EmptySequence
  <2> QED
    BY <1>1, <2>2 DEF Init, TypeOK, Messages
<1>3. Pieces /\ Progress
  <2>1. out = << >>
    BY DEF Init
  <2>2. Len(out) = 0 /\ DOMAIN out = {}
    BY Zenon, <2>1, EmptySequence
  <2>3. Pieces
    BY Zenon, <2>2 DEF Pieces
  <2>4. pc = "loop" /\ req \in Requests /\ record = "Running" /\ counted = << >>
    BY DEF Init
  <2> QED
    BY <1>1, <2>1, <2>2, <2>3, <2>4, Settings DEF Progress, Looping
<1>4. Attempts /\ OutcomeAgrees /\ RetriesUsedUp
  BY DEF Init, Attempts, OutcomeAgrees, RetriesUsedUp
<1> QED
  BY Zenon, <1>2, <1>3, <1>4 DEF IInv

\* The steps that send no message.
Silent ==
    \/ LoopHead \/ GetEndpoint \/ NoEndpointYet \/ NoEndpoint \/ StreamError \/ CallFails \/ FinishSuccess \/ Abandon
    \/ DeadlinePasses \/ Stop

\* The steps that send one of these messages, if the request wants output.
Sends(m) ==
    /\ out' = Emitted(m)
    /\ \/ MockDelta /\ m = Message("delta", stream.index, 0)
       \/ StreamDelta /\ m = Message("delta", stream.index, 0)
       \/ (MockEnd \/ CallSucceeds) /\ m = IF req.enstream THEN Message("finish", stream.index, 0) ELSE Message("text", 0, 0)

\* What a step sends.
LEMMA StepKinds ==
    ASSUME IInv, [Next]_vars
    PROVE  \/ Silent /\ UNCHANGED out
           \/ \E m \in Messages : Sends(m) /\ m.attempt = attempt /\ m.index = stream.index
           \/ FinishFailure
           \/ UNCHANGED vars
<1>1. CASE Silent
  BY <1>1
     DEF Silent, LoopHead, GetEndpoint, NoEndpointYet, NoEndpoint, StreamError, CallFails, FinishSuccess, Abandon,
         DeadlinePasses, Stop
<1>2. TypeOK /\ stream.index \in Nat
  BY DEF IInv, TypeOK
<1>3. CASE MockDelta \/ StreamDelta
  <2> DEFINE m == Message("delta", stream.index, 0)
  <2>1. m \in Messages /\ m.attempt = attempt /\ m.index = stream.index
    BY <1>2, MessageType DEF Kinds
  <2>2. Sends(m)
    BY Zenon, <1>3 DEF MockDelta, StreamDelta, Sends
  <2> QED
    BY Zenon, <2>1, <2>2
<1>4. CASE MockEnd \/ CallSucceeds
  <2> DEFINE m == IF req.enstream THEN Message("finish", stream.index, 0) ELSE Message("text", 0, 0)
  <2>1. /\ pc \in Looping \cup {"call"}
        /\ req.enstream \/ stream.index = 0
        /\ MockEnd /\ req.enstream => stream.index = 2
    BY Zenon, <1>4 DEF MockEnd, CallSucceeds, IInv, Progress, Looping
  <2>2. m \in Messages /\ m.attempt = attempt /\ m.index = stream.index
    BY <1>2, <2>1, MessageType DEF Kinds
  <2>3. Sends(m)
    BY Zenon, <1>4, <2>1 DEF MockEnd, CallSucceeds, Sends
  <2> QED
    BY Zenon, <2>2, <2>3
<1> QED
  BY Zenon, <1>1, <1>3, <1>4 DEF Next, WorkerStep, Silent

\* What only some of the steps change.
Frame ==
    /\ req' = req
    /\ MockDelta \/ StreamDelta \/ StreamError \/ GetEndpoint \/ stream' = stream
    /\ FinishSuccess \/ FinishFailure \/ (record' = record /\ counted' = counted)
    /\ CallFails \/ attempt' = attempt
    /\ MockEnd \/ CallSucceeds \/ ok' = ok
    /\ Stop \/ stopping' = stopping
    /\ DeadlinePasses \/ expired' = expired
    /\ LoopHead \/ NoEndpoint \/ CallFails \/ error' = error

\* A step is one of the worker's, of the clock's or of stop()'s, and leaves the rest alone.
LEMMA StepFrame == [Next]_vars => Frame
<1>1. CASE MockDelta
  BY <1>1 DEF MockDelta, Frame
<1>2. CASE MockEnd
  BY ZenonT(30), <1>2 DEF MockEnd, Frame
<1>3. CASE LoopHead
  BY <1>3 DEF LoopHead, Frame
<1>4. CASE GetEndpoint
  BY Zenon, <1>4 DEF GetEndpoint, Frame
<1>5. CASE NoEndpointYet
  BY Zenon, <1>5 DEF NoEndpointYet, Frame
<1>6. CASE NoEndpoint
  BY <1>6 DEF NoEndpoint, Frame
<1>7. CASE StreamDelta
  BY <1>7 DEF StreamDelta, Frame
<1>8. CASE StreamError
  BY <1>8 DEF StreamError, Frame
<1>9. CASE CallSucceeds
  BY ZenonT(30), <1>9 DEF CallSucceeds, Frame
<1>10. CASE CallFails
  BY Zenon, <1>10 DEF CallFails, Frame
<1>11. CASE FinishSuccess
  BY Zenon, <1>11 DEF FinishSuccess, Frame
<1>12. CASE Abandon
  BY Zenon, <1>12 DEF Abandon, Frame
<1>13. CASE FinishFailure
  BY <1>13 DEF FinishFailure, Frame
<1>14. CASE DeadlinePasses
  BY Zenon, <1>14 DEF DeadlinePasses, Frame
<1>15. CASE Stop
  BY <1>15 DEF Stop, Frame
<1>16. CASE UNCHANGED vars
  BY Zenon, <1>16 DEF vars, Frame
<1> QED
  BY Zenon, <1>1, <1>2, <1>3, <1>4, <1>5, <1>6, <1>7, <1>8, <1>9, <1>10, <1>11, <1>12, <1>13, <1>14,
     <1>15, <1>16 DEF Next, WorkerStep

\* A step keeps the types.
LEMMA StepTypes ==
    ASSUME IInv, [Next]_vars
    PROVE  TypeOK'
<1>1. TypeOK /\ Frame
  BY Zenon, StepFrame DEF IInv
<1>2. out' \in Seq(Messages)
  <2>1. out \in Seq(Messages)
    BY <1>1 DEF TypeOK, Messages
  <2>2. ASSUME NEW m \in Messages, Sends(m) PROVE out' \in Seq(Messages)
    BY Zenon, <2>1, <2>2, Appended DEF Sends, Emitted
  <2>3. CASE FinishFailure
    <3>1. PICK code \in {-41, -42} : out' = Append(out, Message("error", 0, code))
      BY <2>3 DEF FinishFailure
    <3>2. Message("error", 0, code) \in Messages
      BY ZenonT(30), <1>1, MessageType DEF Kinds
    <3> QED
      BY Zenon, <2>1, <3>1, <3>2, Appended
  <2> QED
    BY Zenon, <2>1, <2>2, <2>3, StepKinds DEF vars
<1>3. stream' \in [index : Nat, failed : BOOLEAN, started : BOOLEAN]
  <2> stream \in [index : Nat, failed : BOOLEAN, started : BOOLEAN]
    BY <1>1 DEF TypeOK
  <2>1. CASE MockDelta
    BY <2>1 DEF MockDelta
  <2>2. CASE StreamDelta
    <3>1. stream' = [[stream EXCEPT !.index = stream.index + 1] EXCEPT !.started = TRUE]
      BY <2>2 DEF StreamDelta
    <3>2. [stream EXCEPT !.index = stream.index + 1] \in [index : Nat, failed : BOOLEAN, started : BOOLEAN]
      OBVIOUS
    <3> QED
      BY ZenonT(30), <3>1, <3>2
  <2>3. CASE StreamError
    BY ZenonT(30), <2>3 DEF StreamError
  <2>4. CASE GetEndpoint
    BY Zenon, <2>4 DEF GetEndpoint, NewStream
  <2> QED
    BY Zenon, <1>1, <2>1, <2>2, <2>3, <2>4 DEF Frame
<1>4. /\ counted' \in Seq({"ok", "failed", "timeout"})
      /\ record' \in {"Running", "Success", "Failed", "Timeout"}
  <2> DEFINE Outcomes == {"ok", "failed", "timeout"}
  <2>1. counted \in Seq(Outcomes) /\ record \in {"Running", "Success", "Failed", "Timeout"}
    BY <1>1 DEF TypeOK
  <2>2. CASE FinishSuccess \/ FinishFailure
    <3>1. \E c \in Outcomes : counted' = Append(counted, c)
      BY <2>2 DEF FinishSuccess, FinishFailure
    <3>2. record' \in {"Running", "Success", "Failed", "Timeout"}
      BY <2>2 DEF FinishSuccess, FinishFailure
    <3>3. counted' \in Seq(Outcomes)
      <4> HIDE DEF Outcomes
      <4> QED
        BY <2>1, <3>1, Appended
    <3> QED
      BY Zenon, <3>2, <3>3
  <2>3. CASE record' = record /\ counted' = counted
    BY Zenon, <2>1, <2>3
  <2> QED
    BY Zenon, <1>1, <2>2, <2>3 DEF Frame
<1>5. attempt' \in Nat /\ req' \in Requests
  <2>1. attempt \in Nat /\ req \in Requests /\ req' = req
    BY <1>1 DEF TypeOK, Frame
  <2>2. CASE CallFails
    BY <2>1, <2>2 DEF CallFails
  <2> QED
    BY Zenon, <1>1, <2>1, <2>2 DEF Frame
<1>6. ok' \in BOOLEAN /\ expired' \in BOOLEAN /\ stopping' \in BOOLEAN
  BY <1>1 DEF TypeOK, Frame, MockEnd, CallSucceeds, DeadlinePasses, Stop
<1>7. error' \in {"", "call", "stream", "no endpoint", "deadline exceeded"}
  BY <1>1 DEF TypeOK, Frame, LoopHead, NoEndpoint, CallFails, CallErrors
<1>8. pc' \in {"loop", "select", "wait", "call", "success", "end", "done"}
  BY <1>1
     DEF TypeOK, Next, WorkerStep, vars, MockDelta, MockEnd, LoopHead, GetEndpoint, NoEndpointYet, NoEndpoint,
         StreamDelta, StreamError, CallSucceeds, CallFails, FinishSuccess, Abandon, FinishFailure, DeadlinePasses, Stop
<1> QED
  BY <1>2, <1>3, <1>4, <1>5, <1>6, <1>7, <1>8 DEF TypeOK, Messages

\* The numbering of the pieces stays that of their places: a step that sends something numbers it by
\* what was sent before, and the attempt changes only while nothing was sent.
LEMMA StepPieces ==
    ASSUME IInv, [Next]_vars
    PROVE  Pieces'
<1>1. TypeOK /\ Frame /\ Pieces /\ Progress /\ out \in Seq(Messages)
  BY StepFrame DEF IInv, TypeOK, Messages
<1>2. CASE CallFails
  <2>1. CASE stream.started
    BY Zenon, <1>1, <1>2, <2>1 DEF CallFails, Pieces
  <2>2. CASE ~ stream.started
    <3>1. pc = "call" /\ ~ req.mock /\ stream.index \in Nat /\ req \in Requests
      BY <1>1, <1>2 DEF CallFails, Progress, TypeOK
    <3>2. stream.index = 0
      BY <1>1, <2>2, <3>1 DEF Progress
    <3>3. Len(out) = 0 /\ out' = out
      BY Zenon, <1>1, <1>2, <3>1, <3>2 DEF Progress, CallFails
    <3>4. DOMAIN out = {}
      BY <1>1, <3>3
    <3> QED
      BY Zenon, <3>3, <3>4 DEF Pieces
  <2> QED
    BY Zenon, <2>1, <2>2
<1>3. ASSUME NEW m \in Messages, Sends(m), m.attempt = attempt, m.index = stream.index
      PROVE  Pieces'
  <2>1. pc \in Looping \cup {"call"} /\ ~ CallFails
    BY Zenon, <1>3 DEF Sends, MockDelta, StreamDelta, MockEnd, CallSucceeds, Looping, CallFails
  <2>2. attempt' = attempt
    BY Zenon, <1>1, <2>1 DEF Frame
  <2>3. CASE ~ req.enoutput
    BY ZenonT(30), <1>1, <1>3, <2>2, <2>3 DEF Sends, Emitted, Pieces
  <2>4. CASE req.enoutput
    <3>1. Len(out) = stream.index /\ out' = Append(out, m)
      BY <1>1, <1>3, <2>1, <2>4 DEF Progress, Sends, Emitted
    <3> QED
      BY <1>1, <1>3, <2>2, <3>1, Appended DEF Pieces
  <2> QED
    BY Zenon, <2>3, <2>4
<1>4. CASE FinishFailure
  <2>1. PICK code \in {-41, -42} : out' = Append(out, Message("error", 0, code))
    BY <1>4 DEF FinishFailure
  <2>2. Message("error", 0, code) \in Messages /\ Message("error", 0, code).kind = "error"
    BY <1>1, MessageType DEF Kinds
  <2>3. attempt' = attempt
    BY <1>4 DEF FinishFailure
  <2> QED
    BY <1>1, <2>1, <2>2, <2>3, Appended DEF Pieces
<1>5. CASE UNCHANGED out /\ attempt' = attempt
  BY Zenon, <1>1, <1>5 DEF Pieces
<1> QED
  BY Zenon, <1>1, <1>2, <1>3, <1>4, <1>5, StepKinds DEF Frame, vars

\* Until a call succeeds only deltas were sent, and a new attempt begins with none.
LEMMA StepProgress ==
    ASSUME IInv, [Next]_vars
    PROVE  Progress'
<1>1. TypeOK /\ Frame /\ Progress /\ out \in Seq(Messages)
  BY StepFrame DEF IInv, TypeOK, Messages
<1>2. /\ req' = req /\ req \in Requests
      /\ stream \in [index : Nat, failed : BOOLEAN, started : BOOLEAN]
      /\ req.mock \in BOOLEAN /\ req.enstream \in BOOLEAN /\ req.enoutput \in BOOLEAN
  BY <1>1, Settings DEF Frame, TypeOK
<1>3. ASSUME NEW m \in Messages, Sends(m), m.kind = "delta", MockDelta \/ StreamDelta
      PROVE  Progress'
  <2>1. /\ pc' = pc /\ pc \in Looping \cup {"call"} /\ pc \notin {"success", "done"}
        /\ req.enstream /\ record' = record /\ counted' = counted
        /\ MockDelta => req.mock /\ pc = "loop"
        /\ StreamDelta => pc = "call"
    BY Zenon, <1>3 DEF MockDelta, StreamDelta, Looping
  <2>2. stream'.index = stream.index + 1 /\ (StreamDelta => stream'.started)
    <3>1. CASE MockDelta
      <4>1. stream'.index = stream.index + 1
        BY <1>2, <3>1 DEF MockDelta
      <4> QED
        BY <3>1, <4>1 DEF MockDelta, StreamDelta
    <3>2. CASE StreamDelta
      BY Zenon, <1>2, <3>2 DEF StreamDelta
    <3> QED
      BY <1>3, <3>1, <3>2
  <2>3. \A i \in DOMAIN out' : out'[i].kind = "delta"
    <3>1. \A i \in DOMAIN out : out[i].kind = "delta"
      BY ZenonT(30), <1>1, <2>1 DEF Progress
    <3> QED
      BY <1>1, <1>3, <3>1, Appended DEF Sends, Emitted
  <2>4. Len(out') = IF req.enoutput THEN stream'.index ELSE 0
    <3>1. Len(out) = IF req.enoutput THEN stream.index ELSE 0
      BY Zenon, <1>1, <2>1 DEF Progress
    <3> QED
      BY <1>1, <1>3, <2>2, <3>1, Appended DEF Sends, Emitted
  <2>5. ~ req.enoutput => out' = << >>
    BY Zenon, <1>1, <1>3, <2>1 DEF Progress, Sends, Emitted
  <2>6. record' = "Running" /\ counted' = << >>
    BY Zenon, <1>1, <2>1 DEF Progress
  <2>7. ~ req.mock => pc' = "call" /\ stream'.started /\ stream'.index > 0
    BY <1>2, <1>3, <2>1, <2>2
  <2>8. req.mock => pc' \in {"loop", "success", "done"}
    BY Zenon, <1>1, <2>1 DEF Progress
  <2> QED
    BY Zenon, <1>2, <2>1, <2>3, <2>4, <2>5, <2>6, <2>7, <2>8 DEF Progress, Looping
<1>4. ASSUME NEW m \in Messages, Sends(m), m.kind \in {"finish", "text"}, MockEnd \/ CallSucceeds
      PROVE  Progress'
  <2>1. /\ pc' = "success" /\ pc \in {"loop", "call"} /\ record' = record /\ counted' = counted
    BY Zenon, <1>4 DEF MockEnd, CallSucceeds
  <2>2. record' = "Running" /\ counted' = << >>
    BY Zenon, <1>1, <2>1 DEF Progress
  <2>3. ~ req.enoutput => out' = << >>
    BY Zenon, <1>1, <1>4, <2>1 DEF Progress, Sends, Emitted
  <2>4. req.enoutput => out' # << >> /\ out'[Len(out')] = m
    BY <1>1, <1>4, Appended DEF Sends, Emitted
  <2> QED
    BY Zenon, <1>2, <1>4, <2>1, <2>2, <2>3, <2>4 DEF Progress, Looping
<1>5. ASSUME NEW m \in Messages, Sends(m) PROVE Progress'
  <2>1. attempt \in Nat /\ stream.index \in Nat
    BY <1>1 DEF TypeOK
  <2>2. CASE MockDelta \/ StreamDelta
    <3>1. m = Message("delta", stream.index, 0)
      BY Zenon, <1>5, <2>2 DEF Sends, MockDelta, StreamDelta, MockEnd, CallSucceeds
    <3> QED
      BY Zenon, <1>1, <1>3, <1>5, <2>1, <2>2, <3>1 DEF Message
  <2>3. CASE MockEnd \/ CallSucceeds
    <3>1. m = IF req.enstream THEN Message("finish", stream.index, 0) ELSE Message("text", 0, 0)
      BY Zenon, <1>5, <2>3 DEF Sends, MockDelta, StreamDelta, MockEnd, CallSucceeds
    <3>2. m.kind \in {"finish", "text"}
      BY Zenon, <3>1 DEF Message
    <3> QED
      BY Zenon, <1>4, <1>5, <2>3, <3>2
  <2> QED
    BY Zenon, <1>5, <2>2, <2>3 DEF Sends
<1>6. CASE FinishFailure \/ FinishSuccess \/ Abandon
  <2>1. pc' = "done"
    BY <1>6 DEF FinishFailure, FinishSuccess, Abandon
  <2> QED
    BY Zenon, <1>2, <2>1 DEF Progress, Looping
<1>7. CASE LoopHead
  BY <1>1, <1>2, <1>7 DEF LoopHead, Progress, Looping
<1>8. CASE GetEndpoint
  <2>1. stream'.index = 0 /\ stream'.started = FALSE /\ pc \in Looping /\ ~ req.mock
    BY <1>1, <1>8 DEF GetEndpoint, NewStream, Looping, Progress
  <2> QED
    BY <1>1, <1>2, <1>8, <2>1 DEF GetEndpoint, Progress, Looping
<1>9. CASE NoEndpointYet \/ NoEndpoint
  BY <1>1, <1>2, <1>9 DEF NoEndpointYet, NoEndpoint, Progress, Looping
<1>10. CASE StreamError
  <2>1. stream'.index = stream.index /\ stream'.started = stream.started
    BY ZenonT(30), <1>2, <1>10 DEF StreamError
  <2> QED
    BY <1>1, <1>2, <1>10, <2>1 DEF StreamError, Progress, Looping
<1>11. CASE CallFails
  BY <1>1, <1>2, <1>11 DEF CallFails, Progress, Looping
<1>12. CASE DeadlinePasses \/ Stop \/ UNCHANGED vars
  BY Zenon, <1>1, <1>2, <1>12 DEF DeadlinePasses, Stop, vars, Progress, Looping
<1> QED
  BY Zenon, <1>5, <1>6, <1>7, <1>8, <1>9, <1>10, <1>11, <1>12, StepKinds DEF Silent

\* The attempts are counted one by one, up to max_retries + 1.
LEMMA StepAttempts ==
    ASSUME IInv, [Next]_vars
    PROVE  Attempts'
<1>1. /\ Frame /\ Attempts /\ Progress /\ req' = req
      /\ attempt \in Nat /\ req.max_retries \in Int /\ req \in Requests
  BY StepFrame, Settings DEF IInv, TypeOK, Frame
<1>2. CASE LoopHead
  <2>1. pc = "loop" /\ attempt' = attempt /\ stopping' = stopping
    BY <1>2 DEF LoopHead
  <2>2. CASE (attempt > req.max_retries \/ stopping) /\ pc' = "end" /\ error' = error
    <3>1. error = "call" => attempt <= req.max_retries + 1
      BY Zenon, <1>1, <2>1 DEF Attempts
    <3>2. error = "call" => attempt = req.max_retries + 1 \/ stopping
      BY <1>1, <2>2, <3>1
    <3>3. error' = "call" => attempt' = req'.max_retries + 1 \/ stopping'
      BY Zenon, <1>1, <2>1, <2>2, <3>2
    <3> QED
      BY Zenon, <2>2, <3>3 DEF Attempts
  <2>3. CASE attempt <= req.max_retries /\ pc' = "end" /\ error' = "deadline exceeded"
    BY <1>1, <2>1, <2>3 DEF Attempts
  <2>4. CASE attempt <= req.max_retries /\ pc' = "select" /\ error' = error
    BY <1>1, <2>1, <2>4 DEF Attempts
  <2> QED
    BY <1>2, <2>2, <2>3, <2>4 DEF LoopHead
<1>3. CASE GetEndpoint \/ NoEndpointYet \/ NoEndpoint
  BY <1>1, <1>3 DEF GetEndpoint, NoEndpointYet, NoEndpoint, Attempts
<1>4. CASE CallFails
  <2>1. attempt <= req.max_retries
    BY Zenon, <1>1, <1>4 DEF CallFails, Attempts
  <2>2. CASE pc' = "end" /\ error' = "stream" /\ attempt' = attempt
    BY <1>1, <2>2 DEF Attempts
  <2>3. CASE pc' = "loop" /\ error' \in {"call", "deadline exceeded"} /\ attempt' = attempt + 1
    <3> attempt \in Nat /\ req.max_retries \in Int /\ req' = req
      BY Zenon, <1>1
    <3> attempt + 1 <= req.max_retries + 1
      BY <2>1
    <3>1. attempt' <= req'.max_retries + 1
      BY <2>3
    <3> QED
      BY <2>3, <3>1 DEF Attempts
  <2> QED
    BY <1>4, <2>2, <2>3 DEF CallFails, CallErrors
<1>5. CASE MockEnd \/ CallSucceeds \/ FinishSuccess \/ Abandon \/ FinishFailure
  <2>1. pc' \in {"success", "done"}
    BY <1>5 DEF MockEnd, CallSucceeds, FinishSuccess, Abandon, FinishFailure
  <2> QED
    BY <2>1 DEF Attempts
<1>6. CASE MockDelta \/ StreamDelta \/ StreamError \/ DeadlinePasses \/ Stop \/ UNCHANGED vars
  <2>1. pc' = pc /\ attempt' = attempt /\ error' = error /\ (stopping => stopping')
    BY <1>6 DEF MockDelta, StreamDelta, StreamError, DeadlinePasses, Stop, vars
  <2> QED
    BY <1>1, <2>1 DEF Attempts
<1> QED
  BY Zenon, <1>2, <1>3, <1>4, <1>5, <1>6 DEF Next, WorkerStep

\* The first thing counted is the only one.
LEMMA CountedOnce ==
    ASSUME NEW c
    PROVE  Append(<< >>, c) = <<c>>
OBVIOUS

\* The step that ends a request says the same in the record, in the metrics and to the client, and
\* nothing is said after it.
LEMMA StepOutcome ==
    ASSUME IInv, [Next]_vars
    PROVE  OutcomeAgrees' /\ RetriesUsedUp'
<1>1. /\ TypeOK /\ Frame /\ Attempts /\ Progress /\ OutcomeAgrees /\ RetriesUsedUp /\ out \in Seq(Messages)
      /\ req' = req
  BY StepFrame DEF IInv, TypeOK, Messages, Frame
<1>2. CASE FinishSuccess
  <2>1. /\ pc = "success" /\ record' = "Success" /\ counted' = Append(counted, "ok") /\ out' = out
    BY Zenon, <1>2 DEF FinishSuccess
  <2>2. counted = << >>
    BY Zenon, <1>1, <2>1 DEF Progress
  <2>3. counted' = <<"ok">>
    BY Zenon, <2>1, <2>2, CountedOnce
  <2>4. IF req.enoutput THEN out # << >> /\ out[Len(out)].kind \in {"finish", "text"} ELSE out = << >>
    BY Zenon, <1>1, <2>1 DEF Progress
  <2> QED
    BY ZenonT(30), <1>1, <2>1, <2>3, <2>4 DEF OutcomeAgrees, RetriesUsedUp
<1>3. CASE FinishFailure
  <2> DEFINE code == IF error = "deadline exceeded" THEN -42 ELSE -41
             m == Message("error", 0, code)
  <2>1. /\ pc = "end" /\ ~ stopping /\ pc' = "done" /\ attempt' = attempt /\ error' = error
        /\ record' = IF code = -42 THEN "Timeout" ELSE "Failed"
        /\ counted' = Append(counted, IF code = -42 THEN "timeout" ELSE "failed")
        /\ out' = Append(out, m)
    BY <1>3 DEF FinishFailure
  <2>2. counted = << >>
    BY <1>1, <2>1 DEF Progress
  <2>3. counted' = <<IF code = -42 THEN "timeout" ELSE "failed">>
    BY <2>1, <2>2, CountedOnce
  <2>4. code \in {-41, -42}
    BY Zenon
  <2>5. m \in Messages /\ m.code = code
    <3> HIDE DEF code
    <3> QED
      BY <1>1, <2>4, MessageType DEF Kinds
  <2>6. out' # << >> /\ out'[Len(out')] = m
    <3> HIDE DEF m
    <3>1. out \in Seq(Messages) /\ m \in Messages /\ out' = Append(out, m)
      BY <1>1, <2>1, <2>5
    <3>2. Append(out, m) # << >> /\ Len(Append(out, m)) = Len(out) + 1 /\ Append(out, m)[Len(out) + 1] = m
      BY <3>1, Appended
    <3> QED
      BY Zenon, <3>1, <3>2
  <2>7. OutcomeAgrees'
    <3> HIDE DEF code, m
    <3>1. CASE code = -42
      BY ZenonT(30), <2>1, <2>3, <2>5, <2>6, <3>1 DEF OutcomeAgrees
    <3>2. CASE code = -41
      BY ZenonT(30), <2>1, <2>3, <2>5, <2>6, <3>2 DEF OutcomeAgrees
    <3> QED
      BY <2>4, <3>1, <3>2
  <2>8. RetriesUsedUp'
    BY Zenon, <1>1, <2>1 DEF RetriesUsedUp, Attempts
  <2> QED
    BY Zenon, <2>7, <2>8
<1>4. CASE Abandon
  <2>1. /\ pc = "end" /\ stopping' /\ record' = record /\ counted' = counted /\ out' = out
    BY Zenon, <1>4 DEF Abandon
  <2>2. record = "Running" /\ counted = << >> /\ \A i \in DOMAIN out : out[i].kind = "delta"
    BY Zenon, <1>1, <2>1 DEF Progress
  <2> QED
    BY Zenon, <2>1, <2>2 DEF OutcomeAgrees, RetriesUsedUp
<1>5. CASE DeadlinePasses \/ Stop \/ UNCHANGED vars
  <2>1. /\ pc' = pc /\ record' = record /\ counted' = counted /\ out' = out /\ error' = error
        /\ attempt' = attempt /\ (stopping => stopping')
    BY <1>5 DEF DeadlinePasses, Stop, vars
  <2> QED
    BY Zenon, <1>1, <2>1 DEF OutcomeAgrees, RetriesUsedUp
<1>6. CASE \/ MockDelta \/ MockEnd \/ LoopHead \/ GetEndpoint \/ NoEndpointYet \/ NoEndpoint
           \/ StreamDelta \/ StreamError \/ CallSucceeds \/ CallFails
  <2>1. pc # "done" /\ pc' # "done" /\ record' = record
    <3>1. CASE MockDelta \/ MockEnd \/ LoopHead \/ GetEndpoint \/ NoEndpointYet
      BY <3>1 DEF MockDelta, MockEnd, LoopHead, GetEndpoint, NoEndpointYet
    <3>2. CASE NoEndpoint \/ StreamDelta \/ StreamError \/ CallSucceeds \/ CallFails
      BY <3>2 DEF NoEndpoint, StreamDelta, StreamError, CallSucceeds, CallFails
    <3> QED
      BY Zenon, <1>6, <3>1, <3>2
  <2>2. record' = "Running"
    BY <1>1, <2>1 DEF Progress
  <2> QED
    BY Zenon, <2>1, <2>2 DEF OutcomeAgrees, RetriesUsedUp
<1> QED
  BY Zenon, <1>2, <1>3, <1>4, <1>5, <1>6 DEF Next, WorkerStep

\* The inductive invariant: what was sent belongs to the attempt under way and is numbered by its
\* place, only deltas are sent before a call succeeds, and the attempts are counted.
THEOREM HandlingCorrect == Spec => []IInv
<1>1. IInv /\ [Next]_vars => IInv'
  BY Zenon, StepTypes, StepPieces, StepProgress, StepAttempts, StepOutcome DEF IInv
<1> QED
  BY InitIInv, <1>1, PTL DEF Spec

\* All the output of a request is that of one attempt, numbered without a gap, whatever max_retries
\* is and however many pieces the endpoints send before they fail.
THEOREM OutputIsCoherent == Spec => []OneCoherentOutput
<1>1. IInv => OneCoherentOutput
  BY DEF IInv, Pieces, OneCoherentOutput
<1> QED
  BY HandlingCorrect, <1>1, PTL

\* When handle_request returns, the record, the metrics and the reply say the same.
THEOREM OutcomesAgree == Spec => []OutcomeAgrees
<1>1. IInv => OutcomeAgrees
  BY DEF IInv
<1> QED
  BY HandlingCorrect, <1>1, PTL

\* A failed call is reported only after max_retries + 1 attempts.
THEOREM RetriesAreUsedUp == Spec => []RetriesUsedUp
<1>1. IInv => RetriesUsedUp
  BY DEF IInv
<1> QED
  BY HandlingCorrect, <1>1, PTL

(***************************************************************************)
(* The choice of an endpoint: the theorems                                 *)
(***************************************************************************)
INSTANCE WellFoundedInduction

\* Every nonempty set of natural numbers has a least element.
LEMMA LeastHolds == LeastExists
<1> SUFFICES ASSUME NEW S \in SUBSET Nat, S # {} PROVE \E k \in S : \A j \in S : k <= j
  BY DEF LeastExists
<1>1. PICK k \in S : \A j \in S : ~ (<<j, k>> \in OpToRel(<, Nat))
  BY NatLessThanWellFounded, WFMin
<1>2. ASSUME NEW j \in S PROVE k <= j
  <2>1. <<j, k>> \in Nat \X Nat
    BY Zenon
  <2>2. ~ (j < k)
    BY Zenon, <1>1, <2>1 DEF OpToRel
  <2> QED
    BY <2>1, <2>2
<1> QED
  BY Zenon, <1>2

\* select_endpoint's scan keeps its types, remembers rank and score of the best endpoint so far, and
\* passes an eligible endpoint over only for a preferred one or because of a barred one.
THEOREM ScanCorrect == ScanSpec => []ScanIInv
<1>1. ScanIInv /\ [Examine]_ScanVars => ScanIInv'
  <2>1. CASE UNCHANGED ScanVars
    BY <2>1, PositionsKeep
       DEF ScanIInv, ScanVars, ScanTypeOK, Remembers, LostOnlyToBarred, Eligible, Barred, Preferred
  <2> QED
    BY ZenonT(30), <2>1, LeastHolds, TurnRemembers, TurnLoses DEF ScanIInv
<1> QED
  BY <1>1, ScanInitIInv, PTL DEF ScanSpec

\* LostOnlyToBarred holds of every list and every request: the choice is eligible, and an eligible
\* endpoint loses to a worse one, or to none, only to a barred endpoint of better rank after it.
THEOREM LosesOnlyToBarred == ScanSpec => []LostOnlyToBarred
<1>1. ScanIInv => LostOnlyToBarred
  BY DEF ScanIInv
<1> QED
  BY <1>1, ScanCorrect, PTL

\* Where no endpoint is barred, the single pass of select_endpoint finds the optimum.
THEOREM FindsTheBest == ScanSpec => []ChoosesTheBest
<1>1. LostOnlyToBarred => ChoosesTheBest
  BY DEF LostOnlyToBarred, ChoosesTheBest
<1> QED
  BY <1>1, LosesOnlyToBarred, PTL
=============================================================================
