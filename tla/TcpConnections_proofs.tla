----------------------- MODULE TcpConnections_proofs ------------------------
(***************************************************************************)
(* The inductive invariant of TcpAccess, for any number of I/O loops,      *)
(* connections and answers, and the first half of the proof that every     *)
(* step keeps it: what the loops have to do, types and places, and the     *)
(* life of a connection.  TcpAccess_proofs has the other half and the      *)
(* theorems.                                                               *)
(***************************************************************************)
EXTENDS TcpAccess, FiniteSets, TLAPS

(***************************************************************************)
(* The inductive invariant                                                 *)
(***************************************************************************)

FunctorSet == [op : {"established", "send", "remove", "destroyed"}, conn : Conns, msg : Nat]

LoopState ==
    [pc : {"new", "poll", "run", "number", "store", "ended"},
     pending : Seq(FunctorSet), batch : Seq(FunctorSet), quit : BOOLEAN]

ConnState ==
    [state : {"connecting", "connected", "disconnected"}, channel : {"new", "on", "off", "removed"},
     session : {"none", "working", "stopped"}, number : Nat, epoch : Nat, buffer : Seq(Nat), written : Seq(Nat)]

TypeOK ==
    /\ loop \in [Loops -> LoopState]
    /\ conn \in [Conns -> ConnState]
    /\ accepted \in 0..MaxConns
    /\ connections \subseteq 1..accepted
    /\ counter_port \in Nat /\ stores \in Nat /\ answers \in Nat
    /\ stop \in [pc : {"no", "quit", "join", "done"}, at : 0..NThreads, early : BOOLEAN, behind : SUBSET Conns]
    /\ crashed \in BOOLEAN

\* A loop has a batch only while it runs it.
Batches == \A l \in Loops : loop[l].pc \in {"new", "poll", "ended"} => loop[l].batch = << >>

\* Where functors are: those of removeConnectionInLoop in the base loop, all others in the loop of
\* their connection; a send is for a connection that has had a session, and of an answer that was sent.
Placed ==
    \A l \in Loops : \A i \in 1..Len(Work(l)) :
      /\ Work(l)[i].conn <= accepted
      /\ IF Work(l)[i].op = "remove" THEN l = 0 ELSE l = LoopOf(Work(l)[i].conn)
      /\ Work(l)[i].op = "send" => conn[Work(l)[i].conn].session # "none" /\ Work(l)[i].msg <= answers

\* The functors that are to establish, to destroy and to remove connection c.
Est(c) == Places(LoopOf(c), "established", c)
Des(c) == Places(LoopOf(c), "destroyed", c)
Rem(c) == Places(0, "remove", c)

\* Connection c is going to be destroyed, and to be established before.
Doomed(c) == \E i \in Des(c) : \A j \in Est(c) : j < i

\* The life of a connection: state, channel and session go together; a connection whose channel is new
\* is about to be established; the server knows a connection until it is removed, and one that it no
\* longer knows and that is not closed yet is going to be destroyed.
Life(c) ==
    /\ conn[c].channel = "new" =>
         /\ conn[c].session = "none" /\ conn[c].state = "connecting"
         /\ conn[c].written = << >> /\ conn[c].buffer = << >>
    /\ conn[c].channel = "on" => conn[c].session = "working" /\ conn[c].state = "connected"
    /\ conn[c].channel \in {"off", "removed"} => conn[c].session = "stopped" /\ conn[c].state = "disconnected"
    /\ c > accepted => conn[c].channel = "new"
    /\ IF c <= accepted /\ conn[c].channel = "new" THEN Single(Est(c)) ELSE Est(c) = {}
    /\ c <= accepted /\ conn[c].channel \in {"new", "on"} => c \in connections \/ Doomed(c)
    /\ c \in connections => conn[c].channel # "removed" /\ Des(c) = {}

\* The signal handler has told loop l to quit.
Told(l) ==
    \/ stop.pc \in {"join", "done"} /\ l <= stop.at
    \/ stop.pc = "quit" /\ l < stop.at

\* The server forgets its connections before it tells a loop to quit.
Lives == (\A c \in Conns : Life(c)) /\ ((\E l \in IoLoops : Told(l)) => connections = {})

\* What a loop that was told to quit has to destroy is not left for a later batch, but for what waited
\* behind the functors that it was running then.
Reached ==
    \A l \in IoLoops : Told(l) /\ loop[l].pc \notin {"new", "poll"} =>
      \A i \in 1..Len(loop[l].pending) :
        loop[l].pending[i].op = "destroyed" => loop[l].pending[i].conn \in stop.behind

\* How far the signal handler has come: it has joined the loops before stop.at, and a loop ends only
\* when it was told to.
Joined ==
    /\ \A l \in IoLoops : ~ Told(l) => loop[l].pc # "ended" /\ ~ loop[l].quit
    /\ stop.pc # "no" => stop.at \in IoLoops /\ \A l \in 1..(stop.at - 1) : loop[l].pc = "ended"
    /\ stop.pc = "join" => loop[stop.at].quit \/ stop.early
    /\ stop.pc = "join" /\ loop[stop.at].pc = "new" => stop.early
    /\ stop.pc = "done" => \A l \in IoLoops : loop[l].pc = "ended"

\* The loops between fetch_add and the end of onConnection.
Between == {l \in IoLoops : loop[l].pc \in {"number", "store"}}

\* counter_port passes the last number by no more than the loops that will set it back, and numbers
\* given out since it was last set back are below it.
Numbered ==
    /\ counter_port <= LastNumber + Cardinality(Between)
    /\ \A c \in Conns : conn[c].session # "none" =>
         /\ conn[c].number < LastNumber + NThreads /\ conn[c].epoch <= stores
         /\ conn[c].epoch = stores => conn[c].number < counter_port
         /\ \A d \in Conns \ {c} :
              conn[d].session # "none" /\ conn[d].number = conn[c].number => conn[d].epoch # conn[c].epoch

\* No answer is larger than the number of answers sent.
Answered ==
    \A c \in Conns : \A i \in 1..Len(conn[c].written \o conn[c].buffer) :
      (conn[c].written \o conn[c].buffer)[i] <= answers

IInv ==
    /\ TypeOK /\ Batches /\ Placed /\ Lives /\ ClosedOnce /\ Reached /\ Joined
    /\ Numbered /\ Answered /\ AnswersInOrder

(***************************************************************************)
(* Queues of functors                                                      *)
(***************************************************************************)

\* The sequence t is s with f put at its end, and s without its first element.
Pushed(s, t, f) == Len(t) = Len(s) + 1 /\ t[Len(s) + 1] = f /\ \A i \in 1..Len(s) : t[i] = s[i]
Popped(s, t) == Len(t) = Len(s) - 1 /\ \A i \in 1..Len(t) : t[i] = s[i + 1]

\* A loop and the loop of a connection are loops.
LEMMA LoopsTyped ==
    /\ 0 \in Loops /\ IoLoops \subseteq Loops /\ 0 \notin IoLoops
    /\ \A c \in Conns : LoopOf(c) \in IoLoops
  BY TcpAssumption DEF Loops, IoLoops, Conns, LoopOf

\* What a loop has to do is a sequence of functors: the batch, then what is pending.
LEMMA WorkTyped ==
    ASSUME TypeOK, NEW l \in Loops
    PROVE  /\ Work(l) \in Seq(FunctorSet)
           /\ loop[l].batch \in Seq(FunctorSet) /\ loop[l].pending \in Seq(FunctorSet)
           /\ Len(Work(l)) = Len(loop[l].batch) + Len(loop[l].pending)
           /\ \A i \in 1..Len(loop[l].batch) : Work(l)[i] = loop[l].batch[i]
           /\ \A i \in 1..Len(loop[l].pending) : Work(l)[Len(loop[l].batch) + i] = loop[l].pending[i]
<1>1. loop[l].batch \in Seq(FunctorSet) /\ loop[l].pending \in Seq(FunctorSet)
  BY DEF TypeOK, LoopState
<1>2. ASSUME NEW s \in Seq(FunctorSet), NEW t \in Seq(FunctorSet)
      PROVE  /\ s \o t \in Seq(FunctorSet) /\ Len(s \o t) = Len(s) + Len(t)
             /\ \A i \in 1..Len(s) : (s \o t)[i] = s[i]
             /\ \A i \in 1..Len(t) : (s \o t)[Len(s) + i] = t[i]
  OBVIOUS
<1> QED
  BY ZenonT(30), <1>1, <1>2 DEF Work

\* queueInLoop puts a functor at the end of what the loop has to do.
LEMMA QueuedWork ==
    ASSUME NEW S, NEW s \in Seq(S), NEW t \in Seq(S), NEW f
    PROVE  Pushed(s \o t, s \o Append(t, f), f)
<1>1. Len(s \o t) = Len(s) + Len(t) /\ Len(s \o Append(t, f)) = Len(s) + Len(t) + 1
  OBVIOUS
<1>2. (s \o Append(t, f))[Len(s) + Len(t) + 1] = f
  OBVIOUS
<1>3. \A i \in 1..(Len(s) + Len(t)) : (s \o Append(t, f))[i] = (s \o t)[i]
  OBVIOUS
<1> QED
  BY <1>1, <1>2, <1>3 DEF Pushed

\* The functor a loop runs is the first of what it has to do, and the others stay.
LEMMA RanWork ==
    ASSUME NEW s \in Seq(FunctorSet), NEW t \in Seq(FunctorSet), s # << >>
    PROVE  Popped(s \o t, Tail(s) \o t) /\ (s \o t)[1] = Head(s) /\ s \o t # << >>
<1>1. Len(s \o t) = Len(s) + Len(t) /\ Len(Tail(s) \o t) = Len(s) + Len(t) - 1 /\ Len(s) > 0
  OBVIOUS
<1>2. \A i \in 1..(Len(s) + Len(t) - 1) : (Tail(s) \o t)[i] = (s \o t)[i + 1]
  OBVIOUS
<1>3. (s \o t)[1] = Head(s) /\ s \o t # << >>
  BY <1>1
<1> QED
  BY <1>1, <1>2, <1>3 DEF Popped

\* A set with one element.
LEMMA SingleMeans ==
    ASSUME NEW S
    PROVE  Single(S) <=> S # {} /\ \A x, y \in S : x = y
  BY DEF Single

\* Where functors are after one was put at the end.
LEMMA PushedPlaces ==
    ASSUME NEW l, NEW op, NEW c, NEW f, Len(Work(l)) \in Nat, Pushed(Work(l), Work(l)', f)
    PROVE  IF f.op = op /\ f.conn = c THEN Places(l, op, c)' = Places(l, op, c) \cup {Len(Work(l)) + 1}
           ELSE Places(l, op, c)' = Places(l, op, c)
  BY DEF Pushed, Places

\* Where functors are after the first one was run.
LEMMA PoppedPlaces ==
    ASSUME NEW l, NEW op, NEW c, Len(Work(l)) \in Nat, Popped(Work(l), Work(l)')
    PROVE  /\ Places(l, op, c)' = {i \in 1..(Len(Work(l)) - 1) : i + 1 \in Places(l, op, c)}
           /\ Places(l, op, c) \subseteq 1..Len(Work(l))
           /\ 1 \in Places(l, op, c) /\ Single(Places(l, op, c)) => Places(l, op, c)' = {}
           /\ 1 \notin Places(l, op, c) =>
                /\ Places(l, op, c) = {} <=> Places(l, op, c)' = {}
                /\ Single(Places(l, op, c)) => Single(Places(l, op, c)')
<1> DEFINE P == Places(l, op, c)
           Q == {i \in 1..(Len(Work(l)) - 1) : i + 1 \in P}
<1>1. P' = Q
  BY DEF Popped, Places
<1>2. P \subseteq 1..Len(Work(l))
  BY DEF Places
<1> HIDE DEF P
<1>3. 1 \in P /\ Single(P) => Q = {}
  BY SingleMeans
<1>4. ASSUME 1 \notin P PROVE \A i \in P : i - 1 \in Q
  BY <1>2, <1>4
<1>5. ASSUME 1 \notin P PROVE P = {} <=> Q = {}
  BY Zenon, <1>4, <1>5
<1>6. ASSUME 1 \notin P, Single(P) PROVE Single(Q)
  <2>1. Q # {}
    BY <1>5, <1>6, SingleMeans
  <2>2. \A x, y \in P : x = y
    BY <1>6, SingleMeans
  <2>3. \A x, y \in Q : x + 1 = y + 1
    BY <2>2
  <2>4. \A x, y \in Q : x = y
    BY <2>3
  <2> QED
    BY <2>1, <2>4, SingleMeans
<1> QED
  BY Zenon, <1>1, <1>2, <1>3, <1>5, <1>6 DEF P

\* The functor that a loop runs.
LEMMA RunsFirst ==
    ASSUME TypeOK, Placed, NEW l \in Loops, NEW op, Runs(l, op)
    PROVE  /\ First(l) \in FunctorSet /\ First(l) = Work(l)[1] /\ First(l).op = op
           /\ loop[l].batch # << >> /\ loop[l].pc = "run" /\ Work(l) # << >>
           /\ 1 \in Places(l, op, First(l).conn)
           /\ First(l).conn \in 1..accepted /\ First(l).conn \in Conns
           /\ IF op = "remove" THEN l = 0 ELSE l = LoopOf(First(l).conn)
           /\ op = "send" => conn[First(l).conn].session # "none" /\ First(l).msg <= answers
<1>1. loop[l].batch \in Seq(FunctorSet) /\ loop[l].batch # << >> /\ loop[l].pending \in Seq(FunctorSet)
  BY ZenonT(30), WorkTyped DEF Runs
<1>2. First(l) = Work(l)[1] /\ Work(l) # << >> /\ Work(l) \in Seq(FunctorSet)
  BY ZenonT(30), <1>1, RanWork, WorkTyped DEF First, Work
<1>3. First(l) \in FunctorSet /\ First(l).op = op /\ First(l).conn \in Conns
  <2>1. First(l) \in FunctorSet
    BY <1>1 DEF First
  <2> QED
    BY <2>1 DEF Runs, FunctorSet
<1>4. 1 \in 1..Len(Work(l))
  BY <1>2
<1>5. First(l).conn \in 1..accepted
  BY <1>2, <1>3, <1>4 DEF Placed, TypeOK, Conns
<1> QED
  BY <1>1, <1>2, <1>3, <1>4, <1>5 DEF Placed, Places, Runs

\* What sendInLoop makes of a connection.
LEMMA SendTyped ==
    ASSUME NEW k \in ConnState, NEW m \in Nat, NEW n \in SendInLoop(k, m)
    PROVE  n \in ConnState
<1>1. k.written \in Seq(Nat) /\ k.buffer \in Seq(Nat)
  BY DEF ConnState
<1>2. Append(k.written, m) \in Seq(Nat) /\ Append(k.buffer, m) \in Seq(Nat)
  BY <1>1
<1>3. n = k \/ n = [k EXCEPT !.written = Append(k.written, m)] \/ n = [k EXCEPT !.buffer = Append(k.buffer, m)]
  BY DEF SendInLoop
<1> QED
  BY ZenonT(30), <1>2, <1>3 DEF ConnState

\* The fields of one loop are set, and the others stay.
SetLoop(f, g, l, pc, batch, pending, quit) ==
    /\ g \in [Loops -> LoopState]
    /\ \A k \in Loops \ {l} : g[k] = f[k]
    /\ g[l].pc = pc /\ g[l].batch = batch /\ g[l].pending = pending /\ g[l].quit = quit

\* Setting one field of a loop.
LEMMA FieldSet ==
    ASSUME NEW f \in [Loops -> LoopState], NEW l \in Loops, NEW v
    PROVE  /\ v \in {"new", "poll", "run", "number", "store", "ended"} =>
                SetLoop(f, [f EXCEPT ![l].pc = v], l, v, f[l].batch, f[l].pending, f[l].quit)
           /\ v \in Seq(FunctorSet) =>
                /\ SetLoop(f, [f EXCEPT ![l].batch = v], l, f[l].pc, v, f[l].pending, f[l].quit)
                /\ SetLoop(f, [f EXCEPT ![l].pending = v], l, f[l].pc, f[l].batch, v, f[l].quit)
           /\ v \in BOOLEAN =>
                SetLoop(f, [f EXCEPT ![l].quit = v], l, f[l].pc, f[l].batch, f[l].pending, v)
<1>1. f[l] \in LoopState
  OBVIOUS
<1>2. ASSUME NEW r \in LoopState
      PROVE  /\ [f EXCEPT ![l] = r] \in [Loops -> LoopState] /\ [f EXCEPT ![l] = r][l] = r
             /\ \A k \in Loops \ {l} : [f EXCEPT ![l] = r][k] = f[k]
  OBVIOUS
<1>3. ASSUME v \in {"new", "poll", "run", "number", "store", "ended"}
      PROVE  SetLoop(f, [f EXCEPT ![l].pc = v], l, v, f[l].batch, f[l].pending, f[l].quit)
  <2>1. [f[l] EXCEPT !.pc = v] \in LoopState
    BY ZenonT(30), <1>1, <1>3 DEF LoopState
  <2> QED
    BY <1>1, <2>1 DEF SetLoop, LoopState
<1>4. ASSUME v \in Seq(FunctorSet)
      PROVE  /\ SetLoop(f, [f EXCEPT ![l].batch = v], l, f[l].pc, v, f[l].pending, f[l].quit)
             /\ SetLoop(f, [f EXCEPT ![l].pending = v], l, f[l].pc, f[l].batch, v, f[l].quit)
  BY ZenonT(30), <1>1, <1>4 DEF SetLoop, LoopState
<1>5. ASSUME v \in BOOLEAN
      PROVE  SetLoop(f, [f EXCEPT ![l].quit = v], l, f[l].pc, f[l].batch, f[l].pending, v)
  BY ZenonT(30), <1>1, <1>5 DEF SetLoop, LoopState
<1> QED
  BY <1>3, <1>4, <1>5

\* Setting several fields of a loop.
LEMMA FieldsSet ==
    ASSUME NEW f \in [Loops -> LoopState], NEW l \in Loops, NEW v \in Seq(FunctorSet)
    PROVE  /\ SetLoop(f, [f EXCEPT ![l].pc = "poll", ![l].quit = FALSE], l, "poll", f[l].batch, f[l].pending, FALSE)
           /\ SetLoop(f, [f EXCEPT ![l].pc = "run", ![l].batch = f[l].pending, ![l].pending = << >>],
                      l, "run", f[l].pending, << >>, f[l].quit)
           /\ SetLoop(f, [[f EXCEPT ![l].batch = v] EXCEPT ![l].pc = "number"],
                      l, "number", v, f[l].pending, f[l].quit)
<1>1. f[l] \in LoopState
  OBVIOUS
<1>2. << >> \in Seq(FunctorSet)
  OBVIOUS
<1>3. SetLoop(f, [f EXCEPT ![l].pc = "poll", ![l].quit = FALSE], l, "poll", f[l].batch, f[l].pending, FALSE)
  BY ZenonT(30), <1>1 DEF SetLoop, LoopState
<1>4. SetLoop(f, [f EXCEPT ![l].pc = "run", ![l].batch = f[l].pending, ![l].pending = << >>],
                      l, "run", f[l].pending, << >>, f[l].quit)
  BY ZenonT(30), <1>1, <1>2 DEF SetLoop, LoopState
<1>5. SetLoop(f, [[f EXCEPT ![l].batch = v] EXCEPT ![l].pc = "number"],
                      l, "number", v, f[l].pending, f[l].quit)
  BY ZenonT(30), <1>1 DEF SetLoop, LoopState
<1> QED
  BY ZenonT(30), <1>3, <1>4, <1>5

\* What the steps of a loop that touch no connection make of the loops.
LEMMA QuietLoops ==
    ASSUME TypeOK, NEW l \in Loops
    PROVE  /\ LoopBegins(l) => SetLoop(loop, loop', l, "poll", loop[l].batch, loop[l].pending, FALSE)
           /\ TakeBatch(l) => SetLoop(loop, loop', l, "run", loop[l].pending, << >>, loop[l].quit)
           /\ EndBatch(l) => SetLoop(loop, loop', l, IF loop[l].quit THEN "ended" ELSE "poll",
                                     loop[l].batch, loop[l].pending, loop[l].quit)
           /\ TestNumber(l) => SetLoop(loop, loop', l, IF counter_port > LastNumber THEN "store" ELSE "run",
                                       loop[l].batch, loop[l].pending, loop[l].quit)
           /\ StoreNumber(l) => SetLoop(loop, loop', l, "run", loop[l].batch, loop[l].pending, loop[l].quit)
<1>1. loop \in [Loops -> LoopState] /\ << >> \in Seq(FunctorSet)
  BY DEF TypeOK
<1>2. SetLoop(loop, [loop EXCEPT ![l].pc = "poll", ![l].quit = FALSE], l,
              "poll", loop[l].batch, loop[l].pending, FALSE)
  BY <1>1, FieldsSet, Zenon
<1>3. SetLoop(loop, [loop EXCEPT ![l].pc = "run", ![l].batch = loop[l].pending, ![l].pending = << >>],
              l, "run", loop[l].pending, << >>, loop[l].quit)
  BY <1>1, FieldsSet, Zenon
<1>4. ASSUME NEW v \in {"new", "poll", "run", "number", "store", "ended"}
      PROVE  SetLoop(loop, [loop EXCEPT ![l].pc = v], l, v, loop[l].batch, loop[l].pending, loop[l].quit)
  BY <1>1, FieldSet, Zenon
<1>5. LoopBegins(l) => SetLoop(loop, loop', l, "poll", loop[l].batch, loop[l].pending, FALSE)
  BY <1>2, Zenon DEF LoopBegins
<1>6. TakeBatch(l) => SetLoop(loop, loop', l, "run", loop[l].pending, << >>, loop[l].quit)
  BY <1>3, Zenon DEF TakeBatch
<1>7. EndBatch(l) => SetLoop(loop, loop', l, IF loop[l].quit THEN "ended" ELSE "poll",
                             loop[l].batch, loop[l].pending, loop[l].quit)
  BY ZenonT(30), <1>4 DEF EndBatch
<1>8. TestNumber(l) => SetLoop(loop, loop', l, IF counter_port > LastNumber THEN "store" ELSE "run",
                               loop[l].batch, loop[l].pending, loop[l].quit)
  BY ZenonT(30), <1>4 DEF TestNumber
<1>9. StoreNumber(l) => SetLoop(loop, loop', l, "run", loop[l].batch, loop[l].pending, loop[l].quit)
  BY <1>4 DEF StoreNumber
<1> QED
  BY <1>5, <1>6, <1>7, <1>8, <1>9, Zenon

\* What running the first functor of a batch makes of the loops.
LEMMA RanLoops ==
    ASSUME TypeOK, NEW l \in Loops, NEW op, Runs(l, op)
    PROVE  /\ Tail(loop[l].batch) \in Seq(FunctorSet)
           /\ SetLoop(loop, Ran(l), l, "run", Tail(loop[l].batch), loop[l].pending, loop[l].quit)
<1>1. loop \in [Loops -> LoopState]
  BY DEF TypeOK
<1>2. loop[l].batch \in Seq(FunctorSet) /\ loop[l].batch # << >> /\ loop[l].pc = "run"
  BY ZenonT(30), WorkTyped DEF Runs
<1>3. Tail(loop[l].batch) \in Seq(FunctorSet)
  BY <1>2
<1>4. SetLoop(loop, Ran(l), l, loop[l].pc, Tail(loop[l].batch), loop[l].pending, loop[l].quit)
  BY <1>1, <1>3, FieldSet, Zenon DEF Ran
<1> QED
  BY <1>2, <1>3, <1>4

\* What the steps that run a functor make of the loops.
LEMMA RunLoops ==
    ASSUME TypeOK, NEW l \in Loops
    PROVE  /\ Established(l) => SetLoop(loop, loop', l, "number", Tail(loop[l].batch), loop[l].pending, loop[l].quit)
           /\ Send(l) \/ Destroy(l) => SetLoop(loop, loop', l, "run", Tail(loop[l].batch), loop[l].pending, loop[l].quit)
           /\ RemoveFromDeadServer => SetLoop(loop, loop', 0, "run", Tail(loop[0].batch), loop[0].pending, loop[0].quit)
<1>1. loop \in [Loops -> LoopState]
  BY DEF TypeOK
<1>2. ASSUME NEW v \in Seq(FunctorSet)
      PROVE  SetLoop(loop, [[loop EXCEPT ![l].batch = v] EXCEPT ![l].pc = "number"],
                     l, "number", v, loop[l].pending, loop[l].quit)
  BY <1>1, FieldsSet, Zenon
<1>3. ASSUME Established(l)
      PROVE  SetLoop(loop, loop', l, "number", Tail(loop[l].batch), loop[l].pending, loop[l].quit)
  <2>1. Tail(loop[l].batch) \in Seq(FunctorSet) /\ loop' = [Ran(l) EXCEPT ![l].pc = "number"]
    BY <1>3, RanLoops, Zenon DEF Established
  <2> QED
    BY ZenonT(30), <2>1, <1>2 DEF Ran
<1>4. Send(l) \/ Destroy(l) => SetLoop(loop, loop', l, "run", Tail(loop[l].batch), loop[l].pending, loop[l].quit)
  BY RanLoops, Zenon DEF Send, Destroy
<1>5. RemoveFromDeadServer => SetLoop(loop, loop', 0, "run", Tail(loop[0].batch), loop[0].pending, loop[0].quit)
  BY RanLoops, LoopsTyped, Zenon DEF RemoveFromDeadServer
<1> QED
  BY <1>3, <1>4, <1>5, Zenon

\* What queueInLoop makes of the loops.
LEMMA QueuedLoops ==
    ASSUME NEW f \in [Loops -> LoopState], NEW l \in Loops, NEW g \in FunctorSet
    PROVE  /\ Append(f[l].pending, g) \in Seq(FunctorSet)
           /\ SetLoop(f, Queued(f, l, g), l, f[l].pc, f[l].batch, Append(f[l].pending, g), f[l].quit)
<1>1. f[l].pending \in Seq(FunctorSet)
  BY DEF LoopState
<1>2. Append(f[l].pending, g) \in Seq(FunctorSet)
  BY <1>1
<1> QED
  BY <1>2, FieldSet, Zenon DEF Queued

\* The functors that are queued.
LEMMA FunctorTyped ==
    ASSUME NEW c \in Conns, NEW m \in Nat
    PROVE  \A op \in {"established", "send", "remove", "destroyed"} :
             /\ Functor(op, c, m) \in FunctorSet
             /\ Functor(op, c, m).op = op /\ Functor(op, c, m).conn = c /\ Functor(op, c, m).msg = m
  BY Zenon DEF Functor, FunctorSet

\* What the steps that queue a functor make of the loops.
LEMMA PushLoops ==
    ASSUME TypeOK, NEW c \in Conns
    PROVE  /\ Accept /\ c = accepted + 1 =>
                SetLoop(loop, loop', LoopOf(c), loop[LoopOf(c)].pc, loop[LoopOf(c)].batch,
                        Append(loop[LoopOf(c)].pending, Functor("established", c, 0)), loop[LoopOf(c)].quit)
           /\ Answer(c) =>
                SetLoop(loop, loop', LoopOf(c), loop[LoopOf(c)].pc, loop[LoopOf(c)].batch,
                        Append(loop[LoopOf(c)].pending, Functor("send", c, answers + 1)), loop[LoopOf(c)].quit)
           /\ DestroyNext(c) =>
                SetLoop(loop, loop', LoopOf(c), loop[LoopOf(c)].pc, loop[LoopOf(c)].batch,
                        Append(loop[LoopOf(c)].pending, Functor("destroyed", c, 0)), loop[LoopOf(c)].quit)
           /\ HandleClose(c) =>
                SetLoop(loop, loop', 0, loop[0].pc, loop[0].batch,
                        Append(loop[0].pending, Functor("remove", c, 0)), loop[0].quit)
<1>1. loop \in [Loops -> LoopState] /\ LoopOf(c) \in Loops /\ 0 \in Loops
  BY LoopsTyped, Zenon DEF TypeOK
<1>2. 0 \in Nat /\ answers + 1 \in Nat
  BY DEF TypeOK
<1>3. /\ Functor("established", c, 0) \in FunctorSet /\ Functor("remove", c, 0) \in FunctorSet
      /\ Functor("send", c, answers + 1) \in FunctorSet /\ Functor("destroyed", c, 0) \in FunctorSet
  BY <1>2, FunctorTyped
<1>4. ASSUME NEW l \in Loops, NEW g \in FunctorSet
      PROVE  SetLoop(loop, Queued(loop, l, g), l, loop[l].pc, loop[l].batch, Append(loop[l].pending, g), loop[l].quit)
  BY <1>1, QueuedLoops, Zenon
<1> QED
  BY <1>1, <1>3, <1>4 DEF Accept, Answer, DestroyNext, HandleClose

\* What a stop and the removal of a connection make of the loops.
LEMMA RemoveLoops ==
    ASSUME TypeOK, Placed, RemoveConnection
    PROVE  LET c == First(0).conn IN
           /\ Runs(0, "remove") /\ c \in Conns /\ LoopOf(c) # 0
           /\ SetLoop(loop, Ran(0), 0, "run", Tail(loop[0].batch), loop[0].pending, loop[0].quit)
           /\ SetLoop(Ran(0), loop', LoopOf(c), loop[LoopOf(c)].pc, loop[LoopOf(c)].batch,
                      Append(loop[LoopOf(c)].pending, Functor("destroyed", c, 0)), loop[LoopOf(c)].quit)
<1> DEFINE c == First(0).conn
<1>1. Runs(0, "remove") /\ c \in Conns
  BY RunsFirst, LoopsTyped, Zenon DEF RemoveConnection
<1>2. LoopOf(c) \in Loops /\ LoopOf(c) # 0
  BY <1>1, LoopsTyped
<1>3. SetLoop(loop, Ran(0), 0, "run", Tail(loop[0].batch), loop[0].pending, loop[0].quit)
  BY <1>1, RanLoops, LoopsTyped, Zenon
<1>4. Ran(0) \in [Loops -> LoopState] /\ Ran(0)[LoopOf(c)] = loop[LoopOf(c)]
  BY Zenon, <1>2, <1>3 DEF SetLoop
<1>5. Functor("destroyed", c, 0) \in FunctorSet
  BY <1>1, FunctorTyped
<1>6. loop' = Queued(Ran(0), LoopOf(c), Functor("destroyed", c, 0))
  BY DEF RemoveConnection
<1> HIDE DEF c
<1>7. SetLoop(Ran(0), loop', LoopOf(c), Ran(0)[LoopOf(c)].pc, Ran(0)[LoopOf(c)].batch,
              Append(Ran(0)[LoopOf(c)].pending, Functor("destroyed", c, 0)), Ran(0)[LoopOf(c)].quit)
  BY Zenon, <1>2, <1>4, <1>5, <1>6, QueuedLoops
<1>8. SetLoop(Ran(0), loop', LoopOf(c), loop[LoopOf(c)].pc, loop[LoopOf(c)].batch,
              Append(loop[LoopOf(c)].pending, Functor("destroyed", c, 0)), loop[LoopOf(c)].quit)
  BY Zenon, <1>7, <1>4
<1> QED
  BY <1>1, <1>2, <1>3, <1>8 DEF c

\* What a stop of the thread of the next loop makes of the loops.
LEMMA QuitLoops ==
    ASSUME TypeOK, Joined, QuitLoop
    PROVE  /\ stop.at \in IoLoops /\ stop.at \in Loops
           /\ SetLoop(loop, loop', stop.at, loop[stop.at].pc, loop[stop.at].batch, loop[stop.at].pending, TRUE)
<1>1. stop.at \in IoLoops /\ stop.at \in Loops /\ loop \in [Loops -> LoopState]
  BY LoopsTyped DEF QuitLoop, Joined, TypeOK
<1>2. SetLoop(loop, [loop EXCEPT ![stop.at].quit = TRUE], stop.at, loop[stop.at].pc, loop[stop.at].batch,
              loop[stop.at].pending, TRUE)
  BY <1>1, FieldSet, Zenon
<1> QED
  BY ZenonT(30), <1>1, <1>2 DEF QuitLoop

\* What a stop of the server makes of the loops.
LEMMA StopLoops ==
    ASSUME TypeOK, StopServer
    PROVE  SetLoop(loop, loop', 0, loop[0].pc, loop[0].batch, loop[0].pending, TRUE)
<1>1. loop \in [Loops -> LoopState] /\ 0 \in Loops
  BY Zenon, LoopsTyped DEF TypeOK
<1>2. SetLoop(loop, [loop EXCEPT ![0].quit = TRUE], 0, loop[0].pc, loop[0].batch, loop[0].pending, TRUE)
  BY <1>1, FieldSet, Zenon
<1> QED
  BY ZenonT(30), <1>2 DEF StopServer

\* The steps that neither queue nor run a functor.
Quiet ==
    \/ \E l \in Loops : LoopBegins(l) \/ TakeBatch(l) \/ EndBatch(l) \/ TestNumber(l) \/ StoreNumber(l)
    \/ StopServer \/ QuitLoop \/ JoinLoop
    \/ \E c \in 1..accepted : AnswerToDeadLoop(c)
    \/ UNCHANGED vars

\* They leave what the loops have to do and the connections as they are.
LEMMA QuietWork ==
    ASSUME TypeOK, Batches, Joined, Quiet
    PROVE  /\ \A l \in Loops : Work(l)' = Work(l)
           /\ conn' = conn /\ accepted' = accepted /\ connections' = connections /\ answers' = answers
<1>1. ASSUME NEW l \in Loops, NEW pc, NEW q, SetLoop(loop, loop', l, pc, loop[l].batch, loop[l].pending, q)
      PROVE  \A k \in Loops : Work(k)' = Work(k)
  BY ZenonT(30), <1>1 DEF SetLoop, Work
<1>2. ASSUME NEW l \in Loops, TakeBatch(l)
      PROVE  \A k \in Loops : Work(k)' = Work(k)
  <2>1. SetLoop(loop, loop', l, "run", loop[l].pending, << >>, loop[l].quit)
    BY ZenonT(30), <1>2, QuietLoops
  <2>2. loop[l].batch = << >> /\ loop[l].pending \in Seq(FunctorSet)
    BY ZenonT(30), <1>2, WorkTyped DEF TakeBatch, Batches
  <2>3. loop[l].pending \o << >> = << >> \o loop[l].pending
    BY <2>2
  <2> QED
    BY ZenonT(30), <2>1, <2>2, <2>3 DEF SetLoop, Work
<1>3. ASSUME NEW l \in Loops, LoopBegins(l) \/ EndBatch(l) \/ TestNumber(l) \/ StoreNumber(l)
      PROVE  \A k \in Loops : Work(k)' = Work(k)
  BY ZenonT(30), <1>1, <1>3, QuietLoops
<1>4. ASSUME QuitLoop \/ StopServer PROVE \A k \in Loops : Work(k)' = Work(k)
  BY ZenonT(30), <1>1, <1>4, QuitLoops, StopLoops, LoopsTyped
<1>5. ASSUME loop' = loop PROVE \A k \in Loops : Work(k)' = Work(k)
  BY <1>5 DEF Work
<1>6. JoinLoop \/ (\E c \in 1..accepted : AnswerToDeadLoop(c)) \/ UNCHANGED vars => loop' = loop
  BY DEF JoinLoop, AnswerToDeadLoop, vars
<1>7. \A l \in Loops : Work(l)' = Work(l)
  BY <1>2, <1>3, <1>4, <1>5, <1>6, Zenon DEF Quiet
<1>8. conn' = conn /\ accepted' = accepted /\ connections' = connections /\ answers' = answers
  BY ZenonT(30)
     DEF Quiet, LoopBegins, TakeBatch, EndBatch, TestNumber, StoreNumber, StopServer, QuitLoop, JoinLoop, AnswerToDeadLoop, vars
<1> QED
  BY <1>7, <1>8

\* A step puts a functor at the end of what loop l has to do, or takes the first away.
PushStep(l, f) == Pushed(Work(l), Work(l)', f) /\ \A k \in Loops \ {l} : Work(k)' = Work(k)
PopStep(l) == Popped(Work(l), Work(l)') /\ \A k \in Loops \ {l} : Work(k)' = Work(k)

\* Putting a functor at the end of what a loop has to do.
LEMMA PushWork ==
    ASSUME TypeOK, NEW l \in Loops, NEW f, NEW pc, NEW q,
           SetLoop(loop, loop', l, pc, loop[l].batch, Append(loop[l].pending, f), q)
    PROVE  PushStep(l, f)
<1>1. Pushed(Work(l), Work(l)', f)
  <2>1. Pushed(loop[l].batch \o loop[l].pending, loop[l].batch \o Append(loop[l].pending, f), f)
    BY ZenonT(30), WorkTyped, QueuedWork
  <2> QED
    BY <2>1 DEF SetLoop, Work
<1> QED
  BY ZenonT(30), <1>1 DEF SetLoop, Work, PushStep

\* Running the first functor.
LEMMA PopWork ==
    ASSUME TypeOK, NEW l \in Loops, NEW pc, NEW q, loop[l].batch # << >>,
           SetLoop(loop, loop', l, pc, Tail(loop[l].batch), loop[l].pending, q)
    PROVE  PopStep(l)
<1>1. Popped(Work(l), Work(l)')
  <2>1. Popped(loop[l].batch \o loop[l].pending, Tail(loop[l].batch) \o loop[l].pending)
    BY ZenonT(30), WorkTyped, RanWork
  <2> QED
    BY <2>1 DEF SetLoop, Work
<1> QED
  BY ZenonT(30), <1>1 DEF SetLoop, Work, PopStep

\* What the steps of the connections and of the loops make of what the loops have to do.
LEMMA StepWork ==
    ASSUME TypeOK
    PROVE  /\ Accept => accepted + 1 \in Conns
           /\ \A c \in Conns : Accept /\ c = accepted + 1 => PushStep(LoopOf(c), Functor("established", c, 0))
           /\ \A c \in Conns : Answer(c) => PushStep(LoopOf(c), Functor("send", c, answers + 1))
           /\ \A c \in Conns : DestroyNext(c) => PushStep(LoopOf(c), Functor("destroyed", c, 0))
           /\ \A c \in Conns : HandleClose(c) => PushStep(0, Functor("remove", c, 0))
           /\ \A c \in Conns : HandleWrite(c) => \A l \in Loops : Work(l)' = Work(l)
           /\ \A l \in Loops : Established(l) \/ Send(l) \/ Destroy(l) => PopStep(l)
           /\ RemoveFromDeadServer => PopStep(0)
<1>1. Accept => accepted + 1 \in Conns
  BY TcpAssumption DEF Accept, TypeOK, Conns
<1>2. ASSUME NEW c \in Conns, c = accepted + 1, Accept PROVE PushStep(LoopOf(c), Functor("established", c, 0))
  BY <1>2, PushLoops, PushWork, LoopsTyped, Zenon
<1>3. ASSUME NEW c \in Conns, Answer(c) PROVE PushStep(LoopOf(c), Functor("send", c, answers + 1))
  BY <1>3, PushLoops, PushWork, LoopsTyped, Zenon
<1>4. ASSUME NEW c \in Conns, HandleClose(c) PROVE PushStep(0, Functor("remove", c, 0))
  BY <1>4, PushLoops, PushWork, LoopsTyped, Zenon
<1>8. ASSUME NEW c \in Conns, DestroyNext(c) PROVE PushStep(LoopOf(c), Functor("destroyed", c, 0))
  BY <1>8, PushLoops, PushWork, LoopsTyped, Zenon
<1>5. ASSUME NEW c \in Conns, HandleWrite(c) PROVE \A l \in Loops : Work(l)' = Work(l)
  BY <1>5 DEF HandleWrite, Work
<1>6. ASSUME NEW l \in Loops, Established(l) \/ Send(l) \/ Destroy(l) PROVE PopStep(l)
  <2>1. loop[l].batch # << >>
    BY <1>6 DEF Established, Send, Destroy, Runs
  <2> QED
    BY <1>6, <2>1, RunLoops, PopWork, Zenon
<1>7. ASSUME RemoveFromDeadServer PROVE PopStep(0)
  <2>1. loop[0].batch # << >>
    BY <1>7 DEF RemoveFromDeadServer, Runs
  <2> QED
    BY <1>7, <2>1, RunLoops, PopWork, LoopsTyped, Zenon
<1> QED
  BY Zenon, <1>1, <1>2, <1>3, <1>4, <1>5, <1>6, <1>7, <1>8

\* removeConnectionInLoop takes a functor from the base loop and puts one in the loop of the connection.
LEMMA RemoveWork ==
    ASSUME TypeOK, Placed, RemoveConnection, NEW c, c = First(0).conn
    PROVE  /\ Popped(Work(0), Work(0)') /\ Pushed(Work(LoopOf(c)), Work(LoopOf(c))', Functor("destroyed", c, 0))
           /\ \A k \in Loops \ {0, LoopOf(c)} : Work(k)' = Work(k)
<1>1. /\ Runs(0, "remove") /\ c \in Conns /\ LoopOf(c) # 0 /\ LoopOf(c) \in Loops /\ 0 \in Loops
      /\ SetLoop(loop, Ran(0), 0, "run", Tail(loop[0].batch), loop[0].pending, loop[0].quit)
      /\ SetLoop(Ran(0), loop', LoopOf(c), loop[LoopOf(c)].pc, loop[LoopOf(c)].batch,
                 Append(loop[LoopOf(c)].pending, Functor("destroyed", c, 0)), loop[LoopOf(c)].quit)
  BY Zenon, RemoveLoops, LoopsTyped
<1>2. loop'[0].batch = Tail(loop[0].batch) /\ loop'[0].pending = loop[0].pending
  BY Zenon, <1>1 DEF SetLoop
<1>3. Popped(Work(0), Work(0)')
  <2>1. Popped(loop[0].batch \o loop[0].pending, Tail(loop[0].batch) \o loop[0].pending)
    BY ZenonT(30), <1>1, WorkTyped, RanWork DEF Runs
  <2> QED
    BY <2>1, <1>2 DEF Work
<1>4. Pushed(Work(LoopOf(c)), Work(LoopOf(c))', Functor("destroyed", c, 0))
  <2>1. Pushed(loop[LoopOf(c)].batch \o loop[LoopOf(c)].pending,
               loop[LoopOf(c)].batch \o Append(loop[LoopOf(c)].pending, Functor("destroyed", c, 0)),
               Functor("destroyed", c, 0))
    BY ZenonT(30), <1>1, WorkTyped, QueuedWork
  <2>2. /\ loop'[LoopOf(c)].batch = loop[LoopOf(c)].batch
        /\ loop'[LoopOf(c)].pending = Append(loop[LoopOf(c)].pending, Functor("destroyed", c, 0))
    BY Zenon, <1>1 DEF SetLoop
  <2> QED
    BY <2>1, <2>2, Zenon DEF Work
<1>5. \A k \in Loops \ {0, LoopOf(c)} : loop'[k] = loop[k]
  BY <1>1 DEF SetLoop
<1>6. \A k \in Loops \ {0, LoopOf(c)} : Work(k)' = Work(k)
  BY ZenonT(30), <1>5 DEF Work
<1> QED
  BY Zenon, <1>3, <1>4, <1>6

(***************************************************************************)
(* Every step keeps the invariant: types and places                        *)
(***************************************************************************)

\* The steps of the server.
LEMMA StepCases ==
    ASSUME TypeOK, [Next]_vars
    PROVE  \/ Quiet \/ Accept \/ RemoveConnection \/ RemoveFromDeadServer
           \/ \E l \in Loops : Established(l) \/ Send(l) \/ Destroy(l)
           \/ \E c \in Conns : c \in 1..accepted /\ (Answer(c) \/ DestroyNext(c) \/ HandleWrite(c) \/ HandleClose(c))
<1>2. \A c \in connections : c \in 1..accepted
  BY Zenon DEF TypeOK
<1>1. 1..accepted \subseteq Conns
  BY SMTT(30), TcpAssumption DEF TypeOK, Conns
<1> QED
  BY <1>1, <1>2, Zenon DEF Next, LoopStep, BaseStep, StopStep, Quiet

\* What the steps make of a connection.
LEMMA ConnTyped ==
    ASSUME NEW k \in ConnState
    PROVE  /\ Down(k) \in ConnState /\ Destroyed(k) \in ConnState
           /\ \A n \in Nat, e \in Nat :
                [k EXCEPT !.state = "connected", !.channel = "on", !.session = "working",
                          !.number = n, !.epoch = e] \in ConnState
           /\ \A w \in Seq(Nat), b \in Seq(Nat) : [k EXCEPT !.written = w, !.buffer = b] \in ConnState
<1>1. Down(k) \in ConnState
  BY ZenonT(30) DEF Down, ConnState
<1>2. Destroyed(k) \in ConnState
  BY ZenonT(30), <1>1 DEF Destroyed, ConnState
<1>3. \A n \in Nat, e \in Nat :
        [k EXCEPT !.state = "connected", !.channel = "on", !.session = "working",
                  !.number = n, !.epoch = e] \in ConnState
  BY ZenonT(30) DEF ConnState
<1>4. \A w \in Seq(Nat), b \in Seq(Nat) : [k EXCEPT !.written = w, !.buffer = b] \in ConnState
  BY ZenonT(30) DEF ConnState
<1> QED
  BY ZenonT(30), <1>1, <1>2, <1>3, <1>4

\* Connection c is set to k.
SetConn(c, k) == /\ k \in ConnState /\ conn' \in [Conns -> ConnState] /\ conn'[c] = k
                 /\ \A d \in Conns \ {c} : conn'[d] = conn[d]

\* What the steps make of the connections: each sets one connection at most.
LEMMA StepConns ==
    ASSUME TypeOK, Placed
    PROVE  /\ \A l \in Loops : Established(l) => \A c : c = First(l).conn => \E k : SetConn(c, k)
                 /\ k.state = "connected" /\ k.channel = "on" /\ k.session = "working"
                 /\ k.number = counter_port /\ k.epoch = stores
                 /\ k.written = conn[c].written /\ k.buffer = conn[c].buffer
           /\ \A l \in Loops : Send(l) => \A c : c = First(l).conn =>
                 \E k \in SendInLoop(conn[c], First(l).msg) : SetConn(c, k)
           /\ \A l \in Loops : Destroy(l) => \A c : c = First(l).conn => SetConn(c, Destroyed(conn[c]))
           /\ \A c \in Conns : HandleClose(c) => SetConn(c, Down(conn[c]))
           /\ \A c \in Conns : HandleWrite(c) => \E n \in 1..Len(conn[c].buffer) :
                 SetConn(c, [conn[c] EXCEPT !.written = conn[c].written \o SubSeq(conn[c].buffer, 1, n),
                                            !.buffer = SubSeq(conn[c].buffer, n + 1, Len(conn[c].buffer))])
<1>1. conn \in [Conns -> ConnState]
  BY DEF TypeOK
<1>2. ASSUME NEW c \in Conns, NEW k \in ConnState, conn' = [conn EXCEPT ![c] = k] PROVE SetConn(c, k)
  BY <1>1, <1>2 DEF SetConn
<1>3. ASSUME NEW l \in Loops, Established(l), NEW c, c = First(l).conn
      PROVE  \E k : /\ SetConn(c, k) /\ k.state = "connected" /\ k.channel = "on" /\ k.session = "working"
                    /\ k.number = counter_port /\ k.epoch = stores
                    /\ k.written = conn[c].written /\ k.buffer = conn[c].buffer
  <2> DEFINE k == [conn[c] EXCEPT !.state = "connected", !.channel = "on", !.session = "working",
                                  !.number = counter_port, !.epoch = stores]
  <2>1. c \in Conns
    BY Zenon, <1>3, RunsFirst DEF Established
  <2>2. counter_port \in Nat /\ stores \in Nat /\ conn[c] \in ConnState
    BY SMTT(30), <2>1 DEF TypeOK
  <2>3. k \in ConnState
    BY ZenonT(30), <2>2, ConnTyped
  <2>4. conn' = [conn EXCEPT ![c] = k]
    BY ZenonT(30), <1>1, <1>3, <2>1 DEF Established
  <2>5. SetConn(c, k)
    BY ZenonT(30), <2>1, <2>3, <2>4, <1>2
  <2>6. /\ k.state = "connected" /\ k.channel = "on" /\ k.session = "working"
        /\ k.number = counter_port /\ k.epoch = stores
        /\ k.written = conn[c].written /\ k.buffer = conn[c].buffer
    BY <2>2 DEF ConnState
  <2> QED
    BY <2>5, <2>6, Zenon
<1>4. ASSUME NEW l \in Loops, Send(l), NEW c, c = First(l).conn
      PROVE  \E k \in SendInLoop(conn[c], First(l).msg) : SetConn(c, k)
  <2>1. PICK k \in SendInLoop(conn[c], First(l).msg) : conn' = [conn EXCEPT ![c] = k]
    BY ZenonT(30), <1>4 DEF Send
  <2>2. c \in Conns /\ First(l).msg \in Nat
    BY <1>4, RunsFirst DEF Send, FunctorSet
  <2>3. k \in ConnState
    BY SMTT(30), <1>1, <2>2, SendTyped
  <2> QED
    BY ZenonT(30), <1>2, <2>1, <2>2, <2>3
<1>5. ASSUME NEW l \in Loops, Destroy(l), NEW c, c = First(l).conn
      PROVE  SetConn(c, Destroyed(conn[c]))
  <2>1. c \in Conns /\ conn' = [conn EXCEPT ![c] = Destroyed(conn[c])]
    BY SMTT(30), <1>5, RunsFirst DEF Destroy
  <2> QED
    BY ZenonT(30), <1>1, <1>2, <2>1, ConnTyped
<1>6. ASSUME NEW c \in Conns, HandleClose(c) PROVE SetConn(c, Down(conn[c]))
  <2>1. conn' = [conn EXCEPT ![c] = Down(conn[c])]
    BY SMTT(30), <1>6 DEF HandleClose
  <2> QED
    BY ZenonT(30), <1>1, <1>2, <2>1, ConnTyped
<1>7. ASSUME NEW c \in Conns, HandleWrite(c)
      PROVE  \E n \in 1..Len(conn[c].buffer) :
               SetConn(c, [conn[c] EXCEPT !.written = conn[c].written \o SubSeq(conn[c].buffer, 1, n),
                                          !.buffer = SubSeq(conn[c].buffer, n + 1, Len(conn[c].buffer))])
  <2>1. PICK n \in 1..Len(conn[c].buffer) :
           conn' = [conn EXCEPT ![c].written = @ \o SubSeq(conn[c].buffer, 1, n),
                                ![c].buffer = SubSeq(@, n + 1, Len(@))]
    BY ZenonT(30), <1>7 DEF HandleWrite
  <2> DEFINE w == conn[c].written \o SubSeq(conn[c].buffer, 1, n)
             b == SubSeq(conn[c].buffer, n + 1, Len(conn[c].buffer))
             k == [conn[c] EXCEPT !.written = w, !.buffer = b]
  <2>2. conn[c] \in ConnState
    BY Zenon, <1>1
  <2>3. conn[c].written \in Seq(Nat) /\ conn[c].buffer \in Seq(Nat)
    BY Zenon, <2>2 DEF ConnState
  <2>4. w \in Seq(Nat) /\ b \in Seq(Nat)
    <3>1. ASSUME NEW p \in Seq(Nat), NEW q \in Seq(Nat), NEW j \in 1..Len(q)
          PROVE  p \o SubSeq(q, 1, j) \in Seq(Nat) /\ SubSeq(q, j + 1, Len(q)) \in Seq(Nat)
      BY SMTT(30)
    <3> QED
      BY Zenon, <2>1, <2>3, <3>1
  <2>5. k \in ConnState
    BY ZenonT(30), <2>2, <2>4, ConnTyped
  <2>6. conn' = [conn EXCEPT ![c] = k]
    BY ZenonT(30), <1>1, <2>1, <2>2 DEF ConnState
  <2>7. SetConn(c, k)
    BY ZenonT(30), <1>2, <2>5, <2>6
  <2> QED
    BY ZenonT(30), <2>7
<1> QED
  BY ZenonT(30), <1>3, <1>4, <1>5, <1>6, <1>7

\* The loops keep their types, and a loop that runs no batch has none.
LEMMA StepLoops ==
    ASSUME IInv, [Next]_vars
    PROVE  loop' \in [Loops -> LoopState] /\ Batches'
<1>1. TypeOK /\ Batches /\ Placed /\ Joined /\ loop \in [Loops -> LoopState]
  BY DEF IInv, TypeOK
<1>2. ASSUME NEW l \in Loops, NEW pc, NEW b, NEW p, NEW q, SetLoop(loop, loop', l, pc, b, p, q),
             pc \in {"new", "poll", "ended"} => b = << >>
      PROVE  loop' \in [Loops -> LoopState] /\ Batches'
  BY Zenon, <1>1, <1>2 DEF SetLoop, Batches
<1>3. ASSUME NEW l \in Loops, LoopBegins(l) \/ TakeBatch(l) \/ EndBatch(l) \/ TestNumber(l) \/ StoreNumber(l)
      PROVE  loop' \in [Loops -> LoopState] /\ Batches'
  <2>1. LoopBegins(l) \/ EndBatch(l) => loop[l].batch = << >>
    BY Zenon, <1>1 DEF LoopBegins, EndBatch, Batches
  <2> QED
    <3>1. CASE LoopBegins(l)
      BY ZenonT(30), <1>1, <1>2, <2>1, <3>1, QuietLoops
    <3>2. CASE TakeBatch(l)
      <4>1. SetLoop(loop, loop', l, "run", loop[l].pending, << >>, loop[l].quit)
        BY <1>1, <3>2, QuietLoops, Zenon
      <4> QED
        BY <1>2, <4>1
    <3>3. CASE EndBatch(l)
      BY ZenonT(30), <1>1, <1>2, <2>1, <3>3, QuietLoops
    <3>4. CASE TestNumber(l)
      <4>1. PICK pc \in {"store", "run"} : SetLoop(loop, loop', l, pc, loop[l].batch, loop[l].pending, loop[l].quit)
        BY ZenonT(30), <1>1, <3>4, QuietLoops
      <4> QED
        BY <1>2, <4>1
    <3>5. CASE StoreNumber(l)
      <4>1. SetLoop(loop, loop', l, "run", loop[l].batch, loop[l].pending, loop[l].quit)
        BY <1>1, <3>5, QuietLoops, Zenon
      <4> QED
        BY <1>2, <4>1
    <3> QED
      BY Zenon, <1>3, <3>1, <3>2, <3>3, <3>4, <3>5
<1>4. ASSUME loop' = loop PROVE loop' \in [Loops -> LoopState] /\ Batches'
  BY Zenon, <1>1, <1>4 DEF Batches
<1>5. ASSUME QuitLoop \/ StopServer PROVE loop' \in [Loops -> LoopState] /\ Batches'
  BY ZenonT(30), <1>1, <1>2, <1>5, QuitLoops, StopLoops, LoopsTyped DEF Batches
<1>6. CASE Quiet
  <2>1. JoinLoop \/ (\E c \in 1..accepted : AnswerToDeadLoop(c)) \/ UNCHANGED vars => loop' = loop
    BY Zenon DEF JoinLoop, AnswerToDeadLoop, vars
  <2> QED
    BY <1>3, <1>4, <1>5, <1>6, <2>1, Zenon DEF Quiet
<1>7. ASSUME NEW c \in Conns, HandleWrite(c) PROVE loop' \in [Loops -> LoopState] /\ Batches'
  BY Zenon, <1>4, <1>7 DEF HandleWrite
<1>8. ASSUME NEW c \in Conns, (Accept /\ c = accepted + 1) \/ Answer(c) \/ DestroyNext(c) \/ HandleClose(c)
      PROVE  loop' \in [Loops -> LoopState] /\ Batches'
  <2>1. LoopOf(c) \in Loops /\ 0 \in Loops
    BY Zenon, LoopsTyped
  <2>2. \A l \in Loops : loop[l].pc \in {"new", "poll", "ended"} => loop[l].batch = << >>
    BY Zenon, <1>1 DEF Batches
  <2> QED
    BY ZenonT(30), <1>1, <1>2, <1>8, <2>1, <2>2, PushLoops
<1>9. CASE Accept
  BY Zenon, <1>1, <1>8, <1>9, StepWork
<1>10. ASSUME NEW l \in Loops, Established(l) \/ Send(l) \/ Destroy(l) PROVE loop' \in [Loops -> LoopState] /\ Batches'
  BY <1>1, <1>2, <1>10, RunLoops
<1>11. CASE RemoveFromDeadServer
  BY <1>1, <1>2, <1>11, RunLoops, LoopsTyped
<1>12. CASE RemoveConnection
  <2> DEFINE c == First(0).conn
  <2>1. /\ LoopOf(c) # 0 /\ LoopOf(c) \in Loops /\ 0 \in Loops
        /\ SetLoop(loop, Ran(0), 0, "run", Tail(loop[0].batch), loop[0].pending, loop[0].quit)
        /\ SetLoop(Ran(0), loop', LoopOf(c), loop[LoopOf(c)].pc, loop[LoopOf(c)].batch,
                   Append(loop[LoopOf(c)].pending, Functor("destroyed", c, 0)), loop[LoopOf(c)].quit)
    BY Zenon, <1>1, <1>12, RemoveLoops, LoopsTyped
  <2> HIDE DEF c
  <2> QED
    BY <1>1, <2>1 DEF SetLoop, Batches
<1> QED
  BY <1>1, <1>6, <1>7, <1>8, <1>9, <1>10, <1>11, <1>12, StepCases

\* The types are kept.
LEMMA StepTypes ==
    ASSUME IInv, [Next]_vars
    PROVE  TypeOK'
<1>1. TypeOK /\ Placed /\ Joined
  BY DEF IInv
<1>2. loop' \in [Loops -> LoopState]
  BY Zenon, StepLoops
<1>3. ASSUME NEW c, NEW k, SetConn(c, k) PROVE conn' \in [Conns -> ConnState]
  BY Zenon, <1>3 DEF SetConn
<1>4. conn' = conn => conn' \in [Conns -> ConnState]
  BY Zenon, <1>1 DEF TypeOK
<1>5. CASE Quiet
  <2>1. conn' = conn /\ accepted' = accepted /\ connections' = connections /\ answers' = answers
    BY Zenon, <1>1, <1>5, QuietWork DEF IInv
  <2>2. counter_port' \in Nat /\ stores' \in Nat /\ crashed' \in BOOLEAN
    <3>1. counter_port \in Nat /\ stores \in Nat /\ crashed \in BOOLEAN
      BY SMTT(30), <1>1 DEF TypeOK
    <3>2. counter_port' \in {0, counter_port} /\ stores' \in {stores, stores + 1} /\ crashed' \in {crashed, TRUE}
      BY ZenonT(30), <1>5 DEF Quiet, LoopBegins, TakeBatch, EndBatch, TestNumber, StoreNumber, StopServer, QuitLoop, JoinLoop,
                  AnswerToDeadLoop, vars
    <3>3. counter_port' \in Nat /\ stores' \in Nat
      BY <3>1, <3>2
    <3>4. crashed' \in BOOLEAN
      BY <3>1, <3>2, Zenon
    <3> QED
      BY Zenon, <3>3, <3>4
  <2>3. stop' \in [pc : {"no", "quit", "join", "done"}, at : 0..NThreads, early : BOOLEAN, behind : SUBSET Conns]
    <3> DEFINE StopType == [pc : {"no", "quit", "join", "done"}, at : 0..NThreads, early : BOOLEAN, behind : SUBSET Conns]
    <3>0. stop \in StopType
      BY SMTT(30), <1>1 DEF TypeOK
    <3>1. CASE QuitLoop
      <4>1. (stop.early \/ loop[stop.at].pc = "new") \in BOOLEAN /\ stop.behind \cup Behind(stop.at) \in SUBSET Conns
        BY <3>0 DEF Behind
      <4>2. stop' = [stop EXCEPT !.pc = "join", !.early = stop.early \/ loop[stop.at].pc = "new",
                                 !.behind = stop.behind \cup Behind(stop.at)]
        BY <3>1 DEF QuitLoop
      <4>3. ASSUME NEW e \in BOOLEAN, NEW b \in SUBSET Conns
            PROVE  [stop EXCEPT !.pc = "join", !.early = e, !.behind = b] \in StopType
        BY ZenonT(30), <3>0
      <4> QED
        BY <4>1, <4>2, <4>3
    <3>2. CASE JoinLoop
      <4>1. stop.at # NThreads => stop.at + 1 \in 0..NThreads
        BY <3>0, TcpAssumption
      <4>2. ASSUME NEW a \in 0..NThreads PROVE [stop EXCEPT !.pc = "quit", !.at = a] \in StopType
        BY ZenonT(30), <3>0
      <4>3. [stop EXCEPT !.pc = "done"] \in StopType
        BY Zenon, <3>0
      <4> QED
        BY ZenonT(30), <3>2, <4>1, <4>2, <4>3 DEF JoinLoop
    <3>3. CASE stop' = stop
      BY SMTT(30), <1>1, <3>3 DEF TypeOK
    <3>4. CASE StopServer
      <4>1. 1 \in 0..NThreads
        BY TcpAssumption
      <4>2. [stop EXCEPT !.pc = "quit", !.at = 1] \in StopType
        BY ZenonT(30), <3>0, <4>1
      <4> QED
        BY Zenon, <3>4, <4>2 DEF StopServer
    <3> QED
      BY ZenonT(30), <1>5, <3>1, <3>2, <3>3, <3>4 DEF Quiet, LoopBegins, TakeBatch, EndBatch, TestNumber, StoreNumber,
                      AnswerToDeadLoop, vars
  <2> QED
    BY Zenon, <1>1, <1>2, <1>4, <2>1, <2>2, <2>3 DEF TypeOK
<1>6. ASSUME NEW l \in Loops, Established(l) \/ Send(l) \/ Destroy(l) PROVE TypeOK'
  <2>1. conn' \in [Conns -> ConnState]
    BY ZenonT(30), <1>1, <1>3, <1>6, StepConns
  <2>2. counter_port' \in Nat
    BY <1>1, <1>6 DEF Established, Send, Destroy, NextNumber, TypeOK
  <2> QED
    BY Zenon, <1>1, <1>2, <1>6, <2>1, <2>2 DEF Established, Send, Destroy, TypeOK
<1>10. ASSUME NEW c \in Conns, DestroyNext(c) PROVE TypeOK'
  BY ZenonT(30), <1>1, <1>2, <1>10 DEF DestroyNext, TypeOK
<1>7. ASSUME NEW c \in Conns, Answer(c) \/ HandleWrite(c) \/ HandleClose(c) PROVE TypeOK'
  <2>1. conn' \in [Conns -> ConnState]
    <3>1. Answer(c) => conn' = conn
      BY Zenon DEF Answer
    <3> QED
      BY ZenonT(30), <1>1, <1>3, <1>4, <1>7, <3>1, StepConns
  <2>2. answers' \in Nat
    BY <1>1, <1>7 DEF Answer, HandleWrite, HandleClose, TypeOK
  <2> QED
    BY SMTT(30), <1>1, <1>2, <1>7, <2>1, <2>2 DEF Answer, HandleWrite, HandleClose, TypeOK
<1>8. CASE Accept
  <2>1. accepted' \in 0..MaxConns /\ connections' \subseteq 1..accepted'
    BY <1>1, <1>8, TcpAssumption DEF Accept, TypeOK
  <2> QED
    BY Zenon, <1>1, <1>2, <1>8, <2>1 DEF Accept, TypeOK
<1>9. CASE RemoveConnection \/ RemoveFromDeadServer
  BY ZenonT(30), <1>1, <1>2, <1>9 DEF RemoveConnection, RemoveFromDeadServer, TypeOK
<1> QED
  BY Zenon, <1>1, <1>5, <1>6, <1>7, <1>8, <1>9, <1>10, StepCases

\* Which fields of a connection the steps set.
LEMMA ConnFields ==
    ASSUME NEW k \in ConnState
    PROVE  /\ \A m : \A n \in SendInLoop(k, m) :
                /\ n.state = k.state /\ n.channel = k.channel /\ n.session = k.session
                /\ n.number = k.number /\ n.epoch = k.epoch
                /\ \/ n.written = k.written /\ n.buffer = k.buffer
                   \/ n.written = Append(k.written, m) /\ n.buffer = k.buffer /\ k.buffer = << >>
                   \/ n.written = k.written /\ n.buffer = Append(k.buffer, m)
           /\ Down(k).state = "disconnected" /\ Down(k).channel = "off" /\ Down(k).session = "stopped"
           /\ Down(k).number = k.number /\ Down(k).epoch = k.epoch
           /\ Down(k).written = k.written /\ Down(k).buffer = k.buffer
           /\ Destroyed(k).state = (IF k.state = "connected" THEN "disconnected" ELSE k.state)
           /\ Destroyed(k).session = (IF k.state = "connected" THEN "stopped" ELSE k.session)
           /\ Destroyed(k).channel = "removed" /\ Destroyed(k).number = k.number /\ Destroyed(k).epoch = k.epoch
           /\ Destroyed(k).written = k.written /\ Destroyed(k).buffer = k.buffer
           /\ \A w, b : LET n == [k EXCEPT !.written = w, !.buffer = b] IN
                /\ n.state = k.state /\ n.channel = k.channel /\ n.session = k.session
                /\ n.number = k.number /\ n.epoch = k.epoch /\ n.written = w /\ n.buffer = b
<1>1. ASSUME NEW m, NEW n \in SendInLoop(k, m)
      PROVE  /\ n.state = k.state /\ n.channel = k.channel /\ n.session = k.session
             /\ n.number = k.number /\ n.epoch = k.epoch
             /\ \/ n.written = k.written /\ n.buffer = k.buffer
                \/ n.written = Append(k.written, m) /\ n.buffer = k.buffer /\ k.buffer = << >>
                \/ n.written = k.written /\ n.buffer = Append(k.buffer, m)
  <2>1. \/ n = k \/ n = [k EXCEPT !.buffer = Append(k.buffer, m)]
        \/ n = [k EXCEPT !.written = Append(k.written, m)] /\ k.buffer = << >>
    BY DEF SendInLoop, MayWrite
  <2> QED
    BY Zenon, <2>1 DEF ConnState
<1>2. /\ Down(k).state = "disconnected" /\ Down(k).channel = "off" /\ Down(k).session = "stopped"
      /\ Down(k).number = k.number /\ Down(k).epoch = k.epoch
      /\ Down(k).written = k.written /\ Down(k).buffer = k.buffer
  BY DEF Down, ConnState
<1>3. /\ Destroyed(k).state = (IF k.state = "connected" THEN "disconnected" ELSE k.state)
      /\ Destroyed(k).session = (IF k.state = "connected" THEN "stopped" ELSE k.session)
      /\ Destroyed(k).channel = "removed" /\ Destroyed(k).number = k.number /\ Destroyed(k).epoch = k.epoch
      /\ Destroyed(k).written = k.written /\ Destroyed(k).buffer = k.buffer
  <2>1. ASSUME NEW r \in ConnState
        PROVE  LET n == [r EXCEPT !.channel = "removed"] IN
               /\ n.state = r.state /\ n.session = r.session /\ n.channel = "removed" /\ n.number = r.number
               /\ n.epoch = r.epoch /\ n.written = r.written /\ n.buffer = r.buffer
    BY DEF ConnState
  <2>2. CASE k.state = "connected"
    <3>1. Destroyed(k) = [Down(k) EXCEPT !.channel = "removed"] /\ Down(k) \in ConnState
      BY ZenonT(30), <2>2, ConnTyped DEF Destroyed
    <3> QED
      BY SMTT(30), <1>2, <2>1, <2>2, <3>1
  <2>3. CASE k.state # "connected"
    <3>1. Destroyed(k) = [k EXCEPT !.channel = "removed"]
      BY <2>3 DEF Destroyed
    <3> QED
      BY ZenonT(30), <2>1, <2>3, <3>1
  <2> QED
    BY Zenon, <2>2, <2>3
<1>4. ASSUME NEW w, NEW b
      PROVE  LET n == [k EXCEPT !.written = w, !.buffer = b] IN
                /\ n.state = k.state /\ n.channel = k.channel /\ n.session = k.session
                /\ n.number = k.number /\ n.epoch = k.epoch /\ n.written = w /\ n.buffer = b
  BY Zenon DEF ConnState
<1> QED
  BY Zenon, <1>1, <1>2, <1>3, <1>4

\* A connection that has had a session keeps having had one, and connections are only added.
LEMMA SessionsKept ==
    ASSUME IInv, [Next]_vars
    PROVE  /\ \A c \in Conns : conn[c].session # "none" => conn'[c].session # "none"
           /\ accepted' \in {accepted, accepted + 1} /\ answers' \in {answers, answers + 1}
<1>1. TypeOK /\ Placed /\ Batches /\ Joined /\ \A c \in Conns : conn[c] \in ConnState
  BY Zenon DEF IInv, TypeOK
<1>2. ASSUME NEW c, NEW k, SetConn(c, k), c \in Conns /\ conn[c].session # "none" => k.session # "none"
      PROVE  \A d \in Conns : conn[d].session # "none" => conn'[d].session # "none"
  BY SMTT(30), <1>2 DEF SetConn
<1>3. ASSUME NEW l \in Loops, Established(l)
      PROVE  \A d \in Conns : conn[d].session # "none" => conn'[d].session # "none"
  BY ZenonT(30), <1>1, <1>2, <1>3, StepConns
<1>4. ASSUME NEW l \in Loops, Send(l)
      PROVE  \A d \in Conns : conn[d].session # "none" => conn'[d].session # "none"
  <2>1. PICK c : c = First(l).conn
    OBVIOUS
  <2>2. PICK k \in SendInLoop(conn[c], First(l).msg) : SetConn(c, k)
    BY <1>1, <1>4, <2>1, StepConns, ZenonT(30)
  <2>3. c \in Conns => k.session = conn[c].session
    BY <1>1, <2>2, ConnFields
  <2> QED
    BY <1>2, <2>2, <2>3
<1>5. ASSUME NEW l \in Loops, Destroy(l)
      PROVE  \A d \in Conns : conn[d].session # "none" => conn'[d].session # "none"
  <2>1. PICK c : c = First(l).conn
    OBVIOUS
  <2>2. SetConn(c, Destroyed(conn[c]))
    BY <1>1, <1>5, <2>1, StepConns, ZenonT(30)
  <2>3. c \in Conns /\ conn[c].session # "none" => Destroyed(conn[c]).session # "none"
    BY SMTT(30), <1>1, ConnFields
  <2> QED
    BY Zenon, <1>2, <2>2, <2>3
<1>6. ASSUME NEW c \in Conns, HandleClose(c)
      PROVE  \A d \in Conns : conn[d].session # "none" => conn'[d].session # "none"
  <2>1. Down(conn[c]).session # "none"
    BY Zenon, <1>1, ConnFields
  <2> QED
    BY ZenonT(30), <1>1, <1>2, <1>6, <2>1, StepConns
<1>7. ASSUME NEW c \in Conns, HandleWrite(c)
      PROVE  \A d \in Conns : conn[d].session # "none" => conn'[d].session # "none"
  <2>1. PICK w, b : SetConn(c, [conn[c] EXCEPT !.written = w, !.buffer = b])
    BY ZenonT(30), <1>1, <1>7, StepConns
  <2>2. [conn[c] EXCEPT !.written = w, !.buffer = b].session = conn[c].session
    BY <1>1, ConnFields
  <2> QED
    BY ZenonT(30), <1>2, <2>1, <2>2
<1>8. Quiet \/ Accept \/ RemoveConnection \/ RemoveFromDeadServer \/ (\E c \in Conns : Answer(c) \/ DestroyNext(c))
        => conn' = conn
  BY ZenonT(30), <1>1, QuietWork DEF Accept, DestroyNext, RemoveConnection, RemoveFromDeadServer, Answer
<1>9. \A d \in Conns : conn[d].session # "none" => conn'[d].session # "none"
  BY Zenon, <1>1, <1>3, <1>4, <1>5, <1>6, <1>7, <1>8, StepCases
<1>10. accepted' \in {accepted, accepted + 1} /\ answers' \in {answers, answers + 1}
  BY ZenonT(30), <1>1, StepCases, QuietWork DEF Accept, DestroyNext, RemoveConnection, RemoveFromDeadServer, Answer,
       Established, Send, Destroy, HandleClose, HandleWrite
<1> QED
  BY Zenon, <1>9, <1>10

\* Functor f is in the loop where it belongs.
InPlace(l, f) ==
    /\ f.conn <= accepted
    /\ IF f.op = "remove" THEN l = 0 ELSE l = LoopOf(f.conn)
    /\ f.op = "send" => conn[f.conn].session # "none" /\ f.msg <= answers

\* What a loop has to do are functors.
LEMMA WorkElement ==
    ASSUME TypeOK, NEW l \in Loops
    PROVE  Len(Work(l)) \in Nat /\ \A i \in 1..Len(Work(l)) : Work(l)[i] \in FunctorSet
<1>1. Work(l) \in Seq(FunctorSet)
  BY ZenonT(30), WorkTyped
<1> QED
  BY <1>1

\* The functors are where they belong.
LEMMA StepPlaced ==
    ASSUME IInv, [Next]_vars
    PROVE  Placed'
<1>1. TypeOK /\ Placed /\ Batches /\ Joined /\ accepted \in Nat /\ answers \in Nat
  BY TcpAssumption DEF IInv, TypeOK
<1>2. \A c \in Conns : conn[c].session # "none" => conn'[c].session # "none"
  BY Zenon, SessionsKept
<1>3. \A n \in Nat : (n <= accepted => n <= accepted') /\ (n <= answers => n <= answers')
  BY <1>1, SessionsKept
<1>4. ASSUME NEW l \in Loops, NEW f \in FunctorSet, InPlace(l, f) PROVE InPlace(l, f)'
  <2>1. f.conn \in Conns /\ f.conn \in Nat /\ f.msg \in Nat
    BY DEF FunctorSet, Conns
  <2> QED
    BY Zenon, <1>2, <1>3, <1>4, <2>1 DEF InPlace
<1>5. ASSUME NEW l \in Loops, NEW i \in 1..Len(Work(l)), NEW f, f = Work(l)[i] PROVE InPlace(l, f)'
  <2>1. f \in FunctorSet
    BY Zenon, <1>1, <1>5, WorkElement
  <2>2. InPlace(l, f)
    BY Zenon, <1>1, <1>5 DEF Placed, InPlace
  <2> QED
    BY <1>4, <2>1, <2>2, Zenon
<1>6. ASSUME NEW l \in Loops, NEW w, w = Work(l)', Len(w) \in Nat,
             \A i \in 1..Len(w) : \E f : f = w[i] /\ (InPlace(l, f)' \/ \E j \in 1..Len(Work(l)) : f = Work(l)[j])
      PROVE  \A i \in 1..Len(Work(l)') : InPlace(l, Work(l)[i])'
  <2>1. ASSUME NEW i \in 1..Len(w) PROVE \E f : f = w[i] /\ InPlace(l, f)'
    BY <1>5, <1>6, <2>1, Zenon
  <2>2. ASSUME NEW i \in 1..Len(w) PROVE InPlace(l, Work(l)[i])'
    BY <1>6, <2>1 DEF InPlace
  <2> QED
    BY Zenon, <1>6, <2>2
<1>7. ASSUME NEW l \in Loops, Work(l)' = Work(l) PROVE \A i \in 1..Len(Work(l)') : InPlace(l, Work(l)[i])'
  BY Zenon, <1>1, <1>6, <1>7, WorkElement
<1>8. \A l \in Loops : Len(Work(l)') \in Nat
  <2>1. ASSUME NEW l \in Loops PROVE Len(Work(l)') \in Nat
    <3>1. loop'[l].batch \in Seq(FunctorSet) /\ loop'[l].pending \in Seq(FunctorSet)
      BY Zenon, StepTypes DEF TypeOK, LoopState
    <3>2. Work(l)' \in Seq(FunctorSet)
      BY <3>1 DEF Work
    <3> QED
      BY <3>2
  <2> QED
    BY Zenon, <2>1
<1>9. ASSUME NEW l \in Loops, Popped(Work(l), Work(l)') PROVE \A i \in 1..Len(Work(l)') : InPlace(l, Work(l)[i])'
  <2>1. ASSUME NEW i \in 1..Len(Work(l)') PROVE Work(l)'[i] = Work(l)[i + 1] /\ i + 1 \in 1..Len(Work(l))
    BY <1>1, <1>8, <1>9, WorkElement DEF Popped
  <2>2. \A i \in 1..Len(Work(l)') : \E j \in 1..Len(Work(l)) : Work(l)'[i] = Work(l)[j]
    BY Zenon, <2>1
  <2> QED
    BY ZenonT(30), <1>6, <1>8, <2>2
<1>10. ASSUME NEW l \in Loops, NEW f, Pushed(Work(l), Work(l)', f), InPlace(l, f)'
       PROVE  \A i \in 1..Len(Work(l)') : InPlace(l, Work(l)[i])'
  <2>1. ASSUME NEW i \in 1..Len(Work(l)')
        PROVE  (i \in 1..Len(Work(l)) /\ Work(l)'[i] = Work(l)[i]) \/ Work(l)'[i] = f
    BY <1>1, <1>8, <1>10, WorkElement DEF Pushed
  <2> QED
    BY Zenon, <1>6, <1>8, <1>10, <2>1
<1>11. ASSUME NEW l \in Loops, PopStep(l) PROVE Placed'
  BY Zenon, <1>7, <1>9, <1>11 DEF PopStep, Placed, InPlace
<1>12. ASSUME NEW l \in Loops, NEW f, PushStep(l, f), InPlace(l, f)' PROVE Placed'
  BY <1>7, <1>10, <1>12 DEF PushStep, Placed, InPlace
<1>13. ASSUME \A l \in Loops : Work(l)' = Work(l) PROVE Placed'
  BY Zenon, <1>7, <1>13 DEF Placed, InPlace
<1>14. CASE Accept
  <2>1. PICK c \in Conns : c = accepted + 1
    BY Zenon, <1>1, <1>14, StepWork
  <2>2. PushStep(LoopOf(c), Functor("established", c, 0)) /\ accepted' = c
    BY Zenon, <1>1, <1>14, <2>1, StepWork DEF Accept
  <2>3. InPlace(LoopOf(c), Functor("established", c, 0))'
    BY <1>1, <2>1, <2>2 DEF InPlace, Functor
  <2> QED
    BY Zenon, <1>12, <2>2, <2>3, LoopsTyped
<1>15. ASSUME NEW c \in Conns, c \in 1..accepted, Answer(c) PROVE Placed'
  <2>1. PICK m : m = answers + 1
    BY Zenon
  <2>2. PushStep(LoopOf(c), Functor("send", c, m))
    BY Zenon, <1>1, <1>15, <2>1, StepWork
  <2>3. conn' = conn /\ accepted' = accepted /\ conn[c].session # "none" /\ answers' = m
    BY Zenon, <1>15, <2>1 DEF Answer
  <2>4. InPlace(LoopOf(c), Functor("send", c, m))'
    <3>1. m \in Nat /\ m <= m
      BY <1>1, <2>1
    <3> QED
      BY <1>1, <1>15, <2>3, <3>1 DEF InPlace, Functor
  <2> QED
    BY Zenon, <1>12, <2>2, <2>4, LoopsTyped
<1>16. ASSUME NEW c \in Conns, c \in 1..accepted, HandleClose(c) PROVE Placed'
  <2>1. PushStep(0, Functor("remove", c, 0)) /\ accepted' = accepted
    BY ZenonT(30), <1>1, <1>16, StepWork DEF HandleClose
  <2>2. InPlace(0, Functor("remove", c, 0))'
    BY <1>1, <1>16, <2>1 DEF InPlace, Functor
  <2> QED
    BY Zenon, <1>12, <2>1, <2>2, LoopsTyped
<1>17. CASE RemoveConnection
  <2>1. PICK c : c = First(0).conn
    BY Zenon
  <2>2. c \in Conns /\ c \in 1..accepted /\ accepted' = accepted /\ LoopOf(c) \in Loops
    BY Zenon, <1>1, <1>17, <2>1, RunsFirst, LoopsTyped DEF RemoveConnection
  <2>3. /\ Popped(Work(0), Work(0)') /\ Pushed(Work(LoopOf(c)), Work(LoopOf(c))', Functor("destroyed", c, 0))
        /\ \A k \in Loops \ {0, LoopOf(c)} : Work(k)' = Work(k)
    BY Zenon, <1>1, <1>17, <2>1, RemoveWork
  <2>4. InPlace(LoopOf(c), Functor("destroyed", c, 0))'
    BY <1>1, <2>2 DEF InPlace, Functor
  <2>5. ASSUME NEW l \in Loops PROVE \A i \in 1..Len(Work(l)') : InPlace(l, Work(l)[i])'
    <3>1. CASE l = 0
      BY Zenon, <1>9, <2>3, <3>1
    <3>2. CASE l = LoopOf(c)
      BY Zenon, <1>10, <2>2, <2>3, <2>4, <3>2
    <3> QED
      BY Zenon, <1>7, <2>3, <3>1, <3>2
  <2> QED
    BY Zenon, <2>5 DEF Placed, InPlace
<1>18. ASSUME NEW c \in Conns, c \in 1..accepted, DestroyNext(c) PROVE Placed'
  <2>1. PushStep(LoopOf(c), Functor("destroyed", c, 0)) /\ accepted' = accepted
    BY ZenonT(30), <1>1, <1>18, StepWork DEF DestroyNext
  <2>2. InPlace(LoopOf(c), Functor("destroyed", c, 0))'
    BY <1>1, <1>18, <2>1 DEF InPlace, Functor
  <2> QED
    BY Zenon, <1>12, <2>1, <2>2, LoopsTyped
<1> QED
  BY ZenonT(30), <1>1, <1>11, <1>13, <1>14, <1>15, <1>16, <1>17, <1>18, StepCases, StepWork, QuietWork, LoopsTyped

(***************************************************************************)
(* Every step keeps the invariant: the life of a connection                *)
(***************************************************************************)

\* What ClosedOnce says of connection c.
Closing(c) ==
    /\ stop.pc = "no" =>
         IF conn[c].channel = "off"
         THEN \/ Single(Rem(c)) /\ Des(c) = {} /\ c \in connections
              \/ Rem(c) = {} /\ Single(Des(c)) /\ c \notin connections
         ELSE Rem(c) = {} /\ Des(c) = {}
    /\ Des(c) # {} => Single(Des(c)) /\ conn[c].channel # "removed"

\* The step puts no functor of connection c but a send in loop l, and takes no other from it.
Spares(l, c) ==
    \/ Work(l)' = Work(l)
    \/ \E f : Pushed(Work(l), Work(l)', f) /\ (f.op = "send" \/ f.conn # c)
    \/ Popped(Work(l), Work(l)') /\ (Work(l)[1].op = "send" \/ Work(l)[1].conn # c)

\* There are as many functors as before.
Same(S, T) == (S = {} <=> T = {}) /\ (Single(S) => Single(T))

\* A step that spares c in loop l leaves as many functors of c there.
LEMMA SparedPlaces ==
    ASSUME TypeOK, NEW l \in Loops, NEW c \in Conns, NEW op \in {"established", "destroyed", "remove"}, Spares(l, c)
    PROVE  Same(Places(l, op, c), Places(l, op, c)')
<1>1. Len(Work(l)) \in Nat
  BY Zenon, WorkElement
<1>2. CASE Work(l)' = Work(l)
  BY Zenon, <1>2 DEF Places, Same
<1>3. ASSUME NEW f, Pushed(Work(l), Work(l)', f), f.op = "send" \/ f.conn # c
      PROVE  Same(Places(l, op, c), Places(l, op, c)')
  <2>1. Places(l, op, c)' = Places(l, op, c)
    BY Zenon, <1>1, <1>3, PushedPlaces
  <2> QED
    BY Zenon, <2>1 DEF Same
<1>4. CASE Popped(Work(l), Work(l)') /\ (Work(l)[1].op = "send" \/ Work(l)[1].conn # c)
  <2>1. 1 \notin Places(l, op, c)
    BY Zenon, <1>4 DEF Places
  <2> QED
    BY Zenon, <1>1, <1>4, <2>1, PoppedPlaces DEF Same
<1> QED
  BY Zenon, <1>2, <1>3, <1>4 DEF Spares

\* A connection that is going to be destroyed stays so while its destruction is not run.
LEMMA SparedDoom ==
    ASSUME TypeOK, NEW c \in Conns, NEW l, l = LoopOf(c), Doomed(c),
           Spares(l, c) \/ (Popped(Work(l), Work(l)') /\ Work(l)[1].op # "destroyed")
    PROVE  Doomed(c)'
<1>1. l \in Loops /\ Len(Work(l)) \in Nat
  BY Zenon, WorkElement, LoopsTyped
<1>2. PICK i \in Places(l, "destroyed", c) : \A j \in Places(l, "established", c) : j < i
  BY Zenon DEF Doomed, Des, Est
<1>3. SUFFICES \E k \in Places(l, "destroyed", c)' : \A j \in Places(l, "established", c)' : j < k
  BY Zenon DEF Doomed, Des, Est
<1>4. CASE Work(l)' = Work(l)
  BY <1>2, <1>4 DEF Places
<1>5. ASSUME NEW f, Pushed(Work(l), Work(l)', f), f.op = "send" \/ f.conn # c
      PROVE  \E k \in Places(l, "destroyed", c)' : \A j \in Places(l, "established", c)' : j < k
  <2>1. \A op \in {"destroyed", "established"} : Places(l, op, c)' = Places(l, op, c)
    BY <1>1, <1>5, PushedPlaces
  <2> QED
    BY Zenon, <1>2, <2>1
<1>6. CASE /\ Popped(Work(l), Work(l)')
           /\ Work(l)[1].op = "send" \/ Work(l)[1].conn # c \/ Work(l)[1].op # "destroyed"
  <2>1. i \in 1..Len(Work(l)) /\ i # 1
    BY Zenon, <1>2, <1>6 DEF Places
  <2>2. i - 1 \in 1..(Len(Work(l)) - 1) /\ (i - 1) + 1 = i
    BY <1>1, <2>1
  <2>3. Places(l, "destroyed", c)' = {k \in 1..(Len(Work(l)) - 1) : k + 1 \in Places(l, "destroyed", c)}
    BY Zenon, <1>1, <1>6, PoppedPlaces
  <2>4. Places(l, "established", c)' = {k \in 1..(Len(Work(l)) - 1) : k + 1 \in Places(l, "established", c)}
    BY Zenon, <1>1, <1>6, PoppedPlaces
  <2>5. i - 1 \in Places(l, "destroyed", c)'
    BY Zenon, <1>2, <2>2, <2>3
  <2>6. \A j \in Places(l, "established", c)' : j < i - 1
    BY <1>1, <1>2, <2>1, <2>4
  <2> QED
    BY Zenon, <2>5, <2>6
<1> QED
  BY Zenon, <1>4, <1>5, <1>6 DEF Spares

\* A connection that a step spares goes on as before.
LEMMA Undisturbed ==
    ASSUME TypeOK, NEW c \in Conns, Life(c), c <= accepted => Closing(c), Spares(LoopOf(c), c),
           stop.pc = "no" => Spares(0, c),
           conn'[c].channel = conn[c].channel, conn'[c].session = conn[c].session, conn'[c].state = conn[c].state,
           conn[c].channel = "new" => conn'[c].written = conn[c].written /\ conn'[c].buffer = conn[c].buffer,
           c <= accepted <=> c <= accepted', c > accepted <=> c > accepted',
           stop'.pc = "no" => stop.pc = "no",
           c \in connections <=> c \in connections'
    PROVE  Life(c)' /\ (c <= accepted' => Closing(c)')
<1>1. LoopOf(c) \in Loops /\ 0 \in Loops
  BY Zenon, LoopsTyped
<1>2. Same(Est(c), Est(c)') /\ Same(Des(c), Des(c)')
  BY Zenon, <1>1, SparedPlaces DEF Est, Des
<1>3. stop.pc = "no" => Same(Rem(c), Rem(c)')
  BY Zenon, <1>1, SparedPlaces DEF Rem
<1>4. Doomed(c) => Doomed(c)'
  BY Zenon, SparedDoom
<1>5. Life(c)'
  BY ZenonT(30), <1>2, <1>4 DEF Life, Same
<1>6. c <= accepted' => Closing(c)'
  BY Zenon, <1>2, <1>3 DEF Closing, Same
<1> QED
  BY Zenon, <1>5, <1>6

\* ClosedOnce is about each connection.
LEMMA ClosingEach ==
    /\ ClosedOnce <=> \A c \in 1..accepted : Closing(c)
    /\ ClosedOnce' <=> \A c \in 1..accepted' : Closing(c)'
  BY Zenon DEF ClosedOnce, Closing, Rem, Des

\* The life of connection c is in order.
Owned(c) == Life(c) /\ (c <= accepted => Closing(c))

\* What the invariant says of connection c.
LEMMA OwnedNow ==
    ASSUME IInv, NEW c \in Conns
    PROVE  /\ TypeOK /\ Placed /\ Life(c) /\ (c <= accepted => Closing(c))
           /\ c \in Nat /\ accepted \in Nat /\ (c <= accepted <=> c \in 1..accepted) /\ (c > accepted <=> ~ (c <= accepted))
<1>1. TypeOK /\ Placed /\ Lives /\ ClosedOnce
  BY Zenon DEF IInv
<1>2. c \in Nat /\ c >= 1 /\ accepted \in Nat
  BY <1>1, TcpAssumption DEF Conns, TypeOK
<1>3. (c <= accepted <=> c \in 1..accepted) /\ (c > accepted <=> ~ (c <= accepted))
  BY <1>2
<1>4. Life(c)
  BY Zenon, <1>1 DEF Lives
<1>5. c <= accepted => Closing(c)
  BY Zenon, <1>1, <1>3, ClosingEach
<1> QED
  BY Zenon, <1>1, <1>2, <1>3, <1>4, <1>5

\* What the steps that put or take no functor but a send, and those of another connection, leave.
LEMMA SparedLives ==
    ASSUME IInv, NEW c \in Conns, conn'[c] = conn[c], stop'.pc = stop.pc,
           c <= accepted <=> c <= accepted', c > accepted <=> c > accepted', c \in connections <=> c \in connections',
           Spares(LoopOf(c), c), stop.pc = "no" => Spares(0, c)
    PROVE  Owned(c)'
<1>1. TypeOK /\ Life(c) /\ (c <= accepted => Closing(c))
  BY Zenon, OwnedNow
<1> QED
  BY Zenon, <1>1, Undisturbed DEF Owned

\* connectEstablished.
LEMMA EstablishedLives ==
    ASSUME IInv, NEW l \in Loops, Established(l), NEW c \in Conns
    PROVE  Owned(c)'
<1>1. TypeOK /\ Placed /\ Life(c) /\ (c <= accepted => Closing(c)) /\ PopStep(l)
  BY Zenon, OwnedNow, StepWork
<1>2. PICK d : d = First(l).conn
  OBVIOUS
<1>3. PICK k : /\ SetConn(d, k) /\ k.state = "connected" /\ k.channel = "on" /\ k.session = "working"
               /\ k.number = counter_port /\ k.epoch = stores
               /\ k.written = conn[d].written /\ k.buffer = conn[d].buffer
  BY <1>1, <1>2, StepConns, ZenonT(30)
<1>4. stop' = stop /\ accepted' = accepted /\ connections' = connections
  BY DEF Established
<1>5. /\ d \in Conns /\ d \in 1..accepted /\ l = LoopOf(d) /\ l \in IoLoops /\ 1 \in Places(l, "established", d)
      /\ Work(l)[1].op = "established" /\ Work(l)[1].conn = d /\ Len(Work(l)) \in Nat
  BY <1>1, <1>2, RunsFirst, WorkElement, LoopsTyped DEF Established
<1>6. Spares(0, c)
  BY Zenon, <1>1, <1>5, LoopsTyped DEF PopStep, Spares
<1>7. CASE c # d
  <2>1. Spares(LoopOf(c), c)
    BY Zenon, <1>1, <1>5, <1>7, LoopsTyped DEF PopStep, Spares
  <2>2. conn'[c] = conn[c]
    BY Zenon, <1>3, <1>7 DEF SetConn
  <2> QED
    BY Zenon, <1>4, <1>6, <2>1, <2>2, SparedLives
<1>8. CASE c = d
  <2>1. Est(c) # {} /\ c <= accepted
    BY <1>5, <1>8 DEF Est
  <2>2. conn[c].channel = "new" /\ Single(Est(c))
    BY Zenon, <1>1, <2>1 DEF Life
  <2>3. Est(c)' = {}
    BY Zenon, <1>1, <1>5, <1>8, <2>2, PoppedPlaces DEF Est, PopStep
  <2>4. 1 \notin Des(c)
    BY Zenon, <1>5, <1>8 DEF Des, Places
  <2>5. Same(Des(c), Des(c)')
    BY Zenon, <1>1, <1>5, <1>8, <2>4, PoppedPlaces DEF Des, PopStep, Same
  <2>6. Same(Rem(c), Rem(c)')
    BY Zenon, <1>1, <1>6, SparedPlaces, LoopsTyped DEF Rem
  <2>7. Doomed(c) => Doomed(c)'
    BY Zenon, <1>1, <1>5, <1>8, SparedDoom DEF PopStep
  <2>8. conn'[c].channel = "on" /\ conn'[c].session = "working" /\ conn'[c].state = "connected"
    BY Zenon, <1>3, <1>8 DEF SetConn
  <2>9. Life(c)'
    BY ZenonT(30), <1>1, <1>4, <2>1, <2>2, <2>3, <2>5, <2>7, <2>8, OwnedNow DEF Life, Same
  <2>10. Closing(c)'
    BY Zenon, <1>1, <1>4, <2>1, <2>2, <2>5, <2>6, <2>8 DEF Closing, Same
  <2> QED
    BY Zenon, <2>9, <2>10 DEF Owned
<1> QED
  BY Zenon, <1>7, <1>8

\* connectDestroyed: it runs once, for a connection that was established before.
LEMMA DestroyLives ==
    ASSUME IInv, NEW l \in Loops, Destroy(l), NEW c \in Conns
    PROVE  Owned(c)'
<1>1. TypeOK /\ Placed /\ Life(c) /\ (c <= accepted => Closing(c)) /\ PopStep(l)
  BY Zenon, OwnedNow, StepWork
<1>2. PICK d : d = First(l).conn
  OBVIOUS
<1>3. SetConn(d, Destroyed(conn[d]))
  BY <1>1, <1>2, StepConns, ZenonT(30)
<1>4. stop' = stop /\ accepted' = accepted /\ connections' = connections
  BY Zenon DEF Destroy
<1>5. /\ d \in Conns /\ d \in 1..accepted /\ l = LoopOf(d) /\ l \in IoLoops /\ 1 \in Places(l, "destroyed", d)
      /\ Work(l)[1].op = "destroyed" /\ Work(l)[1].conn = d /\ Len(Work(l)) \in Nat
  BY <1>1, <1>2, RunsFirst, WorkElement, LoopsTyped DEF Destroy
<1>6. Spares(0, c)
  BY Zenon, <1>1, <1>5, LoopsTyped DEF PopStep, Spares
<1>7. CASE c # d
  <2>1. Spares(LoopOf(c), c)
    BY Zenon, <1>1, <1>5, <1>7, LoopsTyped DEF PopStep, Spares
  <2>2. conn'[c] = conn[c]
    BY Zenon, <1>3, <1>7 DEF SetConn
  <2> QED
    BY Zenon, <1>4, <1>6, <2>1, <2>2, SparedLives
<1>8. CASE c = d
  <2>1. 1 \in Des(c) /\ c <= accepted /\ ~ (c > accepted)
    BY Zenon, <1>5, <1>8, OwnedNow DEF Des
  <2>2. Single(Des(c)) /\ conn[c].channel # "removed" /\ \A i \in Des(c) : i = 1
    BY Zenon, <1>1, <2>1, SingleMeans DEF Closing
  <2>3. Des(c)' = {}
    BY ZenonT(30), <1>1, <1>5, <1>8, <2>1, <2>2, PoppedPlaces DEF Des, PopStep
  <2>4. conn[c].channel # "new"
    <3>1. SUFFICES ASSUME conn[c].channel = "new" PROVE FALSE
      BY Zenon
    <3>2. Single(Est(c)) /\ stop.pc # "no"
      BY Zenon, <1>1, <2>1, <3>1 DEF Life, Closing
    <3>3. Doomed(c)
      BY Zenon, <1>1, <2>1, <3>1, <3>2 DEF Life
    <3>4. PICK j \in Est(c) : j < 1
      BY ZenonT(30), <2>2, <3>2, <3>3, SingleMeans DEF Doomed
    <3>5. j \in Nat /\ j >= 1
      BY <1>5, <1>8, <3>4 DEF Est, Places
    <3> QED
      BY <3>4, <3>5
  <2>5. Est(c) = {} /\ Est(c)' = {}
    <3>1. Est(c) = {}
      BY Zenon, <1>1, <2>1, <2>4 DEF Life
    <3> QED
      BY ZenonT(30), <1>1, <1>5, <1>8, <3>1, PoppedPlaces DEF Est, PopStep
  <2>6. conn[c] \in ConnState
    BY Zenon, <1>1 DEF TypeOK
  <2>7. conn[c].channel \in {"on", "off"}
    BY Zenon, <2>2, <2>4, <2>6 DEF ConnState
  <2>8. conn'[c].channel = "removed" /\ conn'[c].session = "stopped" /\ conn'[c].state = "disconnected"
    BY <1>1, <1>3, <1>8, <2>6, <2>7, ConnFields DEF SetConn, Life
  <2>9. c \notin connections /\ (stop.pc = "no" => Rem(c) = {})
    BY Zenon, <1>1, <2>1, OwnedNow DEF Closing, Life
  <2>10. stop.pc = "no" => Rem(c)' = {}
    BY Zenon, <1>1, <1>6, <2>9, SparedPlaces, LoopsTyped DEF Rem, Same
  <2>11. Life(c)'
    BY ZenonT(30), <1>4, <2>1, <2>5, <2>8, <2>9 DEF Life
  <2>12. Closing(c)'
    BY Zenon, <1>4, <2>3, <2>8, <2>10 DEF Closing
  <2> QED
    BY Zenon, <2>11, <2>12 DEF Owned
<1> QED
  BY Zenon, <1>7, <1>8

\* handleClose: the connection is going to be removed.
LEMMA CloseLives ==
    ASSUME IInv, NEW d \in Conns, d \in 1..accepted, HandleClose(d), NEW c \in Conns
    PROVE  Owned(c)'
<1>1. TypeOK /\ Life(c) /\ (c <= accepted => Closing(c)) /\ PushStep(0, Functor("remove", d, 0)) /\ SetConn(d, Down(conn[d]))
  BY ZenonT(30), OwnedNow, StepWork, StepConns
<1>2. stop' = stop /\ accepted' = accepted /\ connections' = connections /\ conn[d].channel = "on"
  BY Zenon DEF HandleClose
<1>3. Spares(LoopOf(c), c)
  BY Zenon, <1>1, LoopsTyped DEF PushStep, Spares
<1>4. CASE c # d
  <2>1. Spares(0, c)
    BY <1>1, <1>4 DEF PushStep, Spares, Functor
  <2>2. conn'[c] = conn[c]
    BY Zenon, <1>1, <1>4 DEF SetConn
  <2> QED
    BY Zenon, <1>2, <1>3, <2>1, <2>2, SparedLives
<1>5. CASE c = d
  <2>1. Same(Est(c), Est(c)') /\ Same(Des(c), Des(c)')
    BY Zenon, <1>1, <1>3, SparedPlaces, LoopsTyped DEF Est, Des
  <2>2. Rem(c)' = Rem(c) \cup {Len(Work(0)) + 1}
    BY <1>1, <1>5, PushedPlaces, WorkElement, LoopsTyped DEF Rem, PushStep, Functor
  <2>3. conn'[c].channel = "off" /\ conn'[c].session = "stopped" /\ conn'[c].state = "disconnected"
    BY <1>1, <1>5, ConnFields DEF SetConn, TypeOK
  <2>4. c <= accepted /\ ~ (c > accepted)
    BY ZenonT(30), <1>5, OwnedNow
  <2>5. Life(c)'
    BY SMTT(30), <1>1, <1>2, <1>5, <2>1, <2>3, <2>4 DEF Life, Same
  <2>6. stop.pc = "no" => Rem(c) = {} /\ Des(c) = {} /\ c \in connections
    BY Zenon, <1>1, <1>2, <1>5, <2>4 DEF Closing, Life, Doomed
  <2>7. stop.pc = "no" => Single(Rem(c)') /\ Des(c)' = {}
    BY SMTT(30), <2>1, <2>2, <2>6 DEF Single, Same
  <2>8. Closing(c)'
    BY Zenon, <1>1, <1>2, <2>1, <2>3, <2>4, <2>6, <2>7 DEF Closing, Same
  <2> QED
    BY Zenon, <2>5, <2>8 DEF Owned
<1> QED
  BY SMTT(30), <1>4, <1>5

\* newConnection: the connection is going to be established.
LEMMA AcceptLives ==
    ASSUME IInv, Accept, NEW c \in Conns
    PROVE  Owned(c)'
<1>1. PICK d \in Conns : d = accepted + 1
  BY Zenon, StepWork DEF IInv
<1>2. /\ TypeOK /\ Placed /\ Life(c) /\ (c <= accepted => Closing(c)) /\ PushStep(LoopOf(d), Functor("established", d, 0))
      /\ c \in Nat /\ accepted \in Nat
  BY Zenon, <1>1, OwnedNow, StepWork
<1>3. conn' = conn /\ stop' = stop /\ accepted' = d /\ connections' = connections \cup {d} /\ stop.pc = "no"
  BY Zenon, <1>1 DEF Accept
<1>4. Spares(0, c)
  BY Zenon, <1>2, LoopsTyped DEF PushStep, Spares
<1>5. CASE c # d
  <2>1. Spares(LoopOf(c), c)
    BY <1>2, <1>5, LoopsTyped DEF PushStep, Spares, Functor
  <2>2. (c <= accepted <=> c <= accepted') /\ (c > accepted <=> c > accepted')
    BY <1>1, <1>2, <1>3, <1>5
  <2> QED
    BY ZenonT(30), <1>3, <1>4, <1>5, <2>1, <2>2, SparedLives
<1>6. CASE c = d
  <2>1. LoopOf(c) \in Loops /\ Len(Work(LoopOf(c))) \in Nat
    BY Zenon, <1>2, LoopsTyped, WorkElement
  <2>2. \A op : Places(LoopOf(c), op, c) = {} /\ Places(0, op, c) = {}
    BY <1>1, <1>2, <1>6, <2>1, LoopsTyped DEF Placed, Places
  <2>3. Est(c)' = {Len(Work(LoopOf(c))) + 1}
    <3>1. Est(c)' = Est(c) \cup {Len(Work(LoopOf(c))) + 1}
      BY <1>2, <1>6, <2>1, PushedPlaces DEF Est, PushStep, Functor
    <3> QED
      BY Zenon, <2>2, <3>1 DEF Est
  <2>4. Des(c)' = {}
    <3>1. Des(c)' = Des(c)
      BY <1>2, <1>6, <2>1, PushedPlaces DEF Des, PushStep, Functor
    <3> QED
      BY Zenon, <2>2, <3>1 DEF Des
  <2>5. Rem(c)' = {}
    BY Zenon, <1>2, <1>4, <2>2, SparedPlaces, LoopsTyped DEF Rem, Same
  <2>6. c > accepted /\ ~ (c > accepted') /\ c <= accepted'
    BY <1>1, <1>2, <1>3, <1>6
  <2>7. conn[c].channel = "new"
    BY Zenon, <1>2, <2>6 DEF Life
  <2>8. Life(c)'
    <3>1. Single(Est(c)')
      BY Zenon, <2>3 DEF Single
    <3> QED
      BY ZenonT(30), <1>2, <1>3, <1>6, <2>4, <2>6, <2>7, <3>1 DEF Life
  <2>9. Closing(c)'
    BY Zenon, <1>3, <2>4, <2>5, <2>7 DEF Closing
  <2> QED
    BY Zenon, <2>8, <2>9 DEF Owned
<1> QED
  BY Zenon, <1>5, <1>6

\* removeConnectionInLoop: what is removed is destroyed next.
LEMMA RemoveLives ==
    ASSUME IInv, RemoveConnection, NEW c \in Conns
    PROVE  Owned(c)'
<1>1. TypeOK /\ Placed /\ Life(c) /\ (c <= accepted => Closing(c))
  BY Zenon, OwnedNow
<1>2. PICK d : d = First(0).conn
  BY Zenon
<1>3. /\ Popped(Work(0), Work(0)') /\ Pushed(Work(LoopOf(d)), Work(LoopOf(d))', Functor("destroyed", d, 0))
      /\ \A k \in Loops \ {0, LoopOf(d)} : Work(k)' = Work(k)
  BY Zenon, <1>1, <1>2, RemoveWork
<1>4. conn' = conn /\ stop' = stop /\ accepted' = accepted /\ connections' = connections \ {d} /\ stop.pc = "no"
  BY Zenon, <1>2 DEF RemoveConnection
<1>5. /\ d \in Conns /\ d \in 1..accepted /\ 1 \in Places(0, "remove", d)
      /\ Work(0)[1].op = "remove" /\ Work(0)[1].conn = d /\ Len(Work(0)) \in Nat
  BY ZenonT(30), <1>1, <1>2, RunsFirst, WorkElement, LoopsTyped DEF RemoveConnection
<1>6. LoopOf(c) \in Loops /\ LoopOf(c) # 0 /\ Len(Work(LoopOf(c))) \in Nat
  BY Zenon, <1>1, LoopsTyped, WorkElement
<1>7. CASE c # d
  <2>1. Spares(LoopOf(c), c)
    <3>1. CASE LoopOf(c) = LoopOf(d)
      BY <1>3, <1>7, <3>1 DEF Spares, Functor
    <3>2. CASE LoopOf(c) # LoopOf(d)
      BY Zenon, <1>3, <1>6, <3>2 DEF Spares
    <3> QED
      BY Zenon, <3>1, <3>2
  <2>2. Spares(0, c)
    BY Zenon, <1>3, <1>5, <1>7 DEF Spares
  <2> QED
    BY Zenon, <1>4, <1>7, <2>1, <2>2, SparedLives
<1>8. CASE c = d
  <2>1. Rem(c) # {} /\ 1 \in Rem(c) /\ c <= accepted /\ ~ (c > accepted)
    BY Zenon, <1>5, <1>8, OwnedNow DEF Rem
  <2>2. conn[c].channel = "off" /\ Single(Rem(c)) /\ Des(c) = {}
    BY Zenon, <1>1, <1>4, <2>1 DEF Closing
  <2>3. Rem(c)' = {}
    BY Zenon, <1>3, <1>5, <1>8, <2>1, <2>2, PoppedPlaces DEF Rem
  <2>4. Des(c)' = {Len(Work(LoopOf(c))) + 1}
    <3>1. Des(c)' = Des(c) \cup {Len(Work(LoopOf(c))) + 1}
      BY <1>3, <1>6, <1>8, PushedPlaces DEF Des, Functor
    <3> QED
      BY Zenon, <2>2, <3>1
  <2>5. Est(c)' = {}
    <3>1. Est(c)' = Est(c)
      BY <1>3, <1>6, <1>8, PushedPlaces DEF Est, Functor
    <3> QED
      BY Zenon, <1>1, <2>1, <2>2, <3>1 DEF Life
  <2>6. Life(c)'
    BY ZenonT(30), <1>1, <1>4, <1>8, <2>1, <2>2, <2>5 DEF Life
  <2>7. Closing(c)'
    <3>1. Single(Des(c)')
      BY Zenon, <2>4 DEF Single
    <3> QED
      BY Zenon, <1>4, <1>8, <2>2, <2>3, <3>1 DEF Closing
  <2> QED
    BY Zenon, <2>6, <2>7 DEF Owned
<1> QED
  BY Zenon, <1>7, <1>8

\* ~TcpServer: a connection that is not closed is going to be destroyed, and not twice.
LEMMA DestroyNextLives ==
    ASSUME IInv, NEW d \in Conns, DestroyNext(d), NEW c \in Conns
    PROVE  Owned(c)'
<1>1. TypeOK /\ Life(c) /\ (c <= accepted => Closing(c)) /\ PushStep(LoopOf(d), Functor("destroyed", d, 0))
  BY Zenon, OwnedNow, StepWork
<1>2. /\ conn' = conn /\ stop' = stop /\ accepted' = accepted /\ connections' = connections \ {d}
      /\ d \in connections /\ stop.pc = "quit"
  BY Zenon DEF DestroyNext
<1>3. Spares(0, c)
  BY Zenon, <1>1, LoopsTyped DEF PushStep, Spares
<1>4. CASE c # d
  <2>1. Spares(LoopOf(c), c)
    BY <1>1, <1>4, LoopsTyped DEF PushStep, Spares, Functor
  <2> QED
    BY ZenonT(30), <1>2, <1>3, <1>4, <2>1, SparedLives
<1>5. CASE c = d
  <2>1. LoopOf(c) \in Loops /\ Len(Work(LoopOf(c))) \in Nat
    BY Zenon, <1>1, LoopsTyped, WorkElement
  <2>2. c <= accepted /\ ~ (c > accepted) /\ Des(c) = {} /\ conn[c].channel # "removed"
    BY ZenonT(30), <1>1, <1>2, <1>5, OwnedNow DEF TypeOK, Life
  <2>3. Des(c)' = {Len(Work(LoopOf(c))) + 1}
    <3>1. Des(c)' = Des(c) \cup {Len(Work(LoopOf(c))) + 1}
      BY <1>1, <1>5, <2>1, PushedPlaces DEF Des, PushStep, Functor
    <3> QED
      BY Zenon, <2>2, <3>1
  <2>4. Est(c)' = Est(c)
    BY <1>1, <1>5, <2>1, PushedPlaces DEF Est, PushStep, Functor
  <2>5. Doomed(c)'
    <3>1. \A j \in Est(c) : j < Len(Work(LoopOf(c))) + 1
      BY <2>1 DEF Est, Places
    <3> QED
      BY Zenon, <2>3, <2>4, <3>1 DEF Doomed
  <2>6. Life(c)'
    BY ZenonT(30), <1>1, <1>2, <1>5, <2>2, <2>4, <2>5 DEF Life
  <2>7. Closing(c)'
    BY Zenon, <1>2, <2>2, <2>3 DEF Closing, Single
  <2> QED
    BY Zenon, <2>6, <2>7 DEF Owned
<1> QED
  BY Zenon, <1>4, <1>5

\* The other steps leave the life of every connection as it is.
LEMMA OtherLives ==
    ASSUME IInv, NEW c \in Conns,
           \/ Quiet \/ RemoveFromDeadServer \/ \E l \in Loops : Send(l)
           \/ \E d \in Conns : d \in 1..accepted /\ (Answer(d) \/ HandleWrite(d))
    PROVE  Owned(c)'
<1>1. TypeOK /\ Placed /\ Batches /\ Joined /\ Life(c) /\ (c <= accepted => Closing(c)) /\ conn[c] \in ConnState
  BY Zenon, OwnedNow DEF IInv, TypeOK
<1>2. LoopOf(c) \in Loops /\ 0 \in Loops /\ LoopOf(c) # 0
  BY Zenon, LoopsTyped
<1>3. CASE Quiet
  <2>1. (\A l \in Loops : Work(l)' = Work(l)) /\ conn' = conn /\ accepted' = accepted /\ connections' = connections
    BY SMTT(30), <1>1, <1>3, QuietWork
  <2>2. stop'.pc = "no" => stop.pc = "no"
    BY ZenonT(30), <1>1, <1>3 DEF Quiet, LoopBegins, TakeBatch, EndBatch, TestNumber, StoreNumber, StopServer, QuitLoop, JoinLoop,
                      AnswerToDeadLoop, vars, TypeOK
  <2>3. Spares(LoopOf(c), c) /\ Spares(0, c)
    BY Zenon, <1>2, <2>1 DEF Spares
  <2> QED
    BY Zenon, <1>1, <2>1, <2>2, <2>3, Undisturbed DEF Owned
<1>4. CASE RemoveFromDeadServer
  <2>1. /\ PopStep(0) /\ conn' = conn /\ stop' = stop /\ accepted' = accepted /\ connections' = connections
        /\ stop.pc # "no"
    BY Zenon, <1>1, <1>4, StepWork DEF RemoveFromDeadServer
  <2>2. Spares(LoopOf(c), c)
    BY Zenon, <1>2, <2>1 DEF Spares, PopStep
  <2> QED
    BY Zenon, <2>1, <2>2, SparedLives
<1>5. ASSUME NEW l \in Loops, Send(l) PROVE Owned(c)'
  <2>1. PICK d : d = First(l).conn
    OBVIOUS
  <2>2. PICK k \in SendInLoop(conn[d], First(l).msg) : SetConn(d, k)
    BY <1>1, <1>5, <2>1, StepConns, ZenonT(30)
  <2>3. PopStep(l) /\ Work(l)[1].op = "send" /\ conn[d].session # "none" /\ d \in Conns
    BY ZenonT(30), <1>1, <1>5, <2>1, RunsFirst, StepWork DEF Send
  <2>4. stop' = stop /\ accepted' = accepted /\ connections' = connections
    BY Zenon, <1>5 DEF Send
  <2>5. Spares(LoopOf(c), c) /\ Spares(0, c)
    BY Zenon, <1>2, <2>3 DEF Spares, PopStep
  <2>6. k.channel = conn[d].channel /\ k.session = conn[d].session /\ k.state = conn[d].state
    BY <1>1, <2>2, <2>3, ConnFields DEF TypeOK
  <2>7. /\ conn'[c].channel = conn[c].channel /\ conn'[c].session = conn[c].session /\ conn'[c].state = conn[c].state
        /\ conn[c].session = "none" => conn'[c].written = conn[c].written /\ conn'[c].buffer = conn[c].buffer
    BY Zenon, <2>2, <2>3, <2>6 DEF SetConn
  <2>8. conn[c].channel = "new" => conn[c].session = "none"
    BY Zenon, <1>1 DEF Life
  <2> QED
    BY ZenonT(30), <1>1, <2>4, <2>5, <2>7, <2>8, Undisturbed DEF Owned
<1>6. ASSUME NEW d \in Conns, d \in 1..accepted, Answer(d) PROVE Owned(c)'
  <2>1. PICK m : m = answers + 1
    BY Zenon
  <2>2. PushStep(LoopOf(d), Functor("send", d, m)) /\ Functor("send", d, m).op = "send"
    BY Zenon, <1>1, <1>6, <2>1, StepWork DEF Functor
  <2>3. conn' = conn /\ stop' = stop /\ accepted' = accepted /\ connections' = connections
    BY Zenon, <1>6 DEF Answer
  <2>4. Spares(LoopOf(c), c) /\ Spares(0, c)
    BY ZenonT(30), <1>2, <2>2 DEF Spares, PushStep
  <2> QED
    BY Zenon, <2>3, <2>4, SparedLives
<1>7. ASSUME NEW d \in Conns, d \in 1..accepted, HandleWrite(d) PROVE Owned(c)'
  <2>1. PICK w, b : SetConn(d, [conn[d] EXCEPT !.written = w, !.buffer = b])
    BY ZenonT(30), <1>1, <1>7, StepConns
  <2>2. /\ stop' = stop /\ accepted' = accepted /\ connections' = connections /\ conn[d].channel = "on"
        /\ \A l \in Loops : Work(l)' = Work(l)
    BY ZenonT(30), <1>1, <1>7, StepWork DEF HandleWrite
  <2>3. Spares(LoopOf(c), c) /\ Spares(0, c)
    BY Zenon, <1>2, <2>2 DEF Spares
  <2>4. /\ conn'[c].channel = conn[c].channel /\ conn'[c].session = conn[c].session /\ conn'[c].state = conn[c].state
        /\ conn[c].channel = "new" => conn'[c].written = conn[c].written /\ conn'[c].buffer = conn[c].buffer
    <3>1. CASE c = d
      <4>1. PICK k : k = [conn[d] EXCEPT !.written = w, !.buffer = b] /\ SetConn(d, k)
        BY Zenon, <2>1
      <4>2. k.channel = conn[c].channel /\ k.session = conn[c].session /\ k.state = conn[c].state
        BY <1>1, <3>1, <4>1, ConnFields
      <4> QED
        BY Zenon, <2>2, <3>1, <4>1, <4>2 DEF SetConn
    <3>2. CASE c # d
      BY Zenon, <2>1, <3>2 DEF SetConn
    <3> QED
      BY Zenon, <3>1, <3>2
  <2> QED
    BY SMTT(30), <1>1, <2>2, <2>3, <2>4, Undisturbed DEF Owned
<1> QED
  BY ZenonT(30), <1>3, <1>4, <1>5, <1>6, <1>7

\* Where the signal handler is after a step.
LEMMA StopMoves ==
    ASSUME TypeOK, Batches, Joined, [Next]_vars
    PROVE  StopServer \/ QuitLoop \/ JoinLoop \/ stop' = stop
  BY ZenonT(30), StepCases DEF Quiet, LoopBegins, TakeBatch, EndBatch, TestNumber, StoreNumber, AnswerToDeadLoop, vars,
       Accept, DestroyNext, RemoveConnection, RemoveFromDeadServer, Answer, Established, Send, Destroy, HandleClose, HandleWrite

\* Which loops the steps of the signal handler tell to quit.
LEMMA ToldMoves ==
    ASSUME TypeOK, Joined, NEW l \in IoLoops
    PROVE  /\ StopServer => ~ Told(l) /\ ~ Told(l)'
           /\ QuitLoop => (Told(l)' <=> Told(l) \/ l = stop.at) /\ (l = stop.at => ~ Told(l))
           /\ JoinLoop \/ stop' = stop => (Told(l)' <=> Told(l))
<1>1. l \in Nat /\ l >= 1 /\ stop.at \in Nat /\ NThreads \in Nat
  BY TcpAssumption DEF IoLoops, TypeOK
<1>2. /\ ~ (l < 1)
      /\ l <= stop.at <=> (l < stop.at \/ l = stop.at)
      /\ l = stop.at => ~ (l < stop.at)
      /\ l < stop.at + 1 <=> l <= stop.at
  BY <1>1
<1>3. ASSUME StopServer PROVE ~ Told(l) /\ ~ Told(l)'
  <2>1. stop.pc = "no" /\ stop'.pc = "quit" /\ stop'.at = 1
    BY Zenon, <1>3 DEF StopServer, TypeOK
  <2> QED
    BY Zenon, <1>2, <2>1 DEF Told
<1>4. ASSUME QuitLoop PROVE (Told(l)' <=> Told(l) \/ l = stop.at) /\ (l = stop.at => ~ Told(l))
  <2>1. stop.pc = "quit" /\ stop'.pc = "join" /\ stop'.at = stop.at
    BY ZenonT(30), <1>4 DEF QuitLoop, TypeOK
  <2> QED
    BY Zenon, <1>2, <2>1 DEF Told
<1>5. ASSUME JoinLoop PROVE Told(l)' <=> Told(l)
  <2>1. /\ stop.pc = "join"
        /\ (stop'.pc = "done" /\ stop'.at = stop.at) \/ (stop'.pc = "quit" /\ stop'.at = stop.at + 1)
    BY ZenonT(30), <1>5 DEF JoinLoop, TypeOK
  <2> QED
    BY Zenon, <1>2, <2>1 DEF Told
<1>6. ASSUME stop' = stop PROVE Told(l)' <=> Told(l)
  BY Zenon, <1>6 DEF Told
<1> QED
  BY Zenon, <1>3, <1>4, <1>5, <1>6

\* Every connection goes through its life once.
LEMMA StepLives ==
    ASSUME IInv, [Next]_vars
    PROVE  Lives' /\ ClosedOnce'
<1>1. TypeOK /\ Lives /\ Batches /\ Joined
  BY Zenon DEF IInv
<1>2. ASSUME NEW c \in Conns PROVE Owned(c)'
  BY SMTT(30), <1>1, StepCases, EstablishedLives, DestroyLives, CloseLives, AcceptLives, RemoveLives, DestroyNextLives, OtherLives
<1>3. (\E l \in IoLoops : Told(l)') => connections' = {}
  <2>1. CASE QuitLoop
    BY Zenon, <2>1 DEF QuitLoop
  <2>2. ASSUME NEW l \in IoLoops, Told(l)', ~ QuitLoop PROVE Told(l)
    BY ZenonT(30), <1>1, <2>2, StopMoves, ToldMoves
  <2>4. connections' \subseteq connections \/ Accept
    BY ZenonT(30), <1>1, StepCases, QuietWork DEF DestroyNext, RemoveConnection, RemoveFromDeadServer, Answer,
       Established, Send, Destroy, HandleClose, HandleWrite
  <2>5. Accept => ~ (\E l \in IoLoops : Told(l)')
    BY Zenon DEF Accept, Told
  <2> QED
    BY Zenon, <1>1, <2>1, <2>2, <2>4, <2>5 DEF Lives
<1>4. 1..accepted' \subseteq Conns /\ \A c \in 1..accepted' : c <= accepted'
  BY StepTypes, TcpAssumption DEF TypeOK, Conns
<1> QED
  BY Zenon, <1>2, <1>3, <1>4, ClosingEach DEF Lives, Owned
=============================================================================
