-------------------------- MODULE TcpAccess_proofs --------------------------
(***************************************************************************)
(* Proofs about TcpAccess, for any number of I/O loops, connections and    *)
(* answers: session numbers, the order of the answers, that a send finds   *)
(* its connection, that a connection is removed and destroyed once, and    *)
(* what a stop of the server reaches.  The invariant, and the first half   *)
(* of the proof that every step keeps it, are in TcpConnections_proofs.    *)
(***************************************************************************)
EXTENDS TcpConnections_proofs

(***************************************************************************)
(* Every step keeps the invariant: the stop of the server                  *)
(***************************************************************************)

\* How a step changes loop l: it ends for good and only when told to, quit() is forgotten only when it
\* begins, and once it is told to quit what it has to destroy is taken with the rest.
Changes(l) ==
    /\ loop[l].pc = "ended" => loop'[l].pc = "ended"
    /\ loop'[l].pc = "ended" => loop[l].pc = "ended" \/ loop[l].quit
    /\ loop'[l].pc = "new" => loop[l].pc = "new"
    /\ \/ loop'[l].quit = loop[l].quit
       \/ loop[l].pc = "new" /\ loop'[l].quit = FALSE
       \/ stop.pc = "quit" /\ stop'.pc = "join" /\ l = stop.at /\ loop'[l].quit = TRUE
    /\ Told(l) =>
         \/ loop'[l].pending = loop[l].pending /\ (loop[l].pc \in {"new", "poll"} => loop'[l].pc \in {"new", "poll"})
         \/ loop'[l].pending = << >>
         \/ \E f : /\ f.op # "destroyed" /\ loop'[l].pending = Append(loop[l].pending, f)
                   /\ loop'[l].pc = loop[l].pc

\* How the steps change the I/O loops.
LEMMA LoopChanges ==
    ASSUME IInv, [Next]_vars, NEW l \in IoLoops
    PROVE  Changes(l)
<1>1. TypeOK /\ Placed /\ Joined /\ l \in Loops /\ l # 0
  BY Zenon, LoopsTyped DEF IInv
<1>2. ASSUME loop'[l] = loop[l] PROVE Changes(l)
  BY <1>2 DEF Changes
<1>3. ASSUME NEW m \in Loops, NEW pc, NEW b, NEW p, NEW q, SetLoop(loop, loop', m, pc, b, p, q), l # m PROVE Changes(l)
  BY Zenon, <1>1, <1>2, <1>3 DEF SetLoop
<1>4. ASSUME NEW m \in Loops, LoopBegins(m) PROVE Changes(l)
  <2>1. SetLoop(loop, loop', m, "poll", loop[m].batch, loop[m].pending, FALSE) /\ loop[m].pc = "new"
    BY ZenonT(30), <1>1, <1>4, QuietLoops DEF LoopBegins
  <2> QED
    BY ZenonT(30), <1>3, <2>1 DEF SetLoop, Changes
<1>5. ASSUME NEW m \in Loops, TakeBatch(m) PROVE Changes(l)
  <2>1. SetLoop(loop, loop', m, "run", loop[m].pending, << >>, loop[m].quit) /\ loop[m].pc = "poll"
    BY ZenonT(30), <1>1, <1>5, QuietLoops DEF TakeBatch
  <2> QED
    BY ZenonT(30), <1>3, <2>1 DEF SetLoop, Changes
<1>6. ASSUME NEW m \in Loops, EndBatch(m) PROVE Changes(l)
  <2>1. /\ SetLoop(loop, loop', m, IF loop[m].quit THEN "ended" ELSE "poll", loop[m].batch, loop[m].pending, loop[m].quit)
        /\ loop[m].pc = "run"
    BY ZenonT(30), <1>1, <1>6, QuietLoops DEF EndBatch
  <2> QED
    BY ZenonT(30), <1>3, <2>1 DEF SetLoop, Changes
<1>7. ASSUME NEW m \in Loops, NEW pc \in {"run", "number", "store"}, NEW b,
             SetLoop(loop, loop', m, pc, b, loop[m].pending, loop[m].quit), loop[m].pc \in {"run", "number", "store"}
      PROVE  Changes(l)
  BY ZenonT(30), <1>3, <1>7 DEF SetLoop, Changes
<1>8. ASSUME NEW m \in Loops, TestNumber(m) PROVE Changes(l)
  <2>1. PICK pc \in {"store", "run"} : SetLoop(loop, loop', m, pc, loop[m].batch, loop[m].pending, loop[m].quit)
    BY ZenonT(30), <1>1, <1>8, QuietLoops
  <2> QED
    BY ZenonT(30), <1>7, <1>8, <2>1 DEF TestNumber
<1>9. ASSUME NEW m \in Loops, StoreNumber(m) PROVE Changes(l)
  <2>1. SetLoop(loop, loop', m, "run", loop[m].batch, loop[m].pending, loop[m].quit)
    BY ZenonT(30), <1>1, <1>9, QuietLoops
  <2> QED
    BY ZenonT(30), <1>7, <1>9, <2>1 DEF StoreNumber
<1>10. ASSUME NEW m \in Loops, Established(m) PROVE Changes(l)
  <2>1. SetLoop(loop, loop', m, "number", Tail(loop[m].batch), loop[m].pending, loop[m].quit)
    BY Zenon, <1>1, <1>10, RunLoops
  <2> QED
    BY ZenonT(30), <1>7, <1>10, <2>1 DEF Established, Runs
<1>11. ASSUME NEW m \in Loops, Send(m) \/ Destroy(m) PROVE Changes(l)
  <2>1. SetLoop(loop, loop', m, "run", Tail(loop[m].batch), loop[m].pending, loop[m].quit)
    BY Zenon, <1>1, <1>11, RunLoops
  <2> QED
    BY Zenon, <1>7, <1>11, <2>1 DEF Send, Destroy, Runs
<1>12. CASE RemoveFromDeadServer
  BY ZenonT(30), <1>1, <1>3, <1>12, RunLoops, LoopsTyped
<1>13. CASE QuitLoop
  <2>1. /\ SetLoop(loop, loop', stop.at, loop[stop.at].pc, loop[stop.at].batch, loop[stop.at].pending, TRUE)
        /\ stop.pc = "quit" /\ stop'.pc = "join"
    BY ZenonT(30), <1>1, <1>13, QuitLoops DEF QuitLoop, TypeOK
  <2> QED
    BY Zenon, <1>1, <1>2, <2>1 DEF SetLoop, Changes
<1>14. ASSUME NEW m \in Loops, NEW f, f.op # "destroyed" \/ ~ Told(l),
              SetLoop(loop, loop', m, loop[m].pc, loop[m].batch, Append(loop[m].pending, f), loop[m].quit)
       PROVE  Changes(l)
  BY Zenon, <1>1, <1>3, <1>14 DEF SetLoop, Changes
<1>15. ASSUME NEW c \in Conns, (Accept /\ c = accepted + 1) \/ Answer(c) \/ HandleClose(c) \/ DestroyNext(c)
       PROVE  Changes(l)
  <2>1. /\ Functor("established", c, 0).op # "destroyed" /\ Functor("send", c, answers + 1).op # "destroyed"
        /\ Functor("remove", c, 0).op # "destroyed"
    BY DEF Functor
  <2>2. DestroyNext(c) => ~ Told(l)
    BY Zenon DEF DestroyNext, IInv, Lives
  <2> QED
    BY ZenonT(30), <1>1, <1>14, <1>15, <2>1, <2>2, PushLoops, LoopsTyped
<1>16. CASE Accept
  BY Zenon, <1>1, <1>15, <1>16, StepWork
<1>17. CASE RemoveConnection
  <2> DEFINE c == First(0).conn
  <2>1. /\ LoopOf(c) # 0 /\ LoopOf(c) \in Loops /\ 0 \in Loops /\ stop.pc = "no"
        /\ SetLoop(loop, Ran(0), 0, "run", Tail(loop[0].batch), loop[0].pending, loop[0].quit)
        /\ SetLoop(Ran(0), loop', LoopOf(c), loop[LoopOf(c)].pc, loop[LoopOf(c)].batch,
                   Append(loop[LoopOf(c)].pending, Functor("destroyed", c, 0)), loop[LoopOf(c)].quit)
    BY Zenon, <1>1, <1>17, RemoveLoops, LoopsTyped DEF RemoveConnection
  <2> HIDE DEF c
  <2>2. CASE l = LoopOf(c)
    BY Zenon, <2>1, <2>2 DEF SetLoop, Changes, Told
  <2>3. CASE l # LoopOf(c)
    BY Zenon, <1>1, <1>2, <2>1, <2>3 DEF SetLoop
  <2> QED
    BY Zenon, <2>2, <2>3
<1>18. CASE StopServer
  BY ZenonT(30), <1>1, <1>3, <1>18, StopLoops, LoopsTyped
<1>19. JoinLoop \/ (\E c \in 1..accepted : AnswerToDeadLoop(c)) \/ (\E c \in Conns : HandleWrite(c)) \/ UNCHANGED vars
         => loop' = loop
  BY Zenon DEF JoinLoop, AnswerToDeadLoop, HandleWrite, vars
<1>20. CASE Quiet
  BY SMTT(30), <1>2, <1>4, <1>5, <1>6, <1>8, <1>9, <1>13, <1>18, <1>19, <1>20 DEF Quiet
<1> QED
  BY ZenonT(30), <1>1, <1>2, <1>10, <1>11, <1>12, <1>15, <1>16, <1>17, <1>19, <1>20, StepCases

\* The signal handler joins the loops in turn, and each ends because it was told to.
LEMMA StepJoined ==
    ASSUME IInv, [Next]_vars
    PROVE  Joined'
<1>1. TypeOK /\ Batches /\ Joined /\ Placed
  BY DEF IInv
<1>2. \A l \in IoLoops : Changes(l)
  BY Zenon, LoopChanges
<1>3. CASE stop' = stop
  <2>1. \A l \in IoLoops : ~ Told(l)' => loop'[l].pc # "ended" /\ ~ loop'[l].quit
    BY ZenonT(30), <1>1, <1>2, <1>3, ToldMoves DEF Joined, Changes
  <2>2. stop.pc # "no" => stop.at \in IoLoops /\ \A l \in 1..(stop.at - 1) : l \in IoLoops /\ loop[l].pc = "ended"
    BY <1>1, TcpAssumption DEF Joined, IoLoops
  <2>3. stop.pc # "no" => \A l \in 1..(stop.at - 1) : loop'[l].pc = "ended"
    BY Zenon, <1>2, <2>2 DEF Changes
  <2>4. stop.pc = "join" => (loop'[stop.at].quit \/ stop.early) /\ (loop'[stop.at].pc = "new" => stop.early)
    BY Zenon, <1>1, <1>2, <2>2 DEF Joined, Changes
  <2>5. stop.pc = "done" => \A l \in IoLoops : loop'[l].pc = "ended"
    BY Zenon, <1>1, <1>2 DEF Joined, Changes
  <2> QED
    BY ZenonT(30), <1>3, <2>1, <2>2, <2>3, <2>4, <2>5 DEF Joined
<1>4. CASE StopServer
  <2>1. stop'.pc = "quit" /\ stop'.at = 1
    BY Zenon, <1>1, <1>4 DEF StopServer, TypeOK
  <2>2. 1 \in IoLoops /\ 1..(1 - 1) = {}
    BY TcpAssumption DEF IoLoops
  <2>3. \A l \in IoLoops : loop'[l].pc # "ended" /\ ~ loop'[l].quit
    BY ZenonT(30), <1>1, <1>2, <1>4, ToldMoves DEF Joined, Changes, StopServer
  <2> QED
    BY Zenon, <2>1, <2>2, <2>3 DEF Joined
<1>5. CASE QuitLoop
  <2>1. /\ stop.at \in IoLoops /\ stop.at \in Loops
        /\ SetLoop(loop, loop', stop.at, loop[stop.at].pc, loop[stop.at].batch, loop[stop.at].pending, TRUE)
    BY ZenonT(30), <1>1, <1>5, QuitLoops
  <2>2. stop.pc = "quit" /\ \A l \in 1..(stop.at - 1) : l \in IoLoops /\ loop[l].pc = "ended"
    BY <1>1, <1>5, TcpAssumption DEF Joined, QuitLoop, IoLoops
  <2>3. stop' = [stop EXCEPT !.pc = "join", !.early = stop.early \/ loop[stop.at].pc = "new",
                             !.behind = stop.behind \cup Behind(stop.at)]
    BY <1>5 DEF QuitLoop
  <2>4. stop'.pc = "join" /\ stop'.at = stop.at /\ (loop[stop.at].pc = "new" => stop'.early)
    BY ZenonT(30), <1>1, <2>3 DEF TypeOK
  <2>5. \A l \in 1..(stop.at - 1) : loop'[l].pc = "ended"
    BY Zenon, <1>2, <2>2 DEF Changes
  <2>6. loop'[stop.at].quit /\ loop'[stop.at].pc = loop[stop.at].pc
    BY Zenon, <2>1 DEF SetLoop
  <2>7. \A l \in IoLoops : ~ Told(l)' => loop'[l].pc # "ended" /\ ~ loop'[l].quit
    BY ZenonT(30), <1>1, <1>2, <1>5, ToldMoves DEF Joined, Changes
  <2> QED
    BY Zenon, <2>1, <2>4, <2>5, <2>6, <2>7 DEF Joined
<1>6. CASE JoinLoop
  <2>1. loop' = loop /\ stop.pc = "join" /\ loop[stop.at].pc = "ended"
    BY Zenon, <1>6 DEF JoinLoop
  <2>2. stop.at \in IoLoops /\ \A l \in 1..stop.at : loop[l].pc = "ended"
    BY <1>1, <2>1, TcpAssumption DEF Joined, IoLoops
  <2>5. \A l \in IoLoops : ~ Told(l)' => loop'[l].pc # "ended" /\ ~ loop'[l].quit
    BY ZenonT(30), <1>1, <1>6, <2>1, ToldMoves DEF Joined
  <2>3. CASE stop.at = NThreads
    <3>1. stop'.pc = "done" /\ stop'.at = stop.at
      BY Zenon, <1>1, <1>6, <2>3 DEF JoinLoop, TypeOK
    <3>2. \A l \in 1..(stop.at - 1) : l \in 1..stop.at
      BY <2>2 DEF IoLoops
    <3> QED
      BY ZenonT(30), <2>1, <2>2, <2>3, <2>5, <3>1, <3>2 DEF Joined, IoLoops
  <2>4. CASE stop.at # NThreads
    <3>1. stop'.pc = "quit" /\ stop'.at = stop.at + 1
      BY Zenon, <1>1, <1>6, <2>4 DEF JoinLoop, TypeOK
    <3>2. stop.at + 1 \in IoLoops /\ (stop.at + 1) - 1 = stop.at
      BY <2>2, <2>4, TcpAssumption DEF IoLoops
    <3> QED
      BY Zenon, <2>1, <2>2, <2>5, <3>1, <3>2 DEF Joined
  <2> QED
    BY Zenon, <2>3, <2>4
<1> QED
  BY Zenon, <1>1, <1>3, <1>4, <1>5, <1>6, StopMoves

\* A loop that is told to quit takes what it has to destroy in its next batch, and what is not taken
\* waited behind the functors that it was running then.
LEMMA StepReached ==
    ASSUME IInv, [Next]_vars
    PROVE  Reached'
<1>1. TypeOK /\ Batches /\ Joined /\ Placed /\ Reached
  BY Zenon DEF IInv
<1> DEFINE Left(p, B) == \A i \in 1..Len(p) : p[i].op = "destroyed" => p[i].conn \in B
<1>2. SUFFICES ASSUME NEW l \in IoLoops, Told(l)', loop'[l].pc \notin {"new", "poll"}
               PROVE  Left(loop'[l].pending, stop'.behind)
  BY DEF Reached
<1>3. Changes(l) /\ l \in Loops /\ loop[l].pending \in Seq(FunctorSet)
  BY ZenonT(30), <1>1, LoopChanges, LoopsTyped, WorkTyped
<1>4. CASE QuitLoop /\ l = stop.at
  <2>1. loop'[l].pc = loop[l].pc /\ loop'[l].pending = loop[l].pending
    BY ZenonT(30), <1>1, <1>4, QuitLoops DEF SetLoop
  <2>2. Running(l)
    <3>1. ~ Told(l)
      BY Zenon, <1>1, <1>4, ToldMoves
    <3>2. loop[l].pc # "ended" /\ loop[l].pc \in {"new", "poll", "run", "number", "store", "ended"}
      BY Zenon, <1>1, <1>3, <3>1 DEF Joined, TypeOK, LoopState
    <3> QED
      BY SMTT(30), <1>2, <2>1, <3>2 DEF Running
  <2>3. stop'.behind = stop.behind \cup Behind(l)
    BY ZenonT(30), <1>1, <1>4 DEF QuitLoop, TypeOK
  <2>4. ASSUME NEW i \in 1..Len(loop[l].pending), loop[l].pending[i].op = "destroyed"
        PROVE  loop[l].pending[i].conn \in Behind(l)
    <3>1. loop[l].pending[i] \in FunctorSet /\ i \in DOMAIN loop[l].pending
      BY <1>3, <2>4
    <3>2. loop[l].pending[i].conn \in Conns
      BY Zenon, <3>1 DEF FunctorSet
    <3> QED
      BY Zenon, <2>2, <2>4, <3>1, <3>2 DEF Behind
  <2> QED
    BY ZenonT(30), <2>1, <2>3, <2>4
<1>5. CASE ~ (QuitLoop /\ l = stop.at)
  <2>1. Told(l)
    BY ZenonT(30), <1>1, <1>2, <1>5, StopMoves, ToldMoves
  <2>2. stop.behind \subseteq stop'.behind
    <3>1. CASE QuitLoop
      <4>1. stop'.behind = stop.behind \cup Behind(stop.at)
        BY ZenonT(30), <1>1, <3>1 DEF QuitLoop, TypeOK
      <4> QED
        BY Zenon, <4>1
    <3>2. CASE StopServer \/ JoinLoop \/ stop' = stop
      <4>1. stop'.behind = stop.behind
        BY ZenonT(30), <1>1, <3>2 DEF StopServer, JoinLoop, TypeOK
      <4> QED
        BY Zenon, <4>1
    <3> QED
      BY Zenon, <1>1, <3>1, <3>2, StopMoves
  <2>3. loop[l].pc \notin {"new", "poll"} => Left(loop[l].pending, stop'.behind)
    BY Zenon, <1>1, <2>1, <2>2 DEF Reached
  <2>4. CASE loop'[l].pending = loop[l].pending /\ (loop[l].pc \in {"new", "poll"} => loop'[l].pc \in {"new", "poll"})
    BY Zenon, <1>2, <2>3, <2>4
  <2>5. CASE loop'[l].pending = << >>
    BY <2>5
  <2>6. ASSUME NEW f, f.op # "destroyed", loop'[l].pending = Append(loop[l].pending, f), loop'[l].pc = loop[l].pc
        PROVE  Left(loop'[l].pending, stop'.behind)
    <3>1. Left(loop[l].pending, stop'.behind)
      BY Zenon, <1>2, <2>3, <2>6
    <3> QED
      BY <1>3, <2>6, <3>1
  <2> QED
    BY ZenonT(30), <1>3, <2>1, <2>4, <2>5, <2>6 DEF Changes
<1> QED
  BY Zenon, <1>4, <1>5

(***************************************************************************)
(* Every step keeps the invariant: the numbers of the sessions             *)
(***************************************************************************)

\* What is used about sets of loops.
CardFacts ==
    \A B \in SUBSET IoLoops :
      /\ Cardinality(B) \in Nat
      /\ \A l \in IoLoops \ B : Cardinality(B \cup {l}) = Cardinality(B) + 1 /\ Cardinality(B) < NThreads

\* The steps other than those of onConnection leave the loops that are in it.
LEMMA BetweenKept ==
    ASSUME IInv, [Next]_vars, ~ (\E l \in Loops : Established(l) \/ TestNumber(l) \/ StoreNumber(l))
    PROVE  Between' = Between
<1>1. TypeOK /\ Placed /\ Joined
  BY Zenon DEF IInv
<1>2. ASSUME \A l \in IoLoops : loop'[l].pc \in {"number", "store"} <=> loop[l].pc \in {"number", "store"}
      PROVE  Between' = Between
  BY Zenon, <1>2 DEF Between
<1>3. ASSUME NEW m \in Loops, NEW pc, NEW b, NEW p, NEW q, SetLoop(loop, loop', m, pc, b, p, q),
             pc \in {"number", "store"} <=> loop[m].pc \in {"number", "store"}
      PROVE  Between' = Between
  BY Zenon, <1>2, <1>3, LoopsTyped DEF SetLoop
<1>4. ASSUME NEW m \in Loops, LoopBegins(m) PROVE Between' = Between
  <2>1. SetLoop(loop, loop', m, "poll", loop[m].batch, loop[m].pending, FALSE) /\ loop[m].pc = "new"
    BY ZenonT(30), <1>1, <1>4, QuietLoops DEF LoopBegins
  <2> QED
    BY ZenonT(30), <1>3, <2>1
<1>5. ASSUME NEW m \in Loops, TakeBatch(m) PROVE Between' = Between
  <2>1. SetLoop(loop, loop', m, "run", loop[m].pending, << >>, loop[m].quit) /\ loop[m].pc = "poll"
    BY ZenonT(30), <1>1, <1>5, QuietLoops DEF TakeBatch
  <2> QED
    BY Zenon, <1>3, <2>1
<1>6. ASSUME NEW m \in Loops, EndBatch(m) PROVE Between' = Between
  <2>1. PICK pc \in {"ended", "poll"} : SetLoop(loop, loop', m, pc, loop[m].batch, loop[m].pending, loop[m].quit)
    BY ZenonT(30), <1>1, <1>6, QuietLoops
  <2> QED
    BY Zenon, <1>3, <1>6, <2>1 DEF EndBatch
<1>7. ASSUME NEW m \in Loops, Send(m) \/ Destroy(m) PROVE Between' = Between
  <2>1. SetLoop(loop, loop', m, "run", Tail(loop[m].batch), loop[m].pending, loop[m].quit) /\ loop[m].pc = "run"
    BY ZenonT(30), <1>1, <1>7, RunLoops DEF Send, Destroy, Runs
  <2> QED
    BY Zenon, <1>3, <2>1
<1>8. CASE RemoveFromDeadServer
  <2>1. SetLoop(loop, loop', 0, "run", Tail(loop[0].batch), loop[0].pending, loop[0].quit) /\ loop[0].pc = "run"
    BY Zenon, <1>1, <1>8, RunLoops, LoopsTyped DEF RemoveFromDeadServer, Runs
  <2> QED
    BY Zenon, <1>3, <2>1, LoopsTyped
<1>9. CASE QuitLoop
  BY ZenonT(30), <1>1, <1>3, <1>9, QuitLoops
<1>10. ASSUME NEW c \in Conns, (Accept /\ c = accepted + 1) \/ Answer(c) \/ HandleClose(c) \/ DestroyNext(c)
       PROVE  Between' = Between
  BY ZenonT(30), <1>1, <1>3, <1>10, PushLoops, LoopsTyped
<1>11. CASE RemoveConnection
  <2> DEFINE c == First(0).conn
  <2>1. /\ LoopOf(c) # 0 /\ LoopOf(c) \in Loops /\ 0 \in Loops
        /\ SetLoop(loop, Ran(0), 0, "run", Tail(loop[0].batch), loop[0].pending, loop[0].quit)
        /\ SetLoop(Ran(0), loop', LoopOf(c), loop[LoopOf(c)].pc, loop[LoopOf(c)].batch,
                   Append(loop[LoopOf(c)].pending, Functor("destroyed", c, 0)), loop[LoopOf(c)].quit)
    BY Zenon, <1>1, <1>11, RemoveLoops, LoopsTyped
  <2> HIDE DEF c
  <2>2. \A l \in IoLoops : loop'[l].pc = loop[l].pc
    BY Zenon, <2>1, LoopsTyped DEF SetLoop
  <2> QED
    BY Zenon, <1>2, <2>2
<1>12. CASE StopServer
  BY ZenonT(30), <1>1, <1>3, <1>12, StopLoops, LoopsTyped
<1>13. CASE loop' = loop
  BY Zenon, <1>2, <1>13
<1>14. CASE Quiet
  BY ZenonT(30), <1>4, <1>5, <1>6, <1>9, <1>12, <1>13, <1>14 DEF Quiet, JoinLoop, AnswerToDeadLoop, vars
<1>15. CASE Accept
  BY Zenon, <1>1, <1>10, <1>15, StepWork
<1> QED
  BY SMTT(30), <1>1, <1>7, <1>8, <1>10, <1>11, <1>13, <1>14, <1>15, StepCases DEF HandleWrite

\* Only connectEstablished gives a connection a session with a number.
LEMMA NumbersKept ==
    ASSUME IInv, [Next]_vars, ~ (\E l \in Loops : Established(l)), NEW c \in Conns
    PROVE  /\ conn'[c].session # "none" => conn[c].session # "none"
           /\ conn'[c].number = conn[c].number /\ conn'[c].epoch = conn[c].epoch
<1>1. TypeOK /\ Placed /\ Batches /\ Joined /\ Lives /\ conn[c] \in ConnState
  BY Zenon DEF IInv, TypeOK
<1>2. ASSUME NEW l \in Loops, Send(l)
      PROVE  /\ conn'[c].session # "none" => conn[c].session # "none"
             /\ conn'[c].number = conn[c].number /\ conn'[c].epoch = conn[c].epoch
  <2>1. PICK d : d = First(l).conn
    OBVIOUS
  <2>2. PICK k \in SendInLoop(conn[d], First(l).msg) : SetConn(d, k)
    BY <1>1, <1>2, <2>1, StepConns, ZenonT(30)
  <2> QED
    BY <1>1, <2>2, ConnFields DEF SetConn
<1>3. ASSUME NEW l \in Loops, Destroy(l)
      PROVE  /\ conn'[c].session # "none" => conn[c].session # "none"
             /\ conn'[c].number = conn[c].number /\ conn'[c].epoch = conn[c].epoch
  <2>1. PICK d : d = First(l).conn
    OBVIOUS
  <2>2. SetConn(d, Destroyed(conn[d]))
    BY <1>1, <1>3, <2>1, StepConns, ZenonT(30)
  <2>3. conn[c].state = "connected" => conn[c].session # "none"
    BY Zenon, <1>1 DEF Lives, Life, ConnState
  <2> QED
    BY <1>1, <2>2, <2>3, ConnFields DEF SetConn
<1>4. ASSUME NEW d \in Conns, HandleClose(d)
      PROVE  /\ conn'[c].session # "none" => conn[c].session # "none"
             /\ conn'[c].number = conn[c].number /\ conn'[c].epoch = conn[c].epoch
  <2>1. SetConn(d, Down(conn[d]))
    BY ZenonT(30), <1>1, <1>4, StepConns
  <2>2. conn[d].session # "none"
    BY Zenon, <1>1, <1>4 DEF HandleClose, Lives, Life
  <2> QED
    BY SMTT(30), <1>1, <2>1, <2>2, ConnFields DEF SetConn
<1>5. ASSUME NEW d \in Conns, HandleWrite(d)
      PROVE  /\ conn'[c].session # "none" => conn[c].session # "none"
             /\ conn'[c].number = conn[c].number /\ conn'[c].epoch = conn[c].epoch
  <2>1. PICK w, b, k : SetConn(d, k) /\ k = [conn[d] EXCEPT !.written = w, !.buffer = b]
    BY ZenonT(30), <1>1, <1>5, StepConns
  <2>2. c = d => k.session = conn[c].session /\ k.number = conn[c].number /\ k.epoch = conn[c].epoch
    BY <1>1, <2>1, ConnFields
  <2> QED
    BY ZenonT(30), <2>1, <2>2 DEF SetConn
<1>6. Quiet \/ Accept \/ RemoveConnection \/ RemoveFromDeadServer \/ (\E d \in Conns : Answer(d) \/ DestroyNext(d))
        => conn' = conn
  BY ZenonT(30), <1>1, QuietWork DEF Accept, DestroyNext, RemoveConnection, RemoveFromDeadServer, Answer
<1> QED
  BY ZenonT(30), <1>1, <1>2, <1>3, <1>4, <1>5, <1>6, StepCases

\* A number is given out once between two times that counter_port is set back, and counter_port passes
\* the last number only while loops are about to set it back.
LEMMA StepNumbered ==
    ASSUME CardFacts, IInv, [Next]_vars
    PROVE  Numbered'
<1>1. TypeOK /\ Placed /\ Batches /\ Joined /\ Lives /\ Numbered
  BY Zenon DEF IInv
<1>2. /\ counter_port \in Nat /\ stores \in Nat /\ LastNumber \in Nat /\ NThreads \in Nat
      /\ \A c \in Conns : conn[c].number \in Nat /\ conn[c].epoch \in Nat
  BY Zenon, <1>1, TcpAssumption DEF TypeOK, ConnState
<1>3. Cardinality(Between) \in Nat /\ Between \subseteq IoLoops /\ Cardinality(Between') \in Nat /\ Between' \subseteq IoLoops
  BY Zenon DEF CardFacts, Between
<1>4. CASE \E l \in Loops : Established(l)
  <2>1. PICK l \in Loops : Established(l)
    BY Zenon, <1>4
  <2>2. PICK d : d = First(l).conn
    OBVIOUS
  <2>3. PICK k : /\ SetConn(d, k) /\ k.state = "connected" /\ k.channel = "on" /\ k.session = "working"
                 /\ k.number = counter_port /\ k.epoch = stores
                 /\ k.written = conn[d].written /\ k.buffer = conn[d].buffer
    BY <1>1, <2>1, <2>2, StepConns, ZenonT(30)
  <2>4. counter_port' = counter_port + 1 /\ stores' = stores /\ loop[l].pc = "run"
    BY <2>1 DEF Established, NextNumber, Runs
  <2>5. d \in Conns /\ l \in IoLoops
    BY <1>1, <2>1, <2>2, RunsFirst, LoopsTyped DEF Established
  <2>6. l \notin Between
    BY Zenon, <2>4 DEF Between
  <2>7. Between' = Between \cup {l}
    <3>1. SetLoop(loop, loop', l, "number", Tail(loop[l].batch), loop[l].pending, loop[l].quit)
      BY Zenon, <1>1, <2>1, RunLoops
    <3> QED
      BY Zenon, <2>5, <3>1, LoopsTyped DEF SetLoop, Between
  <2>8. Cardinality(Between') = Cardinality(Between) + 1 /\ Cardinality(Between) < NThreads
    BY Zenon, <1>3, <2>5, <2>6, <2>7 DEF CardFacts
  <2>9. counter_port <= LastNumber + Cardinality(Between)
    BY Zenon, <1>1 DEF Numbered
  <2>10. counter_port' <= LastNumber + Cardinality(Between')
    BY <1>2, <1>3, <2>4, <2>8, <2>9
  <2>11. counter_port < LastNumber + NThreads
    BY <1>2, <1>3, <2>8, <2>9
  <2>12. \A c \in Conns : conn[c].session # "none" /\ conn[c].epoch = stores => conn[c].number < counter_port /\ conn[c].number # counter_port
    BY <1>1, <1>2 DEF Numbered
  <2>13. ASSUME NEW c \in Conns, conn'[c].session # "none"
         PROVE  /\ conn'[c].number < LastNumber + NThreads /\ conn'[c].epoch <= stores'
                /\ conn'[c].epoch = stores' => conn'[c].number < counter_port'
                /\ \A e \in Conns \ {c} :
                     conn'[e].session # "none" /\ conn'[e].number = conn'[c].number => conn'[e].epoch # conn'[c].epoch
    <3>1. CASE c = d
      <4>1. conn'[c].number = counter_port /\ conn'[c].epoch = stores
        BY Zenon, <2>3, <3>1 DEF SetConn
      <4>2. \A e \in Conns \ {c} : conn'[e] = conn[e]
        BY Zenon, <2>3, <3>1 DEF SetConn
      <4>3. counter_port < counter_port' /\ stores <= stores'
        BY <1>2, <2>4
      <4> QED
        BY Zenon, <2>4, <2>11, <2>12, <4>1, <4>2, <4>3
    <3>2. CASE c # d
      <4>1. conn'[c] = conn[c]
        BY Zenon, <2>3, <3>2 DEF SetConn
      <4>2. /\ conn[c].number < LastNumber + NThreads /\ conn[c].epoch <= stores
            /\ conn[c].epoch = stores => conn[c].number < counter_port /\ conn[c].number < counter_port + 1
        BY <1>1, <1>2, <2>13, <4>1 DEF Numbered
      <4>3. ASSUME NEW e \in Conns \ {c}, conn'[e].session # "none", conn'[e].number = conn[c].number
            PROVE  conn'[e].epoch # conn[c].epoch
        <5>1. CASE e = d
          BY Zenon, <2>3, <2>12, <2>13, <4>1, <4>3, <5>1 DEF SetConn
        <5>2. CASE e # d
          <6>1. conn'[e] = conn[e]
            BY Zenon, <2>3, <4>3, <5>2 DEF SetConn
          <6> QED
            BY ZenonT(30), <1>1, <2>13, <4>1, <4>3, <6>1 DEF Numbered
        <5> QED
          BY Zenon, <5>1, <5>2
      <4> QED
        BY ZenonT(30), <2>4, <4>1, <4>2, <4>3
    <3> QED
      BY Zenon, <3>1, <3>2
  <2> QED
    BY Zenon, <2>10, <2>13 DEF Numbered
<1>5. CASE ~ (\E l \in Loops : Established(l))
  <2>1. \A c \in Conns : /\ conn'[c].session # "none" => conn[c].session # "none"
                         /\ conn'[c].number = conn[c].number /\ conn'[c].epoch = conn[c].epoch
    BY Zenon, <1>5, NumbersKept
  <2>2. CASE \E l \in Loops : StoreNumber(l)
    <3>1. counter_port' = 0 /\ stores' = stores + 1
      BY Zenon, <2>2 DEF StoreNumber
    <3>2. counter_port' <= LastNumber + Cardinality(Between')
      BY <1>2, <1>3, <3>1
    <3>3. \A c \in Conns : conn[c].session # "none" =>
            conn[c].number < LastNumber + NThreads /\ conn[c].epoch <= stores + 1 /\ conn[c].epoch # stores + 1
      BY <1>1, <1>2 DEF Numbered
    <3> QED
      BY <1>1, <2>1, <3>1, <3>2, <3>3 DEF Numbered
  <2>3. CASE \E l \in Loops : TestNumber(l)
    <3>1. PICK l \in Loops : TestNumber(l)
      BY Zenon, <2>3
    <3>2. counter_port' = counter_port /\ stores' = stores
      BY Zenon, <3>1 DEF TestNumber
    <3>3. counter_port' <= LastNumber + Cardinality(Between')
      <4>1. CASE counter_port > LastNumber
        <5>1. SetLoop(loop, loop', l, "store", loop[l].batch, loop[l].pending, loop[l].quit) /\ loop[l].pc = "number"
          BY ZenonT(30), <1>1, <3>1, <4>1, QuietLoops DEF TestNumber
        <5>2. Between' = Between
          BY Zenon, <5>1, LoopsTyped DEF SetLoop, Between
        <5> QED
          BY Zenon, <1>1, <3>2, <5>2 DEF Numbered
      <4>2. CASE ~ (counter_port > LastNumber)
        BY <1>2, <1>3, <3>2, <4>2
      <4> QED
        BY Zenon, <4>1, <4>2
    <3> QED
      BY <1>1, <2>1, <3>2, <3>3 DEF Numbered
  <2>4. CASE ~ (\E l \in Loops : Established(l) \/ TestNumber(l) \/ StoreNumber(l))
    <3>1. Between' = Between
      BY Zenon, <2>4, BetweenKept
    <3>2. counter_port' = counter_port /\ stores' = stores
      BY ZenonT(30), <1>1, <2>4, StepCases
         DEF Quiet, LoopBegins, TakeBatch, EndBatch, QuitLoop, JoinLoop, AnswerToDeadLoop, vars, Accept, StopServer, DestroyNext, RemoveConnection, RemoveFromDeadServer, Answer, Send, Destroy, HandleClose, HandleWrite
    <3> QED
      BY <1>1, <2>1, <3>1, <3>2 DEF Numbered
  <2> QED
    BY Zenon, <1>5, <2>2, <2>3, <2>4
<1> QED
  BY Zenon, <1>4, <1>5

(***************************************************************************)
(* Every step keeps the invariant: the order of the answers                *)
(***************************************************************************)

\* What was written and what is in the buffer of connection c, and what AnswersInOrder says of it.
Sent(c) == conn[c].written \o conn[c].buffer

Ordered(c) ==
    /\ \A i, j \in 1..Len(Sent(c)) : i < j => Sent(c)[i] < Sent(c)[j]
    /\ \A i \in 1..Len(Sent(c)), j \in Places(LoopOf(c), "send", c) : Sent(c)[i] < Work(LoopOf(c))[j].msg
    /\ \A i, j \in Places(LoopOf(c), "send", c) : i < j => Work(LoopOf(c))[i].msg < Work(LoopOf(c))[j].msg

\* AnswersInOrder and Answered are about each connection.
LEMMA OrderedEach ==
    /\ AnswersInOrder <=> \A c \in 1..accepted : Ordered(c)
    /\ AnswersInOrder' <=> \A c \in 1..accepted' : Ordered(c)'
    /\ Answered <=> \A c \in Conns : \A i \in 1..Len(Sent(c)) : Sent(c)[i] <= answers
    /\ Answered' <=> \A c \in Conns : \A i \in 1..Len(Sent(c)') : Sent(c)'[i] <= answers'
  BY Zenon DEF AnswersInOrder, Ordered, Sent, Answered

\* What was sent through a connection is a sequence of answers.
LEMMA SentTyped ==
    ASSUME TypeOK, NEW c \in Conns
    PROVE  /\ conn[c].written \in Seq(Nat) /\ conn[c].buffer \in Seq(Nat) /\ Sent(c) \in Seq(Nat)
           /\ Len(Sent(c)) \in Nat /\ \A i \in 1..Len(Sent(c)) : Sent(c)[i] \in Nat
<1>1. conn[c].written \in Seq(Nat) /\ conn[c].buffer \in Seq(Nat)
  BY Zenon DEF TypeOK, ConnState
<1>2. Sent(c) \in Seq(Nat)
  BY <1>1 DEF Sent
<1> QED
  BY <1>1, <1>2

\* The elements of a concatenation.
LEMMA Concat ==
    ASSUME NEW s \in Seq(Nat), NEW t \in Seq(Nat)
    PROVE  /\ s \o t \in Seq(Nat) /\ Len(s \o t) = Len(s) + Len(t) /\ Len(s) \in Nat /\ Len(t) \in Nat
           /\ \A i \in 1..Len(s) : (s \o t)[i] = s[i]
           /\ \A i \in 1..Len(t) : (s \o t)[Len(s) + i] = t[i]
  OBVIOUS

\* What handleWrite writes moves from the buffer, in its order.
LEMMA WriteMoves ==
    ASSUME NEW w \in Seq(Nat), NEW b \in Seq(Nat), NEW n \in 1..Len(b)
    PROVE  /\ Len((w \o SubSeq(b, 1, n)) \o SubSeq(b, n + 1, Len(b))) = Len(w \o b)
           /\ \A i \in 1..Len(w \o b) : ((w \o SubSeq(b, 1, n)) \o SubSeq(b, n + 1, Len(b)))[i] = (w \o b)[i]
<1>1. n \in Nat /\ n <= Len(b) /\ n >= 1 /\ Len(w) \in Nat /\ Len(b) \in Nat
  OBVIOUS
<1>2. SubSeq(b, 1, n) \in Seq(Nat) /\ Len(SubSeq(b, 1, n)) = n /\ \A i \in 1..n : SubSeq(b, 1, n)[i] = b[i]
  BY <1>1
<1>3. /\ SubSeq(b, n + 1, Len(b)) \in Seq(Nat) /\ Len(SubSeq(b, n + 1, Len(b))) = Len(b) - n
      /\ \A i \in 1..(Len(b) - n) : SubSeq(b, n + 1, Len(b))[i] = b[n + i]
  BY <1>1
<1>4. ASSUME NEW s \in Seq(Nat), NEW t \in Seq(Nat), Len(s) = n, Len(t) = Len(b) - n,
             \A i \in 1..n : s[i] = b[i], \A i \in 1..(Len(b) - n) : t[i] = b[n + i]
      PROVE  Len((w \o s) \o t) = Len(w \o b) /\ \A i \in 1..Len(w \o b) : ((w \o s) \o t)[i] = (w \o b)[i]
  <2> DEFINE x == w \o s
             y == x \o t
             z == w \o b
  <2>1. /\ x \in Seq(Nat) /\ Len(x) = Len(w) + n
        /\ \A i \in 1..Len(w) : x[i] = w[i]
        /\ \A i \in 1..n : x[Len(w) + i] = s[i]
    <3>1. /\ x \in Seq(Nat) /\ Len(x) = Len(w) + Len(s)
          /\ \A i \in 1..Len(w) : x[i] = w[i]
          /\ \A i \in 1..Len(s) : x[Len(w) + i] = s[i]
      BY Zenon, Concat
    <3> QED
      BY <1>4, <3>1, Zenon
  <2>2. Len(z) = Len(w) + Len(b) /\ (\A i \in 1..Len(w) : z[i] = w[i]) /\ \A i \in 1..Len(b) : z[Len(w) + i] = b[i]
    BY Zenon, Concat
  <2> HIDE DEF x, z
  <2>3. /\ Len(y) = (Len(w) + n) + (Len(b) - n) /\ \A i \in 1..(Len(w) + n) : y[i] = x[i]
        /\ \A i \in 1..(Len(b) - n) : y[(Len(w) + n) + i] = t[i]
    <3>1. /\ Len(y) = Len(x) + Len(t) /\ \A i \in 1..Len(x) : y[i] = x[i]
          /\ \A i \in 1..Len(t) : y[Len(x) + i] = t[i]
      BY ZenonT(30), <2>1, Concat
    <3> QED
      BY <1>4, <2>1, <3>1, Zenon
  <2> HIDE DEF y
  <2>4. ASSUME NEW i \in 1..Len(z) PROVE y[i] = z[i]
    <3>1. CASE i <= Len(w)
      BY SMTT(30), <1>1, <2>1, <2>2, <2>3, <3>1
    <3>2. CASE i > Len(w) /\ i <= Len(w) + n
      <4>1. PICK j \in 1..n : i = Len(w) + j
        <5>1. i - Len(w) \in 1..n /\ i = Len(w) + (i - Len(w))
          BY <1>1, <2>2, <3>2
        <5> QED
          BY ZenonT(30), <5>1
      <4>2. j \in 1..Len(b) /\ i \in 1..(Len(w) + n)
        BY <1>1, <4>1
      <4>3. y[i] = x[i] /\ x[i] = s[j] /\ z[i] = b[j]
        BY ZenonT(30), <2>1, <2>2, <2>3, <4>1, <4>2
      <4> QED
        BY <1>4, <4>1, <4>3
    <3>3. CASE i > Len(w) + n
      <4>1. PICK j \in 1..(Len(b) - n) : i = (Len(w) + n) + j /\ i = Len(w) + (n + j) /\ n + j \in 1..Len(b)
        <5>1. /\ i - (Len(w) + n) \in 1..(Len(b) - n) /\ i = (Len(w) + n) + (i - (Len(w) + n))
              /\ i = Len(w) + (n + (i - (Len(w) + n))) /\ n + (i - (Len(w) + n)) \in 1..Len(b)
          BY <1>1, <2>2, <3>3
        <5> QED
          BY ZenonT(30), <5>1
      <4>2. y[i] = t[j] /\ z[i] = b[n + j]
        BY ZenonT(30), <2>2, <2>3, <4>1
      <4> QED
        BY ZenonT(30), <1>4, <4>1, <4>2
    <3> QED
      BY SMTT(30), <1>1, <2>2, <3>1, <3>2, <3>3
  <2>5. Len(y) = Len(z)
    BY <1>1, <2>2, <2>3
  <2> QED
    BY SMTT(30), <2>4, <2>5 DEF x, y, z
<1> QED
  BY ZenonT(30), <1>2, <1>3, <1>4

\* The answers queued for c in loop l after the step were queued there before, in the same order.
QueueMoves(l, c) ==
    \E d \in {0, 1} : \A i \in Places(l, "send", c)' :
      i \in Int /\ i + d \in Places(l, "send", c) /\ Work(l)'[i].msg = Work(l)[i + d].msg

\* What the steps that queue no answer for c do to those queued.
LEMMA QueueSteps ==
    ASSUME TypeOK, NEW l \in Loops, NEW c,
           \/ Work(l)' = Work(l)
           \/ \E f : Pushed(Work(l), Work(l)', f) /\ (f.op # "send" \/ f.conn # c)
           \/ Popped(Work(l), Work(l)')
    PROVE  QueueMoves(l, c)
<1>1. Len(Work(l)) \in Nat /\ \A i \in Places(l, "send", c) : i \in 1..Len(Work(l))
  BY Zenon, WorkElement DEF Places
<1>2. ASSUME \A i \in Places(l, "send", c)' : i \in Places(l, "send", c) /\ Work(l)'[i].msg = Work(l)[i].msg
      PROVE  QueueMoves(l, c)
  <2>1. \A i \in Places(l, "send", c)' :
           i \in Int /\ i + 0 \in Places(l, "send", c) /\ Work(l)'[i].msg = Work(l)[i + 0].msg
    BY <1>1, <1>2
  <2> QED
    BY Zenon, <2>1 DEF QueueMoves
<1>3. CASE Work(l)' = Work(l)
  BY Zenon, <1>2, <1>3 DEF Places
<1>4. ASSUME NEW f, Pushed(Work(l), Work(l)', f), f.op # "send" \/ f.conn # c PROVE QueueMoves(l, c)
  <2>1. Places(l, "send", c)' = Places(l, "send", c)
    BY Zenon, <1>1, <1>4, PushedPlaces
  <2> QED
    BY Zenon, <1>1, <1>2, <1>4, <2>1 DEF Pushed
<1>5. CASE Popped(Work(l), Work(l)')
  <2>1. Places(l, "send", c)' = {i \in 1..(Len(Work(l)) - 1) : i + 1 \in Places(l, "send", c)}
    BY Zenon, <1>1, <1>5, PoppedPlaces
  <2>2. \A i \in Places(l, "send", c)' :
           i \in Int /\ i + 1 \in Places(l, "send", c) /\ Work(l)'[i].msg = Work(l)[i + 1].msg
    BY SMTT(30), <1>1, <1>5, <2>1 DEF Popped
  <2> QED
    BY Zenon, <2>2 DEF QueueMoves
<1> QED
  BY Zenon, <1>3, <1>4, <1>5

\* Numbers that grow with their place do so when the places move by d.
LEMMA ShiftedOrder ==
    ASSUME NEW P, NEW Q, NEW d \in Int, NEW w, NEW v, \A i, j \in P : i < j => w[i].msg < w[j].msg,
           \A i \in Q : i \in Int /\ i + d \in P /\ v[i].msg = w[i + d].msg
    PROVE  \A i, j \in Q : i < j => v[i].msg < v[j].msg
<1>1. SUFFICES ASSUME NEW i \in Q, NEW j \in Q, i < j PROVE v[i].msg < v[j].msg
  BY Zenon
<1>2. i + d < j + d
  BY <1>1
<1>3. w[i + d].msg < w[j + d].msg
  BY Zenon, <1>2
<1> QED
  BY Zenon, <1>3

\* Numbers that grow with their place do so when a greater one is put at the end.
LEMMA PushedOrder ==
    ASSUME NEW s, NEW t, NEW n \in Nat, NEW m, \A i, j \in 1..n : i < j => s[i] < s[j],
           \A i \in 1..n : t[i] = s[i] /\ s[i] < m, t[n + 1] = m
    PROVE  \A i, j \in 1..(n + 1) : i < j => t[i] < t[j]
<1>1. SUFFICES ASSUME NEW i \in 1..(n + 1), NEW j \in 1..(n + 1), i < j PROVE t[i] < t[j]
  BY Zenon
<1>2. i \in 1..n /\ (j \in 1..n \/ j = n + 1)
  BY <1>1
<1> QED
  BY Zenon, <1>1, <1>2

\* A step that keeps what was sent and moves the queue keeps the order.
LEMMA OrderKept ==
    ASSUME TypeOK, NEW c \in Conns, Ordered(c), QueueMoves(LoopOf(c), c), Len(Sent(c)') = Len(Sent(c)),
           \A i \in 1..Len(Sent(c)) : Sent(c)'[i] = Sent(c)[i]
    PROVE  Ordered(c)'
<1>1. PICK l : l = LoopOf(c)
  BY Zenon
<1>2. PICK d \in {0, 1} : \A i \in Places(l, "send", c)' :
         i \in Int /\ i + d \in Places(l, "send", c) /\ Work(l)'[i].msg = Work(l)[i + d].msg
  BY Zenon, <1>1 DEF QueueMoves
<1>3. \A i, j \in Places(l, "send", c) : i < j => Work(l)[i].msg < Work(l)[j].msg
  BY Zenon, <1>1 DEF Ordered
<1>4. \A i, j \in Places(l, "send", c)' : i < j => Work(l)'[i].msg < Work(l)'[j].msg
  BY <1>2, <1>3, ShiftedOrder
<1>5. \A i \in 1..Len(Sent(c)'), j \in Places(l, "send", c)' : Sent(c)'[i] < Work(l)'[j].msg
  BY <1>1, <1>2 DEF Ordered
<1>6. \A i, j \in 1..Len(Sent(c)') : i < j => Sent(c)'[i] < Sent(c)'[j]
  BY Zenon DEF Ordered
<1> QED
  BY ZenonT(30), <1>1, <1>4, <1>5, <1>6 DEF Ordered

\* What the invariant says of the answers of connection c.
LEMMA OrderedNow ==
    ASSUME IInv, NEW c \in Conns
    PROVE  /\ Ordered(c) /\ Len(Sent(c)) \in Nat
           /\ \A i \in 1..Len(Sent(c)) : Sent(c)[i] \in Nat /\ Sent(c)[i] <= answers
<1>1. TypeOK /\ Placed /\ Life(c) /\ Answered /\ AnswersInOrder
  BY Zenon, OwnedNow DEF IInv
<1>2. /\ Len(Sent(c)) \in Nat
      /\ \A i \in 1..Len(Sent(c)) : Sent(c)[i] \in Nat /\ Sent(c)[i] <= answers
  BY Zenon, <1>1, SentTyped, OrderedEach
<1>3. CASE c <= accepted
  <2>1. c \in 1..accepted
    BY Zenon, <1>3, OwnedNow
  <2>2. Ordered(c)
    BY Zenon, <1>1, <2>1, OrderedEach
  <2> QED
    BY Zenon, <1>2, <2>2
<1>4. CASE ~ (c <= accepted)
  <2>1. conn[c].written = << >> /\ conn[c].buffer = << >>
    BY Zenon, <1>1, <1>4, OwnedNow DEF Life
  <2>2. Sent(c) = << >> /\ Len(Sent(c)) = 0
    BY <2>1 DEF Sent
  <2>3. Places(LoopOf(c), "send", c) = {}
    BY <1>1, <1>4, LoopsTyped DEF Places, Placed
  <2> QED
    BY <1>2, <2>2, <2>3 DEF Ordered
<1> QED
  BY Zenon, <1>2, <1>3, <1>4

\* The answers of connection c are in order and were sent.
InOrder(c) == Ordered(c) /\ \A i \in 1..Len(Sent(c)) : Sent(c)[i] <= answers

\* A step that keeps what was sent through c and queues no answer for it.
LEMMA OrderStays ==
    ASSUME IInv, [Next]_vars, NEW c \in Conns, QueueMoves(LoopOf(c), c), Len(Sent(c)') = Len(Sent(c)),
           \A i \in 1..Len(Sent(c)) : Sent(c)'[i] = Sent(c)[i]
    PROVE  InOrder(c)'
<1>1. TypeOK /\ Ordered(c) /\ answers \in Nat
  BY Zenon, OrderedNow DEF IInv, TypeOK
<1>2. answers' \in {answers, answers + 1}
  BY Zenon, SessionsKept
<1>3. \A i \in 1..Len(Sent(c)) : Sent(c)[i] <= answers'
  BY <1>1, <1>2, OrderedNow
<1>4. Ordered(c)'
  BY Zenon, <1>1, OrderKept
<1> QED
  BY Zenon, <1>3, <1>4 DEF InOrder

\* An answer is queued behind those queued before.
LEMMA AnswerOrder ==
    ASSUME IInv, [Next]_vars, NEW c \in Conns, Answer(c)
    PROVE  InOrder(c)'
<1>1. TypeOK /\ Placed /\ answers \in Nat
  BY Zenon DEF IInv, TypeOK
<1>2. PICK m : m = answers + 1
  BY Zenon
<1>3. PICK l \in Loops : l = LoopOf(c)
  BY Zenon, LoopsTyped
<1>4. Pushed(Work(l), Work(l)', Functor("send", c, m)) /\ Len(Work(l)) \in Nat
  BY ZenonT(30), <1>1, <1>2, <1>3, StepWork, WorkElement DEF PushStep
<1>5. Sent(c)' = Sent(c) /\ answers' = m
  BY Zenon, <1>2 DEF Answer, Sent
<1>6. Places(l, "send", c)' = Places(l, "send", c) \cup {Len(Work(l)) + 1}
  BY <1>4, PushedPlaces DEF Functor
<1>7. Work(l)'[Len(Work(l)) + 1].msg = m
  BY <1>4 DEF Pushed, Functor
<1>8. /\ \A i \in Places(l, "send", c) : Work(l)'[i] = Work(l)[i] /\ i \in 1..Len(Work(l))
      /\ \A i \in Places(l, "send", c) : Work(l)[i].msg \in Nat /\ Work(l)[i].msg <= answers
  BY Zenon, <1>1, <1>4, WorkElement DEF Pushed, Places, Placed, FunctorSet
<1>9. \A i \in Places(l, "send", c) : Work(l)[i].msg < m /\ i < Len(Work(l)) + 1 /\ ~ (Len(Work(l)) + 1 < i)
  BY <1>1, <1>2, <1>4, <1>8
<1>10. ASSUME NEW i \in 1..Len(Sent(c)) PROVE Sent(c)[i] < m /\ Sent(c)[i] <= m
  BY <1>1, <1>2, OrderedNow
<1>11. Ordered(c)
  BY Zenon, OrderedNow
<1>12. \A i, j \in Places(l, "send", c)' : i < j => Work(l)'[i].msg < Work(l)'[j].msg
  <2>1. ~ (Len(Work(l)) + 1 < Len(Work(l)) + 1)
    BY <1>4
  <2> QED
    BY SMTT(30), <1>3, <1>6, <1>7, <1>8, <1>9, <1>11, <2>1 DEF Ordered
<1>13. \A i \in 1..Len(Sent(c)), j \in Places(l, "send", c)' : Sent(c)[i] < Work(l)'[j].msg
  BY SMTT(30), <1>3, <1>6, <1>7, <1>8, <1>10, <1>11 DEF Ordered
<1>14. \A i, j \in 1..Len(Sent(c)) : i < j => Sent(c)[i] < Sent(c)[j]
  BY Zenon, <1>11 DEF Ordered
<1>15. Ordered(c)'
  BY ZenonT(30), <1>3, <1>5, <1>12, <1>13, <1>14 DEF Ordered
<1> QED
  BY ZenonT(30), <1>5, <1>10, <1>15 DEF InOrder

\* sendInLoop takes the first answer that is queued: it is written or kept behind the others, or lost.
LEMMA SendOrder ==
    ASSUME IInv, [Next]_vars, NEW l \in Loops, Send(l), NEW c, c = First(l).conn
    PROVE  InOrder(c)'
<1>1. TypeOK /\ Placed /\ answers \in Nat
  BY Zenon DEF IInv, TypeOK
<1>2. PICK m : m = First(l).msg
  OBVIOUS
<1>3. PICK k \in SendInLoop(conn[c], m) : SetConn(c, k)
  BY <1>1, <1>2, StepConns, ZenonT(30)
<1>4. /\ c \in Conns /\ l = LoopOf(c) /\ 1 \in Places(l, "send", c) /\ m = Work(l)[1].msg /\ m <= answers /\ m \in Nat
      /\ Popped(Work(l), Work(l)') /\ Len(Work(l)) \in Nat /\ answers' = answers
  BY ZenonT(30), <1>1, <1>2, RunsFirst, StepWork, WorkElement DEF Send, PopStep, FunctorSet
<1>5. /\ conn[c] \in ConnState /\ conn[c].written \in Seq(Nat) /\ conn[c].buffer \in Seq(Nat) /\ Ordered(c)
      /\ Len(Sent(c)) \in Nat /\ \A i \in 1..Len(Sent(c)) : Sent(c)[i] \in Nat /\ Sent(c)[i] <= answers
  <2>1. conn[c] \in ConnState
    BY ZenonT(30), <1>1, <1>4 DEF TypeOK
  <2>2. conn[c].written \in Seq(Nat) /\ conn[c].buffer \in Seq(Nat)
    BY SMTT(30), <2>1 DEF ConnState
  <2> QED
    BY <1>4, <2>1, <2>2, OrderedNow, Zenon
<1>6. \/ Sent(c)' = Sent(c)
      \/ Pushed(Sent(c), Sent(c)', m)
  <2>1. conn'[c] = k
    BY SMTT(30), <1>3 DEF SetConn
  <2>2. \/ k.written = conn[c].written /\ k.buffer = conn[c].buffer
        \/ k.written = Append(conn[c].written, m) /\ k.buffer = conn[c].buffer /\ conn[c].buffer = << >>
        \/ k.written = conn[c].written /\ k.buffer = Append(conn[c].buffer, m)
    <3>1. PICK q \in ConnState : q = conn[c]
      BY ZenonT(30), <1>5
    <3>2. \/ k.written = q.written /\ k.buffer = q.buffer
          \/ k.written = Append(q.written, m) /\ k.buffer = q.buffer /\ q.buffer = << >>
          \/ k.written = q.written /\ k.buffer = Append(q.buffer, m)
      BY <1>3, <3>1, ConnFields
    <3> QED
      BY Zenon, <3>1, <3>2
  <2>3. ASSUME NEW w \in Seq(Nat), NEW b \in Seq(Nat) PROVE Pushed(w \o b, w \o Append(b, m), m)
    BY Zenon, QueuedWork
  <2>4. ASSUME NEW w \in Seq(Nat) PROVE Append(w, m) \o << >> = w \o Append(<< >>, m)
    BY <1>4
  <2>5. CASE k.written = conn[c].written /\ k.buffer = conn[c].buffer
    BY Zenon, <2>1, <2>5 DEF Sent
  <2>6. CASE k.written = Append(conn[c].written, m) /\ k.buffer = << >> /\ conn[c].buffer = << >>
    <3>1. Sent(c) = conn[c].written \o << >> /\ Sent(c)' = Append(conn[c].written, m) \o << >>
      BY Zenon, <2>1, <2>6 DEF Sent
    <3>2. Pushed(conn[c].written \o << >>, conn[c].written \o Append(<< >>, m), m)
      <4>1. << >> \in Seq(Nat)
        OBVIOUS
      <4> QED
        BY ZenonT(30), <1>5, <2>3, <4>1
    <3> QED
      BY ZenonT(30), <1>5, <2>4, <3>1, <3>2
  <2>7. CASE k.written = conn[c].written /\ k.buffer = Append(conn[c].buffer, m)
    <3>1. Sent(c) = conn[c].written \o conn[c].buffer /\ Sent(c)' = conn[c].written \o Append(conn[c].buffer, m)
      BY ZenonT(30), <2>1, <2>7 DEF Sent
    <3> QED
      BY ZenonT(30), <1>5, <2>3, <3>1
  <2> QED
    BY ZenonT(30), <2>2, <2>5, <2>6, <2>7
<1>7. CASE Sent(c)' = Sent(c)
  BY SMTT(30), <1>1, <1>4, <1>7, QueueSteps, OrderStays
<1>8. CASE Pushed(Sent(c), Sent(c)', m)
  <2> DEFINE n == Len(Sent(c))
  <2>1. /\ Len(Sent(c)') = n + 1 /\ Sent(c)'[n + 1] = m
        /\ \A i \in 1..n : Sent(c)'[i] = Sent(c)[i]
    BY Zenon, <1>8 DEF Pushed
  <2>2. \A i \in 1..(n + 1) : (i \in 1..n \/ i = n + 1) /\ ~ (n + 1 < i)
    BY SMTT(30), <1>5
  <2>3. \A i \in 1..n : Sent(c)[i] < m
    BY ZenonT(30), <1>4, <1>5 DEF Ordered
  <2>4. \A i \in Places(l, "send", c)' : /\ i \in 1..(Len(Work(l)) - 1) /\ i + 1 \in Places(l, "send", c)
                                         /\ Work(l)'[i].msg = Work(l)[i + 1].msg
    BY SMTT(30), <1>4, PoppedPlaces DEF Popped
  <2>5. \A i \in Places(l, "send", c)' : m < Work(l)'[i].msg
    <3>1. \A i \in Places(l, "send", c)' : 1 < i + 1
      BY SMTT(30), <1>4, <2>4
    <3> QED
      BY SMTT(30), <1>4, <1>5, <2>4, <3>1 DEF Ordered
  <2> HIDE DEF n
  <2>6. \A i, j \in 1..(n + 1) : i < j => Sent(c)'[i] < Sent(c)'[j]
    <3>1. n \in Nat /\ \A i, j \in 1..n : i < j => Sent(c)[i] < Sent(c)[j]
      BY <1>5 DEF Ordered, n
    <3>2. \A i \in 1..n : Sent(c)'[i] = Sent(c)[i] /\ Sent(c)[i] < m
      BY <2>1, <2>3, Zenon
    <3> QED
      BY SMTT(30), <2>1, <3>1, <3>2, PushedOrder
  <2>7. \A i \in 1..(n + 1), j \in Places(l, "send", c)' : Sent(c)'[i] < Work(l)'[j].msg
    <3>1. \A i \in 1..n, j \in Places(l, "send", c)' : Sent(c)[i] < Work(l)[j + 1].msg
      BY ZenonT(30), <1>4, <1>5, <2>4 DEF Ordered, n
    <3> QED
      BY SMTT(30), <2>1, <2>2, <2>4, <2>5, <3>1
  <2>8. \A i, j \in Places(l, "send", c)' : i < j => Work(l)'[i].msg < Work(l)'[j].msg
    <3>1. \A i, j \in Places(l, "send", c) : i < j => Work(l)[i].msg < Work(l)[j].msg
      BY ZenonT(30), <1>4, <1>5 DEF Ordered
    <3>2. \A i \in Places(l, "send", c)' : /\ i \in Int /\ i + 1 \in Places(l, "send", c)
                                           /\ Work(l)'[i].msg = Work(l)[i + 1].msg
      BY <2>4
    <3>3. 1 \in Int
      BY SMTT(30)
    <3> QED
      BY SMTT(30), <3>1, <3>2, <3>3, ShiftedOrder
  <2>9. \A i \in 1..(n + 1) : Sent(c)'[i] <= answers'
    <3>1. m <= answers /\ answers' = answers
      BY Zenon, <1>4
    <3>2. \A i \in 1..n : Sent(c)[i] <= answers
      BY Zenon, <1>5 DEF n
    <3>3. ASSUME NEW i \in 1..(n + 1) PROVE Sent(c)'[i] <= answers'
      <4>1. CASE i = n + 1
        BY Zenon, <2>1, <3>1, <4>1
      <4>2. CASE i \in 1..n
        BY Zenon, <2>1, <3>1, <3>2, <4>2
      <4> QED
        BY Zenon, <2>2, <4>1, <4>2
    <3> QED
      BY Zenon, <3>3
  <2> QED
    BY ZenonT(30), <1>4, <2>1, <2>6, <2>7, <2>8, <2>9 DEF InOrder, Ordered
<1> QED
  BY ZenonT(30), <1>6, <1>7, <1>8

\* The answers of each connection stay in order.
LEMMA StepOrdered ==
    ASSUME IInv, [Next]_vars
    PROVE  Answered' /\ AnswersInOrder'
<1>1. TypeOK /\ Placed /\ Batches /\ Joined
  BY DEF IInv
<1>2. SUFFICES \A c \in Conns : InOrder(c)'
  <2>1. 1..accepted' \subseteq Conns
    BY StepTypes, TcpAssumption DEF TypeOK, Conns
  <2> QED
    BY <2>1, OrderedEach DEF InOrder
<1>3. SUFFICES ASSUME NEW c \in Conns PROVE InOrder(c)'
  OBVIOUS
<1>4. PICK l \in IoLoops : l = LoopOf(c)
  BY LoopsTyped
<1>5. l \in Loops /\ l # 0
  BY LoopsTyped
<1>6. ASSUME QueueMoves(l, c), conn'[c].written = conn[c].written, conn'[c].buffer = conn[c].buffer
      PROVE  InOrder(c)'
  <2>1. Sent(c)' = Sent(c)
    BY <1>6 DEF Sent
  <2> QED
    BY <1>4, <1>6, <2>1, OrderStays
<1>7. ASSUME NEW m \in Loops, PopStep(m) PROVE QueueMoves(l, c)
  BY <1>1, <1>5, <1>7, QueueSteps DEF PopStep
<1>8. ASSUME NEW m \in Loops, NEW f, PushStep(m, f), f.op # "send" \/ f.conn # c PROVE QueueMoves(l, c)
  BY <1>1, <1>5, <1>8, QueueSteps DEF PushStep
<1>9. CASE Quiet
  BY SMTT(30), <1>1, <1>5, <1>6, <1>9, QuietWork, QueueSteps
<1>10. CASE Accept
  <2>1. PICK d \in Conns : d = accepted + 1
    BY SMTT(30), <1>1, <1>10, StepWork
  <2>2. PushStep(LoopOf(d), Functor("established", d, 0)) /\ Functor("established", d, 0).op # "send" /\ conn' = conn
    BY SMTT(30), <1>1, <1>10, <2>1, StepWork DEF Accept, Functor
  <2> QED
    BY <1>6, <1>8, <2>2, LoopsTyped
<1>11. ASSUME NEW d \in Conns, DestroyNext(d) PROVE InOrder(c)'
  <2>1. PushStep(LoopOf(d), Functor("destroyed", d, 0)) /\ Functor("destroyed", d, 0).op # "send" /\ conn' = conn
    BY ZenonT(30), <1>1, <1>11, StepWork DEF DestroyNext, Functor
  <2> QED
    BY <1>6, <1>8, <2>1, LoopsTyped
<1>12. CASE RemoveConnection
  <2>1. PICK d : d = First(0).conn
    BY Zenon
  <2>2. /\ Pushed(Work(LoopOf(d)), Work(LoopOf(d))', Functor("destroyed", d, 0))
        /\ \A k \in Loops \ {0, LoopOf(d)} : Work(k)' = Work(k)
    BY ZenonT(30), <1>1, <1>12, <2>1, RemoveWork
  <2>3. conn' = conn /\ Functor("destroyed", d, 0).op # "send"
    BY Zenon, <1>12 DEF RemoveConnection, Functor
  <2>4. QueueMoves(l, c)
    BY ZenonT(30), <1>1, <1>5, <2>2, <2>3, QueueSteps
  <2> QED
    BY ZenonT(30), <1>6, <2>3, <2>4
<1>13. CASE RemoveFromDeadServer
  <2>1. conn' = conn /\ PopStep(0)
    BY ZenonT(30), <1>1, <1>13, StepWork DEF RemoveFromDeadServer
  <2> QED
    BY Zenon, <1>6, <1>7, <2>1, LoopsTyped
<1>14. ASSUME NEW m \in Loops, Established(m) PROVE InOrder(c)'
  <2>1. PICK d : d = First(m).conn
    BY Zenon
  <2>2. PICK k : /\ SetConn(d, k) /\ k.state = "connected" /\ k.channel = "on" /\ k.session = "working"
                 /\ k.number = counter_port /\ k.epoch = stores
                 /\ k.written = conn[d].written /\ k.buffer = conn[d].buffer
    BY <1>1, <1>14, <2>1, StepConns, ZenonT(30)
  <2>3. conn'[c].written = conn[c].written /\ conn'[c].buffer = conn[c].buffer
    BY <2>2 DEF SetConn
  <2> QED
    BY ZenonT(30), <1>1, <1>6, <1>7, <1>14, <2>3, StepWork
<1>15. ASSUME NEW m \in Loops, Destroy(m) PROVE InOrder(c)'
  <2>1. PICK d : d = First(m).conn
    OBVIOUS
  <2>2. SetConn(d, Destroyed(conn[d]))
    BY <1>1, <1>15, <2>1, StepConns, ZenonT(30)
  <2>3. conn'[c].written = conn[c].written /\ conn'[c].buffer = conn[c].buffer
    BY <1>1, <2>2, ConnFields DEF SetConn, TypeOK
  <2> QED
    BY Zenon, <1>1, <1>6, <1>7, <1>15, <2>3, StepWork
<1>16. ASSUME NEW m \in Loops, Send(m) PROVE InOrder(c)'
  <2>1. PICK d : d = First(m).conn
    BY Zenon
  <2>2. CASE c = d
    BY ZenonT(30), <1>16, <2>1, <2>2, SendOrder
  <2>3. CASE c # d
    <3>1. PICK k : SetConn(d, k)
      BY ZenonT(30), <1>1, <1>16, <2>1, StepConns
    <3>2. conn'[c] = conn[c]
      BY Zenon, <2>3, <3>1 DEF SetConn
    <3> QED
      BY SMTT(30), <1>1, <1>6, <1>7, <1>16, <3>2, StepWork
  <2> QED
    BY Zenon, <2>2, <2>3
<1>17. ASSUME NEW d \in Conns, Answer(d) PROVE InOrder(c)'
  <2>1. PICK m : m = answers + 1
    BY Zenon
  <2>2. PushStep(LoopOf(d), Functor("send", d, m)) /\ Functor("send", d, m).conn = d /\ conn' = conn
    BY ZenonT(30), <1>1, <1>17, <2>1, StepWork DEF Functor, Answer
  <2>3. CASE c = d
    BY Zenon, <1>17, <2>3, AnswerOrder
  <2>4. CASE c # d
    BY SMTT(30), <1>6, <1>8, <2>2, <2>4, LoopsTyped
  <2> QED
    BY Zenon, <2>3, <2>4
<1>18. ASSUME NEW d \in Conns, HandleClose(d) PROVE InOrder(c)'
  <2>1. PushStep(0, Functor("remove", d, 0)) /\ Functor("remove", d, 0).op # "send" /\ SetConn(d, Down(conn[d]))
    BY ZenonT(30), <1>1, <1>18, StepWork, StepConns DEF Functor
  <2>2. conn'[c].written = conn[c].written /\ conn'[c].buffer = conn[c].buffer
    BY <1>1, <2>1, ConnFields DEF SetConn, TypeOK
  <2> QED
    BY SMTT(30), <1>6, <1>8, <2>1, <2>2, LoopsTyped
<1>19. ASSUME NEW d \in Conns, HandleWrite(d) PROVE InOrder(c)'
  <2>1. PICK n \in 1..Len(conn[d].buffer) :
           SetConn(d, [conn[d] EXCEPT !.written = conn[d].written \o SubSeq(conn[d].buffer, 1, n),
                                      !.buffer = SubSeq(conn[d].buffer, n + 1, Len(conn[d].buffer))])
    BY ZenonT(30), <1>1, <1>19, StepConns
  <2>2. QueueMoves(l, c)
    BY SMTT(30), <1>1, <1>5, <1>19, StepWork, QueueSteps
  <2>3. CASE c = d
    <3>1. /\ conn'[c].written = conn[c].written \o SubSeq(conn[c].buffer, 1, n)
          /\ conn'[c].buffer = SubSeq(conn[c].buffer, n + 1, Len(conn[c].buffer))
      <4>1. PICK w, b : /\ w = conn[c].written \o SubSeq(conn[c].buffer, 1, n)
                        /\ b = SubSeq(conn[c].buffer, n + 1, Len(conn[c].buffer))
        BY ZenonT(30)
      <4>2. conn'[c] = [conn[c] EXCEPT !.written = w, !.buffer = b]
        BY ZenonT(30), <2>1, <2>3, <4>1 DEF SetConn
      <4>3. PICK q \in ConnState : q = conn[c]
        BY Zenon, <1>1 DEF TypeOK
      <4>4. [q EXCEPT !.written = w, !.buffer = b].written = w /\ [q EXCEPT !.written = w, !.buffer = b].buffer = b
        BY ConnFields
      <4> QED
        BY ZenonT(30), <4>1, <4>2, <4>3, <4>4
    <3>2. Len(Sent(c)') = Len(Sent(c)) /\ \A i \in 1..Len(Sent(c)) : Sent(c)'[i] = Sent(c)[i]
      <4>1. PICK w \in Seq(Nat), b \in Seq(Nat) : w = conn[c].written /\ b = conn[c].buffer
        BY ZenonT(30), <1>1, SentTyped
      <4>2. Sent(c) = w \o b /\ Sent(c)' = (w \o SubSeq(b, 1, n)) \o SubSeq(b, n + 1, Len(b)) /\ n \in 1..Len(b)
        BY ZenonT(30), <2>1, <2>3, <3>1, <4>1 DEF Sent
      <4>3. /\ Len((w \o SubSeq(b, 1, n)) \o SubSeq(b, n + 1, Len(b))) = Len(w \o b)
            /\ \A i \in 1..Len(w \o b) : ((w \o SubSeq(b, 1, n)) \o SubSeq(b, n + 1, Len(b)))[i] = (w \o b)[i]
        BY <4>2, WriteMoves, Zenon
      <4> QED
        BY <4>2, <4>3, Zenon
    <3> QED
      BY SMTT(30), <1>4, <2>2, <3>2, OrderStays
  <2>4. CASE c # d
    <3>1. conn'[c] = conn[c]
      BY ZenonT(30), <2>1, <2>4 DEF SetConn
    <3> QED
      BY ZenonT(30), <1>6, <2>2, <3>1
  <2> QED
    BY SMTT(30), <2>3, <2>4
<1> QED
  BY SMTT(30), <1>1, <1>9, <1>10, <1>11, <1>12, <1>13, <1>14, <1>15, <1>16, <1>17, <1>18, <1>19, StepCases

(***************************************************************************)
(* The invariant and what follows from it                                  *)
(***************************************************************************)

\* The invariant holds before the first connection.
LEMMA InitIInv ==
    ASSUME CardFacts, Init
    PROVE  IInv
<1>1. << >> \in Seq(FunctorSet) /\ << >> \in Seq(Nat) /\ << >> \o << >> = << >> /\ Len(<< >>) = 0
  OBVIOUS
<1>2. TypeOK
  <2>1. [pc |-> "new", pending |-> << >>, batch |-> << >>, quit |-> FALSE] \in LoopState
    BY Zenon, <1>1 DEF LoopState
  <2>2. Fresh \in ConnState
    BY Zenon, <1>1 DEF Fresh, ConnState
  <2>3. stop \in [pc : {"no", "quit", "join", "done"}, at : 0..NThreads, early : BOOLEAN, behind : SUBSET Conns]
    BY TcpAssumption DEF Init
  <2>4. loop \in [Loops -> LoopState]
    BY Zenon, <2>1 DEF Init
  <2>5. conn \in [Conns -> ConnState]
    BY Zenon, <2>2 DEF Init
  <2>6. /\ accepted \in 0..MaxConns /\ connections \subseteq 1..accepted
        /\ counter_port \in Nat /\ stores \in Nat /\ answers \in Nat
    BY TcpAssumption DEF Init
  <2>7. crashed \in BOOLEAN
    BY ZenonT(30) DEF Init
  <2> QED
    BY ZenonT(30), <2>3, <2>4, <2>5, <2>6, <2>7 DEF TypeOK
<1>3. \A l \in Loops : loop[l].pc = "new" /\ loop[l].batch = << >> /\ loop[l].pending = << >> /\ loop[l].quit = FALSE
  BY DEF Init
<1>4. \A l \in Loops : Work(l) = << >> /\ Len(Work(l)) = 0
  BY ZenonT(30), <1>1, <1>3 DEF Work
<1>5. \A l \in Loops : \A op, c : Places(l, op, c) = {}
  BY <1>4 DEF Places
<1>6. \A c \in Conns : /\ conn[c].state = "connecting" /\ conn[c].channel = "new" /\ conn[c].session = "none"
                       /\ conn[c].written = << >> /\ conn[c].buffer = << >>
  BY Zenon DEF Init, Fresh
<1>7. accepted = 0 /\ connections = {} /\ counter_port = 0 /\ stop.pc = "no" /\ 1..accepted = {}
  BY DEF Init
<1>8. Batches
  BY Zenon, <1>3 DEF Batches
<1>9. Placed
  BY <1>4 DEF Placed
<1>10. Lives
  <2>1. ASSUME NEW c \in Conns PROVE Life(c)
    <3>1. ~ (c <= accepted)
      BY <1>7 DEF Conns
    <3>2. Est(c) = {}
      BY Zenon, <1>5, LoopsTyped DEF Est
    <3> QED
      BY ZenonT(30), <1>6, <1>7, <3>1, <3>2 DEF Life
  <2> QED
    BY Zenon, <1>7, <2>1 DEF Lives
<1>11. ClosedOnce /\ AnswersInOrder
  BY Zenon, <1>7 DEF ClosedOnce, AnswersInOrder
<1>12. Reached
  BY Zenon, <1>7 DEF Reached, Told
<1>13. Joined
  BY Zenon, <1>3, <1>7, LoopsTyped DEF Joined
<1>14. Numbered
  <2>1. Between \in SUBSET IoLoops /\ Cardinality(Between) \in Nat
    BY Zenon DEF CardFacts, Between
  <2>2. counter_port <= LastNumber + Cardinality(Between)
    BY <1>7, <2>1, TcpAssumption
  <2> QED
    BY Zenon, <1>6, <2>2 DEF Numbered
<1>15. Answered
  <2>1. \A c \in Conns : Len(conn[c].written \o conn[c].buffer) = 0
    BY ZenonT(30), <1>1, <1>6
  <2>2. 1..0 = {}
    OBVIOUS
  <2> QED
    BY ZenonT(30), <2>1, <2>2 DEF Answered
<1> QED
  BY SMTT(30), <1>2, <1>8, <1>9, <1>10, <1>11, <1>12, <1>13, <1>14, <1>15 DEF IInv

\* Every step keeps the invariant.
LEMMA StepIInv ==
    ASSUME CardFacts, IInv, [Next]_vars
    PROVE  IInv'
  BY ZenonT(30), StepLoops, StepTypes, StepPlaced, StepLives, StepReached, StepJoined, StepNumbered, StepOrdered DEF IInv

\* What the invariant says of the sessions, the sends and the stop.
LEMMA IInvMeans ==
    ASSUME IInv
    PROVE  SessionNumbers /\ SendsFindConnection /\ StopReachesSessions
<1>1. TypeOK /\ Placed /\ Batches /\ Lives /\ Reached /\ Joined /\ Numbered /\ 1..accepted \subseteq Conns
  BY TcpAssumption DEF IInv, TypeOK, Conns
<1>2. SessionNumbers
  <2>1. ASSUME NEW c \in 1..accepted, NEW d \in 1..(c - 1) PROVE d \in Conns /\ d # c
    BY <1>1, TcpAssumption DEF TypeOK, Conns
  <2> QED
    BY Zenon, <1>1, <2>1 DEF Numbered, SessionNumbers
<1>3. SendsFindConnection
  BY Zenon, <1>1 DEF Placed, SendsFindConnection, Exists, HeldBySession
<1>4. ASSUME stop.pc = "done", NEW c \in 1..accepted, conn[c].session = "working"
      PROVE  c \in stop.behind
  <2>1. PICK l \in IoLoops : l = LoopOf(c)
    BY Zenon, <1>1, LoopsTyped
  <2>2. l \in Loops /\ loop[l].pc = "ended" /\ c \in Conns /\ Told(l)
    <3>1. l \in Loops /\ loop[l].pc = "ended" /\ c \in Conns
      BY ZenonT(30), <1>1, <1>4, LoopsTyped DEF Joined
    <3> QED
      BY Zenon, <1>1, <3>1 DEF Joined
  <2>3. /\ loop[l].batch = << >>
        /\ \A i \in 1..Len(loop[l].pending) :
             loop[l].pending[i].op = "destroyed" => loop[l].pending[i].conn \in stop.behind
    BY ZenonT(30), <1>1, <2>1, <2>2 DEF Batches, Reached
  <2>4. Work(l) = loop[l].pending
    BY <1>1, <2>2, <2>3, WorkTyped DEF Work
  <2>5. conn[c].channel \in {"new", "on", "off", "removed"} /\ c <= accepted
    BY <1>1, <2>2 DEF TypeOK, ConnState
  <2>6. conn[c].channel = "on"
    BY ZenonT(30), <1>1, <1>4, <2>2, <2>5 DEF Lives, Life
  <2>7. connections = {}
    BY Zenon, <1>1, <2>1, <2>2 DEF Lives
  <2>8. Doomed(c)
    BY ZenonT(30), <1>1, <2>2, <2>5, <2>6, <2>7 DEF Lives, Life
  <2>9. PICK i \in Des(c) : TRUE
    BY Zenon, <2>8 DEF Doomed
  <2> QED
    BY Zenon, <2>1, <2>3, <2>4, <2>9 DEF Des, Places
<1>5. StopReachesSessions
  BY ZenonT(30), <1>1, <1>4 DEF StopReachesSessions, Joined
<1> QED
  BY Zenon, <1>2, <1>3, <1>5

(***************************************************************************)
(* The theorems                                                            *)
(***************************************************************************)

INSTANCE FiniteSetTheorems

\* Sets of loops are finite, and one that misses a loop has fewer than NThreads.
LEMMA CardsHold == CardFacts
<1>1. IsFiniteSet(IoLoops) /\ Cardinality(IoLoops) = NThreads
  BY TcpAssumption, FS_Interval DEF IoLoops
<1>2. ASSUME NEW B \in SUBSET IoLoops PROVE IsFiniteSet(B) /\ Cardinality(B) \in Nat
  BY SMTT(30), <1>1, FS_Subset, FS_CardinalityType
<1>3. ASSUME NEW B \in SUBSET IoLoops, NEW l \in IoLoops \ B
      PROVE  Cardinality(B \cup {l}) = Cardinality(B) + 1 /\ Cardinality(B) < NThreads
  <2>1. Cardinality(B \cup {l}) = Cardinality(B) + 1
    BY ZenonT(30), <1>2, <1>3, FS_AddElement
  <2>2. B \cup {l} \in SUBSET IoLoops
    BY ZenonT(30), <1>3
  <2>3. Cardinality(B \cup {l}) <= Cardinality(IoLoops)
    BY ZenonT(30), <1>1, <2>2, FS_Subset
  <2> QED
    BY SMTT(30), <1>1, <1>2, <2>1, <2>3, TcpAssumption
<1> QED
  BY ZenonT(30), <1>2, <1>3 DEF CardFacts

\* The inductive invariant holds throughout.
THEOREM TcpInvariant == Spec => []IInv
<1>1. Init => IInv
  BY ZenonT(30), InitIInv, CardsHold
<1>2. IInv /\ [Next]_vars => IInv'
  BY ZenonT(30), StepIInv, CardsHold
<1> QED
  BY <1>1, <1>2, PTL DEF Spec

\* Two sessions that work share a number only if counter_port was set back between them, and a number
\* exceeds the last one by less than the number of I/O loops (onConnection's fetch_add, test and store).
THEOREM NumbersOnce == Spec => []SessionNumbers
<1>1. IInv => SessionNumbers
  BY ZenonT(30), IInvMeans
<1> QED
  BY <1>1, TcpInvariant, PTL

\* The answers sent through a connection are written in the order they were sent, whichever of them a
\* write could not take (sendInLoop, handleWrite).
THEOREM AnswersOrdered == Spec => []AnswersInOrder
<1>1. IInv => AnswersInOrder
  BY ZenonT(30) DEF IInv
<1> QED
  BY <1>1, TcpInvariant, PTL

\* A connection still exists when a sendInLoop runs that was queued with its bare pointer.
THEOREM ConnectionsHeld == Spec => []SendsFindConnection
<1>1. IInv => SendsFindConnection
  BY ZenonT(30), IInvMeans
<1> QED
  BY <1>1, TcpInvariant, PTL

\* A connection is removed and destroyed once, whether its peer closes it or the server is destroyed
\* (handleClose, removeConnectionInLoop, connectDestroyed, ~TcpServer).
THEOREM DestroyedOnce == Spec => []ClosedOnce
<1>1. IInv => ClosedOnce
  BY ZenonT(30) DEF IInv
<1> QED
  BY <1>1, TcpInvariant, PTL

\* The stop of the server waits only for loops that will see that they have to quit, and ends every
\* session but those whose connectDestroyed waited behind the functors that their loop was running when
\* it was told to quit (~TcpServer, ~EventLoopThread, doPendingFunctors).
THEOREM StopReaches == Spec => []StopReachesSessions
<1>1. IInv => StopReachesSessions
  BY ZenonT(30), IInvMeans
<1> QED
  BY <1>1, TcpInvariant, PTL
=============================================================================
