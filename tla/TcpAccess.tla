----------------------------- MODULE TcpAccess ------------------------------
(***************************************************************************)
(* The TCP side of the unit manager (network/src: EventLoop, TcpServer,    *)
(* TcpConnection; unit-manager/src: tcp_comm.cpp, session.h).              *)
(*                                                                         *)
(* The main thread runs the base loop: it accepts connections, keeps the   *)
(* map connections_ and hands each connection to one of the I/O loops.     *)
(* Everything that happens to a connection happens on its I/O loop, as an  *)
(* event or as a functor that another thread put in the queue of the loop. *)
(* A connection that is up has a session, whose own thread receives the    *)
(* answers of the units and sends them through the connection.  A signal   *)
(* stops the base loop and destroys the server, on the main thread.        *)
(***************************************************************************)
EXTENDS Integers, Sequences

CONSTANTS
    NThreads,     \* the number of I/O loops
    MaxConns,     \* bound on the connections accepted
    MaxAnswers,   \* bound on the answers that the units send
    LastNumber    \* 65535; counter_port starts at 0 here

ASSUME TcpAssumption ==
    /\ NThreads \in Nat \ {0}
    /\ MaxConns \in Nat /\ MaxAnswers \in Nat /\ LastNumber \in Nat

VARIABLES
    loop,         \* the event loops; 0 is the base loop
    conn,         \* the connections, with their sessions
    accepted,     \* nextConnId_ - 1
    connections,  \* the map of the server
    counter_port, \* the number of the next session
    stores,       \* history: how often counter_port was set back
    answers,      \* history: how many answers were sent
    stop,         \* where the signal handler is
    crashed       \* whether undefined behaviour has ended the process

vars == <<loop, conn, accepted, connections, counter_port, stores, answers, stop, crashed>>

IoLoops == 1..NThreads
Loops == 0..NThreads
Conns == 1..MaxConns

Fresh == [state |-> "connecting", channel |-> "new", session |-> "none",
          number |-> 0, epoch |-> 0, buffer |-> << >>, written |-> << >>]

Init ==
    /\ loop = [l \in Loops |-> [pc |-> "new", pending |-> << >>, batch |-> << >>, quit |-> FALSE]]
    /\ conn = [c \in Conns |-> Fresh]
    /\ accepted = 0 /\ connections = {}
    /\ counter_port = 0 /\ stores = 0 /\ answers = 0
    /\ stop = [pc |-> "no", at |-> 0, early |-> FALSE, behind |-> {}]
    /\ crashed = FALSE
-----------------------------------------------------------------------------
\* getNextLoop: the I/O loops in turn.
LoopOf(c) == 1 + ((c - 1) % NThreads)

Functor(op, c, m) == [op |-> op, conn |-> c, msg |-> m]

\* queueInLoop, from another thread: the functor goes to the end and the loop is woken.
Queued(loops, l, f) == [loops EXCEPT ![l].pending = Append(@, f)]

\* The thread of a loop may take a step: the main thread not while it is in the signal handler.
Free(l) == ~ crashed /\ (l = 0 => stop.pc \in {"no", "done"})

\* EventLoop::loop begins: a quit() that came before is forgotten.
LoopBegins(l) ==
    /\ Free(l) /\ loop[l].pc = "new"
    /\ loop' = [loop EXCEPT ![l].pc = "poll", ![l].quit = FALSE]
    /\ UNCHANGED <<conn, accepted, connections, counter_port, stores, answers, stop, crashed>>

\* poll returns with the events handled, and doPendingFunctors takes what is queued.  A loop that is
\* not woken polls for ten seconds at most.
TakeBatch(l) ==
    /\ Free(l) /\ loop[l].pc = "poll"
    /\ loop' = [loop EXCEPT ![l].pc = "run", ![l].batch = loop[l].pending, ![l].pending = << >>]
    /\ UNCHANGED <<conn, accepted, connections, counter_port, stores, answers, stop, crashed>>

\* The batch is done: the loop tests quit_.
EndBatch(l) ==
    /\ Free(l) /\ loop[l].pc = "run" /\ loop[l].batch = << >>
    /\ loop' = [loop EXCEPT ![l].pc = IF loop[l].quit THEN "ended" ELSE "poll"]
    /\ UNCHANGED <<conn, accepted, connections, counter_port, stores, answers, stop, crashed>>

First(l) == Head(loop[l].batch)

\* Loop l runs the first functor of its batch, which is an op.
Runs(l, op) == Free(l) /\ loop[l].pc = "run" /\ loop[l].batch # << >> /\ First(l).op = op

Ran(l) == [loop EXCEPT ![l].batch = Tail(@)]
-----------------------------------------------------------------------------
\* newConnection, on the base loop.
Accept ==
    LET c == accepted + 1 IN
    /\ Free(0) /\ loop[0].pc = "poll" /\ stop.pc = "no" /\ accepted < MaxConns
    /\ accepted' = c
    /\ connections' = connections \cup {c}
    /\ loop' = Queued(loop, LoopOf(c), Functor("established", c, 0))
    /\ UNCHANGED <<conn, counter_port, stores, answers, stop, crashed>>

\* Mutant: the numbers stop at the last one.
SaturatingNumber(n) == IF n = LastNumber THEN n ELSE n + 1

\* fetch_add
NextNumber(n) == n + 1

\* connectEstablished: onConnection makes a session that receives answers under the next number.
Established(l) ==
    LET f == First(l) IN
    /\ Runs(l, "established")
    /\ conn' = [conn EXCEPT ![f.conn].state = "connected", ![f.conn].channel = "on",
                            ![f.conn].session = "working",
                            ![f.conn].number = counter_port, ![f.conn].epoch = stores]
    /\ counter_port' = NextNumber(counter_port)
    /\ loop' = [Ran(l) EXCEPT ![l].pc = "number"]
    /\ UNCHANGED <<accepted, connections, stores, answers, stop, crashed>>

\* onConnection compares counter_port with the last number ...
TestNumber(l) ==
    /\ Free(l) /\ loop[l].pc = "number"
    /\ loop' = [loop EXCEPT ![l].pc = IF counter_port > LastNumber THEN "store" ELSE "run"]
    /\ UNCHANGED <<conn, accepted, connections, counter_port, stores, answers, stop, crashed>>

\* ... and sets it back, in a step of its own.
StoreNumber(l) ==
    /\ Free(l) /\ loop[l].pc = "store"
    /\ counter_port' = 0
    /\ stores' = stores + 1
    /\ loop' = [loop EXCEPT ![l].pc = "run"]
    /\ UNCHANGED <<conn, accepted, connections, answers, stop, crashed>>

\* The thread of the session has an answer for a connection that is up.
Answer(c) ==
    /\ ~ crashed /\ conn[c].session = "working" /\ answers < MaxAnswers
    /\ loop[LoopOf(c)].pc # "ended"
    /\ answers' = answers + 1
    /\ loop' = Queued(loop, LoopOf(c), Functor("send", c, answers'))
    /\ UNCHANGED <<conn, accepted, connections, counter_port, stores, stop, crashed>>

\* The loop has been destroyed with its thread: the session uses it all the same.
AnswerToDeadLoop(c) ==
    /\ ~ crashed /\ conn[c].session = "working" /\ loop[LoopOf(c)].pc = "ended"
    /\ crashed' = TRUE
    /\ UNCHANGED <<loop, conn, accepted, connections, counter_port, stores, answers, stop>>

\* Mutant: the message is written at once whatever is in the buffer.
WriteAtOnce(k) == TRUE

MayWrite(k) == k.buffer = << >>

\* sendInLoop: written at once, kept in the buffer, or dropped because the peer is gone.
SendInLoop(k, m) ==
    IF k.state = "disconnected" THEN {k}
    ELSE (IF MayWrite(k) THEN {[k EXCEPT !.written = Append(@, m)], k} ELSE {})
         \cup {[k EXCEPT !.buffer = Append(@, m)]}

Send(l) ==
    LET f == First(l) IN
    /\ Runs(l, "send")
    /\ \E k \in SendInLoop(conn[f.conn], f.msg) : conn' = [conn EXCEPT ![f.conn] = k]
    /\ loop' = Ran(l)
    /\ UNCHANGED <<accepted, connections, counter_port, stores, answers, stop, crashed>>

\* handleWrite writes some of the buffer.
HandleWrite(c) ==
    /\ Free(LoopOf(c)) /\ loop[LoopOf(c)].pc = "poll"
    /\ conn[c].channel = "on" /\ conn[c].buffer # << >>
    /\ \E n \in 1..Len(conn[c].buffer) :
         conn' = [conn EXCEPT ![c].written = @ \o SubSeq(conn[c].buffer, 1, n),
                              ![c].buffer = SubSeq(@, n + 1, Len(@))]
    /\ UNCHANGED <<loop, accepted, connections, counter_port, stores, answers, stop, crashed>>
-----------------------------------------------------------------------------
\* The connection is down: onConnection stops the session and joins its thread.
Down(k) == [k EXCEPT !.state = "disconnected", !.channel = "off", !.session = "stopped"]

\* handleClose, for the end of the input or a hangup; removeConnection puts a functor in the base loop.
HandleClose(c) ==
    /\ Free(LoopOf(c)) /\ loop[LoopOf(c)].pc = "poll" /\ conn[c].channel = "on"
    /\ conn' = [conn EXCEPT ![c] = Down(@)]
    /\ loop' = Queued(loop, 0, Functor("remove", c, 0))
    /\ UNCHANGED <<accepted, connections, counter_port, stores, answers, stop, crashed>>

\* Mutant: the connection stays in the map.
RemoveKeepsEntry ==
    LET f == First(0) IN
    /\ Runs(0, "remove") /\ stop.pc = "no"
    /\ loop' = Queued(Ran(0), LoopOf(f.conn), Functor("destroyed", f.conn, 0))
    /\ UNCHANGED <<conn, accepted, connections, counter_port, stores, answers, stop, crashed>>

\* removeConnectionInLoop
RemoveConnection ==
    LET f == First(0) IN
    /\ Runs(0, "remove") /\ stop.pc = "no"
    /\ connections' = connections \ {f.conn}
    /\ loop' = Queued(Ran(0), LoopOf(f.conn), Functor("destroyed", f.conn, 0))
    /\ UNCHANGED <<conn, accepted, counter_port, stores, answers, stop, crashed>>

\* The functor holds the server, which is destroyed.
RemoveFromDeadServer ==
    LET f == First(0) IN
    /\ Runs(0, "remove") /\ stop.pc = "done"
    /\ crashed' \in BOOLEAN
    /\ loop' = Ran(0)
    /\ UNCHANGED <<conn, accepted, connections, counter_port, stores, answers, stop>>

\* connectDestroyed: the channel leaves the poller.
Destroyed(k) == [(IF k.state = "connected" THEN Down(k) ELSE k) EXCEPT !.channel = "removed"]

Destroy(l) ==
    LET f == First(l) IN
    /\ Runs(l, "destroyed")
    /\ conn' = [conn EXCEPT ![f.conn] = Destroyed(@)]
    /\ loop' = Ran(l)
    /\ UNCHANGED <<accepted, connections, counter_port, stores, answers, stop, crashed>>
-----------------------------------------------------------------------------
Running(l) == loop[l].pc \in {"run", "number", "store"}

\* The connections whose connectDestroyed waits behind the functors that loop l is running.
Behind(l) ==
    {c \in Conns : Running(l) /\ \E i \in DOMAIN loop[l].pending :
                     loop[l].pending[i].op = "destroyed" /\ loop[l].pending[i].conn = c}

\* tcp_stop_work: quit() of the base loop, and ~TcpServer begins.
StopServer ==
    /\ ~ crashed /\ stop.pc = "no"
    /\ stop' = [stop EXCEPT !.pc = "quit", !.at = 1]
    /\ loop' = [loop EXCEPT ![0].quit = TRUE]
    /\ UNCHANGED <<conn, accepted, connections, counter_port, stores, answers, crashed>>

\* ~TcpServer has the next connection of the map, which is ordered by name, destroyed on its loop.
DestroyNext(c) ==
    /\ ~ crashed /\ stop.pc = "quit" /\ c \in connections
    /\ connections' = connections \ {c}
    /\ loop' = Queued(loop, LoopOf(c), Functor("destroyed", c, 0))
    /\ UNCHANGED <<conn, accepted, counter_port, stores, answers, stop, crashed>>

\* Mutant: the I/O loops are told to quit before the connections are destroyed.
QuitLoopFirst ==
    /\ ~ crashed /\ stop.pc = "quit"
    /\ loop' = [loop EXCEPT ![stop.at].quit = TRUE]
    /\ stop' = [stop EXCEPT !.pc = "join", !.early = @ \/ loop[stop.at].pc = "new",
                            !.behind = @ \cup Behind(stop.at)]
    /\ UNCHANGED <<conn, accepted, connections, counter_port, stores, answers, crashed>>

\* ~EventLoopThread of the next I/O loop: quit(), if the thread still has its loop ...
QuitLoop ==
    /\ ~ crashed /\ stop.pc = "quit" /\ connections = {}
    /\ loop' = [loop EXCEPT ![stop.at].quit = TRUE]
    /\ stop' = [stop EXCEPT !.pc = "join", !.early = @ \/ loop[stop.at].pc = "new",
                            !.behind = @ \cup Behind(stop.at)]
    /\ UNCHANGED <<conn, accepted, connections, counter_port, stores, answers, crashed>>

\* ... and join.
JoinLoop ==
    /\ ~ crashed /\ stop.pc = "join" /\ loop[stop.at].pc = "ended"
    /\ stop' = IF stop.at = NThreads THEN [stop EXCEPT !.pc = "done"]
               ELSE [stop EXCEPT !.pc = "quit", !.at = @ + 1]
    /\ UNCHANGED <<loop, conn, accepted, connections, counter_port, stores, answers, crashed>>

LoopStep(l) ==
    \/ LoopBegins(l) \/ TakeBatch(l) \/ EndBatch(l)
    \/ Established(l) \/ Send(l) \/ Destroy(l)
    \/ TestNumber(l) \/ StoreNumber(l)

BaseStep == RemoveConnection \/ RemoveFromDeadServer

StopStep == StopServer \/ QuitLoop \/ JoinLoop \/ \E c \in connections : DestroyNext(c)

Next ==
    \/ \E l \in Loops : LoopStep(l)
    \/ BaseStep \/ Accept \/ StopStep
    \/ \E c \in 1..accepted : Answer(c) \/ AnswerToDeadLoop(c) \/ HandleWrite(c) \/ HandleClose(c)

Spec == Init /\ [][Next]_vars
-----------------------------------------------------------------------------
\* Everything queued in or being run by loop l.
Work(l) == loop[l].batch \o loop[l].pending

\* Where in it the functors of this kind for connection c are.
Places(l, op, c) == {i \in 1..Len(Work(l)) : Work(l)[i].op = op /\ Work(l)[i].conn = c}

\* Two sessions that work share a number only if counter_port was set back between them, and a number
\* exceeds the last one by less than the number of I/O loops.
SessionNumbers ==
    \A c \in 1..accepted : conn[c].session = "working" =>
      /\ conn[c].number < LastNumber + NThreads
      /\ \A d \in 1..(c - 1) :
           conn[d].session = "working" /\ conn[d].number = conn[c].number => conn[d].epoch # conn[c].epoch

\* The answers sent through a connection are written in the order they were sent, those in the buffer
\* after those written and those still queued after both, whichever of them a write could not take.
AnswersInOrder ==
    \A c \in 1..accepted :
      LET sent == conn[c].written \o conn[c].buffer
          work == Work(LoopOf(c))
          queued == Places(LoopOf(c), "send", c)
      IN /\ \A i, j \in 1..Len(sent) : i < j => sent[i] < sent[j]
         /\ \A i \in 1..Len(sent), j \in queued : sent[i] < work[j].msg
         /\ \A i, j \in queued : i < j => work[i].msg < work[j].msg

\* Mutant: the session lets go of the connection when it is stopped.
HeldWhileWorking(c) == conn[c].session = "working"

\* The session and the connection hold each other: setContext, conn_.
HeldBySession(c) == conn[c].session # "none"

\* The connection object lives: the functors of sendInLoop do not hold it, the others do.
Exists(c) ==
    \/ c \in connections \/ HeldBySession(c)
    \/ \E l \in Loops, op \in {"established", "remove", "destroyed"} : Places(l, op, c) # {}

\* sendInLoop is queued with the bare pointer of its connection: the connection still exists when it
\* runs, also when the server is destroyed while the session goes on sending.
SendsFindConnection ==
    \A l \in Loops : \A i \in 1..Len(Work(l)) : Work(l)[i].op = "send" => Exists(Work(l)[i].conn)

Single(S) == \E x \in S : S = {x}

\* A connection that is down is removed and destroyed once: while the server runs, exactly one functor
\* for that is under way, in the base loop if it is still in the map and in its own loop if not; and
\* when the server is destroyed while connections close, none is destroyed twice.
ClosedOnce ==
    \A c \in 1..accepted :
      LET removing == Places(0, "remove", c)
          destroying == Places(LoopOf(c), "destroyed", c)
      IN /\ stop.pc = "no" =>
              IF conn[c].channel = "off"
              THEN \/ Single(removing) /\ destroying = {} /\ c \in connections
                   \/ removing = {} /\ Single(destroying) /\ c \notin connections
              ELSE removing = {} /\ destroying = {}
         /\ destroying # {} => Single(destroying) /\ conn[c].channel # "removed"

\* The stop of the server waits only for I/O loops that will see that they have to quit, unless one had
\* not begun to loop; and a session goes on after it only if, when quit() was called, the connectDestroyed
\* that ~TcpServer had queued for it waited behind functors that its loop was running: a loop that polls
\* destroys all its connections, and one that runs functors those it has taken.
StopReachesSessions ==
    /\ stop.pc = "join" => loop[stop.at].quit \/ stop.early
    /\ stop.pc = "done" =>
         \A c \in 1..accepted : conn[c].session = "working" => c \in stop.behind
=============================================================================
