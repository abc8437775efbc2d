---------------------------- MODULE NodeSessions ----------------------------
(***************************************************************************)
(* The sessions of a node (infra-controller: StackFlow and                 *)
(* llm_channel_obj; node/vllm-client: vllm_llm).                           *)
(*                                                                         *)
(* Three kinds of thread work on a node.  The thread of its RPC server     *)
(* puts setup, exit, taskinfo and pause in event_queue_ and answers        *)
(* metrics_query and reload_config itself.  The event thread, even_loop,   *)
(* takes the events.  Every session has a channel with a subscriber        *)
(* thread, for the inferences.  The first two share request_id_ and        *)
(* out_zmq_url_, which say where an answer goes; the last two share the    *)
(* push URL of the channel.                                                *)
(*                                                                         *)
(* The registry of the unit manager is only called from here: UnitSystem   *)
(* joins these actions with those of UnitRegistry.                         *)
(***************************************************************************)
EXTENDS Integers, Sequences, FiniteSets, Maps

CONSTANTS
    Clients,      \* who sends messages; a client stands for its URL and its request id
    NoClient,     \* the empty string
    MaxSessions,  \* max_sessions_
    MaxEvents     \* bound on the calls made on the RPC server of the node

ASSUME NodeAssumption == NoClient \notin Clients /\ MaxSessions \in Nat /\ MaxEvents \in Nat

VARIABLES
    event_queue,  \* the events waiting
    ev,           \* where the event thread is, with the event it works on
    rt,           \* where the RPC thread is
    shared,       \* request_id_ and out_zmq_url_
    channel,      \* llm_task_channel_, by work id
    sub,          \* the subscriber thread of each channel that has one
    sessions,     \* the keys of sessions_
    task,         \* whether shared_task_ has been made
    foreign,      \* history: the units of other nodes, and those whose release was not carried out
    events        \* history: how many calls were made

nodeVars == <<event_queue, ev, rt, shared, channel, sub, sessions, task, foreign, events>>

Refused == -1       \* the answer of the registry when it has no ports
AllSessions == -100 \* WORK_ID_NONE

Resting == [pc |-> "idle"]
Alive == ev.pc \notin {"dead", "ended"}

\* An address: whose request id, whose URL.
Of(c) == [request_id |-> c, url |-> c]

NodeInit ==
    /\ event_queue = << >>
    /\ ev = Resting /\ rt = Resting
    /\ shared = Of(NoClient)
    /\ channel = << >> /\ sub = << >>
    /\ sessions = {} /\ task = FALSE
    /\ foreign = {} /\ events = 0
-----------------------------------------------------------------------------
\* _rpc_setup, _rpc_exit, _rpc_taskinfo and _rpc_pause put an event in the queue.
Enqueue(c, op, id) ==
    /\ Alive /\ rt.pc = "idle" /\ events < MaxEvents
    /\ event_queue' = Append(event_queue, [op |-> op, client |-> c, id |-> id])
    /\ events' = events + 1
    /\ UNCHANGED <<ev, rt, shared, channel, sub, sessions, task, foreign>>

\* _rpc_metrics_query and _rpc_reload_config store the address and work on the RPC thread.
QueryStarts(c) ==
    /\ Alive /\ rt.pc = "idle" /\ events < MaxEvents
    /\ rt' = [pc |-> "query", client |-> c]
    /\ shared' = Of(c)
    /\ events' = events + 1
    /\ UNCHANGED <<event_queue, ev, channel, sub, sessions, task, foreign>>

\* metrics_query and reload_config send the answer, or an error, to the address stored.
QueryAnswers ==
    /\ Alive /\ rt.pc = "query"
    /\ rt' = Resting
    /\ UNCHANGED <<event_queue, ev, shared, channel, sub, sessions, task, foreign, events>>

\* What _setup, _exit, _taskinfo and _pause store: _pause reads the URL in place of the message and
\* finds no request id in it.
AddressOf(e) == IF e.op = "pause" THEN [Of(e.client) EXCEPT !.request_id = NoClient] ELSE Of(e.client)

\* even_loop takes an event and its handler stores the address.
TakeEvent ==
    LET e == Head(event_queue) IN
    /\ ev.pc = "idle" /\ event_queue # << >>
    /\ event_queue' = Tail(event_queue)
    /\ ev' = [pc |-> e.op, client |-> e.client, id |-> e.id]
    /\ shared' = AddressOf(e)
    /\ UNCHANGED <<rt, channel, sub, sessions, task, foreign, events>>
-----------------------------------------------------------------------------
\* The event thread throws, or two threads break the map of a channel: the process ends.
NodeDies ==
    /\ ev' = [pc |-> "dead"]
    /\ UNCHANGED <<event_queue, rt, shared, channel, sub, sessions, task, foreign, events>>

\* sys_register_unit got an answer: a channel for work id n, which may be -1, replaces the one there.
RegisterAnswered(n) ==
    /\ ev.pc = "setup"
    /\ channel' = With(channel, n, Of(ev.client))
    /\ sub' = Without(sub, {n})
    /\ ev' = [ev EXCEPT !.pc = "enter", !.id = n]
    /\ UNCHANGED <<event_queue, rt, shared, sessions, task, foreign, events>>

\* sys_register_unit got none: std::stoi has no number to read.
RegisterFails == ev.pc = "setup" /\ NodeDies

MayEnter(n) == n \notin sessions /\ Cardinality(sessions) < MaxSessions

\* vllm_llm::setup makes the session, starts the subscriber of its channel and answers.
SetupSucceeds ==
    /\ ev.pc = "enter" /\ MayEnter(ev.id)
    /\ sessions' = sessions \cup {ev.id}
    /\ task' = TRUE
    /\ sub' = With(sub, ev.id, Resting)
    /\ ev' = Resting
    /\ UNCHANGED <<event_queue, rt, shared, channel, foreign, events>>

\* Mutant: the session is stored before the scheduler is made, and stays.
SetupRefusedKeeps ==
    /\ ev.pc = "enter"
    /\ sessions' = sessions \cup {ev.id}
    /\ ev' = [pc |-> "release", id |-> ev.id]
    /\ UNCHANGED <<event_queue, rt, shared, channel, sub, task, foreign, events>>

\* vllm_llm::setup answers with an error: no JSON, the session exists, there are too many, or the
\* scheduler cannot be made.
SetupRefused ==
    /\ ev.pc = "enter"
    /\ ev' = [pc |-> "release", id |-> ev.id]
    /\ UNCHANGED <<event_queue, rt, shared, channel, sub, sessions, task, foreign, events>>

\* set_push_url of the channel of an exit or a taskinfo, if it has one.
SetPushUrl(n, c) ==
    channel' = IF n \in DOMAIN channel THEN [channel EXCEPT ![n].url = c] ELSE channel

\* taskinfo answers, for a session, for all, or that there is none.
Taskinfo ==
    /\ ev.pc = "taskinfo"
    /\ SetPushUrl(ev.id, ev.client)
    /\ ev' = Resting
    /\ UNCHANGED <<event_queue, rt, shared, sub, sessions, task, foreign, events>>

\* pause finds no work id and answers "not have unit action!".
Pause ==
    /\ ev.pc = "pause"
    /\ ev' = Resting
    /\ UNCHANGED <<event_queue, rt, shared, channel, sub, sessions, task, foreign, events>>

\* exit takes the session out, or answers that there is none.
Exit ==
    /\ ev.pc = "exit" /\ (ev.id \in sessions => ev.id \in DOMAIN channel)
    /\ SetPushUrl(ev.id, ev.client)
    /\ sessions' = sessions \ {ev.id}
    /\ ev' = IF ev.id \in sessions THEN [ev EXCEPT !.pc = "stop"] ELSE Resting
    /\ UNCHANGED <<event_queue, rt, shared, sub, task, foreign, events>>

\* The session has no channel: llm_task_channel_.at throws.
ExitThrows ==
    /\ ev.pc = "exit" /\ ev.id \in sessions /\ ev.id \notin DOMAIN channel
    /\ NodeDies

SubIdle(n) == n \in DOMAIN sub => sub[n].pc = "idle"

\* stop_subscriber joins the subscriber thread; exit answers.
ExitStops ==
    /\ ev.pc = "stop" /\ SubIdle(ev.id)
    /\ sub' = Without(sub, {ev.id})
    /\ ev' = [pc |-> "release", id |-> ev.id]
    /\ UNCHANGED <<event_queue, rt, shared, channel, sessions, task, foreign, events>>

\* set_push_url and stop_subscriber change zmq_, and so does the subscriber thread when it stores the
\* address of a message: a data race.
ChannelRaces ==
    /\ ev.pc \in {"taskinfo", "exit", "stop"}
    /\ ev.id \in DOMAIN sub /\ sub[ev.id].pc = "got"
    /\ NodeDies

\* sys_release_unit has called the registry, which carried the release out or not.
ReleaseCalled(done) ==
    /\ ev.pc = "release"
    /\ ev' = [pc |-> "drop", id |-> ev.id]
    /\ foreign' = IF done THEN foreign ELSE foreign \cup {ev.id}
    /\ UNCHANGED <<event_queue, rt, shared, channel, sub, sessions, task, events>>

\* Mutant: the channel stays.
KeepChannel(n) == channel

WithoutChannel(n) == Without(channel, {n})

\* sys_release_unit drops the channel, answered or not.
DropChannel ==
    /\ ev.pc = "drop"
    /\ channel' = WithoutChannel(ev.id)
    /\ sub' = Without(sub, {ev.id})
    /\ ev' = Resting
    /\ UNCHANGED <<event_queue, rt, shared, sessions, task, foreign, events>>
-----------------------------------------------------------------------------
\* The subscriber thread of channel n receives an inference of client c.
Receive(n, c) ==
    /\ Alive /\ n \in DOMAIN sub /\ sub[n].pc = "idle"
    /\ sub' = [sub EXCEPT ![n] = [pc |-> "got", client |-> c]]
    /\ UNCHANGED <<event_queue, ev, rt, shared, channel, sessions, task, foreign, events>>

\* subscriber_event_call stores the address of the message in the channel.
StoreAddress(n) ==
    /\ Alive /\ n \in DOMAIN sub /\ sub[n].pc = "got"
    /\ channel' = [channel EXCEPT ![n] = Of(sub[n].client)]
    /\ sub' = [sub EXCEPT ![n].pc = "set"]
    /\ UNCHANGED <<event_queue, ev, rt, shared, sessions, task, foreign, events>>

\* task_user_data reads the address from the channel: for the answer that there is no session, or
\* for vllm_task::inference.
UserData(n) ==
    /\ Alive /\ n \in DOMAIN sub /\ sub[n].pc = "set"
    /\ sub' = [sub EXCEPT ![n] = Resting]
    /\ UNCHANGED <<event_queue, ev, rt, shared, channel, sessions, task, foreign, events>>
-----------------------------------------------------------------------------
\* No event is waiting or being handled.
Quiet == ev.pc = "idle" /\ event_queue = << >> /\ rt.pc = "idle"

\* The destructors of a node without channels.
ShutdownClean ==
    /\ Quiet /\ channel = << >>
    /\ ev' = [pc |-> "ended"]
    /\ sessions' = {} /\ task' = FALSE
    /\ UNCHANGED <<event_queue, rt, shared, channel, sub, foreign, events>>

\* ~vllm_llm stops the subscribers; ~StackFlow joins the event thread, releases the unit of one channel,
\* and joins the event thread once more, which throws.
ShutdownThrows(n) ==
    /\ Quiet /\ n \in DOMAIN channel /\ \A m \in DOMAIN channel : SubIdle(m)
    /\ channel' = WithoutChannel(n)
    /\ sub' = << >>
    /\ ev' = [pc |-> "dead"]
    /\ sessions' = {} /\ task' = FALSE
    /\ UNCHANGED <<event_queue, rt, shared, foreign, events>>
=============================================================================
