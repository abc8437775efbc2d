----------------------------- MODULE StreamInput -----------------------------
(***************************************************************************)
(* Requests whose input comes in chunks (node/vllm-client/src/main.cpp,    *)
(* task_user_data and assemble_stream_input).  The subscriber thread of    *)
(* each session's channel handles the chunks of all streams of that        *)
(* session, one by one; the threads share stream_states_, from which any   *)
(* of them removes the streams that have been idle for too long, one that  *)
(* another thread is about to extend included.                             *)
(*                                                                         *)
(* Clients send the chunks of a message in any order, and may repeat them, *)
(* but the finishing one has the highest index and is sent last, and a     *)
(* message is sent to its end before its request id is used again.  A      *)
(* delta is known by its message and place, and counts by its size.        *)
(***************************************************************************)
EXTENDS Integers, Sequences, FiniteSets, Maps, TLC

CONSTANTS
    Channels,               \* the sessions, each with its subscriber thread
    RequestIds,
    Bodies,                 \* the messages: sequences of sizes of deltas
    kMaxStreamInputChunks,
    kMaxStreamInputBytes,
    kStreamInputTtlMs,
    MaxMessages,            \* bound on the messages of one stream
    MaxClock                \* bound on the time

ASSUME StreamAssumption ==
    /\ Bodies \subseteq Seq(Nat) /\ << >> \notin Bodies
    /\ {kMaxStreamInputChunks, kMaxStreamInputBytes, kStreamInputTtlMs, MaxMessages, MaxClock} \subseteq Nat

VARIABLES
    clock,      \* now_ms()
    listed,     \* the keys of stream_states_
    state,      \* the StreamInputState of each stream, in stream_states_ or held by its thread only
    thread,     \* where each subscriber thread is in task_user_data
    client,     \* the message each stream is at, and the indices sent of it
    excused     \* history: the present message had a bad chunk, or its state expired

vars == <<clock, listed, state, thread, client, excused>>

\* stream_key: the work id and the request id.
Streams == Channels \X RequestIds

Delta == [msg : 1..MaxMessages, body : Bodies, index : Nat]
Size(d) == d.body[d.index + 1]

NewState(ms) == [chunks |-> << >>, updated_ms |-> ms, total_bytes |-> 0]
Idle == [pc |-> "idle"]

Init ==
    /\ clock = 0
    /\ listed = {}
    /\ state = [s \in Streams |-> NewState(0)]
    /\ thread = [c \in Channels |-> Idle]
    /\ client \in [Streams -> [msg : {1}, body : Bodies, sent : {{}}]]
    /\ excused = [s \in Streams |-> FALSE]
-----------------------------------------------------------------------------
\* A state that is not in the table is gone once the thread that looked it up has let go of it.
Freed(states, table, holders) ==
    [s \in Streams |-> IF s \in table \cup holders THEN states[s] ELSE NewState(0)]

\* The streams whose state a thread other than c has looked up.
HeldByOthers(c) == {s \in Streams : s[1] # c /\ thread[s[1]].pc = "store" /\ thread[s[1]].stream = s}

\* The chunk with this index of the client's message.
Sent(s, i) == [msg |-> client[s].msg, body |-> client[s].body, index |-> i]
Finishes(d) == d.index = Len(d.body) - 1

\* task_user_data is called with a chunk, and assemble_stream_input reads the time.
Receive(s, i) ==
    /\ thread[s[1]].pc = "idle" /\ client[s].msg <= MaxMessages
    /\ Finishes(Sent(s, i)) => client[s].sent = 0..(i - 1)
    /\ thread' = [thread EXCEPT ![s[1]] =
                    [pc |-> "lookup", stream |-> s, delta |-> Sent(s, i), ms |-> clock]]
    /\ IF Finishes(Sent(s, i))
       THEN \E b \in IF client[s].msg = MaxMessages THEN {client[s].body} ELSE Bodies :
              client' = [client EXCEPT ![s] = [msg |-> @.msg + 1, body |-> b, sent |-> {}]]
       ELSE client' = [client EXCEPT ![s].sent = @ \cup {i}]
    /\ excused' = [excused EXCEPT ![s] = @ /\ client[s].sent # {}]
    /\ UNCHANGED <<clock, listed, state>>

\* A chunk without an index, with one that is no number, or with a negative one.
ReceiveBad(s) ==
    /\ thread[s[1]].pc = "idle" /\ client[s].msg <= MaxMessages
    /\ thread' = [thread EXCEPT ![s[1]] = [pc |-> "error", stream |-> s, delta |-> Sent(s, 0)]]
    /\ excused' = [excused EXCEPT ![s] = TRUE]
    /\ UNCHANGED <<clock, listed, state, client>>

Expired(s, ms) == ms - state[s].updated_ms > kStreamInputTtlMs

\* The stream had no chunk stored for longer than the limit.
OverTtl(s) == clock - state[s].updated_ms > kStreamInputTtlMs

\* stream_input_state, under stream_states_mtx_: drop what expired, then find or make the state.
stream_input_state(c) ==
    LET s == thread[c].stream
        ms == thread[c].ms
        dropped == {t \in listed : Expired(t, ms)}
    IN
    /\ thread[c].pc = "lookup"
    /\ listed' = (listed \ dropped) \cup {s}
    /\ state' = Freed(IF s \in listed \ dropped THEN state ELSE [state EXCEPT ![s] = NewState(ms)],
                      listed', HeldByOthers(c) \cup {s})
    /\ excused' = [t \in Streams |-> excused[t] \/ (t \in dropped /\ OverTtl(t))]
    /\ thread' = [thread EXCEPT ![c].pc = "store"]
    /\ UNCHANGED <<clock, client>>

\* The state with the chunk stored at its index, in place of an earlier one.
WithChunk(st, d, ms) ==
    LET old == IF d.index \in DOMAIN st.chunks THEN Size(st.chunks[d.index]) ELSE 0
    IN  [chunks |-> With(st.chunks, d.index, d), updated_ms |-> ms,
         total_bytes |-> st.total_bytes - old + Size(d)]

OverLimit(st) ==
    Cardinality(DOMAIN st.chunks) > kMaxStreamInputChunks \/ st.total_bytes > kMaxStreamInputBytes

\* The critical section of assemble_stream_input under the state's own mutex.
StoreChunk(c) ==
    LET s == thread[c].stream
        d == thread[c].delta
        stored == WithChunk(state[s], d, thread[c].ms)
    IN
    /\ thread[c].pc = "store"
    /\ \/ /\ OverLimit(stored)
          /\ state' = Freed([state EXCEPT ![s] = stored], listed, HeldByOthers(c))
          /\ thread' = [thread EXCEPT ![c] = [pc |-> "error", stream |-> s, delta |-> d]]
       \/ /\ ~ OverLimit(stored) /\ ~ Finishes(d)
          /\ state' = Freed([state EXCEPT ![s] = stored], listed, HeldByOthers(c))
          /\ thread' = [thread EXCEPT ![c] = Idle]
       \/ /\ ~ OverLimit(stored) /\ Finishes(d)
          /\ state' = [state EXCEPT ![s] = [stored EXCEPT !.chunks = << >>, !.total_bytes = 0]]
          /\ thread' = [thread EXCEPT ![c] =
                          [pc |-> "assemble", stream |-> s, delta |-> d, chunks |-> stored.chunks]]
    /\ UNCHANGED <<clock, listed, client, excused>>

\* The loop over the completed chunks finds every index below their number.
Complete(chunks) == \A i \in 0..(Cardinality(DOMAIN chunks) - 1) : i \in DOMAIN chunks

\* Mutant: the chunks that are there are joined, without a test for gaps.
AssembleWithGaps(c) ==
    LET s == thread[c].stream
        chunks == thread[c].chunks
        Place(k) == Cardinality({j \in DOMAIN chunks : j <= k})
    IN
    /\ thread[c].pc = "assemble"
    /\ listed' = listed \ {s}
    /\ state' = Freed(state, listed', HeldByOthers(c))
    /\ thread' = [thread EXCEPT ![c] =
                    [pc |-> "inference", input |-> [i \in 1..Cardinality(DOMAIN chunks) |->
                                                     chunks[CHOOSE k \in DOMAIN chunks : Place(k) = i]]]]
    /\ UNCHANGED <<clock, client, excused>>

\* The end of assemble_stream_input: the state is erased, and the chunks are joined.
Assemble(c) ==
    LET s == thread[c].stream
        chunks == thread[c].chunks
    IN
    /\ thread[c].pc = "assemble"
    /\ listed' = listed \ {s}
    /\ state' = Freed(state, listed', HeldByOthers(c))
    /\ \/ /\ Complete(chunks)
          /\ thread' = [thread EXCEPT ![c] =
                          [pc |-> "inference", input |-> [i \in 1..Cardinality(DOMAIN chunks) |-> chunks[i - 1]]]]
       \/ /\ ~ Complete(chunks)
          /\ thread' = [thread EXCEPT ![c] = [pc |-> "error", stream |-> s, delta |-> thread[c].delta]]
    /\ UNCHANGED <<clock, client, excused>>

\* task_user_data calls inference with the whole input.
Inference(c) ==
    /\ thread[c].pc = "inference"
    /\ thread' = [thread EXCEPT ![c] = Idle]
    /\ UNCHANGED <<clock, listed, state, client, excused>>

\* Mutant: an error leaves the stream's state in the table.
FailKeepingState(c) ==
    /\ thread[c].pc = "error"
    /\ thread' = [thread EXCEPT ![c] = Idle]
    /\ UNCHANGED <<clock, listed, state, client, excused>>

\* The error path of task_user_data: erase_stream_input_state by key, and error -25.
Fail(c) ==
    /\ thread[c].pc = "error"
    /\ listed' = listed \ {thread[c].stream}
    /\ state' = Freed(state, listed', HeldByOthers(c))
    /\ thread' = [thread EXCEPT ![c] = Idle]
    /\ UNCHANGED <<clock, client, excused>>

Tick ==
    /\ clock < MaxClock /\ clock' = clock + 1
    /\ UNCHANGED <<listed, state, thread, client, excused>>
-----------------------------------------------------------------------------
ThreadStep(c) == stream_input_state(c) \/ StoreChunk(c) \/ Assemble(c) \/ Inference(c) \/ Fail(c)

Next ==
    \/ \E s \in Streams : ReceiveBad(s) \/ \E i \in 0..(Len(client[s].body) - 1) : Receive(s, i)
    \/ \E c \in Channels : ThreadStep(c)
    \/ Tick

Spec == Init /\ [][Next]_vars
-----------------------------------------------------------------------------
Sum(f) == FoldFunction(+, 0, f)

\* What inference gets is one whole message of the client: never a part of one because a state
\* expired under the thread that extends it or a limit was hit in the middle, and never a chunk of
\* an earlier message sent under the same request id.
WholeMessages ==
    \A c \in Channels : thread[c].pc = "inference" =>
        LET d == thread[c].input[1] IN
        thread[c].input = [i \in 1..Len(d.body) |-> [msg |-> d.msg, body |-> d.body, index |-> i - 1]]

Oversized(body) == Len(body) > kMaxStreamInputChunks \/ Sum(body) > kMaxStreamInputBytes

\* A message is refused only for a reason of its own: it is over the limits, one of its chunks was
\* bad, or it stayed idle until it expired.  What earlier messages of the stream left behind, and
\* chunks sent twice, never count against it.
RefusedForCause ==
    \A c \in Channels : thread[c].pc = "error" =>
        excused[thread[c].stream] \/ Oversized(thread[c].delta.body)
=============================================================================
