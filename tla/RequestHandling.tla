--------------------------- MODULE RequestHandling ---------------------------
(***************************************************************************)
(* One run of handle_request (node/vllm-client/src/main.cpp): the attempts,*)
(* the wait for an endpoint, the deadline, the streamed output, the        *)
(* outcome in the record, in the metrics and in the reply, and stop() at   *)
(* any moment.  Which endpoint an attempt gets is EndpointRuntime's matter:*)
(* here select_endpoint may return one or not.                             *)
(***************************************************************************)
EXTENDS Integers, Sequences

CONSTANTS
    Requests,    \* the settings of the requests: InferenceRequest
    MaxPieces    \* bound on the deltas of one attempt

\* timeout: timeout_ms > 0.  deadline: deadline_ms > 0.  waits: endpoint_wait_ms_ > 0.
RequestSettings ==
    [max_retries : Int, timeout : BOOLEAN, deadline : BOOLEAN, waits : BOOLEAN, mock : BOOLEAN,
     enstream : BOOLEAN, enoutput : BOOLEAN]

ASSUME HandlingAssumption == Requests \subseteq RequestSettings /\ MaxPieces \in Nat

VARIABLES
    req,        \* the request
    pc,
    attempt,    \* the loop variable
    stream,     \* StreamState: index, failed, started
    ok,
    error,      \* error_message, as far as it is told apart
    expired,    \* now_ms() >= deadline_at_ms
    stopping,   \* stopping_
    record,     \* the status in the request's record
    counted,    \* what on_request_finish was called with
    out         \* the messages given to out_callback_

vars == <<req, pc, attempt, stream, ok, error, expired, stopping, record, counted, out>>

NewStream == [index |-> 0, failed |-> FALSE, started |-> FALSE]

\* The texts an attempt can leave in error_message.  A non-stream answer may carry any text of the
\* server, the one that stands for a passed deadline included.
CallErrors == IF req.enstream THEN {"call"} ELSE {"call", "deadline exceeded"}

Init ==
    /\ req \in Requests
    /\ pc = "loop"
    /\ attempt = 0
    /\ stream = NewStream
    /\ ok = FALSE
    /\ error = ""
    /\ expired = FALSE
    /\ stopping = FALSE
    /\ record = "Running"
    /\ counted = << >>
    /\ out = << >>
-----------------------------------------------------------------------------
Message(kind, i, code) ==
    [kind |-> kind, attempt |-> attempt, index |-> i, code |-> code]

\* emit_delta and emit_text are silent when the request wants no output; emit_error is not.
Emitted(m) == IF req.enoutput THEN Append(out, m) ELSE out

deadline_exceeded == req.deadline /\ expired

\* run_mock: two pieces and an end, or a text, whatever stopping_ says.
MockDelta ==
    /\ pc = "loop" /\ req.mock /\ req.enstream
    /\ stream.index < 2
    /\ out' = Emitted(Message("delta", stream.index, 0))
    /\ stream' = [stream EXCEPT !.index = @ + 1]
    /\ UNCHANGED <<req, pc, attempt, ok, error, expired, stopping, record, counted>>

MockEnd ==
    /\ pc = "loop" /\ req.mock
    /\ req.enstream => stream.index = 2
    /\ out' = Emitted(IF req.enstream THEN Message("finish", 2, 0) ELSE Message("text", 0, 0))
    /\ ok' = TRUE
    /\ pc' = "success"
    /\ UNCHANGED <<req, attempt, stream, error, expired, stopping, record, counted>>

\* The head of the loop: leave it, or look for an endpoint.
LoopHead ==
    /\ pc = "loop" /\ ~ req.mock
    /\ \/ /\ attempt > req.max_retries \/ stopping
          /\ pc' = "end" /\ UNCHANGED error
       \/ /\ attempt <= req.max_retries /\ ~ stopping
          /\ pc' = IF deadline_exceeded THEN "end" ELSE "select"
          /\ error' = IF deadline_exceeded THEN "deadline exceeded" ELSE error
    /\ UNCHANGED <<req, attempt, stream, ok, expired, stopping, record, counted, out>>

\* select_endpoint, first or while waiting, finds an endpoint: call_vllm begins.
GetEndpoint ==
    /\ pc \in {"select", "wait"}
    /\ pc' = "call"
    /\ stream' = NewStream
    /\ UNCHANGED <<req, attempt, ok, error, expired, stopping, record, counted, out>>

WillWait == req.waits /\ req.deadline /\ ~ expired /\ ~ stopping

\* It finds none: wait_for_endpoint waits until the earlier of the deadline and endpoint_wait_ms_.
\* Without a deadline deadline_at_ms is the time of creation, so there is nothing to wait for.
NoEndpointYet ==
    /\ pc = "select" /\ WillWait
    /\ pc' = "wait"
    /\ UNCHANGED <<req, attempt, stream, ok, error, expired, stopping, record, counted, out>>

\* wait_for_endpoint returns nullptr: not told to wait, or the time is up, or stop().
NoEndpoint ==
    /\ pc = "wait" \/ (pc = "select" /\ ~ WillWait)
    /\ pc' = "end"
    /\ error' = "no endpoint"
    /\ UNCHANGED <<req, attempt, stream, ok, expired, stopping, record, counted, out>>

\* handle_stream_line gets a line with content.  A line with an error only sets a flag: later
\* lines still reach the client.
StreamDelta ==
    /\ pc = "call" /\ req.enstream
    /\ stream.index < MaxPieces
    /\ out' = Emitted(Message("delta", stream.index, 0))
    /\ stream' = [stream EXCEPT !.index = @ + 1, !.started = TRUE]
    /\ UNCHANGED <<req, pc, attempt, ok, error, expired, stopping, record, counted>>

StreamError ==
    /\ pc = "call" /\ req.enstream
    /\ stream' = [stream EXCEPT !.failed = TRUE]
    /\ UNCHANGED <<req, pc, attempt, ok, error, expired, stopping, record, counted, out>>

\* curl_easy_perform ended well and the answer is good: the end of the output is sent.
CallSucceeds ==
    /\ pc = "call"
    /\ ~ stream.failed
    /\ out' = Emitted(IF req.enstream THEN Message("finish", stream.index, 0) ELSE Message("text", 0, 0))
    /\ ok' = TRUE
    /\ pc' = "success"
    /\ UNCHANGED <<req, attempt, stream, error, expired, stopping, record, counted>>

\* Mutant of CallFails: a request is retried although output has started.
CallFailsRetrying ==
    /\ pc = "call"
    /\ pc' = "loop" /\ error' \in CallErrors /\ attempt' = attempt + 1
    /\ UNCHANGED <<req, stream, ok, expired, stopping, record, counted, out>>

\* Mutant of CallFails: the attempt is not counted.
CallFailsUncounted ==
    /\ pc = "call"
    /\ IF stream.started
       THEN pc' = "end" /\ error' = "stream"
       ELSE pc' = "loop" /\ error' \in CallErrors
    /\ UNCHANGED <<req, attempt, stream, ok, expired, stopping, record, counted, out>>

\* A transport error, a bad HTTP status, an error in the stream or an answer without content.
\* Nothing is retried once output has started.
CallFails ==
    /\ pc = "call"
    /\ IF stream.started
       THEN pc' = "end" /\ error' = "stream" /\ UNCHANGED attempt
       ELSE pc' = "loop" /\ error' \in CallErrors /\ attempt' = attempt + 1
    /\ UNCHANGED <<req, stream, ok, expired, stopping, record, counted, out>>

\* Mutant of FinishSuccess: the loop is left but the failure branch is not skipped.
SuccessFallsThrough ==
    /\ pc = "success"
    /\ pc' = "end"
    /\ record' = "Success"
    /\ counted' = Append(counted, "ok")
    /\ UNCHANGED <<req, attempt, stream, ok, error, expired, stopping, out>>

\* update_record and on_request_finish after a success.
FinishSuccess ==
    /\ pc = "success"
    /\ pc' = "done"
    /\ record' = "Success"
    /\ counted' = Append(counted, "ok")
    /\ UNCHANGED <<req, attempt, stream, ok, error, expired, stopping, out>>

\* After the loop: a request that was not served is given up silently at stop() ...
Abandon ==
    /\ pc = "end" /\ stopping
    /\ pc' = "done"
    /\ UNCHANGED <<req, attempt, stream, ok, error, expired, stopping, record, counted, out>>

\* Mutant of FinishFailure: the code is taken from the deadline, the status from the message.
FinishFailureByClock ==
    LET code == IF deadline_exceeded THEN -42 ELSE -41 IN
    /\ pc = "end" /\ ~ stopping
    /\ pc' = "done"
    /\ record' = IF error = "deadline exceeded" THEN "Timeout" ELSE "Failed"
    /\ counted' = Append(counted, IF code = -42 THEN "timeout" ELSE "failed")
    /\ out' = Append(out, Message("error", 0, code))
    /\ UNCHANGED <<req, attempt, stream, ok, error, expired, stopping>>

\* ... and otherwise recorded, counted and answered with an error.
FinishFailure ==
    LET code == IF error = "deadline exceeded" THEN -42 ELSE -41 IN
    /\ pc = "end" /\ ~ stopping
    /\ pc' = "done"
    /\ record' = IF code = -42 THEN "Timeout" ELSE "Failed"
    /\ counted' = Append(counted, IF code = -42 THEN "timeout" ELSE "failed")
    /\ out' = Append(out, Message("error", 0, code))
    /\ UNCHANGED <<req, attempt, stream, ok, error, expired, stopping>>

\* Time passes the deadline; stop() sets stopping_.
DeadlinePasses ==
    /\ ~ expired /\ expired' = TRUE
    /\ UNCHANGED <<req, pc, attempt, stream, ok, error, stopping, record, counted, out>>

Stop ==
    /\ ~ stopping /\ stopping' = TRUE
    /\ UNCHANGED <<req, pc, attempt, stream, ok, error, expired, record, counted, out>>
-----------------------------------------------------------------------------
WorkerStep ==
    \/ MockDelta \/ MockEnd \/ LoopHead \/ GetEndpoint \/ NoEndpointYet \/ NoEndpoint \/ StreamDelta \/ StreamError
    \/ CallSucceeds \/ CallFails \/ FinishSuccess \/ Abandon \/ FinishFailure

Next == WorkerStep \/ DeadlinePasses \/ Stop

Spec == Init /\ [][Next]_vars

\* The worker runs, and every wait ends; a call ends if the request has a timeout.
Fairness ==
    /\ WF_vars(MockDelta \/ MockEnd \/ LoopHead \/ GetEndpoint \/ NoEndpointYet \/ NoEndpoint
               \/ FinishSuccess \/ Abandon \/ FinishFailure)
    /\ WF_vars(req.timeout /\ (CallSucceeds \/ CallFails))

FairSpec == Spec /\ Fairness
-----------------------------------------------------------------------------
Kinds == {"delta", "finish", "text", "error"}
Terminal(m) == m.kind # "delta"

\* Every variable has its type.
TypeOK ==
    /\ req \in Requests
    /\ pc \in {"loop", "select", "wait", "call", "success", "end", "done"}
    /\ attempt \in Nat
    /\ stream \in [index : Nat, failed : BOOLEAN, started : BOOLEAN]
    /\ ok \in BOOLEAN
    /\ error \in {"", "call", "stream", "no endpoint", "deadline exceeded"}
    /\ expired \in BOOLEAN /\ stopping \in BOOLEAN
    /\ record \in {"Running", "Success", "Failed", "Timeout"}
    /\ counted \in Seq({"ok", "failed", "timeout"})
    /\ out \in Seq([kind : Kinds, attempt : Nat, index : Nat, code : {0, -41, -42}])

\* Retries never mix two answers: all the output a client gets of a request comes from one attempt,
\* its pieces are numbered without a gap from 0, and the finishing one closes the numbering.
OneCoherentOutput ==
    /\ \A i, j \in DOMAIN out : out[i].kind # "error" /\ out[j].kind # "error" =>
          out[i].attempt = out[j].attempt
    /\ \A i \in DOMAIN out : out[i].kind \in {"delta", "finish"} => out[i].index = i - 1

\* When handle_request returns, the record, the metrics and the last message to the client say the
\* same, and they say something unless stop() made the worker give the request up.
OutcomeAgrees ==
    pc = "done" =>
        \/ /\ record = "Success" /\ counted = <<"ok">>
           /\ IF req.enoutput THEN out # << >> /\ out[Len(out)].kind \in {"finish", "text"} ELSE out = << >>
        \/ /\ record = "Failed" /\ counted = <<"failed">>
           /\ out # << >> /\ out[Len(out)].code = -41
        \/ /\ record = "Timeout" /\ counted = <<"timeout">>
           /\ out # << >> /\ out[Len(out)].code = -42
        \/ /\ record = "Running" /\ counted = << >> /\ stopping
           /\ \A i \in DOMAIN out : out[i].kind = "delta"

\* A failed call is not reported while retries are left: unless output had started, the deadline
\* passed, no endpoint was found or stop() came, handle_request used max_retries + 1 attempts.
RetriesUsedUp == record = "Failed" /\ error = "call" => attempt = req.max_retries + 1

\* Every request handed to handle_request is done with in the end, whatever the endpoints do, unless
\* it has no timeout and stays for good in one of its calls.
Terminates == <>(pc = "done") \/ (~ req.timeout /\ <>[](pc = "call"))

R == INSTANCE Reply WITH
    pieces <- Len(SelectSeq(out, LAMBDA m : m.kind = "delta")),
    end <- IF out = << >> \/ out[Len(out)].kind = "delta" THEN "none"
           ELSE IF out[Len(out)].kind = "error" THEN "error" ELSE "result"

\* The messages of one request are a reply: pieces, then at most one end, and nothing after it.
ImplementsReply == R!ReplySpec

=============================================================================
