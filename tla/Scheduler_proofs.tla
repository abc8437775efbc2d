--------------------------- MODULE Scheduler_proofs ---------------------------
(***************************************************************************)
(* Proofs about Scheduler, from the invariant of SchedulerQueue_proofs.    *)
(*                                                                         *)
(* For any session threads, workers, settings and limits, every request is *)
(* served once, no wakeup is lost, the records never go back, the counters *)
(* balance, the limits bound the queue, and the queue implements           *)
(* ClassQueue.                                                             *)
(***************************************************************************)
EXTENDS SchedulerQueue_proofs

(***************************************************************************)
(* The records                                                             *)
(***************************************************************************)

\* Where a session thread is before record_pending.
Unrecorded == Holding \cup {"accepted", "counted"}

\* What RecordsAdvance says of a step.
Advances ==
    \A i \in DOMAIN records, j \in DOMAIN records' :
        records[i].task_id = records'[j].task_id =>
            records'[j] = records[i] \/ Rank(records'[j].status) > Rank(records[i].status)

\* A session thread before record_pending keeps its request, or has a new one.
ClientsKeep ==
    \A c \in Clients : client'[c].pc \in Unrecorded =>
        client'[c].req.task_id > counter \/ (client[c].pc \in Unrecorded /\ client'[c].req = client[c].req)

\* A worker gets at most a request from the queue, and lets go of none that may be marked as running,
\* unless stop() was called.
WorkerKeeps(w) ==
    /\ worker'[w].pc \in Unanswered =>
         \/ /\ worker'[w].req = worker[w].req
            /\ worker'[w].pc = worker[w].pc \/ (worker'[w].pc = "calling" /\ worker[w].pc = "running")
         \/ worker'[w].pc = "popped" /\ \E k \in DOMAIN pending : worker'[w].req = pending[k]
    /\ worker[w].pc \in {"popped", "running", "calling"} =>
         stopping' \/ (worker'[w].pc \in Unanswered /\ worker'[w].req = worker[w].req)

\* A step that leaves the records alone.
RecordsAlone ==
    /\ records' = records /\ counter' \in {counter, counter + 1} /\ (stopping => stopping')
    /\ ClientsKeep
    /\ \A k \in DOMAIN pending' :
         \/ \E j \in DOMAIN pending : pending'[k] = pending[j]
         \/ \E c \in Clients : client[c].pc \in Unrecorded /\ pending'[k] = client[c].req
    /\ \A w \in Workers : WorkerKeeps(w)

\* Such a step keeps what the records say true.
LEMMA AloneRecords ==
    ASSUME IInv, RecordsAlone
    PROVE  RecordsFollow' /\ RunningMeansServed' /\ Advances
<1>0. records' = records /\ records \in Seq(Record) /\ counter \in Nat /\ counter' \in {counter, counter + 1}
  BY SchedulerAssumption DEF IInv, TypeOK, RecordsAlone
<1>1. \A i, j \in DOMAIN records : records[i].task_id = records[j].task_id => i = j
  BY Zenon DEF IInv, RecordsFollow
<1>2. ASSUME NEW i \in DOMAIN records
      PROVE  /\ records[i].task_id \in Nat /\ records[i].task_id <= counter
             /\ \A c \in Clients : client'[c].pc \in Unrecorded => client'[c].req.task_id # records[i].task_id
             /\ \A k \in DOMAIN pending' :
                  pending'[k].task_id = records[i].task_id => records[i].status = "Pending"
             /\ \A w \in Workers : Serving(w, records[i].task_id)' =>
                  /\ worker'[w].pc = "popped" => records[i].status = "Pending"
                  /\ worker'[w].pc \in {"running", "calling"} => records[i].status \in {"Pending", "Running"}
                  /\ worker'[w].pc = "failed" => records[i].status # "Running"
             /\ records[i].status = "Running" => stopping' \/ \E w \in Workers : Serving(w, records[i].task_id)'
  <2>1. records[i] \in Record
    BY <1>0
  <2>2. records[i].task_id \in Nat /\ records[i].task_id <= counter
    BY <2>1, SchedulerAssumption DEF Record, TaskIds, IInv, RecordsFollow
  <2>3. \A c \in Clients : client[c].pc \in Unrecorded => client[c].req.task_id # records[i].task_id
    BY DEF IInv, RecordsFollow, Unrecorded
  <2>4. \A k \in DOMAIN pending : pending[k].task_id = records[i].task_id => records[i].status = "Pending"
    BY Zenon DEF IInv, RecordsFollow
  <2>5. ASSUME NEW c \in Clients, client'[c].pc \in Unrecorded PROVE client'[c].req.task_id # records[i].task_id
    <3>1. CASE client'[c].req.task_id > counter
      BY <1>0, <2>2, <3>1
    <3>2. CASE client[c].pc \in Unrecorded /\ client'[c].req = client[c].req
      BY Zenon, <2>3, <3>2
    <3> QED
      BY Zenon, <2>5, <3>1, <3>2 DEF RecordsAlone, ClientsKeep
  <2>6. ASSUME NEW k \in DOMAIN pending', pending'[k].task_id = records[i].task_id
        PROVE  records[i].status = "Pending"
    BY Zenon, <2>3, <2>4, <2>6 DEF RecordsAlone
  <2>7. ASSUME NEW w \in Workers, Serving(w, records[i].task_id)'
        PROVE  /\ worker'[w].pc = "popped" => records[i].status = "Pending"
               /\ worker'[w].pc \in {"running", "calling"} => records[i].status \in {"Pending", "Running"}
               /\ worker'[w].pc = "failed" => records[i].status # "Running"
    <3>1. worker'[w].pc \in Unanswered /\ worker'[w].req.task_id = records[i].task_id
      BY Zenon, <1>0, <2>7 DEF Serving, Unanswered
    <3>2. CASE worker'[w].pc = "popped" /\ \E k \in DOMAIN pending : worker'[w].req = pending[k]
      BY Zenon, <2>4, <3>1, <3>2
    <3>3. CASE /\ worker'[w].req = worker[w].req
               /\ worker'[w].pc = worker[w].pc \/ (worker'[w].pc = "calling" /\ worker[w].pc = "running")
      <4>1. Serving(w, records[i].task_id)
        BY Zenon, <3>1, <3>3 DEF Serving, Unanswered
      <4>2. /\ worker[w].pc = "popped" => records[i].status = "Pending"
            /\ worker[w].pc \in {"running", "calling"} => records[i].status \in {"Pending", "Running"}
            /\ worker[w].pc = "failed" => records[i].status # "Running"
        BY Zenon, <4>1 DEF IInv, RecordsFollow
      <4> QED
        BY <3>3, <4>2
    <3> QED
      BY Zenon, <3>1, <3>2, <3>3 DEF RecordsAlone, WorkerKeeps
  <2>8. ASSUME records[i].status = "Running", ~ stopping' PROVE \E w \in Workers : Serving(w, records[i].task_id)'
    <3>1. PICK w \in Workers : Serving(w, records[i].task_id)
      BY Zenon, <2>8 DEF IInv, RunningMeansServed, RecordsAlone
    <3>2. worker[w].pc # "failed"
      BY Zenon, <2>8, <3>1 DEF IInv, RecordsFollow
    <3>3. worker[w].pc \in {"popped", "running", "calling"} /\ worker[w].req.task_id = records[i].task_id
      BY Zenon, <3>1, <3>2 DEF Serving
    <3>4. worker'[w].pc \in Unanswered /\ worker'[w].req.task_id = records[i].task_id
      BY Zenon, <2>8, <3>3 DEF RecordsAlone, WorkerKeeps
    <3> QED
      BY Zenon, <1>0, <3>4 DEF Serving, Unanswered
  <2> QED
    BY Zenon, <2>2, <2>5, <2>6, <2>7, <2>8
<1>3. RecordsFollow'
  <2>1. \A i \in DOMAIN records : records[i].task_id <= counter'
    BY <1>0, <1>2
  <2> QED
    BY ZenonT(30), <1>0, <1>1, <1>2, <2>1 DEF RecordsFollow, Unrecorded
<1>4. RunningMeansServed'
  BY Zenon, <1>0, <1>2 DEF RunningMeansServed
<1>5. Advances
  BY Zenon, <1>0, <1>1 DEF Advances
<1> QED
  BY Zenon, <1>3, <1>4, <1>5

\* update_record on the request a worker has: it starts, succeeds or fails.
LEMMA UpdateRecords ==
    ASSUME IInv, NEW w \in Workers, worker[w].pc \in Unanswered,
           NEW s, records' = WithStatus(records, worker[w].req.task_id, s),
           \/ worker[w].pc = "popped" /\ s = "Running" /\ worker'[w].pc = "running"
           \/ worker[w].pc = "calling" /\ s = "Success" /\ worker'[w].pc = "succeeded"
           \/ worker[w].pc = "calling" /\ s = "Failed" /\ worker'[w].pc = "failed",
           worker'[w].req = worker[w].req, \A v \in Workers \ {w} : worker'[v] = worker[v],
           UNCHANGED <<counter, client, pending, stop>>
    PROVE  RecordsFollow' /\ RunningMeansServed' /\ Advances
<1>0. PICK t : t = worker[w].req.task_id
  BY Zenon
<1>1. Serving(w, t) /\ t \in TaskIds
  BY Zenon, <1>0, RequestFields DEF IInv, TasksApart, Serving, Unanswered
<1>2. records \in Seq(Record) /\ DOMAIN records' = DOMAIN records
  BY Zenon DEF IInv, TypeOK, WithStatus
<1>3. ASSUME NEW i \in DOMAIN records
      PROVE  /\ records[i] \in Record /\ records'[i].task_id = records[i].task_id
             /\ records[i].task_id # t => records'[i] = records[i]
             /\ records[i].task_id = t => records'[i].status = s
  <2>1. records[i] \in Record
    BY <1>2
  <2>2. records'[i] = IF records[i].task_id = t THEN [records[i] EXCEPT !.status = s] ELSE records[i]
    BY Zenon, <1>0 DEF WithStatus
  <2> QED
    BY Zenon, <2>1, <2>2 DEF Record
<1>4. \A v \in Workers : Serving(v, t) => v = w
  BY Zenon, <1>1 DEF IInv, ServedOnce
<1>5. \A k \in DOMAIN pending : pending[k].task_id # t
  BY Zenon, <1>1 DEF IInv, ServedOnce
<1>6. \A v \in Workers \ {w} : \A u : Serving(v, u)' <=> Serving(v, u)
  BY Zenon DEF Serving
<1>7. \A u : Serving(w, u)' => u = t
  BY Zenon, <1>0 DEF Serving
<1>8. \A i \in DOMAIN records : records[i].task_id = t =>
        /\ worker[w].pc = "popped" => records[i].status = "Pending"
        /\ worker[w].pc = "calling" => records[i].status \in {"Pending", "Running"}
  BY Zenon, <1>1 DEF IInv, RecordsFollow
<1>9. \A i, j \in DOMAIN records : records[i].task_id = records[j].task_id => i = j
  BY SMTT(30) DEF IInv, RecordsFollow
<1>10. RecordsFollow'
  <2>1. ASSUME NEW i \in DOMAIN records
        PROVE  /\ records'[i].task_id <= counter
               /\ \A c \in Clients : client[c].pc \in Holding \cup {"accepted", "counted"} =>
                    client[c].req.task_id # records'[i].task_id
               /\ \A k \in DOMAIN pending :
                    pending[k].task_id = records'[i].task_id => records'[i].status = "Pending"
    BY <1>3, <1>5 DEF IInv, RecordsFollow
  <2>2. ASSUME NEW i \in DOMAIN records, NEW v \in Workers, Serving(v, records[i].task_id)'
        PROVE  /\ worker'[v].pc = "popped" => records'[i].status = "Pending"
               /\ worker'[v].pc \in {"running", "calling"} => records'[i].status \in {"Pending", "Running"}
               /\ worker'[v].pc = "failed" => records'[i].status # "Running"
    <3>0. /\ worker'[v].req.task_id = records'[i].task_id
          /\ worker'[v].pc \in {"popped", "running", "calling", "failed"}
      BY Zenon, <2>2 DEF Serving
    <3>1. CASE v = w
      <4>1. records[i].task_id = t
        BY Zenon, <1>0, <1>3, <3>0, <3>1
      <4>2. records'[i].status = s
        BY Zenon, <1>3, <4>1
      <4> QED
        BY Zenon, <3>0, <3>1, <4>2
    <3>2. CASE v # w
      <4>1. worker'[v] = worker[v] /\ Serving(v, records[i].task_id)
        BY Zenon, <1>3, <3>0, <3>2 DEF Serving
      <4>2. records[i].task_id # t
        BY Zenon, <1>4, <3>2, <4>1
      <4>3. records'[i] = records[i]
        BY Zenon, <1>3, <4>2
      <4> QED
        BY ZenonT(30), <4>1, <4>3 DEF IInv, RecordsFollow
    <3> QED
      BY Zenon, <3>1, <3>2
  <2>3. \A i, j \in DOMAIN records : records'[i].task_id = records'[j].task_id => i = j
    BY ZenonT(30), <1>3, <1>9
  <2> QED
    BY ZenonT(30), <1>2, <2>1, <2>2, <2>3 DEF RecordsFollow
<1>11. RunningMeansServed'
  <2> SUFFICES ASSUME NEW i \in DOMAIN records, records'[i].status = "Running", ~ stopping
               PROVE  \E v \in Workers : Serving(v, records[i].task_id)'
    BY SMTT(30), <1>2 DEF RunningMeansServed, stopping
  <2>1. CASE records[i].task_id = t
    <3>1. worker'[w].pc = "running"
      BY Zenon, <1>3, <2>1
    <3>2. worker'[w].req.task_id = records'[i].task_id
      BY Zenon, <1>0, <1>3, <2>1
    <3> QED
      BY ZenonT(30), <3>1, <3>2 DEF Serving
  <2>2. CASE records[i].task_id # t
    <3>1. records'[i] = records[i]
      BY Zenon, <1>3, <2>2
    <3>2. PICK v \in Workers : Serving(v, records[i].task_id)
      BY Zenon, <3>1 DEF IInv, RunningMeansServed
    <3>3. v # w
      BY Zenon, <1>0, <2>2, <3>2 DEF Serving
    <3>4. worker'[v] = worker[v]
      BY Zenon, <3>3
    <3> QED
      BY Zenon, <3>1, <3>2, <3>4 DEF Serving
  <2> QED
    BY Zenon, <2>1, <2>2
<1>12. Advances
  <2> SUFFICES ASSUME NEW i \in DOMAIN records, NEW j \in DOMAIN records, records[i].task_id = records'[j].task_id
               PROVE  records'[j] = records[i] \/ Rank(records'[j].status) > Rank(records[i].status)
    BY Zenon, <1>2 DEF Advances
  <2>1. i = j
    BY ZenonT(30), <1>3, <1>9
  <2>2. CASE records[i].task_id # t
    BY Zenon, <1>3, <2>1, <2>2
  <2>3. CASE records[i].task_id = t
    <3>1. records'[j].status = s
      BY Zenon, <1>3, <2>1, <2>3
    <3>2. CASE worker[w].pc = "popped"
      <4>1. s = "Running" /\ records[i].status = "Pending"
        BY Zenon, <1>8, <2>3, <3>2
      <4> QED
        BY <3>1, <4>1 DEF Rank
    <3>3. CASE worker[w].pc = "calling"
      <4>1. s \in {"Success", "Failed"} /\ records[i].status \in {"Pending", "Running"}
        BY Zenon, <1>8, <2>3, <3>3
      <4> QED
        BY <3>1, <4>1 DEF Rank
    <3> QED
      BY Zenon, <3>2, <3>3
  <2> QED
    BY Zenon, <2>2, <2>3
<1> QED
  BY Zenon, <1>10, <1>11, <1>12

\* What record_pending leaves: the records from the first or the second on, and the new one at the end.
LEMMA PendingAt ==
    ASSUME NEW rs \in Seq(Record), NEW t
    PROVE  \E d \in {0, 1} :
             /\ Len(WithPending(rs, t)) = Len(rs) + 1 - d
             /\ \A j \in 1..(Len(rs) + 1 - d) : WithPending(rs, t)[j] =
                  IF j + d <= Len(rs) THEN rs[j + d] ELSE [task_id |-> t, status |-> "Pending"]
             /\ DOMAIN WithPending(rs, t) = 1..(Len(rs) + 1 - d)
<1> DEFINE r == [task_id |-> t, status |-> "Pending"]
           all == Append(rs, r)
<1>1. /\ Len(all) = Len(rs) + 1 /\ DOMAIN all = 1..(Len(rs) + 1) /\ Len(rs) \in Nat
      /\ \A j \in 1..(Len(rs) + 1) : all[j] = IF j <= Len(rs) THEN rs[j] ELSE r
  OBVIOUS
<1>2. all \in Seq(Record \cup {r}) /\ all # << >>
  OBVIOUS
<1> HIDE DEF all
<1>3. /\ Len(Tail(all)) = Len(rs) /\ DOMAIN Tail(all) = 1..Len(rs)
      /\ \A j \in 1..Len(rs) : Tail(all)[j] = all[j + 1]
  BY <1>1, <1>2
<1>4. CASE WithPending(rs, t) = all
  <2> WITNESS 0 \in {0, 1}
  <2> QED
    BY <1>1, <1>4
<1>5. CASE WithPending(rs, t) = Tail(all)
  <2>1. \A j \in 1..Len(rs) : Tail(all)[j] = IF j + 1 <= Len(rs) THEN rs[j + 1] ELSE r
    <3>1. \A j \in 1..Len(rs) : j + 1 \in 1..(Len(rs) + 1)
      BY <1>1
    <3> QED
      BY Zenon, <1>1, <1>3, <3>1
  <2>2. Len(rs) + 1 - 1 = Len(rs)
    BY <1>1
  <2>3. /\ Len(WithPending(rs, t)) = Len(rs) + 1 - 1
        /\ \A j \in 1..(Len(rs) + 1 - 1) : WithPending(rs, t)[j] = IF j + 1 <= Len(rs) THEN rs[j + 1] ELSE r
        /\ DOMAIN WithPending(rs, t) = 1..(Len(rs) + 1 - 1)
    BY <1>3, <1>5, <2>1, <2>2
  <2>4. 1 \in {0, 1}
    OBVIOUS
  <2> QED
    BY Zenon, <2>3, <2>4
<1> QED
  BY Zenon, <1>4, <1>5 DEF WithPending, all

\* record_pending, which may come after the request was taken or finished.
LEMMA NewRecord ==
    ASSUME IInv, NEW c \in Clients, RecordPending(c)
    PROVE  RecordsFollow' /\ RunningMeansServed' /\ Advances
<1>0. PICK t : t = client[c].req.task_id
  BY Zenon
<1>1. records \in Seq(Record) /\ TypeOK /\ DOMAIN records = 1..Len(records) /\ Len(records) \in Nat
  BY DEF IInv, TypeOK
<1>2. PICK d \in {0, 1} :
        /\ DOMAIN records' = 1..(Len(records) + 1 - d)
        /\ \A j \in 1..(Len(records) + 1 - d) : records'[j] =
             IF j + d <= Len(records) THEN records[j + d] ELSE [task_id |-> t, status |-> "Pending"]
  BY ZenonT(30), <1>0, <1>1, PendingAt DEF RecordPending
<1> DEFINE New(j) == j + d = Len(records) + 1
<1>3. ASSUME NEW j \in DOMAIN records'
      PROVE  /\ New(j) => records'[j].task_id = t /\ records'[j].status = "Pending"
             /\ ~ New(j) => j + d \in DOMAIN records /\ records'[j] = records[j + d]
  <2>1. j \in 1..(Len(records) + 1 - d)
    BY Zenon, <1>2
  <2>2. New(j) => records'[j] = [task_id |-> t, status |-> "Pending"]
    BY <1>1, <1>2, <2>1
  <2>3. ~ New(j) => j + d \in 1..Len(records) /\ records'[j] = records[j + d]
    BY <1>1, <1>2, <2>1
  <2> QED
    BY <1>1, <2>2, <2>3
<1>4. \A j \in DOMAIN records' : j \in Nat
  BY <1>1, <1>2
<1> HIDE DEF New
<1>5. /\ client[c].pc = "counted" /\ client'[c].pc = "recorded"
      /\ \A e \in Clients \ {c} : client'[e] = client[e]
      /\ UNCHANGED <<counter, pending, worker, stop>>
  <2>1. client' = [client EXCEPT ![c].pc = "recorded"]
    BY DEF RecordPending
  <2>2. client'[c].pc = "recorded" /\ \A e \in Clients \ {c} : client'[e] = client[e]
    BY ZenonT(30), <1>1, <2>1, ClientAt
  <2> QED
    BY <2>2 DEF RecordPending
<1>6. t <= counter /\ \A e \in Clients \ {c} : client[e].pc # "idle" => client[e].req.task_id # t
  BY Zenon, <1>0, <1>5 DEF IInv, TasksApart
<1>7. \A i \in DOMAIN records : records[i].task_id # t
  BY Zenon, <1>0, <1>5 DEF IInv, RecordsFollow
<1>8. \A i, j \in DOMAIN records : records[i].task_id = records[j].task_id => i = j
  BY Zenon DEF IInv, RecordsFollow
<1>9. \A w \in Workers : \A u : Serving(w, u)' <=> Serving(w, u)
  BY Zenon, <1>5 DEF Serving
<1>10. RecordsFollow'
  <2>1. ASSUME NEW i \in DOMAIN records', NEW j \in DOMAIN records', records'[i].task_id = records'[j].task_id
        PROVE  i = j
    <3>1. CASE New(i) /\ New(j)
      BY <1>1, <1>4, <3>1 DEF New
    <3>2. CASE ~ New(i) /\ ~ New(j)
      <4>1. i + d = j + d
        BY <1>3, <1>8, <2>1, <3>2
      <4> QED
        BY <1>4, <4>1
    <3> QED
      BY Zenon, <1>3, <1>7, <2>1, <3>1, <3>2
  <2>2. ASSUME NEW j \in DOMAIN records'
        PROVE  /\ records'[j].task_id <= counter
               /\ \A e \in Clients : client'[e].pc \in Holding \cup {"accepted", "counted"} =>
                    client'[e].req.task_id # records'[j].task_id
               /\ \A k \in DOMAIN pending :
                    pending[k].task_id = records'[j].task_id => records'[j].status = "Pending"
               /\ \A w \in Workers : Serving(w, records'[j].task_id) =>
                    /\ worker[w].pc = "popped" => records'[j].status = "Pending"
                    /\ worker[w].pc \in {"running", "calling"} => records'[j].status \in {"Pending", "Running"}
                    /\ worker[w].pc = "failed" => records'[j].status # "Running"
    <3>1. CASE New(j)
      <4>1. records'[j].task_id = t /\ records'[j].status = "Pending"
        BY Zenon, <1>3, <3>1
      <4>2. \A e \in Clients : client'[e].pc \in Holding \cup {"accepted", "counted"} => client'[e].req.task_id # t
        BY ZenonT(30), <1>5, <1>6 DEF Holding
      <4> QED
        BY Zenon, <1>6, <4>1, <4>2
    <3>2. CASE ~ New(j)
      <4>1. j + d \in DOMAIN records /\ records'[j] = records[j + d]
        BY Zenon, <1>3, <3>2
      <4>2. \A e \in Clients : client'[e].pc \in Holding \cup {"accepted", "counted"} =>
              client[e].pc \in Holding \cup {"accepted", "counted"} /\ client'[e].req = client[e].req
        BY Zenon, <1>5 DEF Holding
      <4> QED
        BY <4>1, <4>2 DEF IInv, RecordsFollow
    <3> QED
      BY Zenon, <3>1, <3>2
  <2>3. \A w \in Workers, j \in DOMAIN records' : Serving(w, records[j].task_id)' => Serving(w, records'[j].task_id)
    BY Zenon, <1>5 DEF Serving
  <2> QED
    BY Zenon, <1>5, <2>1, <2>2, <2>3 DEF RecordsFollow
<1>11. RunningMeansServed'
  <2> SUFFICES ASSUME NEW j \in DOMAIN records', records'[j].status = "Running", ~ stopping
               PROVE  \E w \in Workers : Serving(w, records'[j].task_id)
    BY Zenon, <1>5 DEF RunningMeansServed, stopping, Serving
  <2>1. ~ New(j)
    BY Zenon, <1>3
  <2> QED
    BY Zenon, <1>3, <2>1 DEF IInv, RunningMeansServed
<1>12. Advances
  <2> SUFFICES ASSUME NEW i \in DOMAIN records, NEW j \in DOMAIN records', records[i].task_id = records'[j].task_id
               PROVE  records'[j] = records[i]
    BY Zenon DEF Advances
  <2>1. ~ New(j)
    BY Zenon, <1>3, <1>7
  <2> QED
    BY Zenon, <1>3, <1>8, <2>1
<1> QED
  BY Zenon, <1>10, <1>11, <1>12

\* Every step keeps what the records say true, and takes no status back.
LEMMA StepRecords ==
    ASSUME SetFacts, IInv, [Next]_vars
    PROVE  RecordsFollow' /\ RunningMeansServed' /\ Advances
<1> DEFINE Goal == RecordsFollow' /\ RunningMeansServed' /\ Advances
<1>0. TypeOK /\ counter \in Nat
  BY SchedulerAssumption DEF IInv, TypeOK
<1>1. UNCHANGED client => ClientsKeep
  BY Zenon DEF ClientsKeep
<1>2. ASSUME NEW w \in Workers, worker'[w] = worker[w] PROVE WorkerKeeps(w)
  <2>1. worker'[w].req = worker[w].req /\ worker'[w].pc = worker[w].pc
    BY Zenon, <1>2
  <2>2. worker[w].pc \in {"popped", "running", "calling"} => worker'[w].pc \in Unanswered
    BY Zenon, <2>1 DEF Unanswered
  <2> QED
    BY Zenon, <2>1, <2>2 DEF WorkerKeeps
<1>3. ASSUME ClientsKeep, \A w \in Workers : WorkerKeeps(w), UNCHANGED <<records, counter, pending>>,
             stopping => stopping'
      PROVE  Goal
  <2>1. RecordsAlone
    BY Zenon, <1>3 DEF RecordsAlone
  <2> QED
    BY Zenon, <2>1, AloneRecords
<1>4. ASSUME NEW c \in Clients, NEW p \in Priorities, Inference(c, p) PROVE Goal
  <2>1. client'[c].req.task_id = counter + 1 /\ \A d \in Clients \ {c} : client'[d] = client[d]
    BY Zenon, <1>0, <1>4 DEF Inference, TypeOK, ClientState
  <2>2. client'[c].req.task_id > counter
    BY <1>0, <2>1
  <2>3. ClientsKeep
    <3> SUFFICES ASSUME NEW d \in Clients, client'[d].pc \in Unrecorded, ~ (client'[d].req.task_id > counter)
                 PROVE  client[d].pc \in Unrecorded /\ client'[d].req = client[d].req
      BY Zenon DEF ClientsKeep
    <3>1. d # c
      BY Zenon, <2>2
    <3> QED
      BY Zenon, <2>1, <3>1
  <2>4. \A w \in Workers : WorkerKeeps(w)
    BY Zenon, <1>2, <1>4 DEF Inference
  <2>5. UNCHANGED <<records, pending, stop>> /\ counter' = counter + 1
    BY Zenon, <1>4 DEF Inference
  <2>6. RecordsAlone
    BY Zenon, <2>3, <2>4, <2>5 DEF RecordsAlone, stopping
  <2> QED
    BY Zenon, <2>6, AloneRecords
<1>5. ASSUME NEW c \in Clients, ReadLimits(c) \/ Reject(c) \/ CountAccepted(c) PROVE Goal
  <2>1. ClientsKeep
    <3>1. \A d \in Clients \ {c} : client'[d] = client[d]
      BY Zenon, <1>0, <1>5 DEF ReadLimits, Reject, CountAccepted, TypeOK
    <3>2. client'[c].pc \in Unrecorded => client[c].pc \in Unrecorded /\ client'[c].req = client[c].req
      <4>1. CASE ReadLimits(c)
        BY Zenon, <1>0, <4>1 DEF ReadLimits, TypeOK, ClientState, Unrecorded, Holding
      <4>2. CASE Reject(c)
        BY Zenon, <1>0, <4>2 DEF Reject, TypeOK, IdleClient, Unrecorded, Holding
      <4>3. CASE CountAccepted(c)
        BY Zenon, <1>0, <4>3 DEF CountAccepted, TypeOK, ClientState, Unrecorded, Holding
      <4> QED
        BY Zenon, <1>5, <4>1, <4>2, <4>3
    <3> QED
      BY Zenon, <3>1, <3>2 DEF ClientsKeep
  <2>2. UNCHANGED <<records, counter, pending, stop, worker>>
    BY Zenon, <1>5 DEF ReadLimits, Reject, CountAccepted
  <2> QED
    BY Zenon, <1>2, <1>3, <2>1, <2>2 DEF stopping
<1>6. ASSUME NEW c \in Clients, Admit(c) PROVE Goal
  <2>1. PICK pc \in {"rejected", "accepted"} : client' = [client EXCEPT ![c].pc = pc]
    BY ZenonT(30), <1>6 DEF Admit
  <2>2. /\ client[c].pc = "admit" /\ client'[c].req = client[c].req
        /\ \A d \in Clients \ {c} : client'[d] = client[d]
    BY Zenon, <1>0, <1>6, <2>1, ClientAt DEF Admit
  <2>3. ClientsKeep
    BY Zenon, <2>2 DEF Unrecorded, Holding, ClientsKeep
  <2>4. \A w \in Workers : WorkerKeeps(w)
    BY Zenon, <1>2, <1>6 DEF Admit
  <2>5. \A k \in DOMAIN pending' : (\E j \in DOMAIN pending : pending'[k] = pending[j]) \/ pending'[k] = client[c].req
    <3>1. CASE pending' = pending
      BY Zenon, <3>1
    <3>2. CASE pending' = Append(pending, client[c].req)
      <4>1. pending \in Seq(Request)
        BY Zenon, <1>0 DEF TypeOK
      <4>2. /\ DOMAIN pending = 1..Len(pending) /\ DOMAIN pending' = 1..(Len(pending) + 1) /\ Len(pending) \in Nat
            /\ \A k \in 1..Len(pending) : pending'[k] = pending[k]
            /\ pending'[Len(pending) + 1] = client[c].req
        BY <3>2, <4>1
      <4> QED
        BY <4>2
    <3> QED
      BY Zenon, <1>6, <3>1, <3>2 DEF Admit
  <2>6. client[c].pc \in Unrecorded
    BY Zenon, <2>2 DEF Unrecorded, Holding
  <2>7. UNCHANGED <<records, counter, stop>>
    BY Zenon, <1>6 DEF Admit
  <2>8. RecordsAlone
    BY Zenon, <2>3, <2>4, <2>5, <2>6, <2>7 DEF RecordsAlone, stopping
  <2> QED
    BY Zenon, <2>8, AloneRecords
<1>7. ASSUME NEW c \in Clients, RecordPending(c) PROVE Goal
  BY Zenon, <1>7, NewRecord
<1>8. ASSUME NEW c \in Clients, NotifyOne(c) PROVE Goal
  <2>1. ClientsKeep
    BY Zenon, <1>0, <1>8 DEF NotifyOne, TypeOK, IdleClient, Unrecorded, Holding, ClientsKeep
  <2>2. CASE UNCHANGED worker
    BY Zenon, <1>2, <1>3, <1>8, <2>1, <2>2 DEF NotifyOne, stopping
  <2>3. ASSUME NEW w \in Workers, worker[w].pc = "sleeping", worker' = [worker EXCEPT ![w].pc = "lock"]
        PROVE  Goal
    <3>1. worker'[w].pc = "lock" /\ \A v \in Workers \ {w} : worker'[v] = worker[v]
      BY ZenonT(30), <1>0, <2>3, WorkerAt
    <3>2. \A v \in Workers : WorkerKeeps(v)
      BY ZenonT(30), <1>2, <2>3, <3>1 DEF Unanswered, WorkerKeeps
    <3> QED
      BY Zenon, <1>3, <1>8, <2>1, <3>2 DEF NotifyOne, stopping
  <2> QED
    BY Zenon, <1>8, <2>2, <2>3 DEF NotifyOne
<1>9. ASSUME NEW w \in Workers, PopRequest(w) PROVE Goal
  <2>1. PICK i \in 1..Len(pending) : Pops(w, i)
    BY Zenon, <1>9, PopEffect
  <2>2. pending \in Seq(Request) /\ DOMAIN pending = 1..Len(pending) /\ Len(pending) \in Nat
    BY <1>0 DEF TypeOK
  <2>3. /\ worker[w].pc = "lock" /\ worker'[w].pc = "popped" /\ worker'[w].req = pending[i]
        /\ \A v \in Workers \ {w} : worker'[v] = worker[v]
    BY Zenon, <1>0, <2>1 DEF Pops, TypeOK, WorkerState
  <2>4. \A v \in Workers : WorkerKeeps(v)
    BY Zenon, <1>2, <2>2, <2>3 DEF Unanswered, WorkerKeeps
  <2>5. ClientsKeep /\ UNCHANGED <<records, counter, stop>>
    BY Zenon, <1>1, <2>1 DEF Pops
  <2>6. \A k \in DOMAIN pending' : \E j \in DOMAIN pending : pending'[k] = pending[j]
    <3>1. pending' = Without(pending, i)
      BY SMTT(30), <2>1 DEF Pops
    <3>2. pending' \in Seq(Request) /\ Len(pending') = Len(pending) - 1
      BY ZenonT(30), <2>2, <3>1, ErasedAt
    <3>3. \A k \in 1..(Len(pending) - 1) : pending'[k] = pending[Shift(i, k)] /\ Shift(i, k) \in 1..Len(pending)
      BY ZenonT(30), <2>2, <3>1, ErasedAt
    <3>4. DOMAIN pending' = 1..(Len(pending) - 1)
      BY <3>2
    <3> QED
      BY Zenon, <2>2, <3>3, <3>4
  <2>7. RecordsAlone
    BY Zenon, <2>4, <2>5, <2>6 DEF RecordsAlone, stopping
  <2> QED
    BY Zenon, <2>7, AloneRecords
<1>10. ASSUME NEW w \in Workers, ReadThreshold(w) \/ TestStopping(w) \/ StoreReady(w) PROVE Goal
  <2>1. /\ worker'[w].pc \notin Unanswered /\ worker[w].pc \in {"config", "handled", "ready"}
        /\ \A v \in Workers \ {w} : worker'[v] = worker[v]
    <3>1. CASE ReadThreshold(w)
      BY Zenon, <1>0, <3>1 DEF ReadThreshold, TypeOK, WorkerState, Unanswered
    <3>2. CASE TestStopping(w) \/ StoreReady(w)
      BY <1>0, <3>2 DEF TestStopping, StoreReady, TypeOK, WorkerState, NewWorker, Unanswered
    <3> QED
      BY Zenon, <1>10, <3>1, <3>2
  <2>2. UNCHANGED <<records, counter, pending, stop, client>>
    BY Zenon, <1>10 DEF ReadThreshold, TestStopping, StoreReady
  <2>3. \A v \in Workers : WorkerKeeps(v)
    BY Zenon, <1>2, <2>1 DEF WorkerKeeps
  <2> QED
    BY Zenon, <1>1, <1>3, <2>2, <2>3 DEF stopping
<1>11. ASSUME NEW w \in Workers,
              \/ WorkerExit(w) \/ FindEmpty(w) \/ Sleep(w) \/ WakeSpuriously(w) \/ Attempt(w) \/ CountSuccess(w)
              \/ CountFailure(w) \/ (HandleFailure(w) /\ stopping)
       PROVE  Goal
  <2>1. PICK pc : worker' = [worker EXCEPT ![w].pc = pc]
    BY Zenon, <1>11 DEF WorkerExit, FindEmpty, Sleep, WakeSpuriously, Attempt, CountSuccess, CountFailure, HandleFailure
  <2>2. /\ worker'[w].pc = pc /\ worker'[w].req = worker[w].req
        /\ \A v \in Workers \ {w} : worker'[v] = worker[v]
    BY ZenonT(30), <1>0, <2>1, WorkerAt
  <2>3. UNCHANGED <<records, counter, pending, stop, client>>
    BY Zenon, <1>11 DEF WorkerExit, FindEmpty, Sleep, WakeSpuriously, Attempt, CountSuccess, CountFailure, HandleFailure
  <2>4. WorkerKeeps(w)
    <3>1. CASE Attempt(w)
      <4>1. worker[w].pc = "running" /\ pc = IF stopping /\ ~ mock_mode THEN "handled" ELSE "calling"
        BY ZenonT(30), <1>0, <2>1, <2>2, <3>1 DEF Attempt, TypeOK, WorkerState
      <4> QED
        BY Zenon, <2>2, <2>3, <4>1 DEF Unanswered, stopping, WorkerKeeps
    <3>2. CASE HandleFailure(w) /\ stopping
      <4>1. worker[w].pc = "calling" /\ pc = "handled" /\ stopping'
        BY <1>0, <2>2, <2>3, <3>2 DEF HandleFailure, TypeOK, WorkerState, stopping
      <4> QED
        BY Zenon, <2>2, <4>1 DEF Unanswered, WorkerKeeps
    <3>3. CASE \/ WorkerExit(w) \/ FindEmpty(w) \/ Sleep(w) \/ WakeSpuriously(w)
               \/ CountSuccess(w) \/ CountFailure(w)
      <4>1. worker[w].pc \notin {"popped", "running", "calling"} /\ worker'[w].pc \notin Unanswered
        BY <1>0, <3>3 DEF WorkerExit, FindEmpty, Sleep, WakeSpuriously, CountSuccess, CountFailure, TypeOK,
             WorkerState, Unanswered
      <4> QED
        BY Zenon, <4>1 DEF WorkerKeeps
    <3> QED
      BY Zenon, <1>11, <3>1, <3>2, <3>3
  <2>5. \A v \in Workers : WorkerKeeps(v)
    BY Zenon, <1>2, <2>2, <2>4
  <2> QED
    BY Zenon, <1>1, <1>3, <2>3, <2>5 DEF stopping
<1>12. ASSUME NEW w \in Workers, StartRequest(w) \/ HandleSuccess(w) \/ (HandleFailure(w) /\ ~ stopping)
       PROVE  Goal
  <2>1. PICK pc, s : /\ worker' = [worker EXCEPT ![w].pc = pc]
                     /\ records' = WithStatus(records, worker[w].req.task_id, s)
                     /\ \/ worker[w].pc = "popped" /\ s = "Running" /\ pc = "running"
                        \/ worker[w].pc = "calling" /\ s = "Success" /\ pc = "succeeded"
                        \/ worker[w].pc = "calling" /\ s = "Failed" /\ pc = "failed"
    BY Zenon, <1>12 DEF StartRequest, HandleSuccess, HandleFailure
  <2>2. /\ worker'[w].pc = pc /\ worker'[w].req = worker[w].req
        /\ \A v \in Workers \ {w} : worker'[v] = worker[v]
    BY ZenonT(30), <1>0, <2>1, WorkerAt
  <2>3. UNCHANGED <<counter, client, pending, stop>>
    BY Zenon, <1>12 DEF StartRequest, HandleSuccess, HandleFailure
  <2>4. worker[w].pc \in Unanswered
    BY Zenon, <2>1 DEF Unanswered
  <2> QED
    BY ZenonT(30), <2>1, <2>2, <2>3, <2>4, UpdateRecords
<1>13. CASE StopNotify
  <2>1. \A w \in Workers : \/ worker'[w] = worker[w]
                           \/ worker[w].pc = "sleeping" /\ worker'[w].pc = "lock"
    BY Zenon, <1>0, <1>13 DEF StopNotify, TypeOK, WorkerState
  <2>2. \A w \in Workers : WorkerKeeps(w)
    BY Zenon, <1>2, <2>1 DEF Unanswered, WorkerKeeps
  <2> QED
    BY Zenon, <1>1, <1>3, <1>13, <2>2 DEF StopNotify, stopping
<1>14. CASE StopFlag \/ StopJoin \/ ReloadLimits \/ UNCHANGED vars
  <2>1. UNCHANGED <<records, counter, pending, client, worker>> /\ (stopping => stopping')
    BY Zenon, <1>14 DEF StopFlag, StopJoin, ReloadLimits, vars, stopping
  <2> QED
    BY SMTT(30), <1>1, <1>2, <1>3, <2>1
<1> QED
  <2>1. CASE \E c \in Clients : ClientStep(c) \/ \E p \in Priorities : Inference(c, p)
    BY Zenon, <1>4, <1>5, <1>6, <1>7, <1>8, <2>1 DEF ClientStep
  <2>2. CASE \E w \in Workers : WorkerStep(w) \/ WakeSpuriously(w)
    <3>1. PICK w \in Workers : WorkerStep(w) \/ WakeSpuriously(w)
      BY Zenon, <2>2
    <3>2. CASE HandleFailure(w)
      <4>1. (HandleFailure(w) /\ stopping) \/ (HandleFailure(w) /\ ~ stopping)
        BY Zenon, <3>2
      <4> QED
        BY Zenon, <1>11, <1>12, <4>1
    <3> QED
      BY Zenon, <1>9, <1>10, <1>11, <1>12, <3>1, <3>2 DEF WorkerStep
  <2> QED
    BY Zenon, <1>13, <1>14, <2>1, <2>2 DEF Next

(***************************************************************************)
(* The counters                                                            *)
(***************************************************************************)

\* Sets that differ in one element at most.
LEMMA CountChange ==
    ASSUME SetFacts, NEW S, IsFiniteSet(S), NEW A \in SUBSET S, NEW B \in SUBSET S, NEW x \in S,
           \A y \in S \ {x} : y \in A <=> y \in B
    PROVE  /\ Cardinality(A) \in Nat /\ Cardinality(B) \in Nat
           /\ (x \in A <=> x \in B) => Cardinality(B) = Cardinality(A)
           /\ x \notin A /\ x \in B => Cardinality(B) = Cardinality(A) + 1
           /\ x \in A /\ x \notin B => Cardinality(B) = Cardinality(A) - 1
<1>1. IsFiniteSet(A) /\ IsFiniteSet(B)
  BY Zenon DEF SetFacts
<1>2. Cardinality(A) \in Nat /\ Cardinality(B) \in Nat
  BY Zenon, <1>1 DEF SetFacts
<1>3. (x \in A <=> x \in B) => B = A
  OBVIOUS
<1>4. x \notin A /\ x \in B => B = A \cup {x}
  BY Zenon
<1>5. x \in A /\ x \notin B => B = A \ {x}
  BY Zenon
<1> QED
  BY <1>1, <1>2, <1>3, <1>4, <1>5 DEF SetFacts

\* How many session threads are somewhere after one of them moved.
LEMMA ClientCount ==
    ASSUME SetFacts, NEW c \in Clients, \A d \in Clients \ {c} : client'[d] = client[d], NEW pcs
    PROVE  /\ ClientsAt(pcs) \in Nat
           /\ (client[c].pc \in pcs <=> client'[c].pc \in pcs) => ClientsAt(pcs)' = ClientsAt(pcs)
           /\ client[c].pc \notin pcs /\ client'[c].pc \in pcs => ClientsAt(pcs)' = ClientsAt(pcs) + 1
           /\ client[c].pc \in pcs /\ client'[c].pc \notin pcs => ClientsAt(pcs)' = ClientsAt(pcs) - 1
<1>1. PICK A : A = {d \in Clients : client[d].pc \in pcs}
  BY ZenonT(30)
<1>2. PICK B : B = {d \in Clients : client'[d].pc \in pcs}
  BY ZenonT(30)
<1>3. /\ A \in SUBSET Clients /\ B \in SUBSET Clients /\ (\A d \in Clients \ {c} : d \in A <=> d \in B)
      /\ (c \in A <=> client[c].pc \in pcs) /\ (c \in B <=> client'[c].pc \in pcs)
  BY Zenon, <1>1, <1>2
<1>4. IsFiniteSet(Clients)
  BY Zenon, SchedulerAssumption
<1>5. /\ Cardinality(A) \in Nat
      /\ (c \in A <=> c \in B) => Cardinality(B) = Cardinality(A)
      /\ c \notin A /\ c \in B => Cardinality(B) = Cardinality(A) + 1
      /\ c \in A /\ c \notin B => Cardinality(B) = Cardinality(A) - 1
  BY <1>3, <1>4, CountChange
<1>6. ClientsAt(pcs) = Cardinality(A) /\ ClientsAt(pcs)' = Cardinality(B)
  BY Zenon, <1>1, <1>2 DEF ClientsAt
<1> QED
  BY Zenon, <1>3, <1>5, <1>6

\* How many workers are somewhere after one of them moved.
LEMMA WorkerCount ==
    ASSUME SetFacts, NEW w \in Workers, \A v \in Workers \ {w} : worker'[v] = worker[v], NEW pcs
    PROVE  /\ WorkersAt(pcs) \in Nat
           /\ (worker[w].pc \in pcs <=> worker'[w].pc \in pcs) => WorkersAt(pcs)' = WorkersAt(pcs)
           /\ worker[w].pc \notin pcs /\ worker'[w].pc \in pcs => WorkersAt(pcs)' = WorkersAt(pcs) + 1
           /\ worker[w].pc \in pcs /\ worker'[w].pc \notin pcs => WorkersAt(pcs)' = WorkersAt(pcs) - 1
<1>1. PICK A : A = {v \in Workers : worker[v].pc \in pcs}
  BY ZenonT(30)
<1>2. PICK B : B = {v \in Workers : worker'[v].pc \in pcs}
  BY ZenonT(30)
<1>3. /\ A \in SUBSET Workers /\ B \in SUBSET Workers /\ (\A v \in Workers \ {w} : v \in A <=> v \in B)
      /\ (w \in A <=> worker[w].pc \in pcs) /\ (w \in B <=> worker'[w].pc \in pcs)
  BY Zenon, <1>1, <1>2
<1>4. IsFiniteSet(Workers)
  BY Zenon, SchedulerAssumption
<1>5. /\ Cardinality(A) \in Nat
      /\ (w \in A <=> w \in B) => Cardinality(B) = Cardinality(A)
      /\ w \notin A /\ w \in B => Cardinality(B) = Cardinality(A) + 1
      /\ w \in A /\ w \notin B => Cardinality(B) = Cardinality(A) - 1
  BY <1>3, <1>4, CountChange
<1>6. WorkersAt(pcs) = Cardinality(A) /\ WorkersAt(pcs)' = Cardinality(B)
  BY Zenon, <1>1, <1>2 DEF WorkersAt
<1> QED
  BY Zenon, <1>3, <1>5, <1>6

\* Whom MetricsBalance counts.
Accepting == ClientsAt({"accepted"})
Arriving == ClientsAt({"numbered", "admit", "rejected"})
InService == WorkersAt({"popped", "running", "calling", "succeeded", "failed"})

\* The session threads and the workers counted are natural numbers.
LEMMA CountsTyped ==
    ASSUME SetFacts
    PROVE  Accepting \in Nat /\ Arriving \in Nat /\ InService \in Nat
<1>1. \A S : IsFiniteSet(S) => \A T \in SUBSET S : IsFiniteSet(T)
  BY Zenon DEF SetFacts
<1>2. \A S : IsFiniteSet(S) => Cardinality(S) \in Nat
  BY Zenon DEF SetFacts
<1>3. \A pcs : ClientsAt(pcs) \in Nat
  <2> TAKE pcs
  <2>1. {c \in Clients : client[c].pc \in pcs} \in SUBSET Clients
    BY Zenon
  <2> QED
    BY Zenon, <1>1, <1>2, <2>1, SchedulerAssumption DEF ClientsAt
<1>4. \A pcs : WorkersAt(pcs) \in Nat
  <2> TAKE pcs
  <2>1. {w \in Workers : worker[w].pc \in pcs} \in SUBSET Workers
    BY Zenon
  <2> QED
    BY Zenon, <1>1, <1>2, <2>1, SchedulerAssumption DEF WorkersAt
<1> QED
  BY Zenon, <1>3, <1>4 DEF Accepting, Arriving, InService

\* By how much a step changes what MetricsBalance adds up: the task ids, the counters, and the requests
\* that are arriving, being accepted, queued and in service.
Changes(ids, total, success, failed, rejected, arriving, accepting, queued, served) ==
    /\ counter' = counter + ids
    /\ metrics'.total = metrics.total + total /\ metrics'.success = metrics.success + success
    /\ metrics'.failed = metrics.failed + failed /\ metrics'.rejected = metrics.rejected + rejected
    /\ Arriving' = Arriving + arriving /\ Accepting' = Accepting + accepting
    /\ Len(pending') = Len(pending) + queued /\ InService' = InService + served

\* A natural number is an integer.
LEMMA NatIsInt == \A n \in Nat : n \in Int
  OBVIOUS

\* Sums and differences of integers are integers.
LEMMA IntSums == \A a, b \in Int : a + b \in Int /\ a - b \in Int
  OBVIOUS

\* Inequalities of integers are added side by side, and an equality is one.
LEMMA IntOrder ==
    /\ \A a, b \in Int : a = b => a >= b
    /\ \A a, b, p, q \in Int : a >= b /\ p >= q => a + p >= b + q
  OBVIOUS

\* Sums of two, of four and of five numbers, added place by place.
LEMMA AddTwo ==
    ASSUME NEW a \in Int, NEW b \in Int, NEW p \in Int, NEW q \in Int
    PROVE  (a + p) + (b + q) = (a + b) + (p + q)
  OBVIOUS

\* The same for four.
LEMMA AddFour ==
    ASSUME NEW a \in Int, NEW b \in Int, NEW c \in Int, NEW d \in Int,
           NEW p \in Int, NEW q \in Int, NEW r \in Int, NEW s \in Int
    PROVE  (a + b + c + d) + (p + q + r + s) = (a + p) + (b + q) + (c + r) + (d + s)
  OBVIOUS

\* The same for five, one of them subtracted.
LEMMA AddFive ==
    ASSUME NEW a \in Int, NEW b \in Int, NEW c \in Int, NEW d \in Int, NEW e \in Int,
           NEW p \in Int, NEW q \in Int, NEW r \in Int, NEW s \in Int, NEW t \in Int
    PROVE  (a + (b - c) + (d + e)) + (p + (q - r) + s + t) = (a + p) + ((b + q) - (c + r)) + ((d + s) + (e + t))
  OBVIOUS

\* Changes that balance keep the balance.
LEMMA ChangesBalance ==
    ASSUME SetFacts, IInv,
           NEW ids \in Int, NEW total \in Int, NEW success \in Int, NEW failed \in Int, NEW rejected \in Int,
           NEW arriving \in Int, NEW accepting \in Int, NEW queued \in Int, NEW served \in Int,
           Changes(ids, total, success, failed, rejected, arriving, accepting, queued, served),
           stopping => stopping',
           ids = total + accepting + rejected + arriving,
           total + accepting >= success + (failed - rejected) + queued + served,
           ~ stopping' => total + accepting = success + (failed - rejected) + queued + served
    PROVE  MetricsBalance'
<1>1. Accepting \in Nat /\ Arriving \in Nat /\ InService \in Nat /\ Len(pending) \in Nat /\ counter \in Int
  BY CountsTyped, SchedulerAssumption DEF IInv, TypeOK
<1>2. metrics.total \in Nat /\ metrics.success \in Nat /\ metrics.failed \in Nat /\ metrics.rejected \in Nat
  BY Zenon DEF IInv, TypeOK, Metrics
<1>3. /\ counter = metrics.total + Accepting + metrics.rejected + Arriving
      /\ IF stopping
         THEN metrics.total + Accepting >=
                metrics.success + (metrics.failed - metrics.rejected) + (Len(pending) + InService)
         ELSE metrics.total + Accepting =
                metrics.success + (metrics.failed - metrics.rejected) + (Len(pending) + InService)
  BY Zenon DEF IInv, MetricsBalance, Accepting, Arriving, InService
<1>4. /\ counter' = counter + ids /\ Arriving' = Arriving + arriving /\ Accepting' = Accepting + accepting
      /\ metrics'.total = metrics.total + total /\ metrics'.success = metrics.success + success
      /\ metrics'.failed = metrics.failed + failed /\ metrics'.rejected = metrics.rejected + rejected
      /\ Len(pending') = Len(pending) + queued /\ InService' = InService + served
  BY Zenon DEF Changes
<1>a. /\ Accepting \in Int /\ Arriving \in Int /\ InService \in Int /\ Len(pending) \in Int
        /\ metrics.total \in Int /\ metrics.success \in Int /\ metrics.failed \in Int /\ metrics.rejected \in Int
  BY Zenon, <1>1, <1>2, NatIsInt
<1>b. PICK a \in Int, b \in Int, c \in Int, d \in Int :
        a = metrics.total /\ b = Accepting /\ c = metrics.rejected /\ d = Arriving
  BY Zenon, <1>a
<1>c. PICK e \in Int, f \in Int, g \in Int, h \in Int :
        e = metrics.success /\ f = metrics.failed /\ g = Len(pending) /\ h = InService
  BY Zenon, <1>a
<1>5. counter' = metrics'.total + Accepting' + metrics'.rejected + Arriving'
  <2>1. counter = metrics.total + Accepting + metrics.rejected + Arriving
    BY Zenon, <1>3
  <2>2. counter + ids = (metrics.total + Accepting + metrics.rejected + Arriving) + (total + accepting + rejected + arriving)
    BY Zenon, <2>1
  <2>3. (a + b + c + d) + (total + accepting + rejected + arriving)
          = (a + total) + (b + accepting) + (c + rejected) + (d + arriving)
    BY AddFour
  <2> QED
    BY <1>4, <1>b, <2>2, <2>3, ZenonT(30)
<1> DEFINE made == metrics.success + (metrics.failed - metrics.rejected) + (Len(pending) + InService)
           more == success + (failed - rejected) + queued + served
<1>6. metrics'.success + (metrics'.failed - metrics'.rejected) + (Len(pending') + InService') = made + more
  <2>1. (e + (f - c) + (g + h)) + (success + (failed - rejected) + queued + served)
          = (e + success) + ((f + failed) - (c + rejected)) + ((g + queued) + (h + served))
    BY AddFive
  <2> QED
    BY <1>4, <1>b, <1>c, <2>1, ZenonT(30)
<1>7. metrics'.total + Accepting' = (metrics.total + Accepting) + (total + accepting)
  <2>1. (a + total) + (b + accepting) = (a + b) + (total + accepting)
    BY AddTwo
  <2> QED
    BY <1>4, <1>b, <2>1, ZenonT(30)
<1>8. made \in Int /\ more \in Int /\ metrics.total + Accepting \in Int /\ total + accepting \in Int
  <2>1. made \in Int
    <3>1. Len(pending) + InService \in Int
      BY Zenon, <1>a, IntSums
    <3>2. metrics.success + (metrics.failed - metrics.rejected) \in Int
      BY Zenon, <1>a, IntSums
    <3> QED
      BY Zenon, <3>1, <3>2, IntSums
  <2>2. more \in Int
    BY Zenon, IntSums
  <2>3. metrics.total + Accepting \in Int
    BY Zenon, <1>a, IntSums
  <2>4. total + accepting \in Int
    BY Zenon, IntSums
  <2> QED
    BY Zenon, <2>1, <2>2, <2>3, <2>4
<1>9. metrics.total + Accepting >= made /\ (~ stopping => metrics.total + Accepting = made)
  <2>1. IF stopping THEN metrics.total + Accepting >= made ELSE metrics.total + Accepting = made
    BY Zenon, <1>3
  <2> HIDE DEF made
  <2> QED
    BY Zenon, <1>8, <2>1, IntOrder
<1> HIDE DEF made, more
<1>10. (metrics.total + Accepting) + (total + accepting) >= made + more
  BY Zenon, <1>8, <1>9, IntOrder DEF more
<1>11. ~ stopping' => (metrics.total + Accepting) + (total + accepting) = made + more
  BY Zenon, <1>8, <1>9 DEF more
<1> QED
  BY ZenonT(30), <1>5, <1>6, <1>7, <1>10, <1>11 DEF MetricsBalance, Accepting, Arriving, InService

\* What a session thread at pc, and a worker at pc, adds to whom MetricsBalance counts.
IsArriving(pc) == IF pc \in {"numbered", "admit", "rejected"} THEN 1 ELSE 0
IsAccepting(pc) == IF pc \in {"accepted"} THEN 1 ELSE 0
IsInService(pc) == IF pc \in {"popped", "running", "calling", "succeeded", "failed"} THEN 1 ELSE 0

\* The counts of session threads change by where the one that moved was and is.
LEMMA ClientChanges ==
    ASSUME SetFacts, NEW c \in Clients, \A d \in Clients \ {c} : client'[d] = client[d]
    PROVE  /\ Arriving' = Arriving + (IsArriving(client'[c].pc) - IsArriving(client[c].pc))
           /\ Accepting' = Accepting + (IsAccepting(client'[c].pc) - IsAccepting(client[c].pc))
<1>1. PICK A : A = {"numbered", "admit", "rejected"}
  BY ZenonT(30)
<1>2. /\ ClientsAt(A) \in Nat
      /\ (client[c].pc \in A <=> client'[c].pc \in A) => ClientsAt(A)' = ClientsAt(A)
      /\ client[c].pc \notin A /\ client'[c].pc \in A => ClientsAt(A)' = ClientsAt(A) + 1
      /\ client[c].pc \in A /\ client'[c].pc \notin A => ClientsAt(A)' = ClientsAt(A) - 1
  BY Zenon, ClientCount
<1>3. /\ Arriving = ClientsAt(A) /\ Arriving' = ClientsAt(A)'
      /\ IsArriving(client[c].pc) = (IF client[c].pc \in A THEN 1 ELSE 0)
      /\ IsArriving(client'[c].pc) = (IF client'[c].pc \in A THEN 1 ELSE 0)
  BY Zenon, <1>1 DEF Arriving, IsArriving
<1>4. Arriving' = Arriving + (IsArriving(client'[c].pc) - IsArriving(client[c].pc))
  BY <1>2, <1>3
<1>5. PICK B : B = {"accepted"}
  BY ZenonT(30)
<1>6. /\ ClientsAt(B) \in Nat
      /\ (client[c].pc \in B <=> client'[c].pc \in B) => ClientsAt(B)' = ClientsAt(B)
      /\ client[c].pc \notin B /\ client'[c].pc \in B => ClientsAt(B)' = ClientsAt(B) + 1
      /\ client[c].pc \in B /\ client'[c].pc \notin B => ClientsAt(B)' = ClientsAt(B) - 1
  BY Zenon, ClientCount
<1>7. /\ Accepting = ClientsAt(B) /\ Accepting' = ClientsAt(B)'
      /\ IsAccepting(client[c].pc) = (IF client[c].pc \in B THEN 1 ELSE 0)
      /\ IsAccepting(client'[c].pc) = (IF client'[c].pc \in B THEN 1 ELSE 0)
  BY Zenon, <1>5 DEF Accepting, IsAccepting
<1>8. Accepting' = Accepting + (IsAccepting(client'[c].pc) - IsAccepting(client[c].pc))
  BY <1>6, <1>7
<1> QED
  BY Zenon, <1>4, <1>8

\* The count of workers changes by where the one that moved was and is.
LEMMA WorkerChanges ==
    ASSUME SetFacts, NEW w \in Workers, \A v \in Workers \ {w} : worker'[v] = worker[v]
    PROVE  InService' = InService + (IsInService(worker'[w].pc) - IsInService(worker[w].pc))
<1>1. PICK A : A = {"popped", "running", "calling", "succeeded", "failed"}
  BY ZenonT(30)
<1>2. /\ WorkersAt(A) \in Nat
      /\ (worker[w].pc \in A <=> worker'[w].pc \in A) => WorkersAt(A)' = WorkersAt(A)
      /\ worker[w].pc \notin A /\ worker'[w].pc \in A => WorkersAt(A)' = WorkersAt(A) + 1
      /\ worker[w].pc \in A /\ worker'[w].pc \notin A => WorkersAt(A)' = WorkersAt(A) - 1
  BY Zenon, WorkerCount
<1>3. /\ InService = WorkersAt(A) /\ InService' = WorkersAt(A)'
      /\ IsInService(worker[w].pc) = (IF worker[w].pc \in A THEN 1 ELSE 0)
      /\ IsInService(worker'[w].pc) = (IF worker'[w].pc \in A THEN 1 ELSE 0)
  BY Zenon, <1>1 DEF InService, IsInService
<1> QED
  BY <1>2, <1>3

\* Every step keeps the counters in balance.
LEMMA StepBalance ==
    ASSUME SetFacts, IInv, [Next]_vars
    PROVE  MetricsBalance'
<1>0. TypeOK
  BY Zenon DEF IInv
<1>1. /\ Accepting \in Nat /\ Arriving \in Nat /\ InService \in Nat /\ Len(pending) \in Nat /\ counter \in Nat
      /\ metrics.total \in Nat /\ metrics.success \in Nat /\ metrics.failed \in Nat /\ metrics.rejected \in Nat
  BY <1>0, CountsTyped, SchedulerAssumption DEF TypeOK, Metrics
<1>2. UNCHANGED client => Arriving' = Arriving + 0 /\ Accepting' = Accepting + 0
  BY <1>1 DEF Arriving, Accepting, ClientsAt
<1>3. UNCHANGED worker => InService' = InService + 0
  BY <1>1 DEF InService, WorkersAt
<1>4. UNCHANGED metrics => /\ metrics'.total = metrics.total + 0 /\ metrics'.success = metrics.success + 0
                           /\ metrics'.failed = metrics.failed + 0 /\ metrics'.rejected = metrics.rejected + 0
  BY <1>1
<1>5. /\ UNCHANGED pending => Len(pending') = Len(pending) + 0
      /\ UNCHANGED counter => counter' = counter + 0
  BY <1>1
<1>6. ASSUME Changes(0, 0, 0, 0, 0, 0, 0, 0, 0), stopping => stopping' PROVE MetricsBalance'
  BY <1>6, ChangesBalance
<1>7. ASSUME NEW c \in Clients, NEW p \in Priorities, Inference(c, p) PROVE MetricsBalance'
  <2>1. /\ client[c].pc = "idle" /\ client'[c].pc = "numbered"
        /\ \A d \in Clients \ {c} : client'[d] = client[d]
    BY Zenon, <1>0, <1>7 DEF Inference, TypeOK, ClientState
  <2>2. Arriving' = Arriving + 1 /\ Accepting' = Accepting + 0
    BY <2>1, ClientChanges DEF IsArriving, IsAccepting
  <2>3. counter' = counter + 1 /\ UNCHANGED <<pending, worker, metrics, stop>>
    BY Zenon, <1>7 DEF Inference
  <2>4. Changes(1, 0, 0, 0, 0, 1, 0, 0, 0)
    BY Zenon, <1>3, <1>4, <1>5, <2>2, <2>3 DEF Changes
  <2> QED
    BY <2>3, <2>4, ChangesBalance DEF stopping
<1>8. ASSUME NEW c \in Clients, ReadLimits(c) \/ RecordPending(c) PROVE MetricsBalance'
  <2>1. /\ IsArriving(client'[c].pc) = IsArriving(client[c].pc)
        /\ IsAccepting(client'[c].pc) = IsAccepting(client[c].pc)
        /\ \A d \in Clients \ {c} : client'[d] = client[d]
    <3>1. CASE ReadLimits(c)
      BY Zenon, <1>0, <3>1 DEF ReadLimits, TypeOK, ClientState, IsArriving, IsAccepting
    <3>2. CASE RecordPending(c)
      BY ZenonT(30), <1>0, <3>2 DEF RecordPending, TypeOK, ClientState, IsArriving, IsAccepting
    <3> QED
      BY Zenon, <1>8, <3>1, <3>2
  <2>2. IsArriving(client[c].pc) \in {0, 1} /\ IsAccepting(client[c].pc) \in {0, 1}
    BY Zenon DEF IsArriving, IsAccepting
  <2>3. Arriving' = Arriving + 0 /\ Accepting' = Accepting + 0
    BY <2>1, <2>2, ClientChanges
  <2>4. UNCHANGED <<counter, pending, worker, metrics, stop>>
    BY Zenon, <1>8 DEF ReadLimits, RecordPending
  <2>5. Changes(0, 0, 0, 0, 0, 0, 0, 0, 0)
    BY Zenon, <1>3, <1>4, <1>5, <2>3, <2>4 DEF Changes
  <2> QED
    BY Zenon, <1>6, <2>4, <2>5 DEF stopping
<1>9. ASSUME NEW c \in Clients, Admit(c) PROVE MetricsBalance'
  <2>0. client[c].pc = "admit" /\ UNCHANGED <<counter, worker, metrics, stop>>
    BY Zenon, <1>9 DEF Admit
  <2>1. ASSUME client' = [client EXCEPT ![c].pc = "rejected"], pending' = pending PROVE MetricsBalance'
    <3>1. client'[c].pc = "rejected" /\ \A d \in Clients \ {c} : client'[d] = client[d]
      BY ZenonT(30), <1>0, <2>1, ClientAt
    <3>2. Arriving' = Arriving + 0 /\ Accepting' = Accepting + 0
      BY <2>0, <3>1, ClientChanges DEF IsArriving, IsAccepting
    <3>3. Changes(0, 0, 0, 0, 0, 0, 0, 0, 0)
      BY Zenon, <1>3, <1>4, <1>5, <2>0, <2>1, <3>2 DEF Changes
    <3> QED
      BY ZenonT(30), <1>6, <2>0, <3>3 DEF stopping
  <2>2. ASSUME client' = [client EXCEPT ![c].pc = "accepted"], pending' = Append(pending, client[c].req)
        PROVE  MetricsBalance'
    <3>1. client'[c].pc = "accepted" /\ \A d \in Clients \ {c} : client'[d] = client[d]
      BY ZenonT(30), <1>0, <2>2, ClientAt
    <3>2. Arriving' = Arriving + (-1) /\ Accepting' = Accepting + 1
      BY <2>0, <3>1, ClientChanges DEF IsArriving, IsAccepting
    <3>3. Len(pending') = Len(pending) + 1
      BY <1>0, <2>2 DEF TypeOK
    <3>4. Changes(0, 0, 0, 0, 0, -1, 1, 1, 0)
      BY Zenon, <1>3, <1>4, <1>5, <2>0, <3>2, <3>3 DEF Changes
    <3> QED
      BY <2>0, <3>4, ChangesBalance DEF stopping
  <2> QED
    BY ZenonT(30), <1>9, <2>1, <2>2 DEF Admit
<1>10. ASSUME NEW c \in Clients, Reject(c) PROVE MetricsBalance'
  <2>1. /\ client[c].pc = "rejected" /\ client'[c].pc = "idle"
        /\ \A d \in Clients \ {c} : client'[d] = client[d]
    BY Zenon, <1>0, <1>10 DEF Reject, TypeOK, IdleClient
  <2>2. Arriving' = Arriving + (-1) /\ Accepting' = Accepting + 0
    BY <2>1, ClientChanges DEF IsArriving, IsAccepting
  <2>3. UNCHANGED <<counter, pending, worker, stop>>
    BY Zenon, <1>10 DEF Reject
  <2>4. /\ metrics'.total = metrics.total + 0 /\ metrics'.success = metrics.success + 0
        /\ metrics'.failed = metrics.failed + 1 /\ metrics'.rejected = metrics.rejected + 1
    BY <1>0, <1>10 DEF Reject, TypeOK, Metrics
  <2>5. Changes(0, 0, 0, 1, 1, -1, 0, 0, 0)
    BY Zenon, <1>3, <1>5, <2>2, <2>3, <2>4 DEF Changes
  <2> QED
    BY <2>3, <2>5, ChangesBalance DEF stopping
<1>11. ASSUME NEW c \in Clients, CountAccepted(c) PROVE MetricsBalance'
  <2>1. /\ client[c].pc = "accepted" /\ client'[c].pc = "counted"
        /\ \A d \in Clients \ {c} : client'[d] = client[d]
    BY Zenon, <1>0, <1>11 DEF CountAccepted, TypeOK, ClientState
  <2>2. Arriving' = Arriving + 0 /\ Accepting' = Accepting + (-1)
    BY <2>1, ClientChanges DEF IsArriving, IsAccepting
  <2>3. UNCHANGED <<counter, pending, worker, stop>>
    BY Zenon, <1>11 DEF CountAccepted
  <2>4. /\ metrics'.total = metrics.total + 1 /\ metrics'.success = metrics.success + 0
        /\ metrics'.failed = metrics.failed + 0 /\ metrics'.rejected = metrics.rejected + 0
    BY <1>0, <1>11 DEF CountAccepted, TypeOK, Metrics
  <2>5. Changes(0, 1, 0, 0, 0, 0, -1, 0, 0)
    BY Zenon, <1>3, <1>5, <2>2, <2>3, <2>4 DEF Changes
  <2> QED
    BY <2>3, <2>5, ChangesBalance DEF stopping
<1>12. ASSUME NEW c \in Clients, NotifyOne(c) PROVE MetricsBalance'
  <2>1. /\ client[c].pc = "recorded" /\ client'[c].pc = "idle"
        /\ \A d \in Clients \ {c} : client'[d] = client[d]
    BY Zenon, <1>0, <1>12 DEF NotifyOne, TypeOK, IdleClient
  <2>2. Arriving' = Arriving + 0 /\ Accepting' = Accepting + 0
    BY <2>1, ClientChanges DEF IsArriving, IsAccepting
  <2>3. UNCHANGED <<counter, pending, metrics, stop>>
    BY Zenon, <1>12 DEF NotifyOne
  <2>4. InService' = InService + 0
    <3>1. ASSUME NEW w \in Workers, worker[w].pc = "sleeping", worker' = [worker EXCEPT ![w].pc = "lock"]
          PROVE  InService' = InService + 0
      <4>1. worker'[w].pc = "lock" /\ \A v \in Workers \ {w} : worker'[v] = worker[v]
        BY ZenonT(30), <1>0, <3>1, WorkerAt
      <4> QED
        BY <3>1, <4>1, WorkerChanges DEF IsInService
    <3> QED
      BY ZenonT(30), <1>3, <1>12, <3>1 DEF NotifyOne
  <2>5. Changes(0, 0, 0, 0, 0, 0, 0, 0, 0)
    BY Zenon, <1>4, <1>5, <2>2, <2>3, <2>4 DEF Changes
  <2> QED
    BY Zenon, <1>6, <2>3, <2>5 DEF stopping
<1>13. ASSUME NEW w \in Workers, PopRequest(w) PROVE MetricsBalance'
  <2>1. PICK i \in 1..Len(pending) : Pops(w, i)
    BY Zenon, <1>13, PopEffect
  <2>2. /\ worker[w].pc = "lock" /\ worker'[w].pc = "popped"
        /\ \A v \in Workers \ {w} : worker'[v] = worker[v]
    BY Zenon, <1>0, <2>1 DEF Pops, TypeOK, WorkerState
  <2>3. InService' = InService + 1
    BY <2>2, WorkerChanges DEF IsInService
  <2>4. Len(pending') = Len(pending) + (-1)
    <3>1. pending \in Seq(Request) /\ pending' = Without(pending, i)
      BY Zenon, <1>0, <2>1 DEF TypeOK, Pops
    <3>2. Len(pending') = Len(pending) - 1
      BY Zenon, <3>1, ErasedAt
    <3> QED
      BY Zenon, <1>1, <3>2
  <2>5. UNCHANGED <<counter, client, metrics, stop>>
    BY Zenon, <2>1 DEF Pops
  <2>6. Changes(0, 0, 0, 0, 0, 0, 0, -1, 1)
    BY ZenonT(30), <1>2, <1>4, <1>5, <2>3, <2>4, <2>5 DEF Changes
  <2>7. /\ 0 = 0 + 0 + 0 + 0 /\ 0 + 0 = 0 + (0 - 0) + (-1) + 1
        /\ 0 + 0 >= 0 + (0 - 0) + (-1) + 1 /\ -1 \in Int /\ 0 \in Int /\ 1 \in Int
    OBVIOUS
  <2> QED
    <3>1. stopping => stopping'
      BY Zenon, <2>5 DEF stopping
    <3> QED
      BY <2>6, <2>7, <3>1, ChangesBalance, ZenonT(60)
<1>14. ASSUME NEW w \in Workers, IsInService(worker'[w].pc) = IsInService(worker[w].pc),
              \A v \in Workers \ {w} : worker'[v] = worker[v],
              UNCHANGED <<counter, client, pending, metrics, stop>>
       PROVE  MetricsBalance'
  <2>1. IsInService(worker[w].pc) \in {0, 1}
    BY Zenon DEF IsInService
  <2>2. InService' = InService + 0
    BY <1>14, <2>1, WorkerChanges
  <2>3. Changes(0, 0, 0, 0, 0, 0, 0, 0, 0)
    BY ZenonT(30), <1>2, <1>4, <1>5, <1>14, <2>2 DEF Changes
  <2> QED
    BY ZenonT(30), <1>6, <1>14, <2>3 DEF stopping
<1>15. ASSUME NEW w \in Workers, ReadThreshold(w) \/ TestStopping(w) \/ StoreReady(w) PROVE MetricsBalance'
  <2>1. /\ IsInService(worker'[w].pc) = 0 /\ IsInService(worker[w].pc) = 0
        /\ \A v \in Workers \ {w} : worker'[v] = worker[v]
    <3>1. CASE ReadThreshold(w)
      BY Zenon, <1>0, <3>1 DEF ReadThreshold, TypeOK, WorkerState, IsInService
    <3>2. CASE TestStopping(w)
      BY Zenon, <1>0, <3>2 DEF TestStopping, TypeOK, WorkerState, NewWorker, IsInService
    <3>3. CASE StoreReady(w)
      BY Zenon, <1>0, <3>3 DEF StoreReady, TypeOK, WorkerState, NewWorker, IsInService
    <3> QED
      BY ZenonT(30), <1>15, <3>1, <3>2, <3>3
  <2>2. UNCHANGED <<counter, client, pending, metrics, stop>>
    BY Zenon, <1>15 DEF ReadThreshold, TestStopping, StoreReady
  <2> QED
    BY ZenonT(30), <1>14, <2>1, <2>2
<1>16. ASSUME NEW w \in Workers, WorkerExit(w) \/ FindEmpty(w) \/ Sleep(w) \/ WakeSpuriously(w)
       PROVE  MetricsBalance'
  <2>1. PICK pc \in {"done", "checked", "sleeping", "lock"} : worker' = [worker EXCEPT ![w].pc = pc]
    BY Zenon, <1>16 DEF WorkerExit, FindEmpty, Sleep, WakeSpuriously
  <2>2. worker'[w].pc = pc /\ \A v \in Workers \ {w} : worker'[v] = worker[v]
    BY ZenonT(30), <1>0, <2>1, WorkerAt
  <2>3. worker[w].pc \in {"lock", "checked", "sleeping"} /\ UNCHANGED <<counter, client, pending, metrics, stop>>
    BY Zenon, <1>16 DEF WorkerExit, FindEmpty, Sleep, WakeSpuriously
  <2>4. IsInService(worker'[w].pc) = 0 /\ IsInService(worker[w].pc) = 0
    BY Zenon, <2>2, <2>3 DEF IsInService
  <2> QED
    BY Zenon, <1>14, <2>2, <2>3, <2>4
<1>17. ASSUME NEW w \in Workers, NEW pc, worker' = [worker EXCEPT ![w].pc = pc],
              worker[w].pc \in {"popped", "running", "calling"}, pc \in {"running", "calling", "succeeded", "failed"},
              UNCHANGED <<counter, client, pending, metrics, stop>>
       PROVE  MetricsBalance'
  <2>1. worker'[w].pc = pc /\ \A v \in Workers \ {w} : worker'[v] = worker[v]
    BY ZenonT(30), <1>0, <1>17, WorkerAt
  <2>2. IsInService(worker'[w].pc) = 1 /\ IsInService(worker[w].pc) = 1
    BY ZenonT(30), <1>17, <2>1 DEF IsInService
  <2> QED
    BY ZenonT(30), <1>14, <1>17, <2>1, <2>2
<1>18. ASSUME NEW w \in Workers, worker' = [worker EXCEPT ![w].pc = "handled"],
              worker[w].pc \in {"running", "calling"}, stopping,
              UNCHANGED <<counter, client, pending, metrics, stop>>
       PROVE  MetricsBalance'
  <2>1. worker'[w].pc = "handled" /\ \A v \in Workers \ {w} : worker'[v] = worker[v]
    BY ZenonT(30), <1>0, <1>18, WorkerAt
  <2>2. InService' = InService + (-1)
    BY <1>18, <2>1, WorkerChanges DEF IsInService
  <2>3. Changes(0, 0, 0, 0, 0, 0, 0, 0, -1)
    BY Zenon, <1>2, <1>4, <1>5, <1>18, <2>2 DEF Changes
  <2>4. 0 = 0 + 0 + 0 + 0 /\ 0 + 0 >= 0 + (0 - 0) + 0 + (-1) /\ -1 \in Int
    OBVIOUS
  <2>5. stopping'
    BY Zenon, <1>18 DEF stopping
  <2> QED
    BY <2>3, <2>4, <2>5, ChangesBalance, SMTT(30)
<1>19. ASSUME NEW w \in Workers, StartRequest(w) \/ Attempt(w) \/ HandleSuccess(w) \/ HandleFailure(w)
       PROVE  MetricsBalance'
  <2>1. CASE StartRequest(w)
    BY ZenonT(30), <1>17, <2>1 DEF StartRequest
  <2>2. CASE HandleSuccess(w)
    BY ZenonT(30), <1>17, <2>2 DEF HandleSuccess
  <2>3. CASE Attempt(w)
    BY ZenonT(30), <1>17, <1>18, <2>3 DEF Attempt
  <2>4. CASE HandleFailure(w)
    BY ZenonT(30), <1>17, <1>18, <2>4 DEF HandleFailure
  <2> QED
    BY ZenonT(30), <1>19, <2>1, <2>2, <2>3, <2>4
<1>20. ASSUME NEW w \in Workers, CountSuccess(w) \/ CountFailure(w) PROVE MetricsBalance'
  <2>1. worker[w].pc \in {"succeeded", "failed"} /\ worker' = [worker EXCEPT ![w].pc = "handled"]
    BY Zenon, <1>20 DEF CountSuccess, CountFailure
  <2>2. worker'[w].pc = "handled" /\ \A v \in Workers \ {w} : worker'[v] = worker[v]
    BY ZenonT(30), <1>0, <2>1, WorkerAt
  <2>3. InService' = InService + (-1)
    BY <2>1, <2>2, WorkerChanges DEF IsInService
  <2>4. UNCHANGED <<counter, client, pending, stop>>
    BY Zenon, <1>20 DEF CountSuccess, CountFailure
  <2>5. CASE CountSuccess(w)
    <3>1. /\ metrics'.total = metrics.total + 0 /\ metrics'.success = metrics.success + 1
          /\ metrics'.failed = metrics.failed + 0 /\ metrics'.rejected = metrics.rejected + 0
      BY <1>0, <2>5 DEF CountSuccess, TypeOK, Metrics
    <3>2. Changes(0, 0, 1, 0, 0, 0, 0, 0, -1)
      BY Zenon, <1>2, <1>5, <2>3, <2>4, <3>1 DEF Changes
    <3> QED
      BY <2>4, <3>2, ChangesBalance DEF stopping
  <2>6. CASE CountFailure(w)
    <3>1. /\ metrics'.total = metrics.total + 0 /\ metrics'.success = metrics.success + 0
          /\ metrics'.failed = metrics.failed + 1 /\ metrics'.rejected = metrics.rejected + 0
      BY <1>0, <2>6 DEF CountFailure, TypeOK, Metrics
    <3>2. Changes(0, 0, 0, 1, 0, 0, 0, 0, -1)
      BY Zenon, <1>2, <1>5, <2>3, <2>4, <3>1 DEF Changes
    <3> QED
      BY <2>4, <3>2, ChangesBalance DEF stopping
  <2> QED
    BY ZenonT(30), <1>20, <2>5, <2>6
<1>21. CASE StopFlag \/ StopNotify \/ StopJoin \/ ReloadLimits \/ UNCHANGED vars
  <2>1. UNCHANGED <<counter, client, pending, metrics>> /\ (stopping => stopping')
    BY Zenon, <1>21 DEF StopFlag, StopNotify, StopJoin, ReloadLimits, vars, stopping
  <2>2. InService' = InService + 0
    <3>1. CASE UNCHANGED worker
      BY Zenon, <1>3, <3>1
    <3>2. CASE StopNotify
      <4>1. PICK A : A = {"popped", "running", "calling", "succeeded", "failed"}
        BY ZenonT(30)
      <4>2. \A w \in Workers : worker'[w].pc \in A <=> worker[w].pc \in A
        BY ZenonT(30), <1>0, <3>2, <4>1 DEF StopNotify, TypeOK, WorkerState
      <4>3. {w \in Workers : worker'[w].pc \in A} = {w \in Workers : worker[w].pc \in A}
        BY Zenon, <4>2
      <4>4. InService' = Cardinality({w \in Workers : worker'[w].pc \in A})
        BY Zenon, <4>1 DEF InService, WorkersAt
      <4>5. InService = Cardinality({w \in Workers : worker[w].pc \in A})
        BY Zenon, <4>1 DEF InService, WorkersAt
      <4> QED
        <5>1. InService' = InService
          BY ZenonT(30), <4>3, <4>4, <4>5
        <5> QED
          BY <1>1, <5>1
    <3> QED
      BY ZenonT(30), <1>21, <3>1, <3>2 DEF StopFlag, StopJoin, ReloadLimits, vars
  <2>3. Changes(0, 0, 0, 0, 0, 0, 0, 0, 0)
    BY ZenonT(30), <1>2, <1>4, <1>5, <2>1, <2>2 DEF Changes
  <2> QED
    BY Zenon, <1>6, <2>1, <2>3
<1> QED
  <2>1. CASE \E c \in Clients : ClientStep(c) \/ \E p \in Priorities : Inference(c, p)
    BY ZenonT(30), <1>7, <1>8, <1>9, <1>10, <1>11, <1>12, <2>1 DEF ClientStep
  <2>2. CASE \E w \in Workers : WorkerStep(w) \/ WakeSpuriously(w)
    BY ZenonT(30), <1>13, <1>15, <1>16, <1>19, <1>20, <2>2 DEF WorkerStep
  <2> QED
    BY ZenonT(30), <1>21, <2>1, <2>2 DEF Next

(***************************************************************************)
(* The queue by class                                                      *)
(***************************************************************************)

\* All settings agree on what the high class is.
OneThreshold == \A c, d \in Configs : c.high_priority_threshold = d.high_priority_threshold

\* What ClassQueue counts.
ClassCount == [k \in Classes |-> Cardinality(InClass(pending, k, HighThreshold))]

OfClass(k) == {r \in Request : priority_class(r.priority, HighThreshold) = k}

\* The class queue has the schedule of this queue.
LEMMA SameSchedule ==
    /\ ByClass!Classes = Classes
    /\ \A N, s : ByClass!NextSlot(N, s) = NextSlot(N, s) /\ ByClass!ServedClass(N, s) = ServedClass(N, s)
  BY Zenon DEF ByClass!Classes, Classes, ByClass!NextSlot, NextSlot, ByClass!ServedClass, ServedClass,
       ByClass!Probes, Probes, ByClass!SlotClass, SlotClass, ByClass!kSchedule, kSchedule,
       ByClass!kScheduleSize, kScheduleSize

\* The threshold of every setting is the one ClassQueue goes by.
LEMMA ThresholdIsHigh ==
    ASSUME OneThreshold, NEW c \in Configs
    PROVE  c.high_priority_threshold = HighThreshold
<1>1. HighThreshold \in {d.high_priority_threshold : d \in Configs}
  BY Zenon DEF HighThreshold
<1> QED
  BY Zenon, <1>1 DEF OneThreshold

\* The requests of a class, in a queue.
LEMMA ClassPositions ==
    ASSUME NEW q \in Seq(Request), NEW k
    PROVE  InClass(q, k, HighThreshold) = PositionsOf(q, OfClass(k))
<1>1. \A i \in DOMAIN q : q[i] \in Request
  OBVIOUS
<1> QED
  BY Zenon, <1>1 DEF InClass, PositionsOf, OfClass

\* A session thread that is about to queue a request is counted beside those that are queued, so that the
\* queue has room below the task ids.
LEMMA RoomToQueue ==
    ASSUME SetFacts, IInv, NEW c \in Clients, client[c].pc = "admit"
    PROVE  Len(pending) < MaxTasks
<1>1. /\ Accepting \in Nat /\ Arriving \in Nat /\ InService \in Nat /\ Len(pending) \in Nat
      /\ counter \in Nat /\ counter <= MaxTasks /\ MaxTasks \in Nat
  BY CountsTyped, SchedulerAssumption DEF IInv, TypeOK
<1>2. metrics.total \in Nat /\ metrics.success \in Nat /\ metrics.failed \in Nat /\ metrics.rejected \in Nat
  BY Zenon DEF IInv, TypeOK, Metrics
<1>3. Arriving # 0
  <2>1. PICK A : A = {d \in Clients : client[d].pc \in {"numbered", "admit", "rejected"}}
    BY ZenonT(30)
  <2>2. A \in SUBSET Clients /\ A # {}
    BY Zenon, <2>1
  <2>3. IsFiniteSet(A)
    BY Zenon, <2>2, SchedulerAssumption DEF SetFacts
  <2>4. Cardinality(A) # 0
    BY Zenon, <2>2, <2>3 DEF SetFacts
  <2> QED
    BY Zenon, <2>1, <2>4 DEF Arriving, ClientsAt
<1>4. counter = metrics.total + Accepting + metrics.rejected + Arriving
  BY Zenon DEF IInv, MetricsBalance, Accepting, Arriving
<1>5. metrics.total + Accepting >= metrics.success + (metrics.failed - metrics.rejected) + (Len(pending) + InService)
  <2>1. PICK a : a = metrics.total + Accepting
    BY Zenon
  <2>2. PICK b : b = metrics.success + (metrics.failed - metrics.rejected) + (Len(pending) + InService)
    BY Zenon
  <2>3. IF stopping THEN a >= b ELSE a = b
    BY Zenon, <2>1, <2>2 DEF IInv, MetricsBalance, Accepting, InService
  <2>4. a \in Int
    BY <1>1, <1>2, <2>1
  <2> QED
    BY <2>1, <2>2, <2>3, <2>4
<1>6. \A t, a, r, n, s, f, l, v \in Nat : n # 0 /\ t + a >= s + (f - r) + (l + v) => l < t + a + r + n
  OBVIOUS
<1>7. Len(pending) < metrics.total + Accepting + metrics.rejected + Arriving
  BY SMTT(30), <1>1, <1>2, <1>3, <1>5, <1>6
<1> QED
  BY <1>1, <1>4, <1>7

\* Every step is a step of the class queue, or none.
LEMMA StepQueue ==
    ASSUME SetFacts, IInv, OneThreshold, [Next]_vars
    PROVE  [(\E c \in ByClass!Classes : ByClass!Push(c)) \/ ByClass!Pop]_<<ClassCount, slot>>
<1>0. TypeOK /\ pending \in Seq(Request) /\ slot \in Slots
  BY Zenon DEF IInv, TypeOK
<1>1. \A k \in Classes : ClassCount[k] = Cardinality(PositionsOf(pending, OfClass(k)))
  BY Zenon, <1>0, ClassPositions DEF ClassCount
<1>2. ASSUME pending' \in Seq(Request), NEW k \in Classes
      PROVE  ClassCount'[k] = Cardinality(PositionsOf(pending', OfClass(k)))
  <2>1. ClassCount' = [j \in Classes |-> Cardinality(InClass(pending', j, HighThreshold))]
    BY Zenon DEF ClassCount
  <2> QED
    BY Zenon, <1>2, <2>1, ClassPositions
<1>3. ASSUME NEW c \in Clients, Admit(c)
      PROVE  (\E k \in ByClass!Classes : ByClass!Push(k)) \/ UNCHANGED <<ClassCount, slot>>
  <2>1. CASE pending' = pending
    BY Zenon, <1>3, <2>1 DEF Admit, ClassCount
  <2>2. CASE pending' = Append(pending, client[c].req)
    <3>1. PICK r : r = client[c].req
      BY Zenon
    <3>2. r \in Request /\ pending' = Append(pending, r) /\ slot' = slot /\ client[c].pc = "admit"
      BY ZenonT(30), <1>3, <2>2, <3>1 DEF Admit, IInv, TasksApart
    <3>3. pending' \in Seq(Request)
      BY <1>0, <3>2
    <3>4. PICK k : k = priority_class(r.priority, HighThreshold)
      BY Zenon
    <3>5. k \in Classes /\ \A j \in Classes : r \in OfClass(j) <=> j = k
      BY <3>2, <3>4 DEF OfClass, priority_class, Classes
    <3>6. \A j \in Classes : /\ ClassCount[j] \in Nat /\ ClassCount[j] <= Len(pending)
                             /\ ClassCount'[j] = IF j = k THEN ClassCount[j] + 1 ELSE ClassCount[j]
      <4> TAKE j \in Classes
      <4>1. ClassCount[j] \in Nat /\ ClassCount[j] <= Len(pending)
        BY ZenonT(30), <1>0, <1>1, PositionsFinite
      <4>2. ClassCount'[j] = ClassCount[j] + (IF r \in OfClass(j) THEN 1 ELSE 0)
        BY <1>0, <1>1, <1>2, <3>2, <3>3, AppendCount
      <4> QED
        BY <3>5, <4>1, <4>2
    <3>7. ClassCount[k] < MaxTasks
      <4>1. Len(pending) < MaxTasks /\ Len(pending) \in Nat /\ MaxTasks \in Nat
        BY <1>0, <3>2, RoomToQueue, SchedulerAssumption
      <4> QED
        BY <3>5, <3>6, <4>1
    <3>8. ClassCount' = [ClassCount EXCEPT ![k] = @ + 1]
      <4>1. ClassCount' = [j \in Classes |-> ClassCount'[j]] /\ ClassCount = [j \in Classes |-> ClassCount[j]]
        BY Zenon DEF ClassCount
      <4> HIDE DEF ClassCount
      <4> QED
        BY Zenon, <3>5, <3>6, <4>1
    <3>9. ByClass!Push(k)
      BY ZenonT(30), <3>2, <3>7, <3>8 DEF ByClass!Push, ClassCount
    <3> QED
      BY Zenon, <3>5, <3>9, SameSchedule
  <2> QED
    BY ZenonT(30), <1>3, <2>1, <2>2 DEF Admit
<1>4. ASSUME NEW w \in Workers, PopRequest(w) PROVE ByClass!Pop
  <2>1. PICK i \in 1..Len(pending) : Pops(w, i)
    BY Zenon, <1>4, PopEffect
  <2>2. PICK r : r = pending[i]
    BY Zenon
  <2>3. r \in Request /\ pending' = Without(pending, i)
    BY <1>0, <2>1, <2>2 DEF Pops
  <2>4. worker[w].high = HighThreshold
    <3>1. PICK c \in Configs : worker[w].high = c.high_priority_threshold
      BY Zenon, <2>1 DEF Pops, IInv, ThresholdCopied
    <3> QED
      BY Zenon, <3>1, ThresholdIsHigh
  <2>5. PICK N : N = WaitingClasses(w)
    BY Zenon
  <2>6. PICK k : k = ServedClass(N, slot)
    BY Zenon
  <2>7. /\ slot' = NextSlot(N, slot)
        /\ priority_class(r.priority, HighThreshold) = k
    BY ZenonT(30), <2>1, <2>2, <2>4, <2>5, <2>6 DEF Pops
  <2>8. pending' \in Seq(Request)
    BY ZenonT(30), <1>0, <2>3, ErasedAt
  <2>9. k \in Classes /\ \A j \in Classes : r \in OfClass(j) <=> j = k
    BY <2>3, <2>7 DEF OfClass, priority_class, Classes
  <2>10. \A j \in Classes : /\ ClassCount[j] \in Nat
                            /\ ClassCount'[j] = IF j = k THEN ClassCount[j] - 1 ELSE ClassCount[j]
    <3> TAKE j \in Classes
    <3>1. ClassCount[j] \in Nat
      BY Zenon, <1>0, <1>1, PositionsFinite
    <3>2. ClassCount'[j] = ClassCount[j] - (IF r \in OfClass(j) THEN 1 ELSE 0)
      BY <1>0, <1>1, <1>2, <2>2, <2>3, <2>8, ErasedCount
    <3> QED
      BY <2>9, <3>1, <3>2
  <2>11. ClassCount' = [ClassCount EXCEPT ![k] = @ - 1]
    <3>1. ClassCount' = [j \in Classes |-> ClassCount'[j]] /\ ClassCount = [j \in Classes |-> ClassCount[j]]
      BY Zenon DEF ClassCount
    <3> HIDE DEF ClassCount
    <3> QED
      BY Zenon, <2>9, <2>10, <3>1
  <2>12. N = {j \in Classes : ClassCount[j] > 0}
    <3>1. N = {j \in Classes : InClass(pending, j, HighThreshold) # {}}
      BY Zenon, <2>4, <2>5 DEF WaitingClasses
    <3>2. ASSUME NEW j \in Classes PROVE InClass(pending, j, HighThreshold) # {} <=> ClassCount[j] > 0
      <4>1. PICK S : S = InClass(pending, j, HighThreshold)
        BY Zenon
      <4>2. IsFiniteSet(S) /\ Cardinality(S) \in Nat
        BY Zenon, <1>0, <4>1, ClassPositions, PositionsFinite
      <4>3. Cardinality(S) = 0 <=> S = {}
        BY Zenon, <4>2 DEF SetFacts
      <4>4. ClassCount[j] = Cardinality(S)
        BY Zenon, <4>1 DEF ClassCount
      <4> QED
        BY <4>1, <4>2, <4>3, <4>4
    <3> QED
      BY Zenon, <3>1, <3>2
  <2>13. N # {}
    <3>1. i \in InClass(pending, k, HighThreshold)
      BY <1>0, <2>2, <2>7 DEF InClass
    <3>2. k \in N
      BY Zenon, <2>4, <2>5, <2>9, <3>1 DEF WaitingClasses
    <3> QED
      BY Zenon, <3>2
  <2>14. ByClass!Waiting = N
    BY Zenon, <2>12, SameSchedule DEF ByClass!Waiting, ClassCount
  <2>15. /\ ByClass!Waiting # {}
         /\ slot' = ByClass!NextSlot(ByClass!Waiting, slot)
         /\ ByClass!ServedClass(ByClass!Waiting, slot) = k
    BY Zenon, <2>6, <2>7, <2>13, <2>14, SameSchedule
  <2>16. ClassCount' = [ClassCount EXCEPT ![ByClass!ServedClass(ByClass!Waiting, slot)] = @ - 1]
    BY Zenon, <2>11, <2>15
  <2> QED
    BY Zenon, <2>15, <2>16 DEF ByClass!Pop, ClassCount
<1>5. UNCHANGED <<pending, slot>> => UNCHANGED <<ClassCount, slot>>
  BY Zenon DEF ClassCount
<1> QED
  BY <1>3, <1>4, <1>5, QueueSteps

(***************************************************************************)
(* The invariant                                                           *)
(***************************************************************************)

\* Nothing has happened yet: no request anywhere, and every counter at zero.
LEMMA InitIInv ==
    ASSUME SetFacts, Init
    PROVE  IInv
<1>1. TypeOK
  <2>1. client \in [Clients -> ClientState] /\ worker \in [Workers -> WorkerState]
    BY Zenon, IdleTyped DEF Init
  <2>2. pending \in Seq(Request) /\ records \in Seq(Record)
    BY DEF Init
  <2>3. metrics \in Metrics /\ replies \in [TaskIds -> Nat] /\ slot \in Slots
    BY DEF Init, Metrics, Slots, kScheduleSize
  <2>4. config \in Configs /\ counter \in 0..MaxTasks
    BY SchedulerAssumption DEF Init
  <2> QED
    BY Zenon, <2>1, <2>2, <2>3, <2>4 DEF Init, TypeOK
<1>2. /\ \A c \in Clients : client[c].pc = "idle"
      /\ \A w \in Workers : worker[w].pc = "config"
      /\ DOMAIN pending = {} /\ DOMAIN records = {} /\ Len(pending) = 0
      /\ \A t \in TaskIds : replies[t] = 0
      /\ ~ stopping
  BY DEF Init, IdleClient, NewWorker, stopping
<1>3. \A w \in Workers : \A t : ~ Serving(w, t)
  BY Zenon, <1>2 DEF Serving
<1>4. TasksApart
  BY Zenon, <1>2, <1>3 DEF TasksApart, Untouched, Unanswered
<1>5. ServedOnce
  BY <1>2, <1>3 DEF ServedOnce
<1>6. RecordsFollow /\ RunningMeansServed
  BY Zenon, <1>2 DEF RecordsFollow, RunningMeansServed
<1>7. MutexHeld /\ NoLostWakeup /\ ThresholdCopied
  BY Zenon, <1>2 DEF Init, MutexHeld, NoLostWakeup, ThresholdCopied
<1>8. MetricsBalance
  <2>1. /\ {c \in Clients : client[c].pc \in {"accepted"}} = {}
        /\ {c \in Clients : client[c].pc \in {"numbered", "admit", "rejected"}} = {}
        /\ {w \in Workers : worker[w].pc \in {"popped", "running", "calling", "succeeded", "failed"}} = {}
    BY Zenon, <1>2
  <2>2. /\ ClientsAt({"accepted"}) = 0 /\ ClientsAt({"numbered", "admit", "rejected"}) = 0
        /\ WorkersAt({"popped", "running", "calling", "succeeded", "failed"}) = 0
    BY Zenon, <2>1 DEF ClientsAt, WorkersAt, SetFacts
  <2>3. metrics.total = 0 /\ metrics.success = 0 /\ metrics.failed = 0 /\ metrics.rejected = 0 /\ counter = 0
    BY Zenon DEF Init
  <2> QED
    BY <1>2, <2>2, <2>3 DEF MetricsBalance
<1>9. AdmissionBounds
  <2>1. PICK c \in Configs : c.max_queue_size \in Nat /\ c.low_priority_drop_threshold \in Nat
    BY Zenon, SchedulerAssumption DEF Config
  <2>2. overload_threshold(c) \in Nat
    BY <2>1 DEF overload_threshold
  <2>3. NeverHigh = {} /\ Background = {}
    BY Zenon, <1>2 DEF NeverHigh, Background
  <2>4. Cardinality(NeverHigh) = 0 /\ Cardinality(Background) = 0
    BY Zenon, <2>3 DEF SetFacts
  <2>5. Len(pending) <= c.max_queue_size
    BY <1>2, <2>1
  <2>6. Cardinality(NeverHigh) <= overload_threshold(c)
    BY <2>2, <2>4
  <2>7. Cardinality(Background) <= c.low_priority_drop_threshold
    BY <2>1, <2>4
  <2> QED
    BY Zenon, <2>5, <2>6, <2>7 DEF AdmissionBounds
<1> QED
  BY ZenonT(30), <1>1, <1>4, <1>5, <1>6, <1>7, <1>8, <1>9 DEF IInv

\* The invariant is inductive.
LEMMA StepIInv ==
    ASSUME SetFacts, IInv, [Next]_vars
    PROVE  IInv'
  BY ZenonT(30), StepTypes, StepTasks, StepRecords, StepMutex, StepThreshold, StepBalance, StepBounds DEF IInv

\* The class queue starts empty.
LEMMA InitQueue ==
    ASSUME SetFacts, Init
    PROVE  ByClass!QueueInit
<1>1. \A k \in Classes : InClass(pending, k, HighThreshold) = {}
  BY DEF Init, InClass
<1>2. ClassCount = [k \in Classes |-> 0]
  BY <1>1 DEF ClassCount, SetFacts
<1> QED
  BY Zenon, <1>2, SameSchedule DEF Init, ByClass!QueueInit, ClassCount

\* At most one worker is about to wait or waits after the notification of stop().
LEMMA OneMisses ==
    ASSUME SetFacts, IInv
    PROVE  AtMostOneMissesStop
<1>1. stop = "stopped" => status = "Stopped" /\ \A w \in Workers : worker[w].pc = "done"
  BY Zenon DEF IInv, MutexHeld
<1>2. ASSUME stop \in {"join", "stopped"}
      PROVE  Cardinality({w \in Workers : worker[w].pc \in {"checked", "sleeping"}}) <= 1
  <2>1. PICK A : A = {w \in Workers : worker[w].pc \in {"checked", "sleeping"}}
    BY ZenonT(30)
  <2>2. \A v, w \in A : v = w
    BY <1>2, <2>1 DEF IInv, MutexHeld
  <2>3. CASE A = {}
    BY <2>1, <2>3 DEF SetFacts
  <2>4. ASSUME NEW w \in A PROVE Cardinality(A) <= 1
    <3>1. A \subseteq Workers
      BY Zenon, <2>1
    <3>2. IsFiniteSet(A)
      BY Zenon, <3>1, SchedulerAssumption DEF SetFacts
    <3>3. A \ {w} = {}
      BY Zenon, <2>2
    <3>4. Cardinality(A) \in Nat /\ Cardinality(A \ {w}) = Cardinality(A) - 1 /\ Cardinality({}) = 0
      BY ZenonT(30), <3>2 DEF SetFacts
    <3> QED
      BY <3>3, <3>4
  <2> QED
    BY Zenon, <2>1, <2>3, <2>4
<1> QED
  BY Zenon, <1>1, <1>2 DEF AtMostOneMissesStop

(***************************************************************************)
(* What is used of numbers and of finite sets, from the library            *)
(***************************************************************************)
INSTANCE FiniteSetTheorems

\* A set of natural numbers that is not empty has a least element.
LEMMA LeastNat ==
    ASSUME NEW S, S \subseteq Nat, S # {}
    PROVE  \E k \in S : \A j \in S : k <= j
<1>1. PICK k \in S : \A j \in S : ~ (<<j, k>> \in OpToRel(<, Nat))
  BY NatLessThanWellFounded, WFMin
<1>2. ASSUME NEW j \in S PROVE k <= j
  <2>1. <<j, k>> \in Nat \X Nat
    BY Zenon
  <2>2. ~ (j < k)
    BY ZenonT(30), <1>1, <2>1 DEF OpToRel
  <2> QED
    BY <2>1, <2>2
<1> QED
  BY ZenonT(30), <1>2

\* The facts that the lemmas assume.
LEMMA SetFactsHold == SetFacts
<1>1. \A S \in SUBSET Nat : S # {} => \E k \in S : \A j \in S : k <= j
  BY ZenonT(30), LeastNat
<1>2. IsFiniteSet({}) /\ Cardinality({}) = 0
  BY Zenon, FS_EmptySet
<1>3. ASSUME NEW n \in Nat PROVE IsFiniteSet(1..n) /\ Cardinality(1..n) = n
  BY FS_Interval
<1>4. ASSUME NEW S, IsFiniteSet(S)
      PROVE  /\ Cardinality(S) \in Nat /\ (Cardinality(S) = 0 <=> S = {})
             /\ \A T \in SUBSET S : IsFiniteSet(T) /\ Cardinality(T) <= Cardinality(S)
             /\ \A x : x \notin S => Cardinality(S \cup {x}) = Cardinality(S) + 1
             /\ \A x : x \in S => Cardinality(S \ {x}) = Cardinality(S) - 1
             /\ \A T : (\E f \in [S -> T] : /\ \A x, y \in S : f[x] = f[y] => x = y
                                         /\ \A z \in T : \E x \in S : f[x] = z)
                      => Cardinality(T) = Cardinality(S)
  <2>1. Cardinality(S) \in Nat
    BY ZenonT(30), <1>4, FS_CardinalityType
  <2>2. Cardinality(S) = 0 <=> S = {}
    BY ZenonT(30), <1>4, FS_EmptySet
  <2>3. \A T \in SUBSET S : IsFiniteSet(T) /\ Cardinality(T) <= Cardinality(S)
    BY ZenonT(30), <1>4, FS_Subset
  <2>4. \A x : x \notin S => Cardinality(S \cup {x}) = Cardinality(S) + 1
    BY ZenonT(30), <1>4, FS_AddElement
  <2>5. \A x : x \in S => Cardinality(S \ {x}) = Cardinality(S) - 1
    BY ZenonT(30), <1>4, FS_RemoveElement
  <2>6. ASSUME NEW T, NEW f \in [S -> T], \A x, y \in S : f[x] = f[y] => x = y,
               \A z \in T : \E x \in S : f[x] = z
        PROVE  Cardinality(T) = Cardinality(S)
    <3>1. f \in Injection(S, T)
      BY Zenon, <2>6 DEF Injection, IsInjective
    <3>2. f \in Surjection(S, T)
      BY Zenon, <2>6 DEF Surjection
    <3>3. ExistsBijection(S, T)
      BY Zenon, <3>1, <3>2 DEF ExistsBijection, Bijection
    <3> QED
      BY SMTT(30), <1>4, <3>3, FS_Bijection
  <2> QED
    BY <2>1, <2>2, <2>3, <2>4, <2>5, <2>6
<1> QED
  BY ZenonT(30), <1>1, <1>2, <1>3, <1>4 DEF SetFacts

(***************************************************************************)
(* The theorems                                                            *)
(***************************************************************************)

\* The invariant holds in every reachable state.
LEMMA Invariance == Spec => []IInv
<1>1. Init => IInv
  BY Zenon, InitIInv, SetFactsHold
<1>2. IInv /\ [Next]_vars => IInv'
  BY ZenonT(30), StepIInv, SetFactsHold
<1> QED
  BY <1>1, <1>2, PTL DEF Spec

\* Of any number of session threads and workers, a request is in the queue or with one worker, never twice, and
\* is sent at most one final reply.
THEOREM RequestsServedOnce == Spec => []ServedOnce
<1>1. IInv => ServedOnce
  BY Zenon DEF IInv
<1> QED
  BY <1>1, Invariance, PTL

\* The wait and the notifications of queue_cv_ leave no request behind a pool that sleeps.
THEOREM WakeupsKept == Spec => []NoLostWakeup
<1>1. IInv => NoLostWakeup
  BY Zenon DEF IInv
<1> QED
  BY <1>1, Invariance, PTL

\* Whatever the size of the pool, stop() can be missed by one worker only, and when it returns Stopped stays.
THEOREM StopMissedByOne == Spec => []AtMostOneMissesStop
<1>1. IInv => AtMostOneMissesStop
  BY ZenonT(30), OneMisses, SetFactsHold
<1> QED
  BY <1>1, Invariance, PTL

\* A record says Running only while a worker has the request, or because stop() made the worker give it up.
THEOREM RunningServed == Spec => []RunningMeansServed
<1>1. IInv => RunningMeansServed
  BY Zenon DEF IInv
<1> QED
  BY <1>1, Invariance, PTL

\* The counters of MetricsCollector account for every request.
THEOREM CountersBalance == Spec => []MetricsBalance
<1>1. IInv => MetricsBalance
  BY Zenon DEF IInv
<1> QED
  BY <1>1, Invariance, PTL

\* The limits bound the queue under every interleaving of inference with reload_config.
THEOREM QueueBounded == Spec => []AdmissionBounds
<1>1. IInv => AdmissionBounds
  BY Zenon DEF IInv
<1> QED
  BY <1>1, Invariance, PTL

\* The status taskinfo shows of a request never goes back.
THEOREM StatusAdvances == Spec => RecordsAdvance
<1>1. IInv /\ [Next]_vars => [Advances]_vars
  BY ZenonT(30), StepRecords, SetFactsHold
<1>2. [Advances]_vars => [\A i \in DOMAIN records, j \in DOMAIN records' :
                            records[i].task_id = records'[j].task_id =>
                               \/ records'[j] = records[i]
                               \/ Rank(records'[j].status) > Rank(records[i].status)]_vars
  BY Zenon DEF Advances
<1> QED
  BY <1>1, <1>2, Invariance, PTL DEF Spec, RecordsAdvance

\* When all settings have the same high_priority_threshold, the queue under all its threads implements the class
\* queue, for which Overtaking bounds how often a class is passed over.
THEOREM QueueByClass ==
    ASSUME OneThreshold
    PROVE  Spec => ImplementsClassQueue
<1>1. Init => ByClass!QueueInit
  BY ZenonT(30), InitQueue, SetFactsHold
<1>2. IInv /\ [Next]_vars => [(\E c \in ByClass!Classes : ByClass!Push(c)) \/ ByClass!Pop]_<<ClassCount, slot>>
  BY ZenonT(30), StepQueue, SetFactsHold
<1>3. IInv /\ [Next]_vars =>
        [(\E c \in ByClass!Classes : ByClass!Push(c)) \/ ByClass!Pop]_<<
          [k \in Classes |-> Cardinality(InClass(pending, k, HighThreshold))], slot>>
  BY Zenon, <1>2 DEF ClassCount
<1>4. Spec => [][(\E c \in ByClass!Classes : ByClass!Push(c)) \/ ByClass!Pop]_<<
                   [k \in Classes |-> Cardinality(InClass(pending, k, HighThreshold))], slot>>
  BY <1>3, Invariance, PTL DEF Spec
<1>5. Spec => ByClass!QueueInit
  BY <1>1, PTL DEF Spec
<1> QED
  BY <1>4, <1>5, PTL DEF ImplementsClassQueue, ByClass!QueueSpec
=============================================================================
