--------------------------- MODULE EventBusProofs ---------------------------
(***************************************************************************)
(* Theorems about EventBus, for every number of replicas, messages, batch  *)
(* sizes, retry limits and failures.                                       *)
(***************************************************************************)
EXTENDS EventBus, TLAPS, FiniteSetTheorems

-----------------------------------------------------------------------------
(* Type correctness *)

\* A sequence rebuilt entry by entry is a sequence of the same length.
LEMMA RebuiltDlq ==
    ASSUME NEW S, NEW s \in Seq(S), NEW t, DOMAIN t = DOMAIN s,
           t = [i \in DOMAIN t |-> t[i]], \A i \in DOMAIN t : t[i] \in S
    PROVE  t \in Seq(S) /\ Len(t) = Len(s)
<1>1. DOMAIN s = 1..Len(s) /\ Len(s) \in Nat
  OBVIOUS
<1>2. t \in [1..Len(s) -> S]
  BY <1>1
<1> QED BY <1>1, <1>2

\* The ids of a new request.
LEMMA NewIdsType ==
    ASSUME next \in 0..MaxMsgs, NEW n \in 1..IngestBatch, next + n <= MaxMsgs
    PROVE  /\ NewIds(n) \subseteq Ids
           /\ next + n \in 0..MaxMsgs
           /\ \A m \in NewIds(n) : m > next /\ m <= next + n
BY MsgBound, BusBounds DEF NewIds, Ids

\* Trimming only takes away, and what it takes away unread is lost.
LEMMA TrimsType ==
    ASSUME NEW S \in SUBSET Ids, lost \subseteq Ids, Trims(S)
    PROVE  /\ stream' \subseteq S /\ stream' \subseteq Ids
           /\ lost' \subseteq Ids /\ lost \subseteq lost'
           /\ \A m \in S : m > last \/ m \in pel => m \in stream' \cup lost'
BY DEF Trims, Retained

LEMMA InitType == Init => TypeOK
<1> SUFFICES ASSUME Init PROVE TypeOK
  OBVIOUS
<1>1. NewWorker \in WorkerRec
  BY BusBounds DEF NewWorker, WorkerRec
<1>2. BusTypeOK
  <2>1. worker \in [Workers -> WorkerRec]
    BY <1>1 DEF Init
  <2>2. NoFails \in [Ids -> Nat]
    BY DEF NoFails
  <2>3. fails \in [Workers -> [Ids -> Nat]] /\ failures \in [Ids -> Nat]
    BY <2>2 DEF Init
  <2>4. 0 \in 0..MaxMsgs
    BY MsgBound
  <2>5. next \in 0..MaxMsgs /\ last \in 0..MaxMsgs
    BY <2>4 DEF Init
  <2> QED BY <2>1, <2>3, <2>5 DEF Init, BusTypeOK
<1>3. DlqTypeOK
  BY DlqBounds, RestartBound DEF Init, DlqInit, DlqTypeOK, CursorStart
<1> QED BY <1>2, <1>3 DEF TypeOK

\* The /ingest handler.
LEMMA PublishType ==
    ASSUME TypeOK, NEW n \in 1..IngestBatch, Publish(n) \/ PublishFallback(n)
    PROVE  TypeOK'
<1> USE DEF TypeOK
<1>1. DlqTypeOK'
  BY DEF Publish, PublishFallback, dlqVars, DlqTypeOK
<1>2. CASE Publish(n)
  <2>1. next \in 0..MaxMsgs /\ next + n <= MaxMsgs /\ next' = next + n
    BY <1>2 DEF Publish, BusTypeOK
  <2>2. NewIds(n) \subseteq Ids /\ next' \in 0..MaxMsgs
    BY <2>1, NewIdsType
  <2>3. stream \cup NewIds(n) \in SUBSET Ids /\ lost \subseteq Ids
    BY <2>2 DEF BusTypeOK
  <2>4. stream' \subseteq Ids /\ lost' \subseteq Ids
    BY <1>2, <2>3, TrimsType DEF Publish
  <2> QED BY <1>1, <1>2, <2>2, <2>4 DEF Publish, BusTypeOK, workerVars
<1>3. CASE PublishFallback(n)
  <2>1. next \in 0..MaxMsgs /\ next + n <= MaxMsgs /\ next' = next + n
    BY <1>3 DEF PublishFallback, BusTypeOK
  <2>2. NewIds(n) \subseteq Ids /\ next' \in 0..MaxMsgs
    BY <2>1, NewIdsType
  <2>3. PICK X \in SUBSET NewIds(n) :
          Trims(stream \cup X) /\ queued' = queued \cup X
    BY <1>3 DEF PublishFallback
  <2>4. stream \cup X \in SUBSET Ids /\ lost \subseteq Ids
    BY <2>2 DEF BusTypeOK
  <2>5. stream' \subseteq Ids /\ lost' \subseteq Ids
    BY <2>3, <2>4, TrimsType
  <2>6. done' \subseteq done \cup NewIds(n)
    BY <1>3 DEF PublishFallback
  <2> QED BY <1>1, <1>3, <2>2, <2>3, <2>5, <2>6
          DEF PublishFallback, BusTypeOK, workerVars
<1> QED BY <1>2, <1>3

\* The worker after a message of its batch is finished with.
LEMMA FinishType ==
    ASSUME BusTypeOK, NEW w \in Workers, NEW m \in Ids, NEW ok \in BOOLEAN,
           NEW count \in Nat, Finish(w, m, ok, count)
    PROVE  /\ worker' \in [Workers -> WorkerRec]
           /\ fails' \in [Workers -> [Ids -> Nat]]
<1>1. worker[w] \in WorkerRec
  BY DEF BusTypeOK
<1>2. [worker[w] EXCEPT !.batch = worker[w].batch \ {m},
                        !.acks = IF ok THEN worker[w].acks \cup {m} ELSE worker[w].acks]
      \in WorkerRec
  BY <1>1 DEF WorkerRec
<1>3. worker' \in [Workers -> WorkerRec]
  BY <1>2 DEF Finish, BusTypeOK
<1>4. fails' \in [Workers -> [Ids -> Nat]]
  BY DEF Finish, BusTypeOK
<1> QED BY <1>3, <1>4

\* consume_events and claim_stale.
LEMMA ReadType ==
    ASSUME TypeOK, NEW w \in Workers,
           Consume(w) \/ ConsumeFailed(w) \/ Claim(w) \/ ClaimFailed(w)
    PROVE  TypeOK'
<1> USE DEF TypeOK
<1>1. DlqTypeOK'
  BY DEF Consume, ConsumeFailed, Claim, ClaimFailed, dlqVars, DlqTypeOK
<1>2. worker[w] \in WorkerRec
  BY DEF BusTypeOK
<1>3. NextIter(w) \in 0..(ClaimEvery - 1)
  BY <1>2, BusBounds DEF WorkerRec, NextIter
<1>4. CASE Consume(w)
  <2>1. PICK n \in {LastDelivered} \cup stream :
          /\ last' = n
          /\ LET S == {m \in stream : LastDelivered < m /\ m <= n} IN
             /\ pel' = pel \cup S
             /\ idle' = idle \ S
             /\ worker' = [worker EXCEPT
                            ![w].pc = IF NextIter(w) = 0 THEN "claim" ELSE "process",
                            ![w].iter = NextIter(w), ![w].batch = S]
    BY <1>4 DEF Consume
  <2>2. n \in 0..MaxMsgs
    BY MsgBound DEF BusTypeOK, Ids, LastDelivered, GroupStart
  <2> DEFINE S == {m \in stream : LastDelivered < m /\ m <= n}
  <2>3. S \subseteq Ids
    BY DEF BusTypeOK
  <2>4. [worker[w] EXCEPT !.pc = IF NextIter(w) = 0 THEN "claim" ELSE "process",
                          !.iter = NextIter(w), !.batch = S] \in WorkerRec
    <3> HIDE DEF S
    <3> QED BY <1>2, <1>3, <2>3 DEF WorkerRec
  <2>5. worker' \in [Workers -> WorkerRec]
    BY <2>1, <2>4 DEF BusTypeOK
  <2> QED BY <1>1, <1>4, <2>1, <2>2, <2>3, <2>5 DEF Consume, BusTypeOK, histVars
<1>5. CASE ConsumeFailed(w)
  <2>1. [worker[w] EXCEPT !.iter = NextIter(w)] \in WorkerRec
    BY <1>2, <1>3 DEF WorkerRec
  <2> QED BY <1>1, <1>5, <2>1 DEF ConsumeFailed, BusTypeOK, streamVars, histVars
<1>6. CASE Claim(w)
  <2>1. PICK S \in SUBSET Ids :
          /\ pel' = pel \ (idle \ stream)
          /\ idle' = (idle \cap stream) \ S
          /\ worker' = [worker EXCEPT ![w].pc = "process",
                                      ![w].batch = worker[w].batch \cup S]
    <3> DEFINE stale == IF group THEN pel \cap idle \cap stream ELSE {}
               S == {m \in stale : Cardinality({k \in stale : k < m}) < ClaimCount}
    <3>1. stale \subseteq Ids
      BY DEF BusTypeOK
    <3>2. S \in SUBSET Ids
      BY <3>1
    <3> QED BY <1>6, <3>2 DEF Claim
  <2>2. [worker[w] EXCEPT !.pc = "process", !.batch = worker[w].batch \cup S]
        \in WorkerRec
    BY <1>2 DEF WorkerRec
  <2>3. worker' \in [Workers -> WorkerRec]
    BY <2>1, <2>2 DEF BusTypeOK
  <2> QED BY <1>1, <1>6, <2>1, <2>3 DEF Claim, BusTypeOK, histVars
<1>7. CASE ClaimFailed(w)
  <2>1. [worker[w] EXCEPT !.pc = "process"] \in WorkerRec
    BY <1>2 DEF WorkerRec
  <2> QED BY <1>1, <1>7, <2>1 DEF ClaimFailed, BusTypeOK, streamVars, histVars
<1> QED BY <1>4, <1>5, <1>6, <1>7

\* The outcomes of process_event.
LEMMA ProcessType ==
    ASSUME TypeOK, NEW w \in Workers,
           Processed(w) \/ Failed(w) \/ DeadLetter(w)
    PROVE  TypeOK'
<1> USE DEF TypeOK
<1>1. worker[w].batch \subseteq Ids
  BY DEF BusTypeOK, WorkerRec
<1>2. CASE Processed(w)
  <2>1. PICK m \in worker[w].batch : Finish(w, m, TRUE, 0) /\ done' \subseteq done \cup {m}
    BY <1>2 DEF Processed
  <2> QED BY <1>1, <1>2, <2>1, FinishType
          DEF Processed, BusTypeOK, streamVars, dlqVars, DlqTypeOK
<1>3. CASE Failed(w)
  <2>1. PICK m \in worker[w].batch :
          /\ Finish(w, m, FALSE, fails[w][m] + 1)
          /\ failures' = [failures EXCEPT ![m] = @ + 1]
    BY <1>3 DEF Failed
  <2>2. fails[w][m] + 1 \in Nat /\ failures' \in [Ids -> Nat]
    BY <1>1, <2>1 DEF BusTypeOK
  <2> QED BY <1>1, <1>3, <2>1, <2>2, FinishType
          DEF Failed, BusTypeOK, streamVars, dlqVars, DlqTypeOK
<1>4. CASE DeadLetter(w)
  <2>1. PICK m \in worker[w].batch :
          /\ failures' = [failures EXCEPT ![m] = @ + 1]
          /\ \/ /\ dlq' = Append(dlq, m)
                /\ dead' = dead \cup {m}
                /\ Finish(w, m, TRUE, 0)
             \/ /\ Finish(w, m, FALSE, fails[w][m] + 1)
                /\ UNCHANGED <<dlq, dead>>
    BY <1>4 DEF DeadLetter
  <2>2. fails[w][m] + 1 \in Nat /\ failures' \in [Ids -> Nat]
    BY <1>1, <2>1 DEF BusTypeOK
  <2>3. worker' \in [Workers -> WorkerRec] /\ fails' \in [Workers -> [Ids -> Nat]]
    BY <1>1, <2>1, <2>2, FinishType
  <2>4. dead' \subseteq Ids
    BY <1>1, <2>1 DEF BusTypeOK
  <2>5. BusTypeOK'
    BY <1>4, <2>2, <2>3, <2>4 DEF DeadLetter, BusTypeOK, streamVars
  <2>6. m \in Ids \cup {Gone} /\ dlq \in Seq(Ids \cup {Gone}) /\ Len(dlq) < MaxDlq
    BY <1>1, <1>4 DEF DeadLetter, DlqTypeOK
  <2>7. dlq' = Append(dlq, m) \/ dlq' = dlq
    BY <2>1
  <2>8. dlq' \in Seq(Ids \cup {Gone}) /\ Len(dlq') <= MaxDlq
    BY <2>6, <2>7, DlqBounds
  <2> QED BY <1>4, <2>5, <2>8 DEF DeadLetter, DlqTypeOK, monitorVars
<1> QED BY <1>2, <1>3, <1>4

\* Acknowledgements, forgotten counts and crashes.
LEMMA OtherType ==
    ASSUME TypeOK, NEW w \in Workers, Ack(w) \/ Cleanup(w) \/ Crash(w)
    PROVE  TypeOK'
<1> USE DEF TypeOK
<1>1. DlqTypeOK'
  BY DEF Ack, Cleanup, Crash, dlqVars, DlqTypeOK
<1>2. worker[w] \in WorkerRec
  BY DEF BusTypeOK
<1>3. CASE Ack(w)
  <2>1. [worker[w] EXCEPT !.pc = "consume", !.acks = {}] \in WorkerRec
    BY <1>2 DEF WorkerRec
  <2> QED BY <1>1, <1>3, <2>1 DEF Ack, BusTypeOK, histVars
<1>4. CASE Cleanup(w)
  BY <1>1, <1>4 DEF Cleanup, BusTypeOK, streamVars, histVars
<1>5. CASE Crash(w)
  <2>1. NewWorker \in WorkerRec /\ NoFails \in [Ids -> Nat]
    BY BusBounds DEF NewWorker, WorkerRec, NoFails
  <2> QED BY <1>1, <1>5, <2>1 DEF Crash, BusTypeOK, streamVars, histVars
<1> QED BY <1>3, <1>4, <1>5

\* Redis restarts without its data.
LEMMA LossType == ASSUME TypeOK, RedisLoss PROVE TypeOK'
<1> USE DEF TypeOK
<1>1. 0 \in 0..MaxMsgs
  BY MsgBound
<1>2. BusTypeOK'
  BY <1>1 DEF RedisLoss, BusTypeOK, workerVars
<1>3. dlq \in Seq(Ids \cup {Gone}) /\ Len(dlq) <= MaxDlq
  BY DEF DlqTypeOK
<1>4. dlq' \in Seq(Ids \cup {Gone}) /\ Len(dlq') = Len(dlq)
  BY <1>3, RebuiltDlq DEF RedisLoss
<1> QED BY <1>2, <1>3, <1>4 DEF RedisLoss, DlqTypeOK, monitorVars

\* The dead-letter consumers.
LEMMA MonitorType ==
    ASSUME TypeOK, NEW c \in Monitors, Monitor(c) \/ Restart(c)
    PROVE  TypeOK'
<1> USE DEF TypeOK
<1>1. BusTypeOK'
  BY DEF Monitor, Restart, busVars, streamVars, workerVars, histVars, BusTypeOK
<1>2. dlq \in Seq(Ids \cup {Gone}) /\ Len(dlq) <= MaxDlq /\ Len(dlq) \in Nat
  BY DEF DlqTypeOK
<1>3. DOMAIN dlq \subseteq Letters
  BY <1>2, DlqBounds DEF Letters
<1>4. CASE DlqRead(c)
  <2>1. Unseen(cursor[c]) \subseteq Letters
    BY <1>3 DEF Unseen
  <2>2. fetched' \in [Monitors -> SUBSET Letters] /\ round' \in [Monitors -> Nat]
    BY <1>4, <2>1 DEF DlqRead, DlqTypeOK
  <2> QED BY <1>1, <1>4, <2>2 DEF DlqRead, DlqTypeOK
<1>5. CASE DlqHandle(c)
  <2>1. PICK i \in fetched[c] :
          /\ alerted' = alerted \cup {i}
          /\ cursor' = [cursor EXCEPT ![c] = i]
          /\ fetched' = [fetched EXCEPT ![c] = @ \ {i}]
          /\ round' = [round EXCEPT ![c] = @ + 1]
          /\ dlq' = Trimmed \/ dlq' = dlq
          /\ restarts' = restarts
    BY <1>5 DEF DlqHandle
  <2>2. i \in Letters /\ i \in 0..MaxDlq
    BY DlqBounds DEF DlqTypeOK, Letters
  <2>3. Trimmed \in Seq(Ids \cup {Gone}) /\ Len(Trimmed) = Len(dlq)
    <3>1. \A j \in DOMAIN dlq : dlq[j] \in Ids \cup {Gone}
      BY <1>2
    <3>2. /\ DOMAIN Trimmed = DOMAIN dlq
          /\ Trimmed = [j \in DOMAIN Trimmed |-> Trimmed[j]]
          /\ \A j \in DOMAIN Trimmed : Trimmed[j] \in Ids \cup {Gone}
      BY <3>1 DEF Trimmed
    <3> QED BY <1>2, <3>2, RebuiltDlq
  <2>4. dlq' \in Seq(Ids \cup {Gone}) /\ Len(dlq') <= MaxDlq
    BY <1>2, <2>1, <2>3
  <2> QED BY <1>1, <2>1, <2>2, <2>4 DEF DlqTypeOK
<1>6. CASE Restart(c)
  <2>1. CursorStart \in 0..MaxDlq
    BY DlqBounds DEF CursorStart
  <2> QED BY <1>1, <1>6, <2>1, RestartBound DEF Restart, MonitorRestart, DlqTypeOK
<1> QED BY <1>4, <1>5, <1>6 DEF Monitor

\* The values that every variable of the stream, of the workers and of the
\* dead-letter consumers ever has.
THEOREM BusTypeCorrect == Spec => []TypeOK
<1>1. ASSUME TypeOK, [Next]_vars PROVE TypeOK'
  <2> USE <1>1
  <2>1. CASE UNCHANGED vars
    BY <2>1 DEF vars, busVars, streamVars, workerVars, histVars, dlqVars,
                TypeOK, BusTypeOK, DlqTypeOK
  <2>2. CASE \E n \in 1..IngestBatch : Publish(n) \/ PublishFallback(n)
    BY <2>2, PublishType
  <2>3. CASE \E w \in Workers : WorkerStep(w) \/ ConsumeFailed(w)
                 \/ ClaimFailed(w) \/ Cleanup(w) \/ Crash(w)
    BY <2>3, ReadType, ProcessType, OtherType DEF WorkerStep
  <2>4. CASE \E m \in Ids : Age(m)
    BY <2>4 DEF Age, workerVars, histVars, dlqVars, TypeOK, BusTypeOK, DlqTypeOK
  <2>5. CASE \E c \in Monitors : Monitor(c) \/ Restart(c)
    BY <2>5, MonitorType
  <2>6. CASE RedisLoss
    BY <2>6, LossType
  <2> QED BY <2>1, <2>2, <2>3, <2>4, <2>5, <2>6 DEF Next
<1> QED BY <1>1, InitType, PTL DEF Spec

-----------------------------------------------------------------------------
(* At-least-once processing *)

\* What the initial state and every step keep: the invariant that the runs
\* check, together with the types.
BusIInv == TypeOK /\ BusInv

\* Publishing: what MAXLEN trims unread or unacknowledged counts as lost.
LEMMA PublishInv ==
    ASSUME BusIInv, NEW n \in 1..IngestBatch, Publish(n) \/ PublishFallback(n)
    PROVE  BusInv'
<1> USE DEF BusIInv, TypeOK
<1>1. /\ next \in 0..MaxMsgs /\ next + n <= MaxMsgs /\ next' = next + n
      /\ last' = last /\ pel' = pel /\ group' = group /\ worker' = worker
      /\ dead' = dead /\ done \subseteq done'
  BY DEF Publish, PublishFallback, BusTypeOK, workerVars
<1>2. PICK X \in SUBSET NewIds(n) :
        Trims(stream \cup X) /\ queued' = queued \cup X
  BY DEF Publish, PublishFallback
<1>3. \A m \in NewIds(n) : m > next /\ m <= next + n /\ m \in Ids
  BY <1>1, NewIdsType
<1>4. stream \cup X \in SUBSET Ids /\ lost \subseteq Ids
  BY <1>3 DEF BusTypeOK
<1>5. /\ stream' \subseteq stream \cup X
      /\ lost \subseteq lost'
      /\ \A m \in stream \cup X : m > last \/ m \in pel => m \in stream' \cup lost'
  BY <1>2, <1>4, TrimsType
<1>6. PositionIsSound'
  <2>1. \A m \in stream' : m <= next + n
    BY <1>1, <1>3, <1>4, <1>5, BusBounds, MsgBound DEF BusInv, PositionIsSound, Ids
  <2> QED BY <1>1, <2>1, BusBounds DEF BusInv, PositionIsSound, BusTypeOK
<1>7. \A m \in X : m > last
  BY <1>1, <1>3 DEF BusInv, PositionIsSound, BusTypeOK, Ids
<1>8. QueuedIsAnsweredFor'
  BY <1>1, <1>2, <1>5, <1>7 DEF BusInv, QueuedIsAnsweredFor, Outstanding
<1>9. AcksAreEarned' /\ PendingIsKept'
  BY <1>1, <1>5 DEF BusInv, AcksAreEarned, PendingIsKept
<1> QED BY <1>6, <1>8, <1>9 DEF BusInv

\* The consumer group: a read moves what it passes into the pending list, a
\* claim drops only entries whose message is lost, an ack only earned ones.
LEMMA GroupInv ==
    ASSUME BusIInv, NEW w \in Workers,
           Consume(w) \/ Claim(w) \/ Ack(w)
    PROVE  BusInv'
<1> USE DEF BusIInv, TypeOK
<1>1. /\ next' = next /\ stream' = stream
      /\ queued' = queued /\ lost' = lost /\ done' = done /\ dead' = dead
  BY DEF Consume, Claim, Ack, histVars
<1>2. \A v \in Workers : worker'[v].acks \subseteq worker[v].acks
  <2>1. worker \in [Workers -> WorkerRec]
    BY DEF BusTypeOK
  <2>2. ASSUME Consume(w) PROVE \A v \in Workers : worker'[v].acks = worker[v].acks
    <3>1. PICK S, pc, iter :
            worker' = [worker EXCEPT ![w].pc = pc, ![w].iter = iter, ![w].batch = S]
      BY <2>2 DEF Consume
    <3> QED BY <2>1, <3>1 DEF WorkerRec
  <2>3. ASSUME Claim(w) PROVE \A v \in Workers : worker'[v].acks = worker[v].acks
    <3>1. PICK S : worker' = [worker EXCEPT ![w].pc = "process", ![w].batch = S]
      BY <2>3 DEF Claim
    <3> QED BY <2>1, <3>1 DEF WorkerRec
  <2>4. ASSUME Ack(w) PROVE \A v \in Workers : worker'[v].acks \subseteq worker[v].acks
    BY <2>1, <2>4 DEF Ack, WorkerRec
  <2> QED BY <2>2, <2>3, <2>4
<1>3. AcksAreEarned'
  BY <1>1, <1>2 DEF BusInv, AcksAreEarned
<1>4. CASE Consume(w)
  <2>1. PICK n \in {LastDelivered} \cup stream :
          /\ LastDelivered <= n
          /\ last' = n
          /\ pel' = pel \cup {m \in stream : LastDelivered < m /\ m <= n}
    BY <1>4 DEF Consume
  <2>2. LastDelivered = last
    BY DEF LastDelivered, GroupStart, BusInv, PositionIsSound, BusTypeOK
  <2>3. n <= next /\ n \in Nat /\ last \in Nat
    BY <2>1, <2>2, MsgBound DEF BusInv, PositionIsSound, BusTypeOK, Ids
  <2>4. \A m \in stream : m \in Nat
    BY DEF BusTypeOK, Ids
  <2>5. Outstanding \subseteq Outstanding'
    BY <1>1, <2>1, <2>2, <2>3, <2>4 DEF Outstanding
  <2>6. QueuedIsAnsweredFor'
    BY <1>1, <2>5 DEF BusInv, QueuedIsAnsweredFor
  <2>7. PendingIsKept'
    BY <1>1, <2>1 DEF BusInv, PendingIsKept
  <2>8. PositionIsSound'
    BY <1>1, <1>4, <2>1, <2>3 DEF Consume, BusInv, PositionIsSound
  <2> QED BY <1>3, <2>6, <2>7, <2>8 DEF BusInv
<1>5. CASE Claim(w)
  <2>1. pel' = pel \ (idle \ stream) /\ last' = last /\ group' = group
    BY <1>5 DEF Claim
  <2> QED BY <1>1, <1>3, <2>1 DEF BusInv, QueuedIsAnsweredFor, Outstanding,
                                  PendingIsKept, PositionIsSound
<1>6. CASE Ack(w)
  <2>1. pel' \subseteq pel /\ pel \subseteq pel' \cup worker[w].acks
        /\ last' = last /\ group' = group
    BY <1>6 DEF Ack
  <2>2. worker[w].acks \subseteq done \cup dead
    BY DEF BusInv, AcksAreEarned
  <2> QED BY <1>1, <1>3, <2>1, <2>2 DEF BusInv, QueuedIsAnsweredFor, Outstanding,
                                        PendingIsKept, PositionIsSound
<1> QED BY <1>4, <1>5, <1>6

\* Processing: a message joins the ack_map with the log done, or dead-lettered.
LEMMA ProcessInv ==
    ASSUME BusIInv, NEW w \in Workers,
           Processed(w) \/ Failed(w) \/ DeadLetter(w)
    PROVE  BusInv'
<1> USE DEF BusIInv, TypeOK
<1>1. /\ next' = next /\ stream' = stream /\ group' = group /\ last' = last
      /\ pel' = pel /\ queued' = queued /\ lost' = lost
      /\ done \subseteq done' /\ dead \subseteq dead'
  BY DEF Processed, Failed, DeadLetter, streamVars
<1>2. PICK m \in Ids, ok \in BOOLEAN :
        (\E count : Finish(w, m, ok, count)) /\ (ok => m \in done' \cup dead')
  <2>1. worker[w].batch \subseteq Ids
    BY DEF BusTypeOK, WorkerRec
  <2> QED BY <2>1 DEF Processed, Failed, DeadLetter
<1>3. \A v \in Workers : worker'[v].acks \subseteq worker[v].acks \cup done' \cup dead'
  BY <1>2 DEF Finish, BusTypeOK, WorkerRec
<1>4. AcksAreEarned'
  BY <1>1, <1>3 DEF BusInv, AcksAreEarned
<1> QED BY <1>1, <1>4 DEF BusInv, QueuedIsAnsweredFor, Outstanding, PendingIsKept,
                          PositionIsSound

\* Failed reads and claims, forgotten counts, crashes: the streams stay as they
\* are, and a worker can only lose what it meant to acknowledge.
LEMMA OtherInv ==
    ASSUME BusIInv, NEW w \in Workers,
           ConsumeFailed(w) \/ ClaimFailed(w) \/ Cleanup(w) \/ Crash(w)
    PROVE  BusInv'
<1> USE DEF BusIInv, TypeOK
<1>1. UNCHANGED <<next, stream, group, last, pel, queued, lost, done, dead>>
  BY DEF ConsumeFailed, ClaimFailed, Cleanup, Crash, streamVars, histVars
<1>2. \A v \in Workers : worker'[v].acks \subseteq worker[v].acks
  <2>1. worker \in [Workers -> WorkerRec]
    BY DEF BusTypeOK
  <2>2. CASE ConsumeFailed(w)
    BY <2>1, <2>2 DEF ConsumeFailed, WorkerRec
  <2>3. CASE ClaimFailed(w)
    BY <2>1, <2>3 DEF ClaimFailed, WorkerRec
  <2>4. CASE Cleanup(w)
    BY <2>4 DEF Cleanup
  <2>5. CASE Crash(w)
    BY <2>1, <2>5 DEF Crash, NewWorker
  <2> QED BY <2>2, <2>3, <2>4, <2>5
<1> QED BY <1>1, <1>2 DEF BusInv, QueuedIsAnsweredFor, Outstanding, AcksAreEarned,
                          PendingIsKept, PositionIsSound

\* At-least-once, where a log counts as seen through when process_event returned
\* for it, holds for any number of replicas, batches, failures, crashes, failed
\* Redis calls and restarts of Redis.
THEOREM AtLeastOnce == Spec => []BusInv
<1>1. Init => BusIInv
  <2>1. ASSUME Init PROVE BusInv
    BY <2>1 DEF Init, BusInv, QueuedIsAnsweredFor, Outstanding, AcksAreEarned,
                NewWorker, PendingIsKept, PositionIsSound
  <2> QED BY <2>1, InitType DEF BusIInv
<1>2. ASSUME BusIInv, [Next]_vars PROVE BusInv'
  <2> USE <1>2
  <2> DEFINE Same == UNCHANGED <<next, stream, group, last, pel, worker, queued,
                                 lost, done, dead>>
  <2>1. ASSUME Same PROVE BusInv'
    BY <2>1 DEF BusIInv, BusInv, QueuedIsAnsweredFor, Outstanding, AcksAreEarned,
                PendingIsKept, PositionIsSound
  <2>2. CASE UNCHANGED vars
    BY <2>1, <2>2 DEF vars, busVars, streamVars, workerVars, histVars
  <2>3. CASE \E n \in 1..IngestBatch : Publish(n) \/ PublishFallback(n)
    BY <2>3, PublishInv
  <2>4. CASE \E w \in Workers : WorkerStep(w) \/ ConsumeFailed(w)
                 \/ ClaimFailed(w) \/ Cleanup(w) \/ Crash(w)
    BY <2>4, GroupInv, ProcessInv, OtherInv DEF WorkerStep
  <2>5. CASE \E m \in Ids : Age(m)
    BY <2>1, <2>5 DEF Age, workerVars, histVars
  <2>6. CASE \E c \in Monitors : Monitor(c) \/ Restart(c)
    BY <2>1, <2>6 DEF Monitor, Restart, busVars, streamVars, workerVars, histVars
  <2>7. CASE RedisLoss
    <3>1. next \in Nat
      BY MsgBound DEF BusIInv, TypeOK, BusTypeOK
    <3> QED BY <2>7, <3>1 DEF RedisLoss, BusIInv, BusInv, QueuedIsAnsweredFor,
              Outstanding, AcksAreEarned, PendingIsKept, PositionIsSound, workerVars
  <2> QED BY <2>2, <2>3, <2>4, <2>5, <2>6, <2>7 DEF Next
<1>3. BusIInv => BusInv
  BY DEF BusIInv
<1> QED BY <1>1, <1>2, <1>3, BusTypeCorrect, PTL DEF Spec, BusIInv

-----------------------------------------------------------------------------
(* Retries *)

\* Nothing is given up before MaxRetries attempts have failed, although every
\* replica counts on its own, forgets old counts and loses them in a crash.
THEOREM NoEarlyDeadLetter == Spec => []DeadLettersAreExhausted
<1> DEFINE Counted == CountsAreReal /\ DeadLettersAreExhausted
<1>1. ASSUME Init PROVE Counted
  BY <1>1 DEF Init, CountsAreReal, DeadLettersAreExhausted, NoFails
<1>2. ASSUME TypeOK, Counted, [Next]_vars PROVE Counted'
  <2> USE <1>2
  <2>1. fails \in [Workers -> [Ids -> Nat]] /\ failures \in [Ids -> Nat]
        /\ dead \subseteq Ids /\ MaxRetries \in Nat
    BY BusBounds DEF TypeOK, BusTypeOK
  <2>2. ASSUME UNCHANGED <<fails, failures, dead>> PROVE Counted'
    BY <2>2 DEF CountsAreReal, DeadLettersAreExhausted
  <2>3. CASE UNCHANGED vars
    BY <2>2, <2>3 DEF vars, busVars, workerVars, histVars
  <2>4. CASE \E n \in 1..IngestBatch : Publish(n) \/ PublishFallback(n)
    BY <2>2, <2>4 DEF Publish, PublishFallback, workerVars
  <2>5. ASSUME NEW w \in Workers, Consume(w) \/ Claim(w) \/ Ack(w)
                                  \/ ConsumeFailed(w) \/ ClaimFailed(w)
        PROVE  Counted'
    BY <2>2, <2>5 DEF Consume, Claim, Ack, ConsumeFailed, ClaimFailed, histVars
  <2>6. ASSUME NEW w \in Workers, Cleanup(w) \/ Crash(w)
        PROVE  Counted'
    <3>1. failures' = failures /\ dead' = dead
      BY <2>6 DEF Cleanup, Crash, histVars
    <3>2. \A v \in Workers, m \in Ids : fails'[v][m] = fails[v][m] \/ fails'[v][m] = 0
      BY <2>1, <2>6 DEF Cleanup, Crash, NoFails
    <3> QED BY <2>1, <3>1, <3>2 DEF CountsAreReal, DeadLettersAreExhausted
  <2>7. ASSUME NEW w \in Workers, Processed(w) \/ Failed(w) \/ DeadLetter(w)
        PROVE  Counted'
    <3>1. worker[w].batch \subseteq Ids
      BY DEF TypeOK, BusTypeOK, WorkerRec
    <3>2. CASE Processed(w)
      <4>1. PICK m \in Ids : fails' = [fails EXCEPT ![w][m] = 0]
        BY <3>1, <3>2 DEF Processed, Finish
      <4>2. failures' = failures /\ dead' = dead
        BY <3>2 DEF Processed
      <4> QED BY <2>1, <4>1, <4>2 DEF CountsAreReal, DeadLettersAreExhausted
    <3>3. CASE Failed(w) \/ DeadLetter(w)
      <4>1. PICK m \in Ids :
              /\ failures' = [failures EXCEPT ![m] = @ + 1]
              /\ \/ fails' = [fails EXCEPT ![w][m] = 0]
                 \/ fails' = [fails EXCEPT ![w][m] = fails[w][m] + 1]
              /\ \/ dead' = dead
                 \/ dead' = dead \cup {m} /\ fails[w][m] + 1 >= MaxRetries
        BY <3>1, <3>3 DEF Failed, DeadLetter, Finish, Exhausted
      <4>2. /\ failures'[m] = failures[m] + 1
            /\ \A k \in Ids : failures[k] <= failures'[k]
        BY <2>1, <4>1
      <4>3. /\ fails'[w][m] <= fails[w][m] + 1
            /\ \A v \in Workers, k \in Ids :
                 <<v, k>> # <<w, m>> => fails'[v][k] = fails[v][k]
        BY <2>1, <4>1
      <4>4. failures' \in [Ids -> Nat] /\ fails' \in [Workers -> [Ids -> Nat]]
        BY <2>1, <4>1
      <4>5. CountsAreReal'
        BY <2>1, <4>2, <4>3, <4>4 DEF CountsAreReal
      <4>6. DeadLettersAreExhausted'
        BY <2>1, <4>1, <4>2, <4>4 DEF CountsAreReal, DeadLettersAreExhausted
      <4> QED BY <4>5, <4>6
    <3> QED BY <2>7, <3>2, <3>3
  <2>8. CASE \E m \in Ids : Age(m)
    BY <2>2, <2>8 DEF Age, workerVars, histVars
  <2>9. CASE \E c \in Monitors : Monitor(c) \/ Restart(c)
    BY <2>2, <2>9 DEF Monitor, Restart, busVars, workerVars, histVars
  <2>10. CASE RedisLoss
    BY <2>2, <2>10 DEF RedisLoss, workerVars
  <2> QED BY <2>3, <2>4, <2>5, <2>6, <2>7, <2>8, <2>9, <2>10 DEF Next, WorkerStep
<1>3. Counted => DeadLettersAreExhausted
  OBVIOUS
<1> QED BY <1>1, <1>2, <1>3, BusTypeCorrect, PTL DEF Spec

-----------------------------------------------------------------------------
(* What leaves the group *)

\* A message stops being outstanding only because process_event returned for it,
\* because it was dead-lettered, or because Redis trimmed or lost it: no batch ack,
\* XAUTOCLAIM, failed call or crash takes it off the group's hands otherwise.
LeavesAnswered == Outstanding \subseteq Outstanding' \cup done \cup dead \cup lost'

\* The at-least-once invariant, step by step: each step answers for what it takes.
THEOREM OnlyAnsweredLeaves == Spec => [][LeavesAnswered]_vars
<1>1. ASSUME BusIInv, Next PROVE LeavesAnswered
  <2> USE <1>1 DEF BusIInv, TypeOK
  <2> DEFINE Same == UNCHANGED <<stream, last, pel>>
  <2>1. ASSUME Same PROVE LeavesAnswered
    BY <2>1 DEF LeavesAnswered, Outstanding
  <2>2. ASSUME NEW n \in 1..IngestBatch, Publish(n) \/ PublishFallback(n)
        PROVE  LeavesAnswered
    <3>1. PICK X \in SUBSET NewIds(n) : Trims(stream \cup X)
      BY <2>2 DEF Publish, PublishFallback
    <3>2. NewIds(n) \subseteq Ids
      BY <2>2, NewIdsType DEF Publish, PublishFallback, BusTypeOK
    <3>3. \A m \in stream \cup X : m > last \/ m \in pel => m \in stream' \cup lost'
      BY <3>1, <3>2, TrimsType DEF BusTypeOK
    <3>4. last' = last /\ pel' = pel
      BY <2>2 DEF Publish, PublishFallback
    <3> QED BY <3>3, <3>4 DEF LeavesAnswered, Outstanding
  <2>3. ASSUME NEW w \in Workers, Consume(w) PROVE LeavesAnswered
    <3>1. PICK n \in {LastDelivered} \cup stream :
            /\ last' = n
            /\ pel' = pel \cup {m \in stream : LastDelivered < m /\ m <= n}
      BY <2>3 DEF Consume
    <3>2. LastDelivered = last
      BY DEF LastDelivered, GroupStart, BusInv, PositionIsSound, BusTypeOK
    <3>3. n \in Nat /\ last \in Nat /\ \A m \in stream : m \in Nat
      BY <3>1, <3>2, MsgBound DEF BusTypeOK, Ids
    <3>4. stream' = stream
      BY <2>3 DEF Consume
    <3> QED BY <3>1, <3>2, <3>3, <3>4 DEF LeavesAnswered, Outstanding
  <2>4. ASSUME NEW w \in Workers, Claim(w) PROVE LeavesAnswered
    <3>1. UNCHANGED <<stream, last, lost>> /\ pel' = pel \ (idle \ stream)
      BY <2>4 DEF Claim, histVars
    <3> QED BY <3>1 DEF LeavesAnswered, Outstanding, BusInv, PendingIsKept
  <2>5. ASSUME NEW w \in Workers, Ack(w) PROVE LeavesAnswered
    <3>1. UNCHANGED <<stream, last>> /\ pel \subseteq pel' \cup worker[w].acks
      BY <2>5 DEF Ack
    <3> QED BY <3>1 DEF LeavesAnswered, Outstanding, BusInv, AcksAreEarned
  <2>6. ASSUME NEW w \in Workers,
               \/ Processed(w) \/ Failed(w) \/ DeadLetter(w) \/ ConsumeFailed(w)
               \/ ClaimFailed(w) \/ Cleanup(w) \/ Crash(w)
        PROVE  Same
    BY <2>6 DEF Processed, Failed, DeadLetter, ConsumeFailed, ClaimFailed, Cleanup,
                Crash, streamVars
  <2>7. ASSUME NEW m \in Ids, Age(m) PROVE Same
    BY <2>7 DEF Age
  <2>8. ASSUME NEW c \in Monitors, Monitor(c) \/ Restart(c) PROVE Same
    BY <2>8 DEF Monitor, Restart, busVars, streamVars
  <2>9. ASSUME RedisLoss PROVE LeavesAnswered
    BY <2>9 DEF RedisLoss, LeavesAnswered, Outstanding
  <2> QED BY <2>1, <2>2, <2>3, <2>4, <2>5, <2>6, <2>7, <2>8, <2>9 DEF Next, WorkerStep
<1> QED BY <1>1, AtLeastOnce, BusTypeCorrect, PTL DEF Spec, BusIInv

-----------------------------------------------------------------------------
(* The reports on dead letters *)

\* No consumer is past a dead letter that is still in the stream and that nobody
\* has reported: _last_id moves only after _handle_message.
NonePassedOver ==
    \A c \in Monitors, i \in DOMAIN dlq :
        i <= cursor[c] /\ dlq[i] # Gone => i \in alerted

\* Why: an XREAD leaves no gap between _last_id and the entries it returned.
ReadsHaveNoGap ==
    \A c \in Monitors :
        /\ cursor[c] <= Len(dlq) /\ fetched[c] \subseteq DOMAIN dlq
        /\ \A f \in fetched[c] : cursor[c] < f
        /\ \A f \in fetched[c], i \in DOMAIN dlq :
             cursor[c] < i /\ i < f /\ dlq[i] # Gone => i \in fetched[c]

ReportInv == NonePassedOver /\ ReadsHaveNoGap

\* A stream that lost entries, and nothing else.
LEMMA ThinnedKeeps ==
    ASSUME ReportInv, UNCHANGED <<cursor, fetched, alerted>>, dlq \in Seq(Ids \cup {Gone}),
           dlq' \in Seq(Ids \cup {Gone}), Len(dlq') = Len(dlq),
           \A i \in DOMAIN dlq : dlq'[i] \in {dlq[i], Gone}
    PROVE  ReportInv'
<1>1. DOMAIN dlq' = DOMAIN dlq
  OBVIOUS
<1> QED BY <1>1 DEF ReportInv, NonePassedOver, ReadsHaveNoGap

\* _send_to_dlq adds its entry behind every consumer.
LEMMA LetterKeeps ==
    ASSUME TypeOK, ReportInv, NEW w \in Workers, DeadLetter(w)
    PROVE  ReportInv'
<1>1. /\ dlq \in Seq(Ids \cup {Gone}) /\ Len(dlq) \in Nat /\ DOMAIN dlq = 1..Len(dlq)
      /\ cursor \in [Monitors -> 0..MaxDlq] /\ fetched \in [Monitors -> SUBSET Letters]
      /\ worker[w].batch \subseteq Ids
  BY DEF TypeOK, BusTypeOK, DlqTypeOK, WorkerRec
<1>2. UNCHANGED <<cursor, fetched, alerted>>
  BY DEF DeadLetter, monitorVars
<1>3. CASE dlq' = dlq
  BY <1>2, <1>3 DEF ReportInv, NonePassedOver, ReadsHaveNoGap
<1>4. CASE dlq' # dlq
  <2>1. PICK m \in Ids : dlq' = Append(dlq, m)
    BY <1>1, <1>4 DEF DeadLetter
  <2>2. /\ Len(dlq') = Len(dlq) + 1 /\ DOMAIN dlq' = 1..(Len(dlq) + 1)
        /\ \A i \in DOMAIN dlq : dlq'[i] = dlq[i]
    BY <1>1, <2>1
  <2>3. ASSUME NEW c \in Monitors
        PROVE  cursor[c] <= Len(dlq) /\ cursor[c] \in Nat /\ fetched[c] \subseteq DOMAIN dlq
    BY <1>1, DlqBounds DEF ReportInv, ReadsHaveNoGap
  <2>4. ASSUME NEW i \in DOMAIN dlq', i \notin DOMAIN dlq PROVE i = Len(dlq) + 1
    BY <1>1, <2>2, <2>4
  <2>5. NonePassedOver'
    <3> SUFFICES ASSUME NEW c \in Monitors, NEW i \in DOMAIN dlq',
                        i <= cursor[c], dlq'[i] # Gone
                 PROVE  i \in alerted
      BY <1>2 DEF NonePassedOver
    <3>1. i \in DOMAIN dlq
      BY <1>1, <2>3, <2>4
    <3> QED BY <2>2, <3>1 DEF ReportInv, NonePassedOver
  <2>6. ReadsHaveNoGap'
    <3> SUFFICES ASSUME NEW c \in Monitors
                 PROVE  /\ cursor[c] <= Len(dlq') /\ fetched[c] \subseteq DOMAIN dlq'
                        /\ \A f \in fetched[c] : cursor[c] < f
                        /\ \A f \in fetched[c], i \in DOMAIN dlq' :
                             cursor[c] < i /\ i < f /\ dlq'[i] # Gone => i \in fetched[c]
      BY <1>2 DEF ReadsHaveNoGap
    <3>1. cursor[c] <= Len(dlq') /\ fetched[c] \subseteq DOMAIN dlq'
      BY <1>1, <2>2, <2>3
    <3>3. \A f \in fetched[c] : cursor[c] < f
      BY DEF ReportInv, ReadsHaveNoGap
    <3>2. ASSUME NEW f \in fetched[c], NEW i \in DOMAIN dlq',
                 cursor[c] < i, i < f, dlq'[i] # Gone
          PROVE  i \in fetched[c]
      <4>1. f \in 1..Len(dlq)
        BY <1>1, <2>3
      <4>2. i \in DOMAIN dlq
        BY <1>1, <2>4, <3>2, <4>1
      <4> QED BY <2>2, <3>2, <4>2 DEF ReportInv, ReadsHaveNoGap
    <3> QED BY <3>1, <3>2, <3>3
  <2> QED BY <2>5, <2>6 DEF ReportInv
<1> QED BY <1>3, <1>4

\* An XREAD returns the first entries behind the position, with none left out.
LEMMA ReadKeeps ==
    ASSUME TypeOK, ReportInv, NEW c \in Monitors, DlqRead(c)
    PROVE  ReportInv'
<1> DEFINE U == Unseen(cursor[c])
           B(i) == {j \in U : j < i}
           F == {i \in U : Cardinality(B(i)) < DlqBatch}
<1>1. /\ dlq \in Seq(Ids \cup {Gone}) /\ Len(dlq) \in Nat /\ DOMAIN dlq = 1..Len(dlq)
      /\ cursor \in [Monitors -> 0..MaxDlq] /\ fetched \in [Monitors -> SUBSET Letters]
  BY DEF TypeOK, DlqTypeOK
<1>2. UNCHANGED <<dlq, cursor, alerted>> /\ fetched' = [fetched EXCEPT ![c] = F]
  BY DEF DlqRead
<1>3. IsFiniteSet(U)
  <2>1. IsFiniteSet(1..Len(dlq))
    BY <1>1, FS_Interval
  <2>2. U \subseteq 1..Len(dlq)
    BY <1>1 DEF Unseen
  <2> HIDE DEF U
  <2> QED BY <2>1, <2>2, FS_Subset
<1>4. ASSUME NEW f \in F, NEW i \in DOMAIN dlq, cursor[c] < i, i < f, dlq[i] # Gone
      PROVE  i \in F
  <2>1. i \in U
    BY <1>4 DEF Unseen
  <2>2. B(i) \subseteq B(f)
    <3>1. f \in Nat /\ i \in Nat /\ \A j \in U : j \in Nat
      BY <1>1 DEF Unseen
    <3>2. \A j \in U : j < i => j < f
      BY <1>4, <3>1
    <3> HIDE DEF U
    <3> QED BY <3>2
  <2>3. IsFiniteSet(B(f))
    BY <1>3, FS_Subset
  <2>4. IsFiniteSet(B(i)) /\ Cardinality(B(i)) <= Cardinality(B(f))
    BY <2>2, <2>3, FS_Subset
  <2>5. Cardinality(B(i)) \in Nat /\ Cardinality(B(f)) \in Nat
    BY <2>3, <2>4, FS_CardinalityType
  <2> QED BY <2>1, <2>4, <2>5, DlqBounds
<1>5. F \subseteq DOMAIN dlq /\ \A f \in F : cursor[c] < f
  <2>1. U \subseteq DOMAIN dlq /\ \A f \in U : f > cursor[c]
    BY DEF Unseen
  <2>2. \A f \in U : f \in Nat /\ cursor[c] \in Nat
    BY <1>1, <2>1, DlqBounds
  <2> QED BY <2>1, <2>2
<1>6. fetched'[c] = F /\ \A d \in Monitors \ {c} : fetched'[d] = fetched[d]
  BY <1>1, <1>2
<1> HIDE DEF F
<1>7. ReadsHaveNoGap'
  <2> SUFFICES ASSUME NEW d \in Monitors
               PROVE  /\ cursor[d] <= Len(dlq) /\ fetched'[d] \subseteq DOMAIN dlq
                      /\ \A f \in fetched'[d] : cursor[d] < f
                      /\ \A f \in fetched'[d], i \in DOMAIN dlq :
                           cursor[d] < i /\ i < f /\ dlq[i] # Gone => i \in fetched'[d]
    BY <1>2 DEF ReadsHaveNoGap
  <2>1. CASE d = c
    BY <1>4, <1>5, <1>6, <2>1 DEF ReportInv, ReadsHaveNoGap
  <2>2. CASE d # c
    BY <1>6, <2>2 DEF ReportInv, ReadsHaveNoGap
  <2> QED BY <2>1, <2>2
<1>8. NonePassedOver'
  BY <1>2 DEF ReportInv, NonePassedOver
<1> QED BY <1>7, <1>8 DEF ReportInv

\* _handle_message reports the oldest entry it was given, before it moves on.
LEMMA HandleKeeps ==
    ASSUME TypeOK, ReportInv, NEW c \in Monitors, DlqHandle(c)
    PROVE  ReportInv'
<1>1. /\ dlq \in Seq(Ids \cup {Gone}) /\ Len(dlq) \in Nat /\ DOMAIN dlq = 1..Len(dlq)
      /\ cursor \in [Monitors -> 0..MaxDlq] /\ fetched \in [Monitors -> SUBSET Letters]
  BY DEF TypeOK, DlqTypeOK
<1>2. PICK h \in fetched[c] :
        /\ \A j \in fetched[c] : h <= j
        /\ alerted' = alerted \cup {h}
        /\ cursor' = [cursor EXCEPT ![c] = h]
        /\ fetched' = [fetched EXCEPT ![c] = @ \ {h}]
        /\ dlq' = dlq \/ dlq' = Trimmed
  BY DEF DlqHandle
<1>3. h \in DOMAIN dlq /\ h \in Nat /\ h <= Len(dlq)
  BY <1>1 DEF ReportInv, ReadsHaveNoGap
<1>4. /\ DOMAIN dlq' = DOMAIN dlq
      /\ \A i \in DOMAIN dlq : dlq'[i] \in {dlq[i], Gone}
  BY <1>2 DEF Trimmed
<1>5. Len(dlq') = Len(dlq)
  <2>1. CASE dlq' = dlq
    BY <2>1
  <2>2. CASE dlq' = Trimmed
    <3>1. Trimmed = [i \in DOMAIN Trimmed |-> Trimmed[i]] /\ DOMAIN Trimmed = DOMAIN dlq
      BY DEF Trimmed
    <3>2. \A i \in DOMAIN Trimmed : Trimmed[i] \in Ids \cup {Gone}
      BY <1>1 DEF Trimmed
    <3> QED BY <1>1, <2>2, <3>1, <3>2, RebuiltDlq
  <2> QED BY <1>2, <2>1, <2>2
<1>6. /\ cursor'[c] = h /\ fetched'[c] = fetched[c] \ {h}
      /\ \A d \in Monitors \ {c} : cursor'[d] = cursor[d] /\ fetched'[d] = fetched[d]
  BY <1>1, <1>2
<1>7. NonePassedOver'
  <2> SUFFICES ASSUME NEW d \in Monitors, NEW i \in DOMAIN dlq, i <= cursor'[d],
                      dlq'[i] # Gone
               PROVE  i \in alerted \cup {h}
    BY <1>2, <1>4 DEF NonePassedOver
  <2>1. dlq[i] # Gone /\ i \in Nat
    BY <1>1, <1>4
  <2>2. CASE d # c
    BY <1>6, <2>1, <2>2 DEF ReportInv, NonePassedOver
  <2>3. CASE d = c
    <3>1. i <= h
      BY <1>6, <2>3
    <3>2. CASE i <= cursor[c]
      BY <2>1, <3>2 DEF ReportInv, NonePassedOver
    <3>3. CASE cursor[c] < i /\ i # h
      <4>1. i < h
        BY <1>3, <2>1, <3>1, <3>3
      <4>2. i \in fetched[c]
        BY <2>1, <3>3, <4>1 DEF ReportInv, ReadsHaveNoGap
      <4> QED BY <1>2, <1>3, <2>1, <4>1, <4>2
    <3>4. cursor[c] \in Nat
      BY <1>1, DlqBounds
    <3> QED BY <2>1, <3>2, <3>3, <3>4
  <2> QED BY <2>2, <2>3
<1>8. ReadsHaveNoGap'
  <2> SUFFICES ASSUME NEW d \in Monitors
               PROVE  /\ cursor'[d] <= Len(dlq) /\ fetched'[d] \subseteq DOMAIN dlq
                      /\ \A f \in fetched'[d] : cursor'[d] < f
                      /\ \A f \in fetched'[d], i \in DOMAIN dlq :
                           cursor'[d] < i /\ i < f /\ dlq'[i] # Gone => i \in fetched'[d]
    BY <1>4, <1>5 DEF ReadsHaveNoGap
  <2>1. CASE d # c
    BY <1>4, <1>6, <2>1 DEF ReportInv, ReadsHaveNoGap
  <2>2. CASE d = c
    <3>1. cursor[c] \in Nat /\ cursor[c] < h
      BY <1>1, DlqBounds DEF ReportInv, ReadsHaveNoGap
    <3>2. ASSUME NEW f \in fetched[c] \ {h}, NEW i \in DOMAIN dlq,
                 h < i, i < f, dlq'[i] # Gone
          PROVE  i \in fetched[c] \ {h}
      <4>1. dlq[i] # Gone /\ i \in Nat
        BY <1>1, <1>4, <3>2
      <4>2. cursor[c] < i
        BY <1>3, <3>1, <3>2, <4>1
      <4> QED BY <1>3, <3>2, <4>1, <4>2 DEF ReportInv, ReadsHaveNoGap
    <3>3. fetched[c] \ {h} \subseteq DOMAIN dlq
      BY DEF ReportInv, ReadsHaveNoGap
    <3>4. \A f \in fetched[c] \ {h} : h < f
      BY <1>1, <1>2, <1>3, <3>3
    <3> QED BY <1>3, <1>6, <2>2, <3>2, <3>3, <3>4
  <2> QED BY <2>1, <2>2
<1> QED BY <1>7, <1>8 DEF ReportInv

LEMMA ReportNext ==
    ASSUME TypeOK, TypeOK', ReportInv, [Next]_vars
    PROVE  ReportInv'
<1> DEFINE Same == UNCHANGED <<dlq, cursor, fetched, alerted>>
<1>1. ASSUME Same PROVE ReportInv'
  BY <1>1 DEF ReportInv, NonePassedOver, ReadsHaveNoGap
<1>2. ASSUME UNCHANGED vars PROVE Same
  BY <1>2 DEF vars, dlqVars
<1>3. ASSUME NEW n \in 1..IngestBatch, Publish(n) \/ PublishFallback(n) PROVE Same
  BY <1>3 DEF Publish, PublishFallback, dlqVars
<1>4. ASSUME NEW w \in Workers,
             \/ Consume(w) \/ Claim(w) \/ Processed(w) \/ Failed(w) \/ Ack(w)
             \/ ConsumeFailed(w) \/ ClaimFailed(w) \/ Cleanup(w) \/ Crash(w)
      PROVE  Same
  BY <1>4 DEF Consume, Claim, Processed, Failed, Ack, ConsumeFailed, ClaimFailed,
              Cleanup, Crash, dlqVars
<1>5. ASSUME NEW m \in Ids, Age(m) PROVE Same
  BY <1>5 DEF Age, dlqVars
<1>6. ASSUME NEW c \in Monitors, Restart(c) PROVE ReportInv'
  <2>1. /\ cursor \in [Monitors -> 0..MaxDlq] /\ fetched \in [Monitors -> SUBSET Letters]
        /\ dlq \in Seq(Ids \cup {Gone}) /\ Len(dlq) \in Nat /\ DOMAIN dlq = 1..Len(dlq)
    BY DEF TypeOK, DlqTypeOK
  <2>2. /\ UNCHANGED <<dlq, alerted>> /\ cursor' = [cursor EXCEPT ![c] = 0]
        /\ fetched' = [fetched EXCEPT ![c] = {}]
    BY <1>6 DEF Restart, MonitorRestart, CursorStart
  <2>3. /\ cursor'[c] = 0 /\ fetched'[c] = {}
        /\ \A d \in Monitors \ {c} : cursor'[d] = cursor[d] /\ fetched'[d] = fetched[d]
    BY <2>1, <2>2
  <2> QED BY <2>1, <2>2, <2>3 DEF ReportInv, NonePassedOver, ReadsHaveNoGap
<1>7. ASSUME RedisLoss PROVE ReportInv'
  <2>1. UNCHANGED <<cursor, fetched, alerted>> /\ dlq' = [i \in DOMAIN dlq |-> Gone]
    BY <1>7 DEF RedisLoss, monitorVars
  <2>2. dlq \in Seq(Ids \cup {Gone}) /\ dlq' \in Seq(Ids \cup {Gone})
    BY DEF TypeOK, DlqTypeOK
  <2>3. DOMAIN dlq' = DOMAIN dlq /\ \A i \in DOMAIN dlq : dlq'[i] = Gone
    BY <2>1
  <2>4. Len(dlq') = Len(dlq)
    BY <2>2, <2>3
  <2> QED BY <2>1, <2>2, <2>3, <2>4, ThinnedKeeps
<1>8. ASSUME NEW c \in Monitors, Monitor(c) PROVE ReportInv'
  BY <1>8, ReadKeeps, HandleKeeps DEF Monitor
<1> QED BY <1>1, <1>2, <1>3, <1>4, <1>5, <1>6, <1>7, <1>8, LetterKeeps
        DEF Next, WorkerStep

\* RedisDLQConsumer passes over no dead letter, for any number of instances, batch
\* sizes, restarts, concurrent writes to the stream and trims by its siblings: what
\* is behind _last_id and still there has been reported.
THEOREM NoLetterIsPassedOver == Spec => []NonePassedOver
<1>1. ASSUME Init PROVE ReportInv
  <2>1. dlq = <<>> /\ cursor = [c \in Monitors |-> 0] /\ fetched = [c \in Monitors |-> {}]
    BY <1>1 DEF Init, DlqInit, CursorStart
  <2>2. DOMAIN dlq = {} /\ Len(dlq) = 0
    BY <2>1
  <2> QED BY <2>1, <2>2 DEF ReportInv, NonePassedOver, ReadsHaveNoGap
<1>2. TypeOK /\ TypeOK' /\ ReportInv /\ [Next]_vars => ReportInv'
  BY ReportNext
<1>3. ReportInv => NonePassedOver
  BY DEF ReportInv
<1> QED BY <1>1, <1>2, <1>3, BusTypeCorrect, PTL DEF Spec

-----------------------------------------------------------------------------
(* What is unresolved can be taken up *)

\* A queued log that is neither seen through nor given up nor lost is where a worker
\* can find it: in the stream, and either ahead of the group, for XREADGROUP, or
\* pending in a group that exists, for XAUTOCLAIM.
UnresolvedIsInReach ==
    \A m \in queued \ (done \cup dead \cup lost) :
        m \in stream /\ (m > last \/ (m \in pel /\ group))

\* Only a group has pending entries.
PendingHasGroup == pel # {} => group

\* The safety part of QueuedIsResolved: from no state is the log out of reach, whoever
\* crashed with it and whatever was acknowledged around it.
THEOREM UnresolvedStaysInReach == Spec => []UnresolvedIsInReach
<1>1. Init => PendingHasGroup
  BY DEF Init, PendingHasGroup
<1>2. ASSUME PendingHasGroup, [Next]_vars PROVE PendingHasGroup'
  <2> USE <1>2
  <2>1. ASSUME pel' \subseteq pel, group' = group PROVE PendingHasGroup'
    BY <2>1 DEF PendingHasGroup
  <2>2. ASSUME NEW w \in Workers, Consume(w) PROVE PendingHasGroup'
    BY <2>2 DEF Consume, PendingHasGroup
  <2>3. ASSUME RedisLoss PROVE PendingHasGroup'
    BY <2>3 DEF RedisLoss, PendingHasGroup
  <2>4. ASSUME NEW w \in Workers,
               \/ Claim(w) \/ Ack(w) \/ Processed(w) \/ Failed(w) \/ DeadLetter(w)
               \/ ConsumeFailed(w) \/ ClaimFailed(w) \/ Cleanup(w) \/ Crash(w)
        PROVE  pel' \subseteq pel /\ group' = group
    BY <2>4 DEF Claim, Ack, Processed, Failed, DeadLetter, ConsumeFailed, ClaimFailed,
                Cleanup, Crash, streamVars
  <2>5. ASSUME \/ UNCHANGED vars
               \/ \E n \in 1..IngestBatch : Publish(n) \/ PublishFallback(n)
               \/ \E m \in Ids : Age(m)
               \/ \E c \in Monitors : Monitor(c) \/ Restart(c)
        PROVE  pel' \subseteq pel /\ group' = group
    BY <2>5 DEF vars, Publish, PublishFallback, Age, Monitor, Restart, busVars, streamVars
  <2> QED BY <2>1, <2>2, <2>3, <2>4, <2>5 DEF Next, WorkerStep
<1>3. ASSUME BusInv, PendingHasGroup PROVE UnresolvedIsInReach
  BY <1>3 DEF BusInv, QueuedIsAnsweredFor, Outstanding, PendingIsKept, PendingHasGroup,
              UnresolvedIsInReach
<1> QED BY <1>1, <1>2, <1>3, AtLeastOnce, PTL DEF Spec
=============================================================================
