------------------------------ MODULE EventBus ------------------------------
(***************************************************************************)
(* One Redis stream of raw logs, from the /ingest handler that XADDs to it *)
(* to the trigger workers that read it in the consumer group               *)
(* trigger-workers, and the dead-letter stream behind them.  Within one    *)
(* process a stream belongs to one worker; Workers are the workers of the  *)
(* several instances, which share the group and nothing else.  A log is    *)
(* named by the id its XADD gets.  Which consumer a pending entry belongs  *)
(* to is left out: neither XACK nor XAUTOCLAIM looks at it.                *)
(***************************************************************************)
EXTENDS RedisDlq

CONSTANTS
    Workers,        \* the TriggerWorkers assigned this stream
    IngestBatch,    \* bound on the logs of one /ingest request
    BatchSize,      \* count of the XREADGROUP
    ClaimCount,     \* count of the XAUTOCLAIM
    ClaimEvery,     \* a worker claims every ClaimEvery iterations
    MaxRetries,     \* _MAX_RETRIES
    MaxStreamLen,   \* MAX_STREAM_LEN
    MaxFailures,    \* bound on the failed attempts per log
    Contingencies   \* which of the outcomes below may happen in this instance

AllContingencies == {
    "xadd",         \* the publishing pipeline raises
    "redis",        \* XREADGROUP, XAUTOCLAIM, XACK or the DLQ's XADD raises
    "fail",         \* process_event raises or exceeds _PROCESS_TIMEOUT
    "aged",         \* _FAILURE_COUNTS_MAX_AGE passes between two attempts
    "crash",        \* the instance of a worker dies
    "restart",      \* the instance of a DLQ consumer is restarted
    "loss" }        \* Redis restarts without its data

ASSUME BusBounds ==
    /\ IngestBatch \in Nat \ {0} /\ BatchSize \in Nat \ {0}
    /\ ClaimCount \in Nat \ {0} /\ ClaimEvery \in Nat \ {0}
    /\ MaxRetries \in Nat \ {0} /\ MaxStreamLen \in Nat \ {0}
    /\ MaxFailures \in Nat
ASSUME ContingenciesType == Contingencies \subseteq AllContingencies

VARIABLES
    next,       \* the newest id
    stream,     \* the ids in the stream
    group,      \* does the consumer group exist?
    last,       \* its last-delivered-id
    pel,        \* its pending entries
    idle,       \* the pending entries untouched for CLAIM_IDLE_MS
    worker,     \* the trigger workers
    fails,      \* _failure_counts of each worker
    queued,     \* history: ids that were ever XADDed
    lost,       \* history: ids that Redis trimmed or lost
    done,       \* history: logs for which process_event returned
    dead,       \* history: logs that were written to tripwire:dlq
    failures    \* history: failed attempts per log, by any worker

streamVars == <<next, stream, group, last, pel, idle>>
histVars == <<queued, lost, done, dead, failures>>
workerVars == <<worker, fails>>
busVars == <<streamVars, workerVars, histVars>>
vars == <<busVars, dlqVars>>

May(c) == c \in Contingencies

WorkerRec == [pc    : {"consume", "claim", "process"},
              iter  : 0..(ClaimEvery - 1),          \* iteration % ClaimEvery
              batch : SUBSET Ids,                   \* messages still to process
              acks  : SUBSET Ids]                   \* ack_map

NewWorker == [pc |-> "consume", iter |-> 0, batch |-> {}, acks |-> {}]
NoFails == [m \in Ids |-> 0]

BusTypeOK ==
    /\ next \in 0..MaxMsgs
    /\ stream \subseteq Ids
    /\ group \in BOOLEAN
    /\ last \in 0..MaxMsgs
    /\ pel \subseteq Ids
    /\ idle \subseteq Ids
    /\ worker \in [Workers -> WorkerRec]
    /\ fails \in [Workers -> [Ids -> Nat]]
    /\ queued \subseteq Ids
    /\ lost \subseteq Ids
    /\ done \subseteq Ids
    /\ dead \subseteq Ids
    /\ failures \in [Ids -> Nat]

TypeOK == BusTypeOK /\ DlqTypeOK

Init ==
    /\ DlqInit
    /\ next = 0
    /\ stream = {}
    /\ group = FALSE
    /\ last = 0
    /\ pel = {}
    /\ idle = {}
    /\ worker = [w \in Workers |-> NewWorker]
    /\ fails = [w \in Workers |-> NoFails]
    /\ queued = {}
    /\ lost = {}
    /\ done = {}
    /\ dead = {}
    /\ failures = [m \in Ids |-> 0]

-----------------------------------------------------------------------------
(* Publishing *)

\* What the approximate MAXLEN may leave of the entries S: all of them, or the
\* newest ones, never fewer than MaxStreamLen.
Retained(S) ==
    {R \in SUBSET S : /\ \A m \in R, k \in S \ R : k < m
                      /\ R = S \/ Cardinality(R) >= MaxStreamLen}

\* The stream after XADDs made it S; what was trimmed unread or unacknowledged
\* is lost.
Trims(S) ==
    /\ stream' \in Retained(S)
    /\ lost' = lost \cup {m \in S \ stream' : m > last \/ m \in pel}

\* The logs of the next request.
NewIds(n) == (next + 1)..(next + n)

\* publish_batch: every XADD of the pipeline went through, and the request is
\* answered with status queued.
Publish(n) ==
    /\ next + n <= MaxMsgs
    /\ next' = next + n
    /\ Trims(stream \cup NewIds(n))
    /\ queued' = queued \cup NewIds(n)
    /\ UNCHANGED <<group, last, pel, idle, workerVars, done, dead, failures,
                   dlqVars>>

\* Some XADD of the pipeline raised, others may have gone through: the whole
\* batch is processed synchronously, where errors are part of the answer.
PublishFallback(n) ==
    /\ May("xadd")
    /\ next + n <= MaxMsgs
    /\ next' = next + n
    /\ \E X \in SUBSET NewIds(n) :
        /\ X # NewIds(n)
        /\ Trims(stream \cup X)
        /\ queued' = queued \cup X
    /\ \E D \in (IF May("fail") THEN SUBSET NewIds(n) ELSE {NewIds(n)}) :
        done' = done \cup D
    /\ UNCHANGED <<group, last, pel, idle, workerVars, dead, failures, dlqVars>>

-----------------------------------------------------------------------------
(* The worker loop *)

\* ensure_consumer_group creates the group with id "0".
GroupStart == 0

\* The last-delivered-id that an XREADGROUP finds, after ensure_consumer_group
\* or the NOGROUP recovery.
LastDelivered == IF group THEN last ELSE GroupStart

\* Mutant: the counter runs from 1 to ClaimEvery, and is never 0.
NextIterFromOne(w) == (worker[w].iter % ClaimEvery) + 1

\* The iteration counter at the top of the loop.
NextIter(w) == (worker[w].iter + 1) % ClaimEvery

\* consume_events: XREADGROUP delivers the next entries, in order and up to
\* BatchSize, to this worker and to no other.
Consume(w) ==
    /\ worker[w].pc = "consume"
    /\ \E n \in {k \in {LastDelivered} \cup stream : LastDelivered <= k} :
        LET S == {m \in stream : LastDelivered < m /\ m <= n} IN
        /\ Cardinality(S) <= BatchSize
        /\ Cardinality(S) = BatchSize \/ \A m \in stream : m <= n
        /\ last' = n
        /\ pel' = pel \cup S
        /\ idle' = idle \ S
        /\ worker' = [worker EXCEPT ![w].pc = IF NextIter(w) = 0 THEN "claim" ELSE "process",
                                    ![w].iter = NextIter(w), ![w].batch = S]
    /\ group' = TRUE
    /\ UNCHANGED <<next, stream, fails, histVars, dlqVars>>

\* The read raises: back off and start the next iteration.
ConsumeFailed(w) ==
    /\ May("redis")
    /\ worker[w].pc = "consume"
    /\ worker' = [worker EXCEPT ![w].iter = NextIter(w)]
    /\ UNCHANGED <<streamVars, fails, histVars, dlqVars>>

\* claim_stale: XAUTOCLAIM takes over the oldest idle entries, and drops the
\* ones whose message has been trimmed.
Claim(w) ==
    /\ worker[w].pc = "claim"
    /\ LET stale == IF group THEN pel \cap idle \cap stream ELSE {}
           S == {m \in stale : Cardinality({k \in stale : k < m}) < ClaimCount}
       IN  /\ pel' = pel \ (idle \ stream)
           /\ idle' = (idle \cap stream) \ S
           /\ worker' = [worker EXCEPT ![w].pc = "process", ![w].batch = @ \cup S]
    /\ UNCHANGED <<next, stream, group, last, fails, histVars, dlqVars>>

\* The claim raises and is swallowed.
ClaimFailed(w) ==
    /\ May("redis")
    /\ worker[w].pc = "claim"
    /\ worker' = [worker EXCEPT ![w].pc = "process"]
    /\ UNCHANGED <<streamVars, fails, histVars, dlqVars>>

\* _cleanup_failure_counts, every hundredth iteration: a count whose last
\* attempt is too long ago is forgotten.
Cleanup(w) ==
    /\ May("aged")
    /\ worker[w].pc = "claim"
    /\ \E m \in Ids :
        /\ fails[w][m] > 0
        /\ fails' = [fails EXCEPT ![w][m] = 0]
    /\ UNCHANGED <<streamVars, worker, histVars, dlqVars>>

\* Message m of the batch is finished with; ok puts it on the ack_map.
Finish(w, m, ok, count) ==
    /\ worker' = [worker EXCEPT ![w].batch = @ \ {m},
                                ![w].acks = IF ok THEN @ \cup {m} ELSE @]
    /\ fails' = [fails EXCEPT ![w][m] = count]

\* Mutant: a success takes one failure back from the count, and does not drop it.
ProcessedDecrementing(w) ==
    /\ worker[w].pc = "process"
    /\ \E m \in worker[w].batch :
        /\ Finish(w, m, TRUE, fails[w][m] - 1)
        /\ done' = done \cup {m}
    /\ UNCHANGED <<streamVars, queued, lost, dead, failures, dlqVars>>

\* process_event returned: m will be acknowledged, whatever the summary says.
Processed(w) ==
    /\ worker[w].pc = "process"
    /\ \E m \in worker[w].batch :
        /\ Finish(w, m, TRUE, 0)
        /\ done' = done \cup {m}
    /\ UNCHANGED <<streamVars, queued, lost, dead, failures, dlqVars>>

\* Mutant: the retry limit is compared before the count is incremented.
ExhaustedEarly(count) == count + 1 >= MaxRetries

\* new_count >= _MAX_RETRIES
Exhausted(count) == count >= MaxRetries

\* It raised or timed out, and attempts are left: m stays pending.
Failed(w) ==
    /\ May("fail")
    /\ worker[w].pc = "process"
    /\ \E m \in worker[w].batch :
        /\ failures[m] < MaxFailures
        /\ ~Exhausted(fails[w][m] + 1)
        /\ Finish(w, m, FALSE, fails[w][m] + 1)
        /\ failures' = [failures EXCEPT ![m] = @ + 1]
    /\ UNCHANGED <<streamVars, queued, lost, done, dead, dlqVars>>

\* Mutant: the message is acknowledged although the dead letter was not written.
DeadLetterAckAnyway(w) ==
    /\ May("fail")
    /\ worker[w].pc = "process"
    /\ Len(dlq) < MaxDlq
    /\ \E m \in worker[w].batch :
        /\ failures[m] < MaxFailures
        /\ Exhausted(fails[w][m] + 1)
        /\ failures' = [failures EXCEPT ![m] = @ + 1]
        /\ \/ dlq' = Append(dlq, m) /\ dead' = dead \cup {m}
           \/ May("redis") /\ UNCHANGED <<dlq, dead>>
        /\ Finish(w, m, TRUE, 0)
    /\ UNCHANGED <<streamVars, queued, lost, done, monitorVars>>

\* It raised once too often: _send_to_dlq, and an ack only if that worked.
DeadLetter(w) ==
    /\ May("fail")
    /\ worker[w].pc = "process"
    /\ Len(dlq) < MaxDlq
    /\ \E m \in worker[w].batch :
        /\ failures[m] < MaxFailures
        /\ Exhausted(fails[w][m] + 1)
        /\ failures' = [failures EXCEPT ![m] = @ + 1]
        /\ \/ /\ dlq' = Append(dlq, m)
              /\ dead' = dead \cup {m}
              /\ Finish(w, m, TRUE, 0)
           \/ /\ May("redis")
              /\ Finish(w, m, FALSE, fails[w][m] + 1)
              /\ UNCHANGED <<dlq, dead>>
    /\ UNCHANGED <<streamVars, queued, lost, done, monitorVars>>

\* ack_batch at the end of the iteration; a failure is swallowed.
Ack(w) ==
    /\ worker[w].pc = "process"
    /\ worker[w].batch = {}
    /\ \/ pel' = pel \ worker[w].acks /\ idle' = idle \ worker[w].acks
       \/ May("redis") /\ UNCHANGED <<pel, idle>>
    /\ worker' = [worker EXCEPT ![w].pc = "consume", ![w].acks = {}]
    /\ UNCHANGED <<next, stream, group, last, fails, histVars, dlqVars>>

-----------------------------------------------------------------------------
(* Time, crashes, and Redis *)

\* m has not been touched for CLAIM_IDLE_MS: its worker is dead, failed on it,
\* or is still busy with it or with the messages before it.
Age(m) ==
    /\ m \in pel \ idle
    /\ \A w \in Workers : worker[w].pc = "claim" => m \notin worker[w].batch
    /\ idle' = idle \cup {m}
    /\ UNCHANGED <<next, stream, group, last, pel, workerVars, histVars, dlqVars>>

\* The instance of worker w dies, and its _failure_counts with it.
Crash(w) ==
    /\ May("crash")
    /\ worker[w] # NewWorker \/ fails[w] # NoFails
    /\ worker' = [worker EXCEPT ![w] = NewWorker]
    /\ fails' = [fails EXCEPT ![w] = NoFails]
    /\ UNCHANGED <<streamVars, histVars, dlqVars>>

\* Redis comes back empty.
RedisLoss ==
    /\ May("loss")
    /\ group \/ stream # {}
    /\ stream' = {} /\ pel' = {} /\ idle' = {} /\ group' = FALSE /\ last' = 0
    /\ lost' = lost \cup pel \cup {m \in stream : m > last}
    /\ dlq' = [i \in DOMAIN dlq |-> Gone]
    /\ UNCHANGED <<next, workerVars, queued, done, dead, failures, monitorVars>>

WorkerStep(w) ==
    \/ Consume(w) \/ Claim(w) \/ Processed(w) \/ Failed(w) \/ DeadLetter(w)
    \/ Ack(w)

Monitor(c) ==
    /\ DlqRead(c) \/ DlqHandle(c)
    /\ UNCHANGED busVars

Restart(c) ==
    /\ May("restart")
    /\ MonitorRestart(c)
    /\ UNCHANGED busVars

Next ==
    \/ \E n \in 1..IngestBatch : Publish(n) \/ PublishFallback(n)
    \/ \E w \in Workers :
        \/ WorkerStep(w) \/ ConsumeFailed(w) \/ ClaimFailed(w) \/ Cleanup(w)
        \/ Crash(w)
    \/ \E m \in Ids : Age(m)
    \/ \E c \in Monitors : Monitor(c) \/ Restart(c)
    \/ RedisLoss

Spec == Init /\ [][Next]_vars

-----------------------------------------------------------------------------
(* Safety *)

\* The messages the group has still to answer for.
Outstanding == pel \cup {m \in stream : m > last}

\* At-least-once.  A log that was answered with "queued" is still outstanding, or
\* process_event returned for it, or it was dead-lettered, unless Redis itself
\* dropped it: no interleaving of batch acks, claims, replicas and crashes forgets
\* it.
QueuedIsAnsweredFor ==
    queued \subseteq Outstanding \cup done \cup dead \cup lost

\* Why: what a worker means to acknowledge has been dealt with ...
AcksAreEarned ==
    \A w \in Workers : worker[w].acks \subseteq done \cup dead

\* ... a pending entry has its message, or it was trimmed ...
PendingIsKept == pel \subseteq stream \cup lost

\* ... and the group's position is one of the ids given out, from the start of
\* the stream.
PositionIsSound ==
    /\ last <= next
    /\ \A m \in stream : m <= next
    /\ ~group => last = 0

BusInv ==
    /\ QueuedIsAnsweredFor
    /\ AcksAreEarned
    /\ PendingIsKept
    /\ PositionIsSound

\* A dead letter has really failed MaxRetries times: a message that is passed
\* between replicas, or fails on a DLQ write, is never given up early.
DeadLettersAreExhausted == \A m \in dead : failures[m] >= MaxRetries

\* Why: no worker counts more failures than there were.
CountsAreReal == \A w \in Workers, m \in Ids : fails[w][m] <= failures[m]

-----------------------------------------------------------------------------
(* Liveness *)

\* The loops of the workers and of the DLQ consumers run, and time passes.
Fairness ==
    /\ \A w \in Workers : WF_vars(WorkerStep(w))
    /\ \A m \in Ids : WF_vars(Age(m))
    /\ \A c \in Monitors : WF_vars(Monitor(c))

LiveSpec == Spec /\ Fairness

\* Every queued log is seen through or dead-lettered in the end, however often
\* processing fails and whoever claims it.
QueuedIsResolved ==
    \A m \in Ids : m \in queued ~> m \in done \cup dead \cup lost

\* RedisDLQConsumer reports every dead letter, although its position does not
\* survive a restart.
DeadLettersAreReported ==
    \A i \in Letters : i \in DOMAIN dlq ~> i \in alerted \/ (i \in DOMAIN dlq /\ dlq[i] = Gone)
=============================================================================
