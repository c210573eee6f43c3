----------------------------- MODULE StreamPool -----------------------------
(***************************************************************************)
(* The process that owns the event bus: what the publisher knows of the    *)
(* streams, how WorkerPool divides them among its workers, restarts a      *)
(* worker that crashed and looks for new streams, and how the trigger      *)
(* index follows the trigger table.  Streams are numbers in the order of   *)
(* their keys: one for each topic, then "default", then "unknown".         *)
(* Reading a stream is one step here; EventBus has its details.            *)
(***************************************************************************)
EXTENDS Naturals, FiniteSetsExt

CONSTANTS
    NumTopics, NumWorkers, None,
    MaxStreams,     \* event_bus.MAX_STREAMS
    MaxPerWorker,   \* _MAX_STREAMS_PER_WORKER
    TriggerTopics,  \* the topics that triggers are made for
    MaxEdits,       \* bound: changes of the trigger table
    Contingencies   \* which of the failures below may happen

AllContingencies == {
    "crash",    \* a worker's task ends with an exception
    "end",      \* the process is stopped or dies
    "scan",     \* SCAN fails
    "db",       \* the trigger table cannot be read
    "remote" }  \* another process changes the trigger table

ASSUME PoolBounds ==
    /\ NumTopics \in Nat \ {0} /\ NumWorkers \in Nat \ {0}
    /\ MaxStreams \in Nat \ {0} /\ MaxPerWorker \in Nat \ {0} /\ MaxEdits \in Nat
    /\ TriggerTopics \subseteq 1..NumTopics /\ Contingencies \subseteq AllContingencies

Topics == 1..NumTopics
Default == NumTopics + 1
Unknown == NumTopics + 2
Keys == 1..Unknown
Workers == 1..NumWorkers

VARIABLES
    phase,      \* of the process
    redis,      \* the streams that exist
    unread,     \* the streams that hold something unread
    published,  \* _known_stream_keys of event_bus
    known,      \* _known_streams of the pool
    assigned,   \* stream_keys of each worker
    worker,     \* the workers' tasks
    todo,       \* the new streams that the discovery has still to add
    active,     \* the topics with an active trigger
    edits,
    cache,      \* _active_triggers_cache, None when empty or expired
    fetched,    \* what a refresh has read from the table and not yet stored
    poolIndex,  \* the index of WorkerPool.start, which the workers refresh
    procIndex   \* the index that main injected into the processor

busVars == <<redis, unread, published>>
poolVars == <<known, assigned, worker, todo>>
indexVars == <<cache, fetched, poolIndex, procIndex>>
tableVars == <<active, edits>>
vars == <<phase, busVars, poolVars, indexVars, tableVars>>

May(c) == c \in Contingencies

TypeOK ==
    /\ phase \in {"off", "running"}
    /\ redis \subseteq Keys /\ unread \subseteq redis
    /\ published \subseteq Keys /\ todo \subseteq Keys
    /\ known \subseteq Keys /\ Cardinality(known) <= MaxStreams
    /\ assigned \in [Workers -> SUBSET Keys]
    /\ worker \in [Workers -> {"off", "up", "down"}]
    /\ active \subseteq TriggerTopics /\ edits \in 0..MaxEdits
    /\ cache \in (SUBSET TriggerTopics) \cup {None} /\ fetched \in (SUBSET TriggerTopics) \cup {None}
    /\ poolIndex \in SUBSET TriggerTopics /\ procIndex \in SUBSET TriggerTopics

\* A process that does not run has no streams, no tasks and nothing in its caches.
Idle == [w \in Workers |-> {}]
Ended == [w \in Workers |-> "off"]

Init ==
    /\ phase = "off"
    /\ published = {} /\ known = {} /\ todo = {}
    /\ assigned = Idle /\ worker = Ended
    /\ cache = None /\ fetched = None /\ poolIndex = {} /\ procIndex = {}
    /\ redis \in {{}, {Unknown}} /\ unread = {}
    /\ active \in SUBSET TriggerTopics /\ edits = 0

-----------------------------------------------------------------------------
(* Start and end of the process *)

Rank(k, S) == Cardinality({j \in S : j < k})

\* Mutant: the cap is off by one.
StartStreamsOneMore(S) ==
    IF S = {} THEN {Default} ELSE {k \in S : Rank(k, S) <= MaxStreams}

\* The streams of WorkerPool.start: sorted, capped, never none.
StartStreams(S) ==
    IF S = {} THEN {Default} ELSE {k \in S : Rank(k, S) < MaxStreams}

\* Mutant: a chunk for each worker, with the chunks overlapping by one.
PartitionOverlapping(S) ==
    [w \in Workers |-> {k \in S : Rank(k, S) \in {w - 1, w}}]

\* Round-robin.
Partition(S) ==
    [w \in Workers |-> {k \in S : Rank(k, S) % NumWorkers = w - 1}]

\* What a read at the start can give: a failure is caught and leaves nothing.
Reads(truth, failure) == {truth} \cup {s \in {{}} : May(failure)}

\* The lifespan: init_stream_keys, the processor's index, then WorkerPool.start,
\* which scans again and fills an index of its own, from the cache that the first
\* query filled.  Redis or a database that is down at the start is so for both.
Boot ==
    /\ phase = "off"
    /\ phase' = "running"
    /\ \E found \in Reads(redis, "scan"), index \in Reads(active, "db") :
          LET streams == StartStreams(found \cup index) IN
          /\ published' = found
          /\ procIndex' = index /\ poolIndex' = index
          /\ cache' = IF index = active THEN active ELSE None
          /\ known' = streams
          /\ assigned' = Partition(streams)
    /\ worker' = [w \in Workers |-> "up"]
    /\ UNCHANGED <<redis, unread, todo, fetched, tableVars>>

\* WorkerPool.stop to its end, or the death of the process.  The discovery is
\* cancelled first and a restart that was scheduled finds _stopping set, so that
\* nothing is started any more while the workers leave.
End ==
    /\ May("end")
    /\ phase = "running"
    /\ phase' = "off"
    /\ published' = {} /\ known' = {} /\ todo' = {}
    /\ assigned' = Idle /\ worker' = Ended
    /\ cache' = None /\ fetched' = None /\ poolIndex' = {} /\ procIndex' = {}
    /\ UNCHANGED <<redis, unread, tableVars>>

-----------------------------------------------------------------------------
(* Publisher, workers, discovery *)

\* _check_stream_cap: where a log goes.
CheckStreamCap(k) ==
    IF k \in published \/ Cardinality(published) < MaxStreams THEN k ELSE Unknown

\* publish_event and publish_batch.
Publish(k) ==
    LET key == CheckStreamCap(k) IN
    /\ phase = "running" /\ key \notin unread
    /\ published' = IF key = k THEN published \cup {k} ELSE published
    /\ redis' = redis \cup {key} /\ unread' = unread \cup {key}
    /\ UNCHANGED <<phase, poolVars, indexVars, tableVars>>

\* One turn of a worker: ensure_consumer_group creates its streams, and
\* consume_events reads them.
Consume(w) ==
    /\ phase = "running" /\ worker[w] = "up"
    /\ ~ (assigned[w] \subseteq redis /\ assigned[w] \cap unread = {})
    /\ redis' = redis \cup assigned[w] /\ unread' = unread \ assigned[w]
    /\ UNCHANGED <<phase, published, poolVars, indexVars, tableVars>>

CrashWorker(w) ==
    /\ May("crash")
    /\ phase = "running" /\ worker[w] = "up"
    /\ worker' = [worker EXCEPT ![w] = "down"]
    /\ UNCHANGED <<phase, busVars, known, assigned, todo, indexVars, tableVars>>

\* Mutant: only the first worker is restarted.
RestartWorkerFirst(w) ==
    /\ phase = "running" /\ worker[w] = "down" /\ w = 1
    /\ worker' = [worker EXCEPT ![w] = "up"]
    /\ UNCHANGED <<phase, busVars, known, assigned, todo, indexVars, tableVars>>

\* _on_worker_done and _restart_worker: after the cooldown the same worker starts
\* again, with the streams it had.
RestartWorker(w) ==
    /\ phase = "running" /\ worker[w] = "down"
    /\ worker' = [worker EXCEPT ![w] = "up"]
    /\ UNCHANGED <<phase, busVars, known, assigned, todo, indexVars, tableVars>>

\* A scan of the discovery loop.
Discover ==
    /\ phase = "running" /\ todo = {}
    /\ redis \ known # {}
    /\ todo' = redis \ known
    /\ UNCHANGED <<phase, busVars, known, assigned, worker, indexVars, tableVars>>

\* add_stream gives a stream to the first of the least loaded workers, unless that
\* one is full.
Load(w) == Cardinality(assigned[w])
LeastLoaded == Min({w \in Workers : \A v \in Workers : Load(w) <= Load(v)})

AddStream(k) ==
    assigned' = IF Load(LeastLoaded) >= MaxPerWorker THEN assigned
                ELSE [assigned EXCEPT ![LeastLoaded] = @ \cup {k}]

\* The next of the new streams, or the end of this round at MAX_STREAMS.
DiscoverNext ==
    LET k == Min(todo) IN
    /\ phase = "running" /\ todo # {}
    /\ \/ /\ Cardinality(known) >= MaxStreams
          /\ todo' = {}
          /\ UNCHANGED <<known, assigned>>
       \/ /\ Cardinality(known) < MaxStreams
          /\ AddStream(k)
          /\ known' = known \cup {k} /\ todo' = todo \ {k}
    /\ UNCHANGED <<phase, busVars, worker, indexVars, tableVars>>

-----------------------------------------------------------------------------
(* The trigger table and its caches *)

\* TriggerRepository.create and deactivate; only this process's caches hear of it.
Edit(t) ==
    /\ edits < MaxEdits
    /\ edits' = edits + 1
    /\ active' = IF t \in active THEN active \ {t} ELSE active \cup {t}
    /\ \/ phase = "running" /\ cache' = None
       \/ May("remote") /\ UNCHANGED cache
    /\ UNCHANGED <<phase, busVars, poolVars, fetched, poolIndex, procIndex>>

\* The cache's ten seconds are over.
Expire ==
    /\ phase = "running" /\ cache # None
    /\ cache' = None
    /\ UNCHANGED <<phase, busVars, poolVars, fetched, poolIndex, procIndex, tableVars>>

AnyUp == phase = "running" /\ \E w \in Workers : worker[w] = "up"

\* maybe_refresh.  While the cache is valid it gives the index what it has, since
\* nothing else fills the cache; otherwise a query runs in a thread, while the
\* event loop goes on,
RefreshQuery ==
    /\ AnyUp /\ fetched = None /\ cache = None
    /\ fetched' = active
    /\ UNCHANGED <<phase, busVars, poolVars, cache, poolIndex, procIndex, tableVars>>

\* Mutant: a refresh only adds triggers.
StoredMerging == poolIndex \cup fetched

\* and the new index replaces the old.
Stored == fetched

RefreshStore ==
    /\ phase = "running" /\ fetched # None
    /\ cache' = fetched /\ fetched' = None
    /\ poolIndex' = Stored
    /\ UNCHANGED <<phase, busVars, poolVars, procIndex, tableVars>>

\* list_active raises: the index stays as it is.
RefreshFails ==
    /\ May("db")
    /\ fetched # None
    /\ fetched' = None
    /\ UNCHANGED <<phase, busVars, poolVars, cache, poolIndex, procIndex, tableVars>>

Next ==
    \/ Boot \/ End \/ Discover \/ DiscoverNext
    \/ Expire \/ RefreshQuery \/ RefreshStore \/ RefreshFails
    \/ \E k \in Topics \cup {Unknown} : Publish(k)
    \/ \E t \in TriggerTopics : Edit(t)
    \/ \E w \in Workers : Consume(w) \/ CrashWorker(w) \/ RestartWorker(w)

Spec == Init /\ [][Next]_vars

\* The loops of the pool run, caches expire, and what disturbs them ends.
Disturbance == End \/ RefreshFails \/ \E w \in Workers : CrashWorker(w)

Fairness ==
    /\ WF_vars(Boot) /\ WF_vars(Discover) /\ WF_vars(DiscoverNext)
    /\ WF_vars(Expire) /\ WF_vars(RefreshQuery) /\ WF_vars(RefreshStore)
    /\ \A w \in Workers : WF_vars(Consume(w)) /\ WF_vars(RestartWorker(w))
    /\ <>[][~Disturbance]_vars

LiveSpec == Spec /\ Fairness

-----------------------------------------------------------------------------
(* Correctness *)

AtWorkerCap == \A w \in Workers : Load(w) >= MaxPerWorker
AtCap == AtWorkerCap \/ Cardinality(known) >= MaxStreams
Read == UNION {assigned[w] : w \in Workers}

\* The streams of the pool are divided: none has two readers, none is read that
\* the pool does not know, and one that it knows has no reader only when every
\* worker is full.
PoolPartition ==
    /\ \A v, w \in Workers : v # w => assigned[v] \cap assigned[w] = {}
    /\ Read \subseteq known
    /\ phase = "running" => Read = known \/ AtWorkerCap

\* A stream with something to read is read, through crashes of workers, restarts
\* of the process and the discovery of new streams, unless it has no reader and
\* the pool is at one of its caps.
StreamsAreServed ==
    \A k \in Keys : k \in unread ~> (k \notin unread \/ (AtCap /\ k \notin Read))

\* The workers' index follows the trigger table, although a query that was
\* overtaken by an edit puts its old answer into the cache.
PoolIndexFollows == <>[](poolIndex = active)

\* "TriggerIndex (O(1) in-memory lookup, refreshed every 10s)": so does the index
\* that the processor matches logs with.
ProcessorIndexFollows == <>[](procIndex = active)
=============================================================================
