-------------------------- MODULE PaymentLifecycle --------------------------
(***************************************************************************)
(* The payment pipeline of TripWire on one chain: the facilitator fast     *)
(* path and the Goldsky path through EventProcessor, the promotion of      *)
(* pre_confirmed events, the finality poller and the pre_confirmed TTL     *)
(* sweeper, all sharing the nonces, events and event_endpoints tables.     *)
(* A step is one database statement, one RPC read or one round of sends:   *)
(* between two of them every other task, poller and sweeper, in this       *)
(* process or in a replica, and the chain itself may move.                 *)
(***************************************************************************)
EXTENDS Chain, NonceDedup, ExecutionMetadata, FiniteSets

CONSTANTS
    Tasks,          \* concurrent runs of process_event / process_pre_confirmed_event
    Pollers,        \* instances running FinalityPoller for this chain
    Sweepers,       \* instances running PreConfirmedSweeper
    BatchLimit,     \* LIMIT of the poller's query
    NotifyMode,     \* endpoints with mode = notify; the others are execute
    LeaderLock,     \* what try_acquire_leader_lock does, see PollStart
    Contingencies   \* which of the outcomes below may happen in this instance

AllContingencies == {
    "crash",        \* a task, poller or sweeper is cancelled or its process dies
    "db",           \* a Postgres / PostgREST call raises
    "rpc",          \* eth_blockNumber or eth_getBlockByNumber fails
    "send",         \* a Convoy or Realtime send fails (swallowed per endpoint)
    "reject",       \* a policy rejects an endpoint
    "unmatched",    \* no endpoint matches the transfer
    "redeliver",    \* a log whose delivery was answered is delivered again
    "archive" }     \* a nonce is old enough for the archiver

ASSUME NullIsNoAuth == NULL \notin Auths
ASSUME NullIsNoEndpoint == NULL \notin Endpoints
ASSUME NotifyModeType == NotifyMode \subseteq Endpoints
ASSUME RequiredCoversReorgs == Required \in Nat /\ Required >= ReorgDepth
ASSUME LeaderLockType == LeaderLock \in {"pooled", "dropped"}
ASSUME BatchLimitType == BatchLimit \in Nat
ASSUME ContingenciesType == Contingencies \subseteq AllContingencies

VARIABLES
    nonces,     \* the nonces table
    row,        \* the events table
    linked,     \* the event_endpoints table
    task,       \* the ingestion tasks
    poll,       \* the finality pollers
    sweep,      \* the TTL sweepers
    out,        \* the webhooks the last step handed to Convoy / Realtime
    acked,      \* the Goldsky logs some delivery of which got its answer
    owner,      \* history: the authorization each uuid was generated for
    holder,     \* history: the uuid of the latest accepted claim
    reorgedEver \* history: events whose status was ever set to reorged

dbVars == <<nonces, row, linked>>
histVars == <<owner, holder, reorgedEver>>
vars == <<chainVars, dbVars, task, poll, sweep, out, acked, histVars>>

-----------------------------------------------------------------------------
(* Types *)

Status == {"absent", "pre_confirmed", "pending", "confirmed", "finalized",
           "reorged", "payment.failed"}

StoredHash == Hashes \cup {NoHash}
Depth == 0..MaxHead
Conf == Depth \cup {NoConf}
OptEvent == EventIds \cup {NULL}
OptEndpoint == Endpoints \cup {NULL}

\* The columns of events the pipeline writes; type keeps the value it was
\* inserted with, endpoint is the legacy endpoint_id column.
EventRow == [status : Status, type : WebhookTypes, block : Depth,
             hash : StoredHash, depth : Depth, endpoint : OptEndpoint]

NoRow == [status |-> "absent", type |-> "payment.pending", block |-> 0,
          hash |-> NoHash, depth |-> 0, endpoint |-> NULL]

\* A task between two awaits.  The uuid of a new event is drawn with the claim;
\* a facilitator task has no onchain data, a Goldsky task has its log's.
FacilitatorTask ==
    [pc : {"record", "link", "dispatch"}, source : {"facilitator"},
     auth : Auths, eid : EventIds, block : {0}, hash : {NoHash}, conf : {NoConf}]

GoldskyTask ==
    [pc : {"finality", "record", "link", "dispatch",
           "promote", "promote_finality", "promote_dispatch"},
     source : {"goldsky"}, auth : Auths, eid : EventIds,
     block : Blocks, hash : Hashes, conf : Conf]

BusyTask == FacilitatorTask \cup GoldskyTask

IdleTask == [pc |-> "idle"]

\* A row as a poller fetched it.
Snapshot == [eid : EventIds, status : Status, block : Depth, hash : StoredHash,
             depth : Depth, endpoint : OptEndpoint]

Snap(e) == [eid |-> e, status |-> row[e].status, block |-> row[e].block,
            hash |-> row[e].hash, depth |-> row[e].depth,
            endpoint |-> row[e].endpoint]

Unread == -2
\* cur holds the one event the poller is in the middle of, todo the rest.
PollRec == [pc : {"idle", "fetch", "head", "events", "transition", "dispatch",
                  "invalidate", "reorg_dispatch"},
            todo : SUBSET Snapshot, cur : SUBSET Snapshot, head : Depth,
            hashes : [Blocks -> StoredHash \cup {Unread}]]

IdlePoll == [pc |-> "idle", todo |-> {}, cur |-> {}, head |-> 0,
             hashes |-> [b \in Blocks |-> Unread]]

SweepRec == [todo : SUBSET EventIds, cur : SUBSET EventIds]
IdleSweep == [todo |-> {}, cur |-> {}]

Webhook == [eid : EventIds, ep : Endpoints, type : WebhookTypes, safe : BOOLEAN,
            block : Depth, hash : StoredHash,
            by : {"ingest", "promote", "poller", "sweeper"}]

TypeOK ==
    /\ ChainTypeOK
    /\ nonces \in [Auths -> NonceRow]
    /\ row \in [EventIds -> EventRow]
    /\ linked \in [EventIds -> SUBSET Endpoints]
    /\ task \in [Tasks -> BusyTask \cup {IdleTask}]
    /\ poll \in [Pollers -> PollRec]
    /\ sweep \in [Sweepers -> SweepRec]
    /\ out \subseteq Webhook
    /\ acked \subseteq Log
    /\ owner \in [EventIds -> Auths \cup {NULL}]
    /\ holder \in [Auths -> OptEvent]
    /\ reorgedEver \subseteq EventIds
-----------------------------------------------------------------------------
(* Shared helpers *)

May(c) == c \in Contingencies

\* The subsets of the intended endpoints that a dispatch may really reach.
Reached(eps) == IF May("send") THEN SUBSET eps ELSE {eps}

\* evaluate_policy over the matched endpoints, identity resolution included.
Approved(eps) == IF May("reject") THEN SUBSET eps ELSE {eps}

\* get_endpoint_ids, with the fall-back to the legacy column when it raises.
LinkedEndpoints(e, legacy) ==
    {linked[e]} \cup (IF May("db") THEN {{legacy} \ {NULL}} ELSE {})

\* The is_finalized of a payload: dispatch_event uses the endpoint's depth,
\* notify_batch (ingestion and promotion only) the chain's.
PayloadFinalized(ep, conf, by) ==
    IF ep \in NotifyMode /\ by \in {"ingest", "promote"}
    THEN ChainFinalized(conf)
    ELSE EndpointFinalized(ep, conf)

\* dispatch_event / notify_batch: one payload per endpoint reached.
Webhooks(e, eps, type, block, hash, conf, by) ==
    {[eid |-> e, ep |-> ep, type |-> type,
      safe |-> SafeToExecute(type, PayloadFinalized(ep, conf, by)),
      block |-> block, hash |-> hash, by |-> by] : ep \in eps}

\* Goldsky delivers a log until a delivery of it is answered.
Deliverable == IF May("redeliver") THEN logs ELSE logs \ acked

\* uuid4: an identifier nobody has drawn yet.
Fresh == {e \in EventIds : owner[e] = NULL}

Init ==
    /\ ChainInit
    /\ nonces = [a \in Auths |-> NoNonce]
    /\ row = [e \in EventIds |-> NoRow]
    /\ linked = [e \in EventIds |-> {}]
    /\ task = [t \in Tasks |-> IdleTask]
    /\ poll = [p \in Pollers |-> IdlePoll]
    /\ sweep = [s \in Sweepers |-> IdleSweep]
    /\ out = {}
    /\ acked = {}
    /\ owner = [e \in EventIds |-> NULL]
    /\ holder = [a \in Auths |-> NULL]
    /\ reorgedEver = {}

-----------------------------------------------------------------------------
(* Ingestion: deduplication *)

\* An accepted claim, with its history.
Accept(t, a, e, eventColumn, src, busy) ==
    /\ nonces' = [nonces EXCEPT ![a] = Claimed(eventColumn, src)]
    /\ owner' = [owner EXCEPT ![e] = a]
    /\ holder' = [holder EXCEPT ![a] = e]
    /\ task' = [task EXCEPT ![t] = busy]
    /\ out' = {}
    /\ UNCHANGED <<chainVars, row, linked, poll, sweep, acked,
                   reorgedEver>>

\* process_pre_confirmed_event: the uuid goes into the nonce row, so that
\* Goldsky can find the event.  A duplicate returns and changes nothing.
FacilitatorClaim(t, a) ==
    /\ task[t] = IdleTask
    /\ IsNew(nonces[a])
    /\ \E e \in Fresh :
        Accept(t, a, e, e, "facilitator",
               [pc |-> "record", source |-> "facilitator", auth |-> a, eid |-> e,
                block |-> 0, hash |-> NoHash, conf |-> NoConf])

\* _process_erc3009_event on a new nonce: no event_id is passed, so the
\* nonce row does not name the event that will be recorded.
GoldskyClaim(t, m) ==
    /\ task[t] = IdleTask
    /\ IsNew(nonces[m.auth])
    /\ \E e \in Fresh :
        Accept(t, m.auth, e, NULL, "goldsky",
               [pc |-> "finality", source |-> "goldsky", auth |-> m.auth, eid |-> e,
                block |-> m.block, hash |-> m.hash, conf |-> NoConf])

\* The nonce is the facilitator's: promote the event it names.
GoldskyCorrelate(t, m) ==
    /\ task[t] = IdleTask
    /\ Correlates(nonces[m.auth])
    /\ task' = [task EXCEPT ![t] =
                 [pc |-> "promote", source |-> "goldsky", auth |-> m.auth,
                  eid |-> nonces[m.auth].event, block |-> m.block,
                  hash |-> m.hash, conf |-> NoConf]]
    /\ out' = {}
    /\ UNCHANGED <<chainVars, dbVars, poll, sweep, acked, histVars>>

\* A true duplicate, or a dedup call that raised before reaching Postgres:
\* the handler returns a status, and the delivery is answered.
GoldskyAnswered(m) ==
    /\ \/ ~IsNew(nonces[m.auth]) /\ ~Correlates(nonces[m.auth])
       \/ May("db")
    /\ m \notin acked
    /\ acked' = acked \cup {m}
    /\ out' = {}
    /\ UNCHANGED <<chainVars, dbVars, task, poll, sweep, histVars>>

-----------------------------------------------------------------------------
(* Ingestion: finality, recording, dispatch *)

\* The onchain log a task is about.
LogOf(k) == [auth |-> k.auth, block |-> k.block, hash |-> k.hash]

\* The handler returns a summary: a Goldsky delivery is answered.
Return(t) ==
    /\ task' = [task EXCEPT ![t] = IdleTask]
    /\ acked' = IF task[t].source = "goldsky"
                THEN acked \cup {LogOf(task[t])} ELSE acked

\* check_finality: the head is read once; a failure leaves finality None.
ReadConfirmations(k) ==
    {Confirmations(head, k.block)} \cup (IF May("rpc") THEN {NoConf} ELSE {})

Finality(t) ==
    /\ task[t].pc = "finality"
    /\ \E conf \in ReadConfirmations(task[t]) :
        task' = [task EXCEPT ![t].pc = "record", ![t].conf = conf]
    /\ out' = {}
    /\ UNCHANGED <<chainVars, dbVars, poll, sweep, acked, histVars>>

\* _record_event: the status column of the new row.
RecordedStatus(k) ==
    CASE k.source = "facilitator" -> "pre_confirmed"
      [] k.source = "goldsky" /\ ChainFinalized(k.conf) -> "confirmed"
      [] OTHER -> "pending"

\* The event type of a fresh event, for its row and for its webhooks.
IngestType(k) ==
    CASE k.source = "facilitator" -> "payment.pre_confirmed"
      [] k.source = "goldsky" /\ ChainFinalized(k.conf) -> "payment.confirmed"
      [] OTHER -> "payment.pending"

\* Mutant: finality_depth is written without the default for unknown finality.
RecordedRowNoDefault(k, ep) ==
    [status |-> RecordedStatus(k), type |-> IngestType(k), block |-> k.block,
     hash |-> k.hash, depth |-> k.conf, endpoint |-> ep]

RecordedRow(k, ep) ==
    [status |-> RecordedStatus(k), type |-> IngestType(k), block |-> k.block, hash |-> k.hash,
     depth |-> IF k.conf = NoConf THEN 0 ELSE k.conf, endpoint |-> ep]

\* Some endpoint matched: insert the row with the first match in the legacy
\* column, and go on to the join table.
Record(t) ==
    /\ task[t].pc = "record"
    /\ \E ep \in Endpoints :
        row' = [row EXCEPT ![task[t].eid] = RecordedRow(task[t], ep)]
    /\ task' = [task EXCEPT ![t].pc = "link"]
    /\ out' = {}
    /\ UNCHANGED <<chainVars, nonces, linked, poll, sweep, acked,
                   histVars>>

\* No endpoint matched: the event is still recorded, and the handler returns.
RecordUnmatched(t) ==
    /\ May("unmatched")
    /\ task[t].pc = "record"
    /\ row' = [row EXCEPT ![task[t].eid] = RecordedRow(task[t], NULL)]
    /\ Return(t)
    /\ out' = {}
    /\ UNCHANGED <<chainVars, nonces, linked, poll, sweep, histVars>>

\* The insert raises and is swallowed; the link then violates its foreign key,
\* is swallowed too, and the webhooks go out for an event with no row.
RecordFailed(t) ==
    /\ May("db")
    /\ task[t].pc = "record"
    /\ task' = [task EXCEPT ![t].pc = "dispatch"]
    /\ out' = {}
    /\ UNCHANGED <<chainVars, dbVars, poll, sweep, acked, histVars>>

\* link_endpoints: every matched endpoint, or none when the upsert raises.
Link(t) ==
    /\ task[t].pc = "link"
    /\ \E eps \in {Endpoints} \cup (IF May("db") THEN {{}} ELSE {}) :
        linked' = [linked EXCEPT ![task[t].eid] = eps]
    /\ task' = [task EXCEPT ![t].pc = "dispatch"]
    /\ out' = {}
    /\ UNCHANGED <<chainVars, nonces, row, poll, sweep, acked, histVars>>

\* Policy, the finality gate, and the sends to the endpoints left.
Dispatch(t) ==
    /\ task[t].pc = "dispatch"
    /\ \E approved \in Approved(Endpoints) :
        \E eps \in Reached(ReadyEndpoints(approved, task[t].conf)) :
            out' = Webhooks(task[t].eid, eps, IngestType(task[t]),
                            task[t].block, task[t].hash,
                            task[t].conf, "ingest")
    /\ Return(t)
    /\ UNCHANGED <<chainVars, dbVars, poll, sweep, histVars>>

-----------------------------------------------------------------------------
(* Ingestion: promotion of a pre_confirmed event *)

\* promote_to_confirmed: UPDATE ... WHERE id = e, whatever the status is; it
\* leaves finality_depth alone.
Promote(t) ==
    /\ task[t].pc = "promote"
    /\ row[task[t].eid].status # "absent"
    /\ row' = [row EXCEPT ![task[t].eid].status = "confirmed",
                          ![task[t].eid].block = task[t].block,
                          ![task[t].eid].hash = task[t].hash]
    /\ task' = [task EXCEPT ![t].pc = "promote_finality"]
    /\ out' = {}
    /\ UNCHANGED <<chainVars, nonces, linked, poll, sweep, acked,
                   histVars>>

\* The row is not there (yet): promote_event_not_found, a returned error.
PromoteNotFound(t) ==
    /\ task[t].pc = "promote"
    /\ row[task[t].eid].status = "absent"
    /\ Return(t)
    /\ out' = {}
    /\ UNCHANGED <<chainVars, dbVars, poll, sweep, histVars>>

PromoteFinality(t) ==
    /\ task[t].pc = "promote_finality"
    /\ \E conf \in ReadConfirmations(task[t]) :
        task' = [task EXCEPT ![t].pc = "promote_dispatch", ![t].conf = conf]
    /\ out' = {}
    /\ UNCHANGED <<chainVars, dbVars, poll, sweep, acked, histVars>>

PromotedType(k) ==
    IF ChainFinalized(k.conf) THEN "payment.finalized" ELSE "payment.confirmed"

\* The endpoints linked by now, policy, and the sends; there is no depth gate.
PromoteDispatch(t) ==
    /\ task[t].pc = "promote_dispatch"
    /\ \E found \in LinkedEndpoints(task[t].eid, row[task[t].eid].endpoint) :
        \E approved \in Approved(found) : \E eps \in Reached(approved) :
            out' = Webhooks(task[t].eid, eps, PromotedType(task[t]),
                            task[t].block, task[t].hash,
                            task[t].conf, "promote")
    /\ Return(t)
    /\ UNCHANGED <<chainVars, dbVars, poll, sweep, histVars>>

\* A returned error: endpoint_fetch_failed, promote_failed, or a dedup call
\* whose claim committed but whose response was lost.
TaskError(t) ==
    /\ May("db")
    /\ task[t].pc \in {"finality", "record", "promote"}
    /\ Return(t)
    /\ out' = {}
    /\ UNCHANGED <<chainVars, dbVars, poll, sweep, histVars>>

\* Cancellation, the worker's processing timeout, or the death of the process:
\* the delivery is not answered.
TaskCrash(t) ==
    /\ May("crash")
    /\ task[t].pc # "idle"
    /\ task' = [task EXCEPT ![t] = IdleTask]
    /\ out' = {}
    /\ UNCHANGED <<chainVars, dbVars, poll, sweep, acked, histVars>>

TaskNext(t) ==
    \/ \E a \in Auths : FacilitatorClaim(t, a)
    \/ \E m \in Deliverable : GoldskyClaim(t, m) \/ GoldskyCorrelate(t, m)
    \/ Finality(t) \/ Record(t) \/ RecordUnmatched(t) \/ RecordFailed(t)
    \/ Link(t) \/ Dispatch(t)
    \/ Promote(t) \/ PromoteNotFound(t) \/ PromoteFinality(t)
    \/ PromoteDispatch(t)
    \/ TaskError(t) \/ TaskCrash(t)

-----------------------------------------------------------------------------
(* The finality poller *)

\* _poll_chain asks PostgREST for try_acquire_leader_lock.  "pooled": the request
\* has its connection from a pool and the lock goes back with it, so the answer keeps
\* no other instance from polling.  "dropped": migration 028 is applied, the call
\* raises, and the poll returns.
PollStart(p) ==
    /\ poll[p].pc = "idle"
    /\ LeaderLock # "dropped"
    /\ poll' = [poll EXCEPT ![p].pc = "fetch"]
    /\ out' = {}
    /\ UNCHANGED <<chainVars, dbVars, task, sweep, acked, histVars>>

\* The end of the poll body; release_leader_lock finds nothing to release.
PollDone(p) ==
    /\ poll' = [poll EXCEPT ![p] = IdlePoll]
    /\ out' = {}
    /\ UNCHANGED <<chainVars, dbVars, task, sweep, acked, histVars>>

\* status IN ('pending', 'confirmed') AND block_number > 0
Pollable == {e \in EventIds : /\ row[e].status \in {"pending", "confirmed"}
                              /\ row[e].block > 0}

\* ORDER BY block_number LIMIT BatchLimit
IsBatch(S) ==
    /\ \A e \in S, f \in Pollable \ S : row[e].block <= row[f].block
    /\ \/ S = Pollable /\ Cardinality(S) <= BatchLimit
       \/ Cardinality(S) = BatchLimit

\* _fetch_pending_events
PollFetch(p) ==
    /\ poll[p].pc = "fetch"
    /\ Pollable # {}
    /\ \E S \in SUBSET Pollable :
        /\ IsBatch(S)
        /\ poll' = [poll EXCEPT ![p].pc = "head", ![p].todo = {Snap(e) : e \in S}]
    /\ out' = {}
    /\ UNCHANGED <<chainVars, dbVars, task, sweep, acked, histVars>>

\* get_block_number, once per cycle; the cycle ends when it fails.
PollHead(p) ==
    /\ poll[p].pc = "head"
    /\ poll' = [poll EXCEPT ![p].pc = "events", ![p].head = head]
    /\ out' = {}
    /\ UNCHANGED <<chainVars, dbVars, task, sweep, acked, histVars>>

\* The blocks whose canonical hash the cycle has still to fetch.
UnreadBlocks(p) == {b \in {s.block : s \in poll[p].todo} : poll[p].hashes[b] = Unread}

\* get_block_hash of one distinct block, or None.
PollHash(p) ==
    /\ poll[p].pc = "events"
    /\ \E b \in UnreadBlocks(p), h \in {NoHash} \cup Hashes :
        /\ h = canon[b] \/ (h = NoHash /\ May("rpc"))
        /\ poll' = [poll EXCEPT ![p].hashes[b] = h]
    /\ out' = {}
    /\ UNCHANGED <<chainVars, dbVars, task, sweep, acked, histVars>>

\* The event the loop takes next, once every hash has been asked for.
NextEvents(p) ==
    {s \in poll[p].todo : /\ poll[p].pc = "events"
                          /\ UnreadBlocks(p) = {}
                          /\ \A u \in poll[p].todo : s.block <= u.block}

\* Mutant: no comparison of hashes.
MismatchIgnored(p, s) == FALSE

\* Mutant: a hash that could not be fetched counts as a different one.
MismatchWhenMissing(p, s) == poll[p].hashes[s.block] # s.hash

\* The stored hash differs from the canonical one.  A missing hash is no
\* mismatch.
Mismatch(p, s) == poll[p].hashes[s.block] \notin {NoHash, s.hash}

Take(p, s, pc) == poll' = [poll EXCEPT ![p].pc = pc, ![p].cur = {s},
                             ![p].todo = @ \ {s}]
Resume(p) == poll' = [poll EXCEPT ![p].pc = "events", ![p].cur = {}]

\* Mutant: the nonce is released before the status is written.
PollReorgReleaseFirst(p) ==
    /\ \E s \in NextEvents(p) :
        /\ Mismatch(p, s)
        /\ nonces' = InvalidateByEventId(nonces, s.eid)
        /\ Take(p, s, "invalidate")
    /\ out' = {}
    /\ UNCHANGED <<chainVars, row, linked, task, sweep, acked, histVars>>

\* _handle_reorg, first write: status = reorged.
PollReorg(p) ==
    /\ \E s \in NextEvents(p) :
        /\ Mismatch(p, s)
        /\ row' = [row EXCEPT ![s.eid].status = "reorged"]
        /\ reorgedEver' = reorgedEver \cup {s.eid}
        /\ Take(p, s, "invalidate")
    /\ out' = {}
    /\ UNCHANGED <<chainVars, nonces, linked, task, sweep, acked,
                   owner, holder>>

\* Mutant: the depth is measured from a head that is read for each event.
PollDepthFreshHead(p) ==
    /\ \E s \in NextEvents(p) :
        LET conf == Confirmations(head, s.block) IN
        /\ ~Mismatch(p, s)
        /\ row' = [row EXCEPT ![s.eid].depth = conf]
        /\ IF ChainFinalized(conf)
           THEN Take(p, s, "transition")
           ELSE poll' = [poll EXCEPT ![p].todo = @ \ {s}]
    /\ out' = {}
    /\ UNCHANGED <<chainVars, nonces, linked, task, sweep, acked, histVars>>

\* _process_event: finality_depth is written in either case; the status
\* transition follows when the chain's depth is reached.
PollDepth(p) ==
    /\ \E s \in NextEvents(p) :
        LET conf == Confirmations(poll[p].head, s.block) IN
        /\ ~Mismatch(p, s)
        /\ row' = [row EXCEPT ![s.eid].depth = conf]
        /\ IF ChainFinalized(conf)
           THEN Take(p, s, "transition")
           ELSE poll' = [poll EXCEPT ![p].todo = @ \ {s}]
    /\ out' = {}
    /\ UNCHANGED <<chainVars, nonces, linked, task, sweep, acked,
                   histVars>>

\* The first database write for an event raises: the loop goes on to the next.
PollSkip(p) ==
    /\ May("db")
    /\ \E s \in NextEvents(p) : poll' = [poll EXCEPT ![p].todo = @ \ {s}]
    /\ out' = {}
    /\ UNCHANGED <<chainVars, dbVars, task, sweep, acked, histVars>>

\* The status after the snapshot's, and the webhook that announces it.
Successor(s) == IF s.status = "pending" THEN "confirmed" ELSE "finalized"
SuccessorType(s) ==
    IF s.status = "pending" THEN "payment.confirmed" ELSE "payment.finalized"

\* _transition_event, first write: unconditional on the row's present status.
PollTransition(p) ==
    /\ poll[p].pc = "transition"
    /\ \E s \in poll[p].cur : row' = [row EXCEPT ![s.eid].status = Successor(s)]
    /\ poll' = [poll EXCEPT ![p].pc = "dispatch"]
    /\ out' = {}
    /\ UNCHANGED <<chainVars, nonces, linked, task, sweep, acked,
                   histVars>>

\* The status update raises: no webhook, on to the next event.
PollTransitionFailed(p) ==
    /\ May("db")
    /\ poll[p].pc = "transition"
    /\ Resume(p)
    /\ out' = {}
    /\ UNCHANGED <<chainVars, dbVars, task, sweep, acked, histVars>>

\* dispatch_event to every linked endpoint, with the finality_depth that the
\* row had when it was fetched.
PollDispatch(p) ==
    /\ poll[p].pc = "dispatch"
    /\ \E s \in poll[p].cur :
        \E found \in LinkedEndpoints(s.eid, s.endpoint) : \E eps \in Reached(found) :
            out' = Webhooks(s.eid, eps, SuccessorType(s), s.block,
                            s.hash, s.depth, "poller")
    /\ Resume(p)
    /\ UNCHANGED <<chainVars, dbVars, task, sweep, acked, histVars>>

\* _handle_reorg, second write: invalidate_by_event_id, whose failure is
\* swallowed.
PollInvalidate(p) ==
    /\ poll[p].pc = "invalidate"
    /\ \E s \in poll[p].cur :
        \/ nonces' = InvalidateByEventId(nonces, s.eid)
        \/ May("db") /\ UNCHANGED nonces
    /\ poll' = [poll EXCEPT ![p].pc = "reorg_dispatch"]
    /\ out' = {}
    /\ UNCHANGED <<chainVars, row, linked, task, sweep, acked, histVars>>

PollReorgDispatch(p) ==
    /\ poll[p].pc = "reorg_dispatch"
    /\ \E s \in poll[p].cur :
        \E found \in LinkedEndpoints(s.eid, s.endpoint) : \E eps \in Reached(found) :
            out' = Webhooks(s.eid, eps, "payment.reorged", s.block,
                            s.hash, NoConf, "poller")
    /\ Resume(p)
    /\ UNCHANGED <<chainVars, dbVars, task, sweep, acked, histVars>>

\* The cycle ends: nothing to poll, no head, or every event handled.
PollEnd(p) ==
    /\ \/ poll[p].pc = "fetch" /\ Pollable = {}
       \/ poll[p].pc = "head" /\ May("rpc")
       \/ poll[p].pc = "events" /\ poll[p].todo = {}
    /\ PollDone(p)

PollCrash(p) ==
    /\ May("crash")
    /\ poll[p].pc # "idle"
    /\ PollDone(p)

PollNext(p) ==
    \/ PollStart(p) \/ PollFetch(p) \/ PollHead(p) \/ PollHash(p)
    \/ PollReorg(p) \/ PollDepth(p) \/ PollSkip(p)
    \/ PollTransition(p) \/ PollTransitionFailed(p) \/ PollDispatch(p)
    \/ PollInvalidate(p) \/ PollReorgDispatch(p)
    \/ PollEnd(p) \/ PollCrash(p)

-----------------------------------------------------------------------------
(* The pre_confirmed TTL sweeper *)

\* Mutant: rows still waiting for confirmations are swept too.
SweepFetchUnconfirmed(w) ==
    /\ sweep[w] = IdleSweep
    /\ \E S \in SUBSET {e \in EventIds : row[e].status \in {"pre_confirmed", "pending"}} :
        /\ S # {}
        /\ sweep' = [sweep EXCEPT ![w].todo = S]
    /\ out' = {}
    /\ UNCHANGED <<chainVars, dbVars, task, poll, acked, histVars>>

\* fetch_stale_preconfirmed: any set of pre_confirmed rows may be past the TTL.
SweepFetch(w) ==
    /\ sweep[w] = IdleSweep
    /\ \E S \in SUBSET {e \in EventIds : row[e].status = "pre_confirmed"} :
        /\ S # {}
        /\ sweep' = [sweep EXCEPT ![w].todo = S]
    /\ out' = {}
    /\ UNCHANGED <<chainVars, dbVars, task, poll, acked, histVars>>

\* _expire_event: UPDATE ... SET status = 'payment.failed' WHERE id = e.
SweepExpire(w) ==
    /\ sweep[w].cur = {}
    /\ \E e \in sweep[w].todo :
        /\ row' = [row EXCEPT ![e].status = "payment.failed"]
        /\ sweep' = [sweep EXCEPT ![w] = [todo |-> @.todo \ {e}, cur |-> {e}]]
    /\ out' = {}
    /\ UNCHANGED <<chainVars, nonces, linked, task, poll, acked, histVars>>

\* The update raises and is swallowed.
SweepSkip(w) ==
    /\ May("db")
    /\ sweep[w].cur = {}
    /\ \E e \in sweep[w].todo : sweep' = [sweep EXCEPT ![w].todo = @ \ {e}]
    /\ out' = {}
    /\ UNCHANGED <<chainVars, dbVars, task, poll, acked, histVars>>

\* _dispatch_failure_webhook, from the columns fetched with the snapshot
\* (block_number 0); a failed endpoint query finds nobody.
SweepDispatch(w) ==
    /\ \E e \in sweep[w].cur :
        \E found \in LinkedEndpoints(e, NULL) : \E eps \in Reached(found) :
            out' = Webhooks(e, eps, "payment.failed", 0, NoHash,
                            NoConf, "sweeper")
    /\ sweep' = [sweep EXCEPT ![w].cur = {}]
    /\ UNCHANGED <<chainVars, dbVars, task, poll, acked, histVars>>

SweepCrash(w) ==
    /\ May("crash")
    /\ sweep[w] # IdleSweep
    /\ sweep' = [sweep EXCEPT ![w] = IdleSweep]
    /\ out' = {}
    /\ UNCHANGED <<chainVars, dbVars, task, poll, acked, histVars>>

SweepNext(w) ==
    SweepFetch(w) \/ SweepExpire(w) \/ SweepSkip(w) \/ SweepDispatch(w) \/ SweepCrash(w)

-----------------------------------------------------------------------------
(* The nonce archiver *)

\* archive_old_nonces on one row: it is days old, so no task is at work on it.
Archive(a) ==
    /\ May("archive")
    /\ Archivable(nonces[a])
    /\ \A t \in Tasks : task[t].pc # "idle" => task[t].auth # a
    /\ nonces' = [nonces EXCEPT ![a] = NoNonce]
    /\ out' = {}
    /\ UNCHANGED <<chainVars, row, linked, task, poll, sweep, acked, histVars>>

-----------------------------------------------------------------------------
(* The system *)

Environment ==
    /\ ChainNext
    /\ out' = {}
    /\ UNCHANGED <<dbVars, task, poll, sweep, acked, histVars>>

Next ==
    \/ Environment
    \/ \E m \in Deliverable : GoldskyAnswered(m)
    \/ \E t \in Tasks : TaskNext(t)
    \/ \E p \in Pollers : PollNext(p)
    \/ \E w \in Sweepers : SweepNext(w)
    \/ \E a \in Auths : Archive(a)

Spec == Init /\ [][Next]_vars

-----------------------------------------------------------------------------
(* Safety *)

\* Nonce uniqueness (SKILL-SPEC 8.5).  record_nonce_or_correlate, the uuid
\* handed from claim to insert, and the reorg handler's writes together give:
\* of two events recorded for one authorization, one has been marked reorged.
\* So a payment is never processed twice unless its first event was withdrawn,
\* or the archiver has moved its nonce away.
OneLiveEventPerAuthorization ==
    \A e, f \in EventIds :
        (/\ e # f
         /\ row[e].status # "absent" /\ row[f].status # "absent"
         /\ owner[e] = owner[f])
        => e \in reorgedEver \/ f \in reorgedEver

\* Why it holds, in parts that every step preserves together.  A claim that was
\* not withdrawn is the one its nonce row stands for ...
ClaimsAreHeld ==
    \A e \in EventIds :
        owner[e] # NULL /\ e \notin reorgedEver => holder[owner[e]] = e

\* ... a nonce is released only after its event was marked reorged ...
ReleasedIsReorged ==
    \A a \in Auths : nonces[a].state = "reorged" => holder[a] \in reorgedEver

\* ... because the id in the row is that of the latest claim ...
NamedIsHolder ==
    \A a \in Auths : nonces[a].event # NULL => nonces[a].event = holder[a]

\* ... and the poller writes the status before it invalidates ...
InvalidatingIsReorged ==
    \A p \in Pollers : poll[p].pc = "invalidate" =>
        \A s \in poll[p].cur : s.eid \in reorgedEver

\* ... a nonce with no row was never claimed ...
AbsentIsUnclaimed ==
    \A a \in Auths : nonces[a].state = "absent" => \A e \in EventIds : owner[e] # a

\* ... the latest claim is an event of that authorization ...
HolderIsOwned ==
    \A a \in Auths : holder[a] # NULL => owner[holder[a]] = a

\* ... and whoever writes an event row works for a claim.
RowsHaveOwners == \A e \in EventIds : row[e].status # "absent" => owner[e] # NULL
TasksHaveOwners == \A t \in Tasks : task[t].pc # "idle" => owner[task[t].eid] # NULL
SnapshotsHaveOwners ==
    \A p \in Pollers : \A s \in poll[p].todo \cup poll[p].cur : owner[s.eid] # NULL
SweptHaveOwners == \A w \in Sweepers : \A e \in sweep[w].todo : owner[e] # NULL

DedupInv ==
    /\ ClaimsAreHeld
    /\ ReleasedIsReorged
    /\ NamedIsHolder
    /\ InvalidatingIsReorged
    /\ AbsentIsUnclaimed
    /\ HolderIsOwned
    /\ RowsHaveOwners
    /\ TasksHaveOwners
    /\ SnapshotsHaveOwners
    /\ SweptHaveOwners

\* The least depth at which any path may call an event safe for an endpoint.
SafeFloor(ep) == IF RequiredFor(ep) < Required THEN RequiredFor(ep) ELSE Required

\* safe_to_execute (ARCHITECTURE 5.2): whichever of the ingest, promotion and
\* poller paths sent it, and however stale the row or the head it worked from,
\* a webhook that says safe_to_execute is about a block at least SafeFloor deep.
SafeWebhooksAreDeep ==
    \A w \in out : w.safe => w.block > 0 /\ head - w.block >= SafeFloor(w.ep)

\* Reorg detection: the finality poller reads the head before the hashes, so
\* what it announces as confirmed or finalized is on the canonical chain at a
\* depth no reorg reaches.  Holds when every hash can be fetched.
PollerAnnouncesCanonical ==
    \A w \in out :
        w.by = "poller" /\ w.type \in {"payment.confirmed", "payment.finalized"}
        => IsCanonical(w.block, w.hash) /\ head - w.block >= Required

\* payment.reorged is only ever sent for a block that really was replaced.
ReorgedWebhookIsOffChain ==
    \A w \in out : w.type = "payment.reorged" => ~IsCanonical(w.block, w.hash)

\* Why the three hold, in parts that every step preserves together.  A block
\* that a log, row, task or snapshot names was mined, and its hash is not newer
\* than the canonical one: heads and versions only grow ...
Seen(block, hash) == block \in Blocks => block <= head /\ hash <= canon[block]
LogsAreSeen == \A m \in logs : Seen(m.block, m.hash)
RowsAreSeen == \A e \in EventIds : Seen(row[e].block, row[e].hash)

\* ... a confirmation count never says more than the depth of its block ...
TaskIsSound(k) ==
    k.pc # "idle" =>
        /\ Seen(k.block, k.hash)
        /\ k.conf # NoConf => k.block > 0 /\ k.conf <= head - k.block

\* ... a cycle compares each snapshot with a hash fetched after it and after the
\* head, so that at the chain's depth the fetched hash is the canonical one ...
HashIsSound(c, b) ==
    /\ c.hashes[b] = NoHash => May("rpc")
    /\ c.hashes[b] \in Hashes =>
         /\ c.hashes[b] <= canon[b]
         /\ \A s \in c.todo : s.block = b => s.hash <= c.hashes[b]
         /\ ChainFinalized(Confirmations(c.head, b)) => c.hashes[b] = canon[b]

\* ... and the event it has taken up is what the hashes made of it.
CycleIsSound(c) ==
    /\ c.head <= head
    /\ \A s \in c.todo \cup c.cur : s.block \in Blocks /\ Seen(s.block, s.hash)
    /\ c.pc \in {"idle", "fetch", "head"} => \A b \in Blocks : c.hashes[b] = Unread
    /\ \A b \in Blocks : HashIsSound(c, b)
    /\ c.pc \in {"transition", "dispatch"} =>
         \A s \in c.cur : /\ head - s.block >= Required
                          /\ ~May("rpc") => canon[s.block] = s.hash
    /\ c.pc \in {"invalidate", "reorg_dispatch"} =>
         \A s \in c.cur : s.hash < canon[s.block]

FinalityInv ==
    /\ LogsAreSeen
    /\ RowsAreSeen
    /\ \A t \in Tasks : TaskIsSound(task[t])
    /\ \A p \in Pollers : CycleIsSound(poll[p])

\* An event that Goldsky recorded directly: its nonce row does not name it, so
\* neither promotion nor the sweeper reaches it.
Direct(e) == row[e].status # "absent" /\ row[e].type # "payment.pre_confirmed"

\* What the statuses of such events say of the chain is true, however many pollers
\* overwrite each other's updates from snapshots of different age: a finalized
\* event is on the canonical chain at the required depth, and the block of a
\* reorged one was replaced.  Holds when every hash can be fetched.
VerdictsAreTrue ==
    \A e \in EventIds : Direct(e) =>
        /\ row[e].status = "finalized" =>
             IsCanonical(row[e].block, row[e].hash) /\ head - row[e].block >= Required
        /\ row[e].status = "reorged" => ~IsCanonical(row[e].block, row[e].hash)

\* Nor does any of them take back that an event was reorged, or make a decided one
\* pending.
VerdictsStand ==
    [][\A e \in EventIds : Direct(e) =>
          /\ row[e].status = "reorged" => row'[e].status = "reorged"
          /\ row'[e].status # row[e].status =>
               row'[e].status \in {"confirmed", "finalized", "reorged"}]_vars

\* The order of the lifecycle of an event Goldsky recorded.
Rank(st) == CASE st = "pending" -> 1
              [] st = "confirmed" -> 2
              [] st = "finalized" -> 3
              [] st = "reorged" -> 4
              [] OTHER -> 0

\* Such an event only moves forward through pending, confirmed and finalized, or
\* to reorged, although every writer updates by id alone.  Holds where one
\* instance polls; the lock that should see to that does not (PollStart).
DirectEventsMoveForward ==
    [][\A e \in EventIds :
          Direct(e) => Rank(row'[e].status) >= Rank(row[e].status)]_vars

OnePoller == \A p, q \in Pollers : p = q

\* Why these hold, in parts again.  A row is written by the owner of its claim ...
\* ... a uuid is recorded by the one task that drew it ...
Recording(t) == task[t].pc \in {"finality", "record"}
RecordersAreAlone ==
    \A t \in Tasks : Recording(t) =>
        /\ row[task[t].eid].status = "absent"
        /\ \A u \in Tasks : Recording(u) /\ task[u].eid = task[t].eid => u = t

\* ... an event that a nonce row names, or a promotion is about, is the
\* facilitator's, recorded already or yet to be ...
Facilitated(e) ==
    /\ owner[e] # NULL
    /\ row[e].status = "absent" \/ row[e].type = "payment.pre_confirmed"
    /\ \A t \in Tasks : Recording(t) /\ task[t].eid = e => task[t].source = "facilitator"

NamedAreFacilitated ==
    \A a \in Auths : nonces[a].event # NULL => Facilitated(nonces[a].event)
PromotedAreFacilitated ==
    \A t \in Tasks : task[t].pc = "promote" => Facilitated(task[t].eid)

\* ... so is one that is pre_confirmed, or that a sweeper is about to expire ...
PreConfirmedAreFacilitated ==
    \A e \in EventIds : row[e].status = "pre_confirmed" => row[e].type = "payment.pre_confirmed"
SweptAreFacilitated ==
    \A w \in Sweepers : \A e \in sweep[w].todo :
        row[e].status # "absent" /\ row[e].type = "payment.pre_confirmed"

\* ... what a poller works on are rows as they were, one snapshot for each, and no
\* one moves the block of a row that Goldsky recorded ...
SnapshotsAreOfRows ==
    \A p \in Pollers :
        /\ poll[p].pc \in {"idle", "fetch", "head", "events"} => poll[p].cur = {}
        /\ poll[p].pc \in {"idle", "fetch"} => poll[p].todo = {}
        /\ \A s, u \in poll[p].todo \cup poll[p].cur : s.eid = u.eid => s = u
        /\ poll[p].todo \cap poll[p].cur = {}
        /\ \A s \in poll[p].todo \cup poll[p].cur :
             /\ row[s.eid].status # "absent" /\ s.status \in {"pending", "confirmed"}
             /\ Direct(s.eid) => row[s.eid].block = s.block /\ row[s.eid].hash = s.hash

\* ... and what a single poller has still to act on has the status of its row,
\* unless a promotion or a sweeper may have written that.
Acting(c) == c.todo \cup (IF c.pc = "transition" THEN c.cur ELSE {})
SnapshotsAreInStep ==
    OnePoller => \A p \in Pollers : \A s \in Acting(poll[p]) :
        Direct(s.eid) => row[s.eid].status = s.status

ForwardInv ==
    /\ RowsHaveOwners /\ TasksHaveOwners
    /\ RecordersAreAlone
    /\ NamedAreFacilitated /\ PromotedAreFacilitated
    /\ PreConfirmedAreFacilitated /\ SweptAreFacilitated
    /\ SnapshotsAreOfRows /\ SnapshotsAreInStep

-----------------------------------------------------------------------------
(* Liveness *)

Terminal == {"finalized", "reorged", "payment.failed"}

\* The steps an asyncio task, a poll cycle and a sweep are certain to take once
\* they have begun, the two background loops, and the growth of the chain.
\* Nothing is assumed of the facilitator or of Goldsky, nor that no one crashes.
Fairness ==
    /\ WF_vars(Environment /\ Mine)
    /\ \A t \in Tasks :
        /\ WF_vars(Finality(t) \/ Record(t) \/ Link(t) \/ Dispatch(t))
        /\ WF_vars(\/ Promote(t) \/ PromoteNotFound(t)
                   \/ PromoteFinality(t) \/ PromoteDispatch(t))
    /\ \A p \in Pollers :
        WF_vars(\/ PollStart(p) \/ PollFetch(p) \/ PollHead(p) \/ PollHash(p)
                \/ PollReorg(p) \/ PollDepth(p) \/ PollTransition(p)
                \/ PollDispatch(p) \/ PollInvalidate(p)
                \/ PollReorgDispatch(p) \/ PollEnd(p))
    /\ \A w \in Sweepers :
        /\ WF_vars(SweepExpire(w) \/ SweepDispatch(w))
        /\ \A e \in EventIds : WF_vars(SweepFetch(w) /\ e \in sweep'[w].todo)

LiveSpec == Spec /\ Fairness

\* ARCHITECTURE 16b: "every event that enters the system reaches a terminal
\* state".  The poller must see every pending or confirmed row through, the
\* sweeper every pre_confirmed one.  After migration 028 no poll cycle runs.
EveryEventReachesATerminalState ==
    \A e \in EventIds :
        row[e].status \in {"pre_confirmed", "pending", "confirmed"}
        ~> row[e].status \in Terminal

-----------------------------------------------------------------------------
(* What the documentation says and the code does not do *)

\* SECURITY.md, on promotion: "This ensures consumers always receive a
\* confirmation webhook after the facilitator's provisional notification."  At
\* the least, once no task is running, a canonical log whose delivery was
\* answered has a row that carries onchain data.
AnsweredPaymentIsRecorded ==
    (\A t \in Tasks : task[t] = IdleTask)
    => \A m \in acked :
          IsCanonical(m.block, m.hash)
          => \E e \in EventIds : owner[e] = m.auth /\ row[e].block > 0
=============================================================================
