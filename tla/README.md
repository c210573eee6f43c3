# TripWire in TLA+

TripWire turns onchain x402 payments into webhooks. A payment reaches it twice:
the x402 facilitator announces it before it is on chain (`/ingest/facilitator`),
and Goldsky delivers the ERC-3009 log once it is (`/ingest/goldsky`, through
Redis streams). In between and afterwards, pollers, sweepers, archivers and
several replicas of the service write to the same Postgres rows, while the
chain may reorganise. Beside payments, users register triggers for any event of
a contract (Pulse), through MCP tools that are paid per call. This directory holds the models of that system that TLC
checks on small instances, and the theorems that TLAPS proves for all of them.

## Inventory

| Component (source under `src/tripwire/`) | State | Operations | Talks to | What is hard |
|---|---|---|---|---|
| Nonce dedup and archival (`db/repositories/nonces.py`, migrations 019, 020) | `nonces` rows: event id, source, reorged_at | record_nonce_or_correlate, invalidate_by_event_id, archive_old_nonces | processor, poller, archiver | one authorization arriving twice at once; release after a reorg; reuse after archival |
| EventProcessor (`ingestion/processor.py`, `handlers/payment.py`) | `events`, `event_endpoints`, `webhook_deliveries` | claim, finality read, record, link, gate, dispatch, promote | Postgres, RPC, Convoy, Realtime | every step is a separate await; a crash or another writer fits between any two |
| FinalityPoller (`ingestion/finality_poller.py`) | per-cycle snapshot, head, block hashes, advisory lock | fetch, reorg branch, depth, transition, dispatch | Postgres, RPC, Convoy | stale snapshots, missing hashes, replicas |
| PreConfirmedSweeper (`ingestion/ttl_sweeper.py`) | list of stale rows | fetch, expire, failure webhook | Postgres, Convoy | update by id after a fetch |
| Webhook payload (`types/models.py`, `webhook/dispatcher.py`, `notify/realtime.py`) | none | finality data, execution metadata, per-endpoint depth | everything that dispatches | three senders, one meaning of safe_to_execute |
| Event bus (`ingestion/event_bus.py`) | Redis streams, consumer group, known groups and streams | publish_batch, consume, claim_stale, ack_batch | ingest route, workers | partial pipelines, NOGROUP, trimming |
| TriggerWorker (`ingestion/trigger_worker.py`) | batch, ack map, failure counts | read, claim, process, DLQ, ack | event bus, processor | claim racing a busy worker, per-process counts |
| WorkerPool (`ingestion/trigger_worker.py`) | streams per worker, known streams | start, discovery, add_stream, restart | event bus | caps |
| RedisDLQConsumer (`ingestion/dlq_consumer.py`) | position in `tripwire:dlq` | read, alert, trim | Redis, alert webhook | the position is lost on restart |
| Trigger (Pulse) path (`ingestion/handlers/trigger.py`), TriggerIndex | trigger index and its Redis cache | match, payment gate, filter, record, dispatch | Postgres, RPC, Convoy | stale index |
| Convoy client (`webhook/convoy_client.py`) | circuit state, failure count | guard, success, failure | Convoy | concurrent probes |
| DLQHandler (`webhook/dlq_handler.py`) | retry counts in `webhook_deliveries` | poll, retry, dead-letter | Convoy, Postgres | which id names a delivery |
| Sessions (`session/manager.py`) | Redis hash with a budget | create, validate_and_decrement, refund, close | MCP server | refund after close or expiry |
| MCP and x402 (`mcp/auth.py`, `mcp/server.py`, `mcp/tools.py`) | dedup key per payment | verify, execute, settle, refund | facilitator, Redis | failure between steps |
| SIWE (`auth/siwe.py`, `api/auth.py`) | one-time nonces | issue, verify | Redis | single use |
| Quotas, caches, rate limit | counts, cached rows | check, get, set | Postgres, Redis | check then insert |
| Policies, filters (`api/policies/engine.py`, `ingestion/filter_engine.py`) | none | evaluate | processor | boundaries |
| Identity, decoders, REST resources, SDK, observability | caches at most | reads, conversions | - | little |

What makes each part correct, as far as it is stated here: a payment has one
live event (dedup); a webhook that says `safe_to_execute` is about a block that
is deep enough, and the poller only announces canonical blocks (finality); a
recorded event only moves forward and what its status says of the chain is true
(lifecycle); a
queued log is processed or dead-lettered, never given up early and never
forgotten (bus); a dead letter is reported (DLQ); a stream with messages has one
reader, and the trigger index follows its table (pool); a pair of log and
trigger has one owner, is told at most once and comes to an end (Pulse); a
delivery is accounted for, and one that failed is resent (webhooks); no tool result without an open purse that covers it,
and nothing is charged twice or lost between the steps of a call (gateway).

## Modules

| Module | Models |
|---|---|
| `Chain` | the chain behind the RPC: height, canonical hashes, logs, reorgs up to `ReorgDepth` (external) |
| `NonceDedup` | the nonces table; each operator is one SQL statement or function |
| `ExecutionMetadata` | depth per endpoint, the finality gate, the execution block of a payload |
| `PaymentLifecycle` | composes the three: ingestion tasks, promotion, pollers, sweepers, archiver |
| `MCPaymentLifecycle` | depth overrides and symmetry for TLC |
| `PaymentLifecycleProofs` | theorems about `PaymentLifecycle`: types, nonce uniqueness |
| `FinalityProofs` | extends it: depth, canonical blocks, reorgs, what recorded statuses say and their order |
| `RedisDlq` | the dead-letter stream and its consumers |
| `EventBus` | extends it: publishing, the worker loop, crashes, Redis |
| `MCEventBus` | symmetry for TLC |
| `EventBusProofs` | theorems about `EventBus` |
| `StreamPool`, `MCStreamPool`, `StreamPoolProofs` | the publisher's streams, `WorkerPool` and the trigger indexes |
| `TriggerPath`, `MCTriggerPath`, `TriggerPathProofs` | a log against the triggers of its topic, unified loop and older handlers |
| `WebhookDelivery`, `MCWebhook`, `WebhookDeliveryProofs` | dispatch, circuit breaker, delivery rows, `DLQHandler` |
| `Purses` | abstract: what the gateway promises about payment |
| `McpGateway`, `MCGateway`, `McpGatewayProofs` | MCP tool calls, session and endpoint routes, x402, SIWE, quotas, rate limit; implements `Purses` |
| `SumTheorems` | lemmas on sums over finite sets, by the smallest counterexample |

`EventBus` and `StreamPool` divide the bus between them: one has the details of
one stream, the other the streams and who reads them. `TriggerPath` and
`PaymentLifecycle` are what `process_event` does with a log from the bus;
`WebhookDelivery` begins where their dispatch steps end, and takes one such
dispatch to its delivery.

### PaymentLifecycle

One step is one database statement, one RPC read, or one round of sends, since
those are the awaits at which another task can run. The tables are functions:
`nonces` by authorization (chain, authorizer and nonce), `row` and `linked` by
event id. `task[t]` is a coroutine in `process_event` or
`process_pre_confirmed_event`, with `pc` naming the next await; `poll[p]` is a
poll cycle with its snapshot, `sweep[s]` a sweep. `out` holds the webhooks of
the last step only, so that properties about webhooks are state predicates.
`acked` remembers which logs were answered; `owner`, `holder` and `reorgedEver`
are history variables that no action reads.

| Actions | Code |
|---|---|
| `FacilitatorClaim`, `GoldskyClaim`, `GoldskyCorrelate`, `GoldskyAnswered` | the dedup call and its three answers |
| `Finality`, `Record`, `RecordUnmatched`, `RecordFailed`, `Link`, `Dispatch` | `_process_erc3009_event` and `_dispatch_for_transfer` |
| `Promote`, `PromoteNotFound`, `PromoteFinality`, `PromoteDispatch` | `_promote_pre_confirmed_event` |
| `TaskError`, `TaskCrash` | errors returned as a status; cancellation or death |
| `PollStart` ... `PollCrash` | `_poll_chain`, `_process_event`, `_transition_event`, `_handle_reorg` |
| `SweepFetch` ... `SweepCrash` | `_sweep_once`, `_expire_event`, `_dispatch_failure_webhook` |
| `Archive` | `archive_old_nonces` on one row |
| `Environment` | the chain |

The constant `Contingencies` says which failures an instance has (crashes,
database errors, RPC errors, failed sends, policy rejections, unmatched
transfers, redelivery, archival); the theorems hold for every value of it that
their statement allows. `LeaderLock` says what the poller's lock call
(`finality_poller.py:179`) does. `pooled`: before migration 028 the RPC takes an
advisory lock on a connection that PostgREST returns to its pool, so the answer
keeps no other instance from polling. `dropped`: with the migrations of this
commit the RPC is gone, the call raises, and no cycle begins. There is no third
case: the code has no lock that excludes. The passing runs have `pooled`, where
pollers run together, and the run `TerminalState` has `dropped`.

Abstracted: amounts, addresses, policies (any subset may be rejected), the
matching of endpoints (all or none), the order in which one dispatch sends.
Not in the model: plain Transfers (deduplicated by transaction and log index),
deactivated endpoints, delivery rows, the sweeper's own lock (the safety results
hold for any number of sweepers).

### EventBus and RedisDlq

One stream, its consumer group, and the workers of several instances. Messages
are named by the order of their XADDs. `pel` is the group's pending list, `idle`
the part of it that `XAUTOCLAIM` may take; `Age` lets any pending entry become
idle at any moment at which time can pass, because `CLAIM_IDLE_MS` is as long
as the processing timeout: a message can be claimed while its first worker is
still busy. A worker iteration is `Consume`, on every `ClaimEvery`-th iteration
`Claim`, then one of `Processed`, `Failed`, `DeadLetter` per message, then
`Ack`. `done`, `dead`, `lost`, `failures`, `queued` are history.

`Processed` is a handler that returned, whatever its summary says (Divergences);
`Failed` is one that raised or ran into the timeout. `RedisLoss` empties Redis,
`Restart` restarts a DLQ consumer, which loses its position. The order of the
messages within a batch, the consumer that owns a pending entry (neither XACK
nor XAUTOCLAIM looks at it) and undecodable payloads (the publisher always
writes JSON) are left out; the restart of a worker task is `StreamPool`'s.

### StreamPool

Streams are numbers in the order of their keys, because the caps cut a sorted
list: one per topic, then `default`, then `unknown`. `published` is the
publisher's `_known_stream_keys`, `known` the pool's `_known_streams`; both are
lost when the process ends (`End`, `Boot`). `Discover` scans, and `DiscoverNext`
adds one new stream at a time, since `add_stream` awaits. `CrashWorker` and
`RestartWorker` are a task's end and its done callback. `active` is the trigger
table, `cache` the repository's list of active triggers; a refresh is
`RefreshQuery` and `RefreshStore`, with `Edit` free to come in between, and
`poolIndex` and `procIndex` are the two indexes a process has.

### TriggerPath

A task is a call of `process_event` with one log. `Start` is what runs without
an await: detection, the filters and the payment gate, which leave the triggers
the log is wanted by. `Claim` is `record_nonce` for one pair, `Enrich` the
identity and finality reads, then `Drop` or `Go` is the verdict on one pair
(reputation, endpoint, policy, depth) and `Send`, `SendNot`, `Record` its
webhook or notification and its rows. `ClaimFails` is a `record_nonce` that
raises, before or after its insert was committed. `Cut` is the timeout of the
worker or the death of the process at any of these. `outcome` and `stranded` are
history: what a call decided about a pair, and the pairs whose claim no call will
ever act on, because its call was cut off or never learned of the insert. The filters'
operators and the policies are evaluated over small values of an instance's
logs (`MCTriggerPath`); text operators are left out.

### WebhookDelivery

`breaker` is the module state of `convoy_client`: state, failure count, and
whether `_RECOVERY_TIMEOUT` has passed. A dispatch sends to its endpoints in
order, and between the check of the breaker and the answer any other caller may
ask and be answered (`OtherAsks`, `OtherAnswered`). `Accepted`, `Unreachable`,
`Rejected` are the answers, `late` a message that Convoy took although the
caller saw a timeout. `Record` zips the ids with the endpoints as the code does.
A `Handler` is one instance's `DLQHandler`: `List`, then `Judge` per delivery, then
`Resend` of the batch; `TurnFails` and `ResendFails` are the errors. The handler
looks for a row under the uid of Convoy's delivery, and the rows hold the id that
the send returned, which is Convoy's event (`convoy_client.py:428`,
`deliveries.py:264`). So it finds none, takes the count as 0 and has every failed
delivery resent; what the code does with a row it found is reached in no state
and is left out. `RetryAccepts` is what `POST /deliveries/{id}/retry` wants of a row.

### McpGateway and Purses

A call goes through `Begin`, the tier's authentication (`Decrement` and `Fetch`
of a session; `Verify` and `Claim` of a payment; `VerifySiwe` or
`RequireWalletAuth`), reputation and rate limit, the steps of its tool,
`Settle`, `Undo` where something went wrong and `Reply`. Session hashes, dedup
keys, nonces and the rate key are Redis state, each command a step that may
raise before or after it took effect; quotas and inserts are database
statements. `Wire` is the set-up of a Convoy project. `POST /endpoints` checks the
quota as the tools do; `SetActive` is the PATCH and the deactivation of an endpoint,
which check nothing. A clean-up delete may fail while the call is refused all the
same (`CleanupFails`, the end `left`). The close route's read and delete are one
step. `Crash` ends every call in
progress. `backing` is history: what a call was charged to.

`Purses` is the promise without any of that: purses that open once, close, cover
a call within their limit, and take the cover back when it gets no result; only
a covered call is answered. `ServiceIsBacked` is the refinement: sessions,
payment proofs and nonces are the purses, a session's limit its budget, and
every step of the gateway is a step of `Purses` or a stutter.

## Runs

Passing runs, all with small sets and every bound a constant of the module:

| Run | Shows |
|---|---|
| `PaymentCore` | two concurrent deliveries, two pollers that nothing keeps apart, a reorging chain: one live event per authorization, with the invariant behind it; the poller announces canonical blocks at the required depth; what the status of a directly recorded event says of the chain is true, and reorged stays reorged, although the pollers overwrite each other's updates |
| `PaymentDepth` | poller, sweeper, archiver and two endpoints with different depth and mode under every contingency at once: the invariant about what is remembered of the chain; `safe_to_execute` implies depth; `payment.reorged` only for replaced blocks; with one poller, directly recorded events only move forward |
| `BusFaults` | two replicas with failing attempts and Redis calls, expiring counts, crashes, partial pipelines with the synchronous fallback, trimming and a Redis that comes back empty: at-least-once with its supporting invariant; a dead letter failed `MaxRetries` times |
| `BusLiveness` | every queued log is processed or dead-lettered; every dead letter is reported, across restarts of the DLQ consumer |
| `StreamPool` | no stream has two readers; one with something to read is read unless the pool is at a cap; the pool's trigger index follows the table |
| `TriggerPath` | a claim has one owner, or one end, or is stranded; a pair is told at most once; what is said about depth is true; a call that goes on decides on every pair it has claimed |
| `Webhook` | the breaker's count and state agree; the rows hold exactly the returned ids; a failed delivery is resent, whatever became of its row and although handlers overlap and fail |
| `Gateway` | budgets are conserved; a proof serves one call at a time and can be used again when it bought nothing; no orphaned endpoint; the trigger quota is overshot by less than the number of calls; the invariant behind these; `Purses` is implemented |

Bounds. Two event ids per authorization are what a duplicate or a reclaim
needs; two tasks are what a race needs; a chain of three or four blocks has one
below, one at and one above `Required`; one reorg is enough because its effects
(a stale hash, a withdrawn log that lands again) do not add up. Two workers and
two messages give every claim, double claim and batch order; `MaxRetries` of 2
and `ClaimEvery` of 2 keep both branches of the count and of the loop reachable;
`MaxStreamLen` of 1 in `BusFaults` makes trimming happen. `PaymentDepth` has one
event id, so that all contingencies fit in one instance; the runs beside it have
two. `PaymentCore` and `PaymentDepth` share the work: the hashes that cannot be
fetched are in `PaymentDepth` only, so `PollerAnnouncesCanonical` and
`VerdictsAreTrue` say nothing about them (Divergences). In `StreamPool` four streams meet `MaxStreams` of 3 and two workers with
one stream each, so that both caps are reached and missed. In `TriggerPath` two
triggers give a claim that succeeds beside one that fails, and a head of 4 is
beyond both endpoints' depths. `Webhook` needs three endpoints for ids out of
step, of which one has a failing receiver, and two handlers for turns that overlap;
the other dispatches are `OtherAsks` and `OtherAnswered`, so one task is enough. `Gateway` has two calls, which
is what every race there needs, limits of 1 so that the second call meets them,
a budget that covers one dear call (the default, cut to the maximum; that any
request, 0 too, is granted something is the lemma `BudgetIsGranted`), and a
middleware of two triggers so that the second can fail. An endpoint that is
registered, switched off and switched on again takes three calls, which the run
does not have and the proofs do. Deadlock checking is off where bounded inputs let
an instance come to rest, and on in `StreamPool` and `TriggerPath`.

Fairness. `PaymentLifecycle!Fairness`: a coroutine that was started goes on, the
poll loop and the sweep loop run, the chain grows; nothing is assumed of the
facilitator or of Goldsky. With `dropped` the poll loop runs and begins no cycle,
so its fairness asks for nothing; the refuted `TerminalState` needs no more than
this. For the sweeper, a row that stays pre_confirmed is
past its TTL at some point, hence one weak-fairness condition per event.
`EventBus!Fairness`: `TriggerWorker.start` and `_poll_loop` are `while` loops
that catch every exception, and time passes (`Age`). `process_event` is bounded
by a timeout, so a processing step is certain. `StreamPool!Fairness`: the
discovery and refresh loops run, the done callback restarts a worker, and what
disturbs them (crashes, ends, failed queries) ends at some point; without that
last condition a process that is restarted for ever serves nothing.
`TriggerPath!LiveSpec`: a call that has begun goes on, or is cut off by its
timeout. `WebhookDelivery!Fairness`: Convoy finishes its attempts, the poll loop
runs and comes to every endpoint, and the outages of the database and of Convoy end.

Runs that TLC refutes. Each checks one sentence of the repository, and the
finding in `PROJECT.json` quotes it:

| Run | What happens |
|---|---|
| `LostAnswer` | Goldsky's delivery between the facilitator's claim and its insert finds no row; the onchain data is dropped |
| `StaleIndex` | a trigger created while the process runs never reaches the index that the processor matches with |
| `TerminalState` | with migration 028 applied the lock RPC raises, no poll cycle begins, and a confirmed event stays confirmed (ARCHITECTURE.md:1995 says every event reaches a terminal state) |
| `RetryRoute` | a delivery failed at Convoy has a row that says sent, and the retry route refuses it; rows that say failed have no message id, and are refused too |

### Divergences

Further disagreements between the documents and the code, each seen in the
model while it was written, and not kept as runs. Payments:

- `finality_poller.py` and ARCHITECTURE.md:1969-1972 say the lock lets one
  instance poll; before migration 028 it is a session lock on a pooled connection
  and two replicas poll together. What they write is still true of the chain
  (`VerdictsAreTrue`, `VerdictsStand`), but a poller with an old snapshot sets a
  finalized event back to confirmed until the next cycle:
  `DirectEventsMoveForward` holds for one poller and TLC refutes it for two.
- An event whose block hash could not be fetched goes by depth alone
  (`finality_poller.py:296`), so that with `"rpc"` the poller may announce a
  replaced block as finalized. `PollerAnnouncesCanonical` and `VerdictsAreTrue`
  are stated without that contingency.
- SKILL-SPEC.md:99-107 makes `safe_to_execute` depend on the endpoint's depth; a
  promotion (`processor.py:492`) and the poller go by the chain's. So
  `SafeWebhooksAreDeep` promises the lesser of the two (`SafeFloor`).
- `ttl_sweeper.py:1` says the sweeper is for events that never reached the
  chain; it updates by id (line 187), and an event promoted after its fetch
  becomes payment.failed.
- A task that dies between claim and insert makes the redelivery a duplicate,
  while ARCHITECTURE.md:731 says unacked messages are reclaimed.
- ARCHITECTURE.md:2006 calls finalized, failed and reorged terminal;
  `promote_to_confirmed` (`events.py:235`) takes a promoted event out of them
  when a log is delivered again.
- SKILL-SPEC.md:457 says reorged nonces are released; the Goldsky path claims
  without an event id (`payment.py:111`), and `invalidate_by_event_id` then
  matches no row.
- WEBHOOKS.md:625 says an endpoint receives nothing before its
  `finality_depth`; promotion (`processor.py:492`) and the poller do not look
  at it.
- Migration 019, line 88, says an archived nonce cannot be reused;
  `record_nonce_or_correlate` does not read the archive.
- An edit of an endpoint deletes the Redis copy of the endpoint list through a
  `RedisCache` of its own (`endpoints.py:171`); the processor's one falls back
  to its local copy on a miss (`cache.py:34`) and goes on with the old list
  until its TTL.

Bus and pool:

- ARCHITECTURE.md:1045 says only processed messages are acknowledged; the worker
  acknowledges whatever `process_event` returns (`trigger_worker.py:298`), also
  a summary with an error.
- ARCHITECTURE.md:734 says a message that fails 5 times is dead-lettered;
  failure counts are per worker (`trigger_worker.py:215`), so replicas that take
  turns need more.
- ARCHITECTURE.md:1063 says the DLQ is trimmed after 100 messages; a poll reads
  at most 50 and the count starts anew with every poll (`dlq_consumer.py:138`).
- At `MAX_STREAMS` the stream `unknown`, the fallback for all further topics,
  sorts last and may be the one the pool cuts. `add_stream` at the worker cap
  leaves a stream known and unread. A failed scan at start makes the
  publisher's count of streams start at zero.
- ARCHITECTURE.md:758-764 and 1000-1006 say the cache of `list_active` has no TTL,
  so that other instances keep the old index until they restart; the code drops it
  after 10 seconds (`triggers.py:21`, `51`, `61`). `PoolIndexFollows` passes because
  of that TTL, against the documents.

Pulse:

- WEBHOOKS.md:620 says the finality poller picks a deferred event up; a deferred
  pair (`handlers/trigger.py:618`) has its claim and no row, and nothing looks
  at it again. A failed finality read skips the gate.
- A pair is claimed before it is told, so a timeout, a crash or an identity
  outage after the claim loses it for good, and so does a `record_nonce` that
  raises after its insert was committed: the pair is stranded, every later
  delivery is a duplicate. A failed claim drops the pair, and the message is
  acknowledged all the same. `ClaimsAreSettled` counts deferred and stranded
  pairs as ended.
- A failed send still records a confirmed event row; a failed read of the
  subscriptions means the owner is told anyway.
- The two paths use different authorizers for one pair: while a deployment is
  switched from one to the other, a pair can be told by both.
- `not_between` is accepted by the tools and not known to the filter engine,
  where it never matches. The older path has no policy, payment or depth gate.

Webhooks:

- ARCHITECTURE.md:728-729 says failed deliveries are retried up to 3 additional
  times and then dead-lettered; no row is found for a delivery uid
  (`dlq_handler.py:159`), so the count is 0 at every poll, the delivery is resent
  for ever, and dead-lettering and its alert are never reached.
- The zip of ids with endpoints (`processor.py:722-729`) gives an id to the wrong
  row when a send before it failed: the row of the failed endpoint is `sent` with
  another's id, and the last row is `failed` although its message was accepted.
  `MessagesAreAccounted` promises the own endpoint's id only where every send went
  well.
- A poll looks at the first page of 50 failed deliveries only.
- The breaker's "allow one probe" lets every concurrent request through, and an
  answer that is neither a success nor a connection error leaves it half open.

Gateway:

- API-REFERENCE.md:1245-1247 says one `register_middleware` call is checked once and
  may end at 53 of 50 triggers; `tools.py` checks before each insert, so one call
  ends at 50 at most, and `QuotaOvershoot` states the smaller bound.
- The endpoint quota counts active rows, and PATCH with `active = true`
  (`endpoints.py:222-251`) activates one unchecked: the number of active endpoints
  has no bound in terms of the quota, and none is stated.
- A refused `register_middleware` whose clean-up delete fails (`tools.py:293-297`)
  leaves its endpoint row; `NoOrphans` leaves that case out.
- `refund` on a session that was closed or has expired creates a key with one
  field and no expiry. A failed read after the decrement keeps the charge.
- An error that a tool returns is paid for out of a session and is not paid for
  with a proof. Where settlement is refused, an endpoint that the tool created
  stays.
- `register_middleware` cleans up after an `HTTPException` only; a resolver that
  raises keeps the proof's key for 24 hours; an RPC outage counts as reputation 0.
- `INCR` and `EXPIRE` are two commands: a failure in between leaves a rate key
  that never expires.

The boundary of the positive results follows from these. Nonce uniqueness is
stated without the archiver; statuses are stated for events that Goldsky recorded
directly, their truth where hashes can be fetched and their order for one poller;
at-least-once is stated for handlers that raise; a claim of the trigger path ends
in a decision or is stranded; the quota's bound is on triggers only; failed
deliveries are resent, with no bound on how often.

## Proofs

Every theorem is for all values of the constants that the named assumptions
allow: any number of authorizations, events, endpoints, tasks, replicas, calls and
failures. Where the stated property is not inductive, the invariant that is was
model-checked first, most of them by a run. Each proof has one lemma per action that touches the
state in question.

### Payments

`PaymentLifecycleProofs`:

- `TypeCorrect`: `Spec => []TypeOK`.
- `DedupCorrect`: without the archiver, `Spec => []DedupInv`.
- `NonceUniqueness`: without the archiver, `Spec => []OneLiveEventPerAuthorization`.

Uniqueness is not inductive: a step that records an event says nothing of the
claims behind it. `DedupInv` adds the chain of reasons. Every claim that was
not withdrawn is the holder of its authorization (`ClaimsAreHeld`); a nonce is
released only if its holder was marked reorged (`ReleasedIsReorged`), because
the id in a nonce row is the holder's (`NamedIsHolder`) and the poller writes
the status before it invalidates (`InvalidatingIsReorged`); a nonce with no row
was never claimed (`AbsentIsUnclaimed`); and whoever writes a row works for a
claim. The archiver is excluded by assumption, as it breaks
`AbsentIsUnclaimed`: a nonce moved to the archive is accepted again.

`FinalityProofs`:

- `FinalityCorrect`: `Spec => []FinalityInv`, with what the last step announced.
- `SafeToExecuteIsDeep`: `Spec => []SafeWebhooksAreDeep`, under every contingency.
- `PollerIsRight`: `Spec => []PollerAnnouncesCanonical`, when no RPC call fails
  (`"rpc" \notin Contingencies`): an event whose hash could not be fetched is
  taken to be canonical by the code.
- `ReorgIsReal`: `Spec => []ReorgedWebhookIsOffChain`, under every contingency.

What a task, a row, a snapshot or a poll cycle remembers is old. `FinalityInv`
says in which direction it can be wrong: heads and the versions of a block only
grow, so a remembered depth is never more than the real one, and a hash that a
cycle fetched after the head and the snapshot is, at the chain's depth, still the
canonical one. That last step uses `RequiredCoversReorgs`: the depth the code
waits for is at least the depth a reorg can reach.

And about the events that Goldsky recorded directly:

- `ForwardCorrect`: `Spec => []ForwardInv`, for any number of pollers.
- `VerdictsHold`: `Spec => []VerdictsAreTrue /\ VerdictsStand`, for any number of
  pollers, when no RPC call fails.
- `StatusOrder`: `Spec => DirectEventsMoveForward`, an action property, for one
  poller (`OnePoller`).

All writers update by id alone, so what a row says rests on who can write it.
Promotions and sweepers only reach events that the facilitator announced
(`NamedAreFacilitated` and its companions), so the others are the pollers'. A
poller writes finalized only after its hash matched at the required depth, and
reorged only after a mismatch; both are lasting facts by `FinalityInv`, and
they exclude each other. So whatever the order of the writes of several pollers,
none contradicts what another found; only confirmed, which claims nothing, may
come late. For one poller that is excluded as well: its snapshot is in step with
the row (`SnapshotsAreInStep`, part of `ForwardInv`).

### Bus and pool

`EventBusProofs`:

- `BusTypeCorrect`: `Spec => []TypeOK`.
- `AtLeastOnce`: `Spec => []BusInv`.
- `NoEarlyDeadLetter`: `Spec => []DeadLettersAreExhausted`, under every contingency.
- `OnlyAnsweredLeaves`: `Spec => [][LeavesAnswered]_vars`, an action property: what
  stops being outstanding was processed, dead-lettered, trimmed or lost.
- `UnresolvedStaysInReach`: `Spec => []UnresolvedIsInReach`: a queued log that is not
  resolved is in the stream, ahead of the group or pending in a group that exists.
- `NoLetterIsPassedOver`: `Spec => []NonePassedOver`: what is behind the `_last_id` of
  a DLQ consumer and still in the stream has been reported.

`QueuedIsAnsweredFor` needs three more facts to be inductive: what a worker is
about to acknowledge is done or dead (`AcksAreEarned`, for `Ack`), a pending
entry has its message or it was lost (`PendingIsKept`, for the entries that
`Claim` drops), and the group's position is 0 whenever the group does not exist
and never beyond the newest id (`PositionIsSound`, for `Consume` and `Publish`).
`DeadLettersAreExhausted` needs that no replica counts more failures than there
were (`CountsAreReal`). `NonePassedOver` needs that an XREAD leaves no gap
(`ReadsHaveNoGap`): an entry between the position and one that was fetched is itself
fetched, or gone. That an XREAD takes the first `DlqBatch` entries is what gives it,
and it survives what happens while the batch is handled, appended entries and the
trims of the other consumers. An entry that is trimmed before anyone read it is
reported by nobody; the theorem, like the liveness property, leaves it out.

`StreamPoolProofs`: `PoolCorrect`, `PoolTypes` and `StreamsAreDivided`
(`Spec => []PoolPartition`). The round robin of `start` and the least loaded worker
of `add_stream` divide the streams; the invariant adds that what a discovery still
has in hand is not known to the pool, although each `add_stream` is a step of its
own. `ReadersStay` (`Spec => [][ReadersAreKept]_vars`): until the process ends, a stream
stays with the worker it was given to. `CacheAddsNothing` (`Spec => []CacheIsIndexed`): a
valid cache holds what the workers' index holds, which is why the model has no action
for a refresh that is answered from the cache.

### Pulse

`TriggerPathProofs`: `PathCorrect`, `PathTypes`, `OneOwner`
(`Spec => []ClaimHasOneOwner`), `AtMostOnce` (`Spec => []ToldAtMostOnce`),
`SaidIsTrue` (`Spec => []SaidIsDeep`). `PathInv` splits ownership into its
directions (a claim that has not ended is held, what is held has not ended, by one
task, and a stranded pair was not decided on), and adds that a call holds nothing it has told, except the pair whose rows
it is about to write, that a pair without a claim was never told, and that what a
call knows of the depth was true when it was read and is enough for the pair it
speaks of. Assumed: every log has a block, every trigger an endpoint, and the
depths are positive.

Two more follow from `PathInv`. `EndIsFinal` (`Spec => [][EndedIsClosed]_vars`): once a
claim has ended, a stranded one too, no step changes its end, says anything about the
pair or writes a row for it; every such step is by a task that holds the pair, or claims it anew, and an
ended pair is neither held nor free. `CallsNeverStick` (`Spec => []CallsGoOn`): a call that
claims has a pair to claim, and a call that decides has one to decide on, so its next
step is never ruled out.

### Webhooks

`WebhookDeliveryProofs`: `DeliveryCorrect`, `DeliveryTypes`, `BreakerIsSound`
(`Spec => []BreakerAgrees`), `RowsHoldTheMessages` (`Spec => []MessagesAreAccounted`). The last rests on the order
of the ids: they are messages of the dispatch in the order of its endpoints, the
i-th not before the i-th endpoint and with room for the ids after it
(`IdsAreInOrder`). So when there are as many ids as endpoints each is in its place,
and zipping them with the endpoints puts every id into exactly one row.

`NothingToRetry` is the run `RetryRoute` for every instance: in no reachable state
does a row meet `RetryAccepts`. `HandlersNeverStick` (`Spec => []HandlersGoOn`): a
handler in the middle of a turn has a delivery to judge or a batch to send, and only
deliveries whose dispatch is over. No bound on resends is proved, as there is none.

### Gateway

`McpGatewayProofs`:

- `GatewayCorrect`: `Spec => []GatewayInv`.
- `GatewayTypes`, `BudgetIsConserved`, `QuotasAreBounded`, `ProofsAreExclusive`,
  `ProofsStayUsable`, `NoOrphanEndpoints`: the invariants of the run `Gateway`.
- `GatewayImplementsPurses`: `Spec => ServiceIsBacked`, the refinement of `Purses`.

`QuotasAreBounded` is about triggers; the endpoint quota has no bound to prove
(Divergences). None of the six is inductive. `GatewayInv` adds what ties them together: where a
call can be follows from its tier and tool (`CallsAreRouted`); what it was charged
follows from where it is (`CallsAreCovered`: in particular a session call that is
undone has its charge, so that a refund gives back what was taken, and an x402 call
that replies has a settled proof); a charge is on a purse that was opened or is used
up (`ChargesAreReal`); an endpoint row belongs to a registration that can still be
answered, or failed or was refused where the row could not be taken back
(`EndpointsAreKept`); and a
dedup key has one holder (`KeysAreHeld`). A session whose hash is gone may be
refunded into a key of one field: that call's cover is then excepted in
`CallsAreCovered`, and the session's balance is claimed for the hash only.

The budget and the trigger quota are sums over the calls. The lemmas about sums
(`SumTheorems`) are proved by the smallest set that would refute them, since the
library's induction rules cannot be instantiated here. The
assumption is that a wallet has finitely many requests (`CallsAreFinite`).
`PursesDiffer` says that session ids, proofs and nonces are told apart, and
`NoneIsNoRecord` that None is not a record.

The refinement maps `Decrement` on a hash, `Settle` and a consumed nonce to `Back`,
the refund to `Return`, `Reply` to `Answer`, `OpenSession` and a new nonce to `Open`,
`CloseSession` and expiry to `Close`; all else is a stutter. That a charge stays within the
limit is `BudgetConserved` for a session, and for a proof or a nonce that nothing is
charged to it before (`ChargesAreReal`). One fact is added to `GatewayInv`: a call that
is being undone does not end as answered (`Undone`).

### Not proved

The assumptions are the types of the constants and the ones named above, each in
the module that declares the constant. Every invariant and every action property that
a passing run checks is proved. Model-checked only is liveness, which is out of this
prover's reach. For four of these properties the safety part is a theorem, that the awaited
step is never ruled out; for the other two it is not stated:

| Property | Safety part that is proved |
|---|---|
| `QueuedIsResolved` | `UnresolvedStaysInReach` |
| `DeadLettersAreReported` | `NoLetterIsPassedOver` |
| `FailedIsResent` | `HandlersNeverStick` |
| `ClaimsAreSettled` | `EndIsFinal`, `CallsNeverStick` |
| `StreamsAreServed` | - (`StreamsAreDivided` and `ReadersStay` are about its readers) |
| `PoolIndexFollows` | - |

The definitions that only theorems use (`LeavesAnswered`, `UnresolvedIsInReach`,
`NonePassedOver`, `EndedIsClosed`, `CallsGoOn`, `HandlersGoOn`, `ReadersAreKept`,
`CacheIsIndexed`) are in the proof modules, and no run checks them.

## What could follow

All modules of the table are written, with their runs and proofs. Left for later:
abstract specifications, like
`Purses` for the gateway, of the bus (at-least-once) and of the trigger path
(at-most-once), which are stated by invariants and action properties here.

## Not modelled

Decoding (`eth_abi`), signatures (HMAC, SIWE recovery) and the SDK are pure data
or cryptography. Most REST resources are single PostgREST statements. Identity
is a cached read whose outcome is a choice in the models that use it. Plain
ERC-20 Transfers of the payment path, subscription filters, text filter
operators, the counting and dead-lettering of `DLQHandler` (which no state reaches), the endpoint cache and the Redis copy of the trigger index (no caller)
are left out. Metrics, logs, tracing and health probes write nothing that the
modelled parts read.
