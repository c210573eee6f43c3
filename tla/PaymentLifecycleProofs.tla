----------------------- MODULE PaymentLifecycleProofs -----------------------
(***************************************************************************)
(* Theorems about PaymentLifecycle, for every set of tasks, pollers,       *)
(* sweepers, endpoints, authorizations and uuids and every bound.          *)
(***************************************************************************)
EXTENDS PaymentLifecycle, TLAPS

-----------------------------------------------------------------------------
(* What the helpers return *)

\* A task that is not idle carries the fields of BusyTask.
LEMMA BusyIsBusy ==
    ASSUME TypeOK, NEW t \in Tasks, task[t].pc # "idle"
    PROVE  task[t] \in BusyTask
BY DEF TypeOK, IdleTask

\* The fields of a busy task, whoever started it.
LEMMA BusyFields ==
    ASSUME NEW k \in BusyTask
    PROVE  /\ k.auth \in Auths /\ k.eid \in EventIds
           /\ k.block \in Depth /\ k.hash \in StoredHash /\ k.conf \in Conf
BY ChainBounds DEF BusyTask, FacilitatorTask, GoldskyTask, Depth, StoredHash, Conf, Blocks

\* max(0, current_block - block_number) stays within the height of the chain.
LEMMA ConfirmationsType ==
    ASSUME NEW h \in Depth, NEW b \in Depth
    PROVE  Confirmations(h, b) \in Depth
BY ChainBounds DEF Confirmations, Depth

\* check_finality yields a confirmation count or None.
LEMMA ReadConfirmationsType ==
    ASSUME TypeOK, NEW k \in BusyTask
    PROVE  ReadConfirmations(k) \subseteq Conf
<1>1. head \in Depth /\ k.block \in Depth
  BY ChainBounds, BusyFields DEF TypeOK, ChainTypeOK, Depth, Blocks
<1> QED BY <1>1, ConfirmationsType DEF ReadConfirmations, Conf

\* dispatch_event and notify_batch build payloads of the webhook type.
LEMMA WebhooksType ==
    ASSUME NEW e \in EventIds, NEW eps \in SUBSET Endpoints,
           NEW type \in WebhookTypes, NEW block \in Depth,
           NEW hash \in StoredHash, NEW conf,
           NEW by \in {"ingest", "promote", "poller", "sweeper"}
    PROVE  Webhooks(e, eps, type, block, hash, conf, by) \subseteq Webhook
<1>1. \A ep : SafeToExecute(type, PayloadFinalized(ep, conf, by)) \in BOOLEAN
  BY DEF SafeToExecute
<1>2. ASSUME NEW ep \in eps
      PROVE [eid |-> e, ep |-> ep, type |-> type,
             safe |-> SafeToExecute(type, PayloadFinalized(ep, conf, by)),
             block |-> block, hash |-> hash, by |-> by] \in Webhook
  BY <1>1 DEF Webhook
<1> QED BY <1>2 DEF Webhooks

\* get_endpoint_ids answers with endpoints, fall-back included.
LEMMA LinkedEndpointsType ==
    ASSUME TypeOK, NEW e \in EventIds, NEW legacy \in OptEndpoint
    PROVE  \A found \in LinkedEndpoints(e, legacy) : found \subseteq Endpoints
BY DEF TypeOK, LinkedEndpoints, OptEndpoint

\* A policy or a failing send can only take endpoints away.
LEMMA ReachedType ==
    ASSUME NEW S, NEW eps \in SUBSET S
    PROVE  /\ \A r \in Reached(eps) : r \subseteq S
           /\ \A r \in Approved(eps) : r \subseteq S
BY DEF Reached, Approved

\* The row that _record_event inserts.
LEMMA RecordedRowType ==
    ASSUME NEW k \in BusyTask, NEW ep \in OptEndpoint
    PROVE  RecordedRow(k, ep) \in EventRow
<1>1. RecordedStatus(k) \in Status
  BY DEF RecordedStatus, Status
<1>2. IngestType(k) \in WebhookTypes
  BY DEF IngestType, WebhookTypes
<1>3. (IF k.conf = NoConf THEN 0 ELSE k.conf) \in Depth
  BY ChainBounds, BusyFields DEF Conf, Depth, NoConf
<1> QED BY <1>1, <1>2, <1>3, BusyFields DEF RecordedRow, EventRow
-----------------------------------------------------------------------------
(* Type correctness, one lemma per process *)

LEMMA InitType == Init => TypeOK
<1> SUFFICES ASSUME Init PROVE TypeOK
  OBVIOUS
<1>1. ChainTypeOK
  BY ChainBounds DEF Init, ChainInit, ChainTypeOK, Blocks, Hashes
<1>2. nonces \in [Auths -> NonceRow]
  BY DEF Init, NonceRow, NoNonce, Sources
<1>3. row \in [EventIds -> EventRow]
  BY ChainBounds DEF Init, EventRow, NoRow, Status, WebhookTypes, Depth, StoredHash, OptEndpoint
<1>4. poll \in [Pollers -> PollRec]
  BY ChainBounds DEF Init, PollRec, IdlePoll, Depth
<1>5. sweep \in [Sweepers -> SweepRec]
  BY DEF Init, SweepRec, IdleSweep
<1> QED BY <1>1, <1>2, <1>3, <1>4, <1>5 DEF Init, TypeOK, OptEvent

LEMMA ChainType == TypeOK /\ Environment => TypeOK'
<1> SUFFICES ASSUME TypeOK, Environment PROVE ChainTypeOK'
  BY DEF TypeOK, Environment, dbVars, histVars
<1>1. CASE Mine
  BY <1>1, ChainBounds DEF TypeOK, ChainTypeOK, Mine, Blocks
<1>2. CASE \E a \in Auths : Land(a)
  BY <1>2 DEF TypeOK, ChainTypeOK, Land, Log
<1>3. CASE \E n \in Blocks : Reorg(n)
  BY <1>3, ChainBounds DEF TypeOK, ChainTypeOK, Reorg, Blocks, Hashes
<1> QED BY <1>1, <1>2, <1>3 DEF Environment, ChainNext

\* An accepted claim writes well-formed rows, whoever makes it.
LEMMA AcceptType ==
    ASSUME TypeOK, NEW t \in Tasks, NEW a \in Auths, NEW e \in EventIds,
           NEW column \in OptEvent, NEW src \in Sources, NEW busy \in BusyTask,
           Accept(t, a, e, column, src, busy)
    PROVE  TypeOK'
<1>1. Claimed(column, src) \in NonceRow
  BY DEF Claimed, NonceRow, OptEvent
<1>2. nonces' \in [Auths -> NonceRow]
  BY <1>1 DEF TypeOK, Accept
<1>3. task' \in [Tasks -> BusyTask \cup {IdleTask}]
  BY DEF TypeOK, Accept
<1>4. owner' \in [EventIds -> Auths \cup {NULL}] /\ holder' \in [Auths -> OptEvent]
  BY DEF TypeOK, Accept, OptEvent
<1>5. ChainTypeOK'
  BY DEF TypeOK, Accept, ChainTypeOK, chainVars
<1> QED BY <1>2, <1>3, <1>4, <1>5 DEF TypeOK, Accept

LEMMA ReturnType ==
    ASSUME TypeOK, NEW t \in Tasks, task[t].pc # "idle", Return(t)
    PROVE  task' \in [Tasks -> BusyTask \cup {IdleTask}] /\ acked' \subseteq Log
<1>1. task[t] \in BusyTask
  BY BusyIsBusy
<1>2. task[t].source = "goldsky" => LogOf(task[t]) \in Log
  BY <1>1 DEF BusyTask, FacilitatorTask, GoldskyTask, LogOf, Log
<1> QED BY <1>2 DEF TypeOK, Return

\* The steps of an ingestion task.
LEMMA TaskType ==
    ASSUME TypeOK, NEW t \in Tasks, TaskNext(t)
    PROVE  TypeOK'
<1> USE DEF ChainTypeOK, chainVars, dbVars, histVars
<1>b. task[t].pc # "idle" => task[t] \in BusyTask
  BY BusyIsBusy
<1>1. ASSUME NEW a \in Auths, FacilitatorClaim(t, a) PROVE TypeOK'
  <2>1. PICK e \in Fresh :
          Accept(t, a, e, e, "facilitator",
               [pc |-> "record", source |-> "facilitator", auth |-> a, eid |-> e,
                block |-> 0, hash |-> NoHash, conf |-> NoConf])
    BY <1>1 DEF FacilitatorClaim
  <2>2. e \in EventIds
    BY DEF Fresh
  <2>3. [pc |-> "record", source |-> "facilitator", auth |-> a, eid |-> e,
         block |-> 0, hash |-> NoHash, conf |-> NoConf] \in BusyTask
    BY <2>2 DEF BusyTask, FacilitatorTask
  <2> QED BY <2>1, <2>2, <2>3, AcceptType DEF OptEvent, Sources
<1>2. ASSUME NEW m \in Deliverable, GoldskyClaim(t, m) PROVE TypeOK'
  <2>1. PICK e \in Fresh :
          Accept(t, m.auth, e, NULL, "goldsky",
               [pc |-> "finality", source |-> "goldsky", auth |-> m.auth, eid |-> e,
                block |-> m.block, hash |-> m.hash, conf |-> NoConf])
    BY <1>2 DEF GoldskyClaim
  <2>2. e \in EventIds /\ m \in Log
    BY DEF Fresh, Deliverable, TypeOK
  <2>3. [pc |-> "finality", source |-> "goldsky", auth |-> m.auth, eid |-> e,
         block |-> m.block, hash |-> m.hash, conf |-> NoConf] \in BusyTask
    BY <2>2 DEF BusyTask, GoldskyTask, Log, Conf
  <2>4. m.auth \in Auths
    BY <2>2 DEF Log
  <2> QED BY <2>1, <2>2, <2>3, <2>4, AcceptType DEF OptEvent, Sources
<1>3. ASSUME NEW m \in Deliverable, GoldskyCorrelate(t, m) PROVE TypeOK'
  <2>1. m \in Log
    BY DEF Deliverable, TypeOK
  <2>2. nonces[m.auth].event \in EventIds
    BY <1>3, <2>1 DEF GoldskyCorrelate, Correlates, TypeOK, NonceRow, Log
  <2>3. [pc |-> "promote", source |-> "goldsky", auth |-> m.auth,
         eid |-> nonces[m.auth].event, block |-> m.block,
         hash |-> m.hash, conf |-> NoConf] \in BusyTask
    BY <2>1, <2>2 DEF BusyTask, GoldskyTask, Log, Conf
  <2> QED BY <1>3, <2>3 DEF GoldskyCorrelate, TypeOK
<1>4. CASE Finality(t)
  <2>1. PICK conf \in ReadConfirmations(task[t]) :
          task' = [task EXCEPT ![t].pc = "record", ![t].conf = conf]
    BY <1>4 DEF Finality
  <2>2. conf \in Conf /\ task[t] \in GoldskyTask
    BY <1>b, <1>4, ReadConfirmationsType DEF Finality, BusyTask, FacilitatorTask
  <2>3. [task[t] EXCEPT !.pc = "record", !.conf = conf] \in BusyTask
    BY <2>2 DEF BusyTask, GoldskyTask
  <2> QED BY <1>4, <2>1, <2>3 DEF Finality, TypeOK
<1>5. CASE Record(t)
  <2>1. PICK ep \in Endpoints :
          row' = [row EXCEPT ![task[t].eid] = RecordedRow(task[t], ep)]
    BY <1>5 DEF Record
  <2>2. task[t] \in BusyTask /\ task[t].eid \in EventIds
    BY <1>b, <1>5, BusyFields DEF Record
  <2>3. row' \in [EventIds -> EventRow]
    BY <2>1, <2>2, RecordedRowType DEF TypeOK, OptEndpoint
  <2>4. [task[t] EXCEPT !.pc = "link"] \in BusyTask
    BY <2>2 DEF BusyTask, FacilitatorTask, GoldskyTask
  <2> QED BY <1>5, <2>3, <2>4 DEF Record, TypeOK
<1>6. CASE RecordUnmatched(t)
  <2>1. task[t] \in BusyTask /\ task[t].eid \in EventIds
    BY <1>b, <1>6, BusyFields DEF RecordUnmatched
  <2>2. row' \in [EventIds -> EventRow]
    BY <1>6, <2>1, RecordedRowType DEF RecordUnmatched, TypeOK, OptEndpoint
  <2> QED BY <1>6, <2>2, ReturnType DEF RecordUnmatched, TypeOK
<1>7. CASE RecordFailed(t)
  <2>1. [task[t] EXCEPT !.pc = "dispatch"] \in BusyTask
    BY <1>b, <1>7 DEF RecordFailed, BusyTask, FacilitatorTask, GoldskyTask
  <2> QED BY <1>7, <2>1 DEF RecordFailed, TypeOK
<1>8. CASE Link(t)
  <2>1. PICK eps \in {Endpoints} \cup (IF May("db") THEN {{}} ELSE {}) :
          linked' = [linked EXCEPT ![task[t].eid] = eps]
    BY <1>8 DEF Link
  <2>2. linked' \in [EventIds -> SUBSET Endpoints]
    BY <2>1 DEF TypeOK
  <2>3. [task[t] EXCEPT !.pc = "dispatch"] \in BusyTask
    BY <1>b, <1>8 DEF Link, BusyTask, FacilitatorTask, GoldskyTask
  <2> QED BY <1>8, <2>2, <2>3 DEF Link, TypeOK
<1>9. CASE Dispatch(t)
  <2>p. PICK approved \in Approved(Endpoints) :
          \E eps \in Reached(ReadyEndpoints(approved, task[t].conf)) :
          out' = Webhooks(task[t].eid, eps, IngestType(task[t]), task[t].block,
                          task[t].hash, task[t].conf, "ingest")
    BY <1>9 DEF Dispatch
  <2>1. PICK eps \in Reached(ReadyEndpoints(approved, task[t].conf)) :
          out' = Webhooks(task[t].eid, eps, IngestType(task[t]), task[t].block,
                          task[t].hash, task[t].conf, "ingest")
    BY <2>p
  <2>2. approved \subseteq Endpoints
    BY ReachedType
  <2>3. ReadyEndpoints(approved, task[t].conf) \subseteq Endpoints
    BY <2>2 DEF ReadyEndpoints
  <2>4. eps \subseteq Endpoints
    BY <2>3, ReachedType
  <2>5. task[t] \in BusyTask
    BY <1>b, <1>9 DEF Dispatch
  <2>6. IngestType(task[t]) \in WebhookTypes
    BY DEF IngestType, WebhookTypes
  <2>7. out' \subseteq Webhook
    BY <2>1, <2>4, <2>5, <2>6, BusyFields, WebhooksType
  <2> QED BY <1>9, <2>7, ReturnType DEF Dispatch, TypeOK
<1>10. CASE Promote(t)
  <2>1. task[t] \in BusyTask /\ task[t].eid \in EventIds
    BY <1>b, <1>10, BusyFields DEF Promote
  <2>2. [row[task[t].eid] EXCEPT !.status = "confirmed", !.block = task[t].block,
                                 !.hash = task[t].hash] \in EventRow
    <3>1. row[task[t].eid] \in EventRow
      BY <2>1 DEF TypeOK
    <3>2. task[t].block \in Depth /\ task[t].hash \in StoredHash
      BY <2>1, BusyFields
    <3> QED BY <3>1, <3>2 DEF EventRow, Status
  <2>3. row' \in [EventIds -> EventRow]
    BY <1>10, <2>1, <2>2 DEF Promote, TypeOK
  <2>4. [task[t] EXCEPT !.pc = "promote_finality"] \in BusyTask
    BY <1>10, <2>1 DEF Promote, BusyTask, FacilitatorTask, GoldskyTask
  <2> QED BY <1>10, <2>3, <2>4 DEF Promote, TypeOK
<1>11. CASE PromoteNotFound(t)
  BY <1>11, ReturnType DEF PromoteNotFound, TypeOK
<1>12. CASE PromoteFinality(t)
  <2>1. PICK conf \in ReadConfirmations(task[t]) :
          task' = [task EXCEPT ![t].pc = "promote_dispatch", ![t].conf = conf]
    BY <1>12 DEF PromoteFinality
  <2>2. conf \in Conf /\ task[t] \in GoldskyTask
    BY <1>b, <1>12, ReadConfirmationsType DEF PromoteFinality, BusyTask, FacilitatorTask
  <2>3. [task[t] EXCEPT !.pc = "promote_dispatch", !.conf = conf] \in BusyTask
    BY <2>2 DEF BusyTask, GoldskyTask
  <2> QED BY <1>12, <2>1, <2>3 DEF PromoteFinality, TypeOK
<1>13. CASE PromoteDispatch(t)
  <2>p. PICK found \in LinkedEndpoints(task[t].eid, row[task[t].eid].endpoint) :
          \E approved \in Approved(found) : \E eps \in Reached(approved) :
          out' = Webhooks(task[t].eid, eps, PromotedType(task[t]), task[t].block,
                          task[t].hash, task[t].conf, "promote")
    BY <1>13 DEF PromoteDispatch
  <2>q. PICK approved \in Approved(found) : \E eps \in Reached(approved) :
          out' = Webhooks(task[t].eid, eps, PromotedType(task[t]), task[t].block,
                          task[t].hash, task[t].conf, "promote")
    BY <2>p
  <2>1. PICK eps \in Reached(approved) :
          out' = Webhooks(task[t].eid, eps, PromotedType(task[t]), task[t].block,
                          task[t].hash, task[t].conf, "promote")
    BY <2>q
  <2>2. task[t] \in BusyTask /\ task[t].eid \in EventIds
    BY <1>b, <1>13, BusyFields DEF PromoteDispatch
  <2>3. row[task[t].eid].endpoint \in OptEndpoint
    BY <2>2 DEF TypeOK, EventRow
  <2>4. found \subseteq Endpoints
    BY <2>2, <2>3, LinkedEndpointsType
  <2>5. eps \subseteq Endpoints
    BY <2>4, ReachedType
  <2>6. PromotedType(task[t]) \in WebhookTypes
    BY DEF PromotedType, WebhookTypes
  <2>7. out' \subseteq Webhook
    BY <2>1, <2>2, <2>5, <2>6, BusyFields, WebhooksType
  <2> QED BY <1>13, <2>7, ReturnType DEF PromoteDispatch, TypeOK
<1>14. CASE TaskError(t)
  BY <1>14, ReturnType DEF TaskError, TypeOK
<1>15. CASE TaskCrash(t)
  BY <1>15 DEF TaskCrash, TypeOK
<1> QED
  BY <1>1, <1>2, <1>3, <1>4, <1>5, <1>6, <1>7, <1>8, <1>9, <1>10, <1>11,
     <1>12, <1>13, <1>14, <1>15 DEF TaskNext

\* What a poller remembers of a row.
LEMMA SnapType ==
    ASSUME TypeOK, NEW e \in EventIds
    PROVE  Snap(e) \in Snapshot
BY DEF TypeOK, EventRow, Snapshot, Snap

LEMMA SnapshotFields ==
    ASSUME NEW s \in Snapshot
    PROVE  /\ s.eid \in EventIds /\ s.block \in Depth /\ s.hash \in StoredHash
           /\ s.endpoint \in OptEndpoint /\ s.depth \in Depth
BY DEF Snapshot

\* Setting one column of one row.
LEMMA StatusWriteType ==
    ASSUME TypeOK, NEW e \in EventIds, NEW st \in Status,
           row' = [row EXCEPT ![e].status = st]
    PROVE  row' \in [EventIds -> EventRow]
<1>1. [row[e] EXCEPT !.status = st] \in EventRow
  BY DEF TypeOK, EventRow
<1> QED BY <1>1 DEF TypeOK

\* The poller's bookkeeping of the event it takes up and puts down.
LEMMA TakeType ==
    ASSUME TypeOK, NEW p \in Pollers, NEW s \in Snapshot,
           NEW pc \in {"transition", "invalidate"}, Take(p, s, pc)
    PROVE  poll' \in [Pollers -> PollRec]
<1>1. [poll[p] EXCEPT !.pc = pc, !.cur = {s}, !.todo = poll[p].todo \ {s}] \in PollRec
  BY DEF TypeOK, PollRec
<1> QED BY <1>1 DEF TypeOK, Take

LEMMA ResumeType ==
    ASSUME TypeOK, NEW p \in Pollers, Resume(p)
    PROVE  poll' \in [Pollers -> PollRec]
<1>1. [poll[p] EXCEPT !.pc = "events", !.cur = {}] \in PollRec
  BY DEF TypeOK, PollRec
<1> QED BY <1>1 DEF TypeOK, Resume

LEMMA PollDoneType ==
    ASSUME TypeOK, NEW p \in Pollers, PollDone(p)
    PROVE  TypeOK'
<1>1. IdlePoll \in PollRec
  BY ChainBounds DEF PollRec, IdlePoll, Depth
<1> QED
  BY <1>1 DEF TypeOK, PollDone, ChainTypeOK, chainVars, dbVars, histVars

\* The steps of a finality poller.
LEMMA PollType ==
    ASSUME TypeOK, NEW p \in Pollers, PollNext(p)
    PROVE  TypeOK'
<1> USE DEF ChainTypeOK, chainVars, dbVars, histVars
<1>n. NextEvents(p) \subseteq Snapshot /\ poll[p].cur \subseteq Snapshot
  BY DEF NextEvents, TypeOK, PollRec
<1>1. CASE PollStart(p)
  <2>1. [poll[p] EXCEPT !.pc = "fetch"] \in PollRec
    BY DEF TypeOK, PollRec
  <2> QED BY <1>1, <2>1 DEF PollStart, TypeOK
<1>2. CASE PollFetch(p)
  <2>1. PICK S \in SUBSET Pollable :
          poll' = [poll EXCEPT ![p].pc = "head", ![p].todo = {Snap(e) : e \in S}]
    BY <1>2 DEF PollFetch
  <2>2. {Snap(e) : e \in S} \subseteq Snapshot
    BY SnapType DEF Pollable
  <2>3. [poll[p] EXCEPT !.pc = "head", !.todo = {Snap(e) : e \in S}] \in PollRec
    BY <2>2 DEF TypeOK, PollRec
  <2> QED BY <1>2, <2>1, <2>3 DEF PollFetch, TypeOK
<1>3. CASE PollHead(p)
  <2>1. head \in Depth
    BY ChainBounds DEF TypeOK, Depth, Blocks
  <2>2. [poll[p] EXCEPT !.pc = "events", !.head = head] \in PollRec
    BY <2>1 DEF TypeOK, PollRec
  <2> QED BY <1>3, <2>2 DEF PollHead, TypeOK
<1>4. CASE PollHash(p)
  <2>1. PICK b \in UnreadBlocks(p), h \in {NoHash} \cup Hashes :
          poll' = [poll EXCEPT ![p].hashes[b] = h]
    BY <1>4 DEF PollHash
  <2>2. [poll[p].hashes EXCEPT ![b] = h] \in [Blocks -> StoredHash \cup {Unread}]
    BY DEF TypeOK, PollRec, StoredHash
  <2>3. [poll[p] EXCEPT !.hashes = [poll[p].hashes EXCEPT ![b] = h]] \in PollRec
    BY <2>2 DEF TypeOK, PollRec
  <2> QED BY <1>4, <2>1, <2>3 DEF PollHash, TypeOK
<1>5. CASE PollReorg(p)
  <2>1. PICK s \in NextEvents(p) :
          /\ row' = [row EXCEPT ![s.eid].status = "reorged"]
          /\ reorgedEver' = reorgedEver \cup {s.eid}
          /\ Take(p, s, "invalidate")
    BY <1>5 DEF PollReorg
  <2>2. s \in Snapshot /\ s.eid \in EventIds
    BY <1>n, SnapshotFields
  <2>3. row' \in [EventIds -> EventRow]
    BY <2>1, <2>2, StatusWriteType DEF Status
  <2>4. poll' \in [Pollers -> PollRec]
    BY <2>1, <2>2, TakeType
  <2> QED BY <1>5, <2>1, <2>2, <2>3, <2>4 DEF PollReorg, TypeOK
<1>6. CASE PollDepth(p)
  <2> DEFINE conf(s) == Confirmations(poll[p].head, s.block)
  <2>1. PICK s \in NextEvents(p) :
          /\ row' = [row EXCEPT ![s.eid].depth = conf(s)]
          /\ \/ Take(p, s, "transition")
             \/ poll' = [poll EXCEPT ![p].todo = @ \ {s}]
    BY <1>6 DEF PollDepth
  <2>2. s \in Snapshot /\ s.eid \in EventIds /\ s.block \in Depth
    BY <1>n, SnapshotFields
  <2>3. conf(s) \in Depth
    BY <2>2, ConfirmationsType DEF TypeOK, PollRec
  <2> HIDE DEF conf
  <2>4. [row[s.eid] EXCEPT !.depth = conf(s)] \in EventRow
    BY <2>2, <2>3 DEF TypeOK, EventRow
  <2>5. row' \in [EventIds -> EventRow]
    BY <2>1, <2>2, <2>4 DEF TypeOK
  <2>6. [poll[p] EXCEPT !.todo = poll[p].todo \ {s}] \in PollRec
    BY DEF TypeOK, PollRec
  <2>7. poll' \in [Pollers -> PollRec]
    BY <2>1, <2>2, <2>6, TakeType DEF TypeOK
  <2> QED BY <1>6, <2>5, <2>7 DEF PollDepth, TypeOK
<1>7. CASE PollSkip(p)
  <2>1. PICK s \in NextEvents(p) : poll' = [poll EXCEPT ![p].todo = @ \ {s}]
    BY <1>7 DEF PollSkip
  <2>2. [poll[p] EXCEPT !.todo = poll[p].todo \ {s}] \in PollRec
    BY DEF TypeOK, PollRec
  <2> QED BY <1>7, <2>1, <2>2 DEF PollSkip, TypeOK
<1>8. CASE PollTransition(p)
  <2>1. PICK s \in poll[p].cur : row' = [row EXCEPT ![s.eid].status = Successor(s)]
    BY <1>8 DEF PollTransition
  <2>2. Successor(s) \in Status /\ s.eid \in EventIds
    BY <1>n, SnapshotFields DEF Successor, Status
  <2>3. row' \in [EventIds -> EventRow]
    BY <2>1, <2>2, StatusWriteType
  <2>4. [poll[p] EXCEPT !.pc = "dispatch"] \in PollRec
    BY DEF TypeOK, PollRec
  <2> QED BY <1>8, <2>3, <2>4 DEF PollTransition, TypeOK
<1>9. CASE PollTransitionFailed(p)
  BY <1>9, ResumeType DEF PollTransitionFailed, TypeOK
<1>10. CASE PollDispatch(p)
  <2>1. PICK s \in poll[p].cur, eps \in SUBSET Endpoints :
          out' = Webhooks(s.eid, eps, SuccessorType(s), s.block, s.hash, s.depth,
                          "poller")
    <3>1. ASSUME NEW s \in poll[p].cur, NEW found \in LinkedEndpoints(s.eid, s.endpoint),
                 NEW eps \in Reached(found)
          PROVE  eps \subseteq Endpoints
      BY <1>n, SnapshotFields, LinkedEndpointsType, ReachedType
    <3> QED BY <1>10, <3>1 DEF PollDispatch
  <2>2. s \in Snapshot /\ SuccessorType(s) \in WebhookTypes
    BY <1>n DEF SuccessorType, WebhookTypes
  <2>3. out' \subseteq Webhook
    BY <2>1, <2>2, SnapshotFields, WebhooksType
  <2> QED BY <1>10, <2>3, ResumeType DEF PollDispatch, TypeOK
<1>11. CASE PollInvalidate(p)
  <2>1. nonces' \in [Auths -> NonceRow]
    BY <1>11 DEF PollInvalidate, InvalidateByEventId, TypeOK, NonceRow
  <2>2. [poll[p] EXCEPT !.pc = "reorg_dispatch"] \in PollRec
    BY DEF TypeOK, PollRec
  <2> QED BY <1>11, <2>1, <2>2 DEF PollInvalidate, TypeOK
<1>12. CASE PollReorgDispatch(p)
  <2>1. PICK s \in poll[p].cur, eps \in SUBSET Endpoints :
          out' = Webhooks(s.eid, eps, "payment.reorged", s.block, s.hash, NoConf,
                          "poller")
    <3>1. ASSUME NEW s \in poll[p].cur, NEW found \in LinkedEndpoints(s.eid, s.endpoint),
                 NEW eps \in Reached(found)
          PROVE  eps \subseteq Endpoints
      BY <1>n, SnapshotFields, LinkedEndpointsType, ReachedType
    <3> QED BY <1>12, <3>1 DEF PollReorgDispatch
  <2>2. s \in Snapshot
    BY <1>n
  <2>3. out' \subseteq Webhook
    BY <2>1, <2>2, SnapshotFields, WebhooksType DEF WebhookTypes
  <2> QED BY <1>12, <2>3, ResumeType DEF PollReorgDispatch, TypeOK
<1>13. CASE PollEnd(p)
  BY <1>13, PollDoneType DEF PollEnd
<1>14. CASE PollCrash(p)
  BY <1>14, PollDoneType DEF PollCrash
<1> QED
  BY <1>1, <1>2, <1>3, <1>4, <1>5, <1>6, <1>7, <1>8, <1>9, <1>10, <1>11,
     <1>12, <1>13, <1>14 DEF PollNext

\* The steps of a TTL sweeper.
LEMMA SweepType ==
    ASSUME TypeOK, NEW w \in Sweepers, SweepNext(w)
    PROVE  TypeOK'
<1> USE DEF ChainTypeOK, chainVars, dbVars, histVars
<1>n. sweep[w].todo \subseteq EventIds /\ sweep[w].cur \subseteq EventIds
  BY DEF TypeOK, SweepRec
<1>1. CASE SweepFetch(w)
  <2>1. PICK S \in SUBSET EventIds : sweep' = [sweep EXCEPT ![w].todo = S]
    BY <1>1 DEF SweepFetch
  <2>2. [sweep[w] EXCEPT !.todo = S] \in SweepRec
    BY DEF TypeOK, SweepRec
  <2> QED BY <1>1, <2>1, <2>2 DEF SweepFetch, TypeOK
<1>2. CASE SweepExpire(w)
  <2>1. PICK e \in sweep[w].todo :
          /\ row' = [row EXCEPT ![e].status = "payment.failed"]
          /\ sweep' = [sweep EXCEPT ![w] = [todo |-> @.todo \ {e}, cur |-> {e}]]
    BY <1>2 DEF SweepExpire
  <2>2. row' \in [EventIds -> EventRow]
    BY <1>n, <2>1, StatusWriteType DEF Status
  <2>3. [todo |-> sweep[w].todo \ {e}, cur |-> {e}] \in SweepRec
    BY <1>n DEF SweepRec
  <2> QED BY <1>2, <2>1, <2>2, <2>3 DEF SweepExpire, TypeOK
<1>3. CASE SweepSkip(w)
  <2>1. PICK e \in sweep[w].todo : sweep' = [sweep EXCEPT ![w].todo = @ \ {e}]
    BY <1>3 DEF SweepSkip
  <2>2. [sweep[w] EXCEPT !.todo = sweep[w].todo \ {e}] \in SweepRec
    BY DEF TypeOK, SweepRec
  <2> QED BY <1>3, <2>1, <2>2 DEF SweepSkip, TypeOK
<1>4. CASE SweepDispatch(w)
  <2>1. PICK e \in sweep[w].cur, eps \in SUBSET Endpoints :
          out' = Webhooks(e, eps, "payment.failed", 0, NoHash, NoConf, "sweeper")
    <3>1. ASSUME NEW e \in sweep[w].cur, NEW found \in LinkedEndpoints(e, NULL),
                 NEW eps \in Reached(found)
          PROVE  eps \subseteq Endpoints
      BY <1>n, LinkedEndpointsType, ReachedType DEF OptEndpoint
    <3> QED BY <1>4, <3>1 DEF SweepDispatch
  <2>2. 0 \in Depth /\ NoHash \in StoredHash
    BY ChainBounds DEF Depth, StoredHash
  <2>3. out' \subseteq Webhook
    BY <1>n, <2>1, <2>2, WebhooksType DEF WebhookTypes
  <2>4. [sweep[w] EXCEPT !.cur = {}] \in SweepRec
    BY DEF TypeOK, SweepRec
  <2> QED BY <1>4, <2>3, <2>4 DEF SweepDispatch, TypeOK
<1>5. CASE SweepCrash(w)
  <2>1. IdleSweep \in SweepRec
    BY DEF IdleSweep, SweepRec
  <2> QED BY <1>5, <2>1 DEF SweepCrash, TypeOK
<1> QED BY <1>1, <1>2, <1>3, <1>4, <1>5 DEF SweepNext

LEMMA NextType == TypeOK /\ [Next]_vars => TypeOK'
<1> SUFFICES ASSUME TypeOK, [Next]_vars PROVE TypeOK'
  OBVIOUS
<1> USE DEF ChainTypeOK, chainVars, dbVars, histVars
<1>1. CASE Environment
  BY <1>1, ChainType
<1>2. ASSUME NEW m \in Deliverable, GoldskyAnswered(m) PROVE TypeOK'
  <2>1. m \in Log
    BY DEF Deliverable, TypeOK
  <2> QED BY <1>2, <2>1 DEF GoldskyAnswered, TypeOK
<1>3. ASSUME NEW t \in Tasks, TaskNext(t) PROVE TypeOK'
  BY <1>3, TaskType
<1>4. ASSUME NEW p \in Pollers, PollNext(p) PROVE TypeOK'
  BY <1>4, PollType
<1>5. ASSUME NEW w \in Sweepers, SweepNext(w) PROVE TypeOK'
  BY <1>5, SweepType
<1>6. ASSUME NEW a \in Auths, Archive(a) PROVE TypeOK'
  <2>1. NoNonce \in NonceRow
    BY DEF NoNonce, NonceRow, Sources
  <2> QED BY <1>6, <2>1 DEF Archive, TypeOK
<1>7. CASE UNCHANGED vars
  BY <1>7 DEF TypeOK, vars
<1> QED BY <1>1, <1>2, <1>3, <1>4, <1>5, <1>6, <1>7 DEF Next

\* Every column, snapshot and webhook of the pipeline keeps its type, for any
\* number of tasks, pollers, sweepers, endpoints and events: in particular
\* finality_depth is never NULL and a stored block number never exceeds the
\* height of the chain.
THEOREM TypeCorrect == Spec => []TypeOK
<1>1. Init => TypeOK
  BY InitType
<1>2. TypeOK /\ [Next]_vars => TypeOK'
  BY NextType
<1> QED BY <1>1, <1>2, PTL DEF Spec
-----------------------------------------------------------------------------
(* Nonce uniqueness, one lemma per process *)

\* What a step leaves of DedupInv when it touches neither the nonces table nor
\* the history of claims.
Ledger == ClaimsAreHeld /\ ReleasedIsReorged /\ NamedIsHolder /\ AbsentIsUnclaimed /\ HolderIsOwned

LEMMA LedgerFrame ==
    ASSUME Ledger, UNCHANGED <<nonces, owner, holder, reorgedEver>>
    PROVE  Ledger'
BY DEF Ledger, ClaimsAreHeld, ReleasedIsReorged, NamedIsHolder, AbsentIsUnclaimed,
       HolderIsOwned

\* An accepted claim of a fresh uuid e for a nonce that is new.
LEMMA AcceptDedup ==
    ASSUME TypeOK, DedupInv, NEW t \in Tasks, NEW a \in Auths, NEW e \in Fresh,
           NEW column \in {e, NULL}, NEW src \in Sources, NEW busy \in BusyTask,
           busy.eid = e, IsNew(nonces[a]), Accept(t, a, e, column, src, busy)
    PROVE  DedupInv'
<1> USE DEF DedupInv
<1>1. e \in EventIds /\ owner[e] = NULL /\ a # NULL
  BY NullIsNoAuth DEF Fresh
<1>2. /\ \A f \in EventIds : owner'[f] = IF f = e THEN a ELSE owner[f]
      /\ \A b \in Auths : holder'[b] = IF b = a THEN e ELSE holder[b]
      /\ \A b \in Auths : nonces'[b] = IF b = a THEN Claimed(column, src) ELSE nonces[b]
      /\ reorgedEver' = reorgedEver
  BY <1>1 DEF TypeOK, Accept
<1>3. \A f \in EventIds : owner[f] = a => f \in reorgedEver
  BY <1>1 DEF IsNew, AbsentIsUnclaimed, ReleasedIsReorged, ClaimsAreHeld, TypeOK
<1>4. ClaimsAreHeld'
  BY <1>1, <1>2, <1>3 DEF ClaimsAreHeld, TypeOK
<1>5. ReleasedIsReorged'
  BY <1>2 DEF ReleasedIsReorged, Claimed
<1>6. NamedIsHolder'
  BY <1>2 DEF NamedIsHolder, Claimed
<1>7. InvalidatingIsReorged'
  BY DEF InvalidatingIsReorged, Accept
<1>8. AbsentIsUnclaimed'
  BY <1>1, <1>2 DEF AbsentIsUnclaimed, Claimed
<1>9. HolderIsOwned'
  <2> SUFFICES ASSUME NEW b \in Auths, holder'[b] # NULL PROVE owner'[holder'[b]] = b
    BY DEF HolderIsOwned
  <2>1. holder'[b] \in EventIds
    BY <1>1, <1>2 DEF TypeOK, OptEvent
  <2>2. CASE b = a
    BY <1>1, <1>2, <2>2
  <2>3. CASE b # a
    <3>1. holder'[b] = holder[b] /\ owner[holder[b]] = b
      BY <1>2, <2>3 DEF HolderIsOwned
    <3>2. holder[b] # e
      BY <1>1, <3>1, NullIsNoAuth
    <3> QED BY <1>2, <2>1, <3>1, <3>2
  <2> QED BY <2>2, <2>3
<1>10. \A f \in EventIds : owner[f] # NULL => owner'[f] # NULL
  BY <1>1, <1>2
<1>11. RowsHaveOwners'
  BY <1>10 DEF RowsHaveOwners, Accept
<1>12. TasksHaveOwners'
  <2> SUFFICES ASSUME NEW u \in Tasks, task'[u].pc # "idle" PROVE owner'[task'[u].eid] # NULL
    BY DEF TasksHaveOwners
  <2>1. CASE u = t
    BY <1>1, <1>2, <2>1 DEF Accept, TypeOK
  <2>2. CASE u # t
    <3>1. task'[u] = task[u]
      BY <2>2 DEF Accept, TypeOK
    <3>2. task[u].eid \in EventIds
      BY <3>1, BusyIsBusy, BusyFields
    <3> QED BY <1>10, <3>1, <3>2 DEF TasksHaveOwners
  <2> QED BY <2>1, <2>2
<1>13. SnapshotsHaveOwners'
  BY <1>10, SnapshotFields DEF SnapshotsHaveOwners, Accept, TypeOK, PollRec
<1>14. SweptHaveOwners'
  BY <1>10 DEF SweptHaveOwners, Accept, TypeOK, SweepRec
<1> QED BY <1>4, <1>5, <1>6, <1>7, <1>8, <1>9, <1>11, <1>12, <1>13, <1>14

\* The steps of a task after its claim: they write only the row of its own event.
LEMMA TaskDedup ==
    ASSUME TypeOK, DedupInv, NEW t \in Tasks, TaskNext(t)
    PROVE  DedupInv'
<1> USE DEF dbVars, histVars
<1>b. task[t].pc # "idle" => task[t].eid \in EventIds /\ owner[task[t].eid] # NULL
  BY BusyIsBusy, BusyFields DEF DedupInv, TasksHaveOwners
<1>q. ASSUME UNCHANGED <<nonces, poll, sweep, owner, holder, reorgedEver>>,
             task[t].pc # "idle",
             \A e \in EventIds : e # task[t].eid => row'[e] = row[e],
             \A u \in Tasks : u # t => task'[u] = task[u],
             task'[t].pc # "idle" => task'[t].eid = task[t].eid
      PROVE  DedupInv'
  <2>1. Ledger'
    BY <1>q, LedgerFrame DEF Ledger, DedupInv
  <2>2. InvalidatingIsReorged' /\ SnapshotsHaveOwners' /\ SweptHaveOwners'
    BY <1>q DEF DedupInv, InvalidatingIsReorged, SnapshotsHaveOwners, SweptHaveOwners
  <2>3. RowsHaveOwners'
    BY <1>b, <1>q DEF DedupInv, RowsHaveOwners
  <2>4. TasksHaveOwners'
    BY <1>b, <1>q DEF DedupInv, TasksHaveOwners
  <2> QED BY <2>1, <2>2, <2>3, <2>4 DEF Ledger, DedupInv
<1>1. ASSUME NEW a \in Auths, FacilitatorClaim(t, a) PROVE DedupInv'
  <2>1. PICK e \in Fresh :
          Accept(t, a, e, e, "facilitator",
               [pc |-> "record", source |-> "facilitator", auth |-> a, eid |-> e,
                block |-> 0, hash |-> NoHash, conf |-> NoConf])
    BY <1>1 DEF FacilitatorClaim
  <2> DEFINE busy == [pc |-> "record", source |-> "facilitator", auth |-> a, eid |-> e,
                      block |-> 0, hash |-> NoHash, conf |-> NoConf]
  <2>2. busy \in BusyTask /\ busy.eid = e
    BY DEF BusyTask, FacilitatorTask, Fresh
  <2>3. IsNew(nonces[a])
    BY <1>1 DEF FacilitatorClaim
  <2> HIDE DEF busy
  <2> QED BY <2>1, <2>2, <2>3, AcceptDedup DEF Sources, busy
<1>2. ASSUME NEW m \in Deliverable, GoldskyClaim(t, m) PROVE DedupInv'
  <2>1. PICK e \in Fresh :
          Accept(t, m.auth, e, NULL, "goldsky",
               [pc |-> "finality", source |-> "goldsky", auth |-> m.auth, eid |-> e,
                block |-> m.block, hash |-> m.hash, conf |-> NoConf])
    BY <1>2 DEF GoldskyClaim
  <2> DEFINE busy == [pc |-> "finality", source |-> "goldsky", auth |-> m.auth, eid |-> e,
                      block |-> m.block, hash |-> m.hash, conf |-> NoConf]
  <2>2. m \in Log /\ m.auth \in Auths
    BY DEF Deliverable, TypeOK, ChainTypeOK, Log
  <2>3. busy \in BusyTask /\ busy.eid = e
    BY <2>2 DEF BusyTask, GoldskyTask, Log, Conf, Fresh
  <2>4. IsNew(nonces[m.auth])
    BY <1>2 DEF GoldskyClaim
  <2> HIDE DEF busy
  <2> QED BY <2>1, <2>2, <2>3, <2>4, AcceptDedup DEF Sources, busy
<1>3. ASSUME NEW m \in Deliverable, GoldskyCorrelate(t, m) PROVE DedupInv'
  <2>1. m \in Log /\ m.auth \in Auths
    BY DEF Deliverable, TypeOK, ChainTypeOK, Log
  <2>2. owner[nonces[m.auth].event] # NULL
    BY <1>3, <2>1, NullIsNoAuth
    DEF GoldskyCorrelate, Correlates, DedupInv, NamedIsHolder, HolderIsOwned
  <2>3. Ledger'
    BY <1>3, LedgerFrame DEF GoldskyCorrelate, Ledger, DedupInv
  <2>4. TasksHaveOwners'
    BY <1>3, <2>2 DEF GoldskyCorrelate, DedupInv, TasksHaveOwners, TypeOK
  <2>5. /\ InvalidatingIsReorged' /\ RowsHaveOwners'
        /\ SnapshotsHaveOwners' /\ SweptHaveOwners'
    BY <1>3 DEF GoldskyCorrelate, DedupInv, InvalidatingIsReorged, RowsHaveOwners,
                SnapshotsHaveOwners, SweptHaveOwners
  <2> QED BY <2>3, <2>4, <2>5 DEF Ledger, DedupInv
<1>4. CASE Finality(t)
  BY <1>4, <1>b, <1>q DEF Finality, Return, TypeOK, IdleTask
<1>5. CASE Record(t)
  BY <1>5, <1>b, <1>q DEF Record, Return, TypeOK, IdleTask
<1>6. CASE RecordUnmatched(t)
  BY <1>6, <1>b, <1>q DEF RecordUnmatched, Return, TypeOK, IdleTask
<1>7. CASE RecordFailed(t)
  BY <1>7, <1>b, <1>q DEF RecordFailed, Return, TypeOK, IdleTask
<1>8. CASE Link(t)
  BY <1>8, <1>b, <1>q DEF Link, Return, TypeOK, IdleTask
<1>9. CASE Dispatch(t)
  BY <1>9, <1>b, <1>q DEF Dispatch, Return, TypeOK, IdleTask
<1>10. CASE Promote(t)
  BY <1>10, <1>b, <1>q DEF Promote, Return, TypeOK, IdleTask
<1>11. CASE PromoteNotFound(t)
  BY <1>11, <1>b, <1>q DEF PromoteNotFound, Return, TypeOK, IdleTask
<1>12. CASE PromoteFinality(t)
  BY <1>12, <1>b, <1>q DEF PromoteFinality, Return, TypeOK, IdleTask
<1>13. CASE PromoteDispatch(t)
  BY <1>13, <1>b, <1>q DEF PromoteDispatch, Return, TypeOK, IdleTask
<1>14. CASE TaskError(t)
  BY <1>14, <1>b, <1>q DEF TaskError, Return, TypeOK, IdleTask
<1>15. CASE TaskCrash(t)
  BY <1>15, <1>b, <1>q DEF TaskCrash, Return, TypeOK, IdleTask
<1> QED
  BY <1>1, <1>2, <1>3, <1>4, <1>5, <1>6, <1>7, <1>8, <1>9, <1>10, <1>11,
     <1>12, <1>13, <1>14, <1>15 DEF TaskNext

\* The steps of a poller: a status is written only for a snapshot it holds, and
\* a nonce is released only once the status is written.
LEMMA PollDedup ==
    ASSUME TypeOK, DedupInv, NEW p \in Pollers, PollNext(p)
    PROVE  DedupInv'
<1> USE DEF dbVars, histVars
<1>n. /\ NextEvents(p) \subseteq poll[p].todo
      /\ \A s \in poll[p].todo \cup poll[p].cur : s \in Snapshot /\ s.eid \in EventIds
      /\ \A s \in poll[p].todo \cup poll[p].cur : owner[s.eid] # NULL
  BY SnapshotFields DEF NextEvents, TypeOK, PollRec, DedupInv, SnapshotsHaveOwners
<1>q. ASSUME UNCHANGED <<nonces, task, sweep, owner, holder, reorgedEver>>,
             \A e \in EventIds : row'[e].status # row[e].status => owner[e] # NULL,
             \A q \in Pollers : q # p => poll'[q] = poll[q],
             poll'[p].pc # "invalidate",
             \A s \in poll'[p].todo \cup poll'[p].cur : owner[s.eid] # NULL
      PROVE  DedupInv'
  <2>1. Ledger'
    BY <1>q, LedgerFrame DEF Ledger, DedupInv
  <2>2. InvalidatingIsReorged' /\ SnapshotsHaveOwners'
    BY <1>q DEF DedupInv, InvalidatingIsReorged, SnapshotsHaveOwners
  <2>3. TasksHaveOwners' /\ SweptHaveOwners' /\ RowsHaveOwners'
    BY <1>q DEF DedupInv, TasksHaveOwners, SweptHaveOwners, RowsHaveOwners
  <2> QED BY <2>1, <2>2, <2>3 DEF Ledger, DedupInv
<1>d. ASSUME PollDone(p) PROVE DedupInv'
  BY <1>d, <1>q DEF PollDone, TypeOK, PollRec, IdlePoll
<1>1. CASE PollStart(p)
  BY <1>1, <1>n, <1>q DEF PollStart, TypeOK, PollRec
<1>2. CASE PollFetch(p)
  <2>1. PICK S \in SUBSET Pollable :
          poll' = [poll EXCEPT ![p].pc = "head", ![p].todo = {Snap(e) : e \in S}]
    BY <1>2 DEF PollFetch
  <2>2. poll[p] \in PollRec
    BY DEF TypeOK
  <2>3. /\ poll'[p].pc = "head" /\ poll'[p].cur = poll[p].cur
        /\ poll'[p].todo = {Snap(e) : e \in S}
    BY <2>1, <2>2 DEF TypeOK, PollRec
  <2>4. \A e \in S : owner[e] # NULL
    BY DEF Pollable, DedupInv, RowsHaveOwners
  <2>5. \A s \in poll'[p].todo : owner[s.eid] # NULL
    BY <2>3, <2>4 DEF Snap
  <2>6. \A q \in Pollers : q # p => poll'[q] = poll[q]
    BY <2>1 DEF TypeOK
  <2> QED BY <1>2, <1>n, <1>q, <2>3, <2>5, <2>6 DEF PollFetch
<1>3. CASE PollHead(p)
  BY <1>3, <1>n, <1>q DEF PollHead, TypeOK, PollRec
<1>4. CASE PollHash(p)
  BY <1>4, <1>n, <1>q DEF PollHash, TypeOK, PollRec
<1>5. CASE PollReorg(p)
  <2>1. PICK s \in NextEvents(p) :
          /\ row' = [row EXCEPT ![s.eid].status = "reorged"]
          /\ reorgedEver' = reorgedEver \cup {s.eid}
          /\ Take(p, s, "invalidate")
    BY <1>5 DEF PollReorg
  <2>2. /\ s.eid \in EventIds /\ owner[s.eid] # NULL
        /\ s \in poll[p].todo
    BY <1>n
  <2>3. /\ \A q \in Pollers : q # p => poll'[q] = poll[q]
        /\ poll'[p].cur = {s} /\ poll'[p].todo \subseteq poll[p].todo
    BY <2>1 DEF Take, TypeOK, PollRec
  <2>4. UNCHANGED <<nonces, task, sweep, owner, holder>>
    BY <1>5 DEF PollReorg
  <2>5. Ledger'
    BY <2>1, <2>4 DEF DedupInv, Ledger, ClaimsAreHeld, ReleasedIsReorged, NamedIsHolder,
                      AbsentIsUnclaimed, HolderIsOwned
  <2>6. InvalidatingIsReorged'
    BY <2>1, <2>3 DEF DedupInv, InvalidatingIsReorged
  <2>7. SnapshotsHaveOwners'
    BY <2>2, <2>3, <2>4 DEF DedupInv, SnapshotsHaveOwners
  <2>8. RowsHaveOwners'
    BY <2>1, <2>2, <2>4 DEF DedupInv, RowsHaveOwners, TypeOK
  <2>9. TasksHaveOwners' /\ SweptHaveOwners'
    BY <2>4 DEF DedupInv, TasksHaveOwners, SweptHaveOwners
  <2> QED BY <2>5, <2>6, <2>7, <2>8, <2>9 DEF DedupInv, Ledger
<1>6. CASE PollDepth(p)
  <2>1. PICK s \in NextEvents(p) :
          /\ \E c : row' = [row EXCEPT ![s.eid].depth = c]
          /\ \/ Take(p, s, "transition")
             \/ poll' = [poll EXCEPT ![p].todo = @ \ {s}]
    BY <1>6 DEF PollDepth
  <2>2. /\ \A q \in Pollers : q # p => poll'[q] = poll[q]
        /\ poll'[p].pc \in {"transition", "events"}
        /\ poll'[p].todo \cup poll'[p].cur \subseteq poll[p].todo \cup poll[p].cur
    <3>1. poll[p] \in PollRec /\ poll[p].pc = "events" /\ s \in poll[p].todo
      BY DEF NextEvents, TypeOK
    <3>2. CASE Take(p, s, "transition")
      <4>1. /\ poll'[p].pc = "transition" /\ poll'[p].cur = {s}
            /\ poll'[p].todo = poll[p].todo \ {s}
        BY <3>1, <3>2 DEF Take, TypeOK, PollRec
      <4> QED BY <3>1, <3>2, <4>1 DEF Take, TypeOK
    <3>3. CASE poll' = [poll EXCEPT ![p].todo = @ \ {s}]
      <4>1. /\ poll'[p].pc = "events" /\ poll'[p].cur = poll[p].cur
            /\ poll'[p].todo = poll[p].todo \ {s}
        BY <3>1, <3>3 DEF TypeOK, PollRec
      <4> QED BY <3>3, <4>1 DEF TypeOK
    <3> QED BY <2>1, <3>2, <3>3
  <2>3. \A e \in EventIds : row'[e].status = row[e].status
    BY <2>1 DEF TypeOK, EventRow
  <2> QED BY <1>6, <1>n, <1>q, <2>2, <2>3 DEF PollDepth
<1>7. CASE PollSkip(p)
  <2>1. PICK s \in NextEvents(p) : poll' = [poll EXCEPT ![p].todo = @ \ {s}]
    BY <1>7 DEF PollSkip
  <2>2. poll[p].pc = "events"
    BY DEF NextEvents
  <2> QED BY <1>7, <1>n, <1>q, <2>1, <2>2 DEF PollSkip, TypeOK, PollRec
<1>8. CASE PollTransition(p)
  <2>1. PICK s \in poll[p].cur : row' = [row EXCEPT ![s.eid].status = Successor(s)]
    BY <1>8 DEF PollTransition
  <2>2. \A e \in EventIds : e # s.eid => row'[e] = row[e]
    BY <2>1 DEF TypeOK
  <2>3. /\ \A q \in Pollers : q # p => poll'[q] = poll[q]
        /\ poll'[p].pc = "dispatch"
        /\ poll'[p].todo = poll[p].todo /\ poll'[p].cur = poll[p].cur
    BY <1>8 DEF PollTransition, TypeOK, PollRec
  <2> QED BY <1>8, <1>n, <1>q, <2>2, <2>3 DEF PollTransition
<1>9. CASE PollTransitionFailed(p)
  BY <1>9, <1>n, <1>q DEF PollTransitionFailed, Resume, TypeOK, PollRec
<1>10. CASE PollDispatch(p)
  BY <1>10, <1>n, <1>q DEF PollDispatch, Resume, TypeOK, PollRec
<1>11. CASE PollInvalidate(p)
  <2>1. PICK s \in poll[p].cur :
          nonces' = InvalidateByEventId(nonces, s.eid) \/ UNCHANGED nonces
    BY <1>11 DEF PollInvalidate
  <2>2. s.eid \in reorgedEver /\ s.eid \in EventIds
    BY <1>11, <1>n DEF PollInvalidate, DedupInv, InvalidatingIsReorged
  <2>3. \A a \in Auths :
          /\ nonces'[a].event = nonces[a].event
          /\ \/ nonces'[a].state = nonces[a].state
             \/ nonces'[a].state = "reorged" /\ nonces[a].event = s.eid
    BY <2>1 DEF InvalidateByEventId, TypeOK, NonceRow
  <2>4. UNCHANGED <<row, task, sweep, owner, holder, reorgedEver>>
    BY <1>11 DEF PollInvalidate
  <2>5. /\ \A q \in Pollers : q # p => poll'[q] = poll[q]
        /\ poll'[p].pc = "reorg_dispatch"
        /\ poll'[p].todo = poll[p].todo /\ poll'[p].cur = poll[p].cur
    BY <1>11 DEF PollInvalidate, TypeOK, PollRec
  <2>6. ReleasedIsReorged'
    BY <2>2, <2>3, <2>4, NullIsNoEvent DEF DedupInv, ReleasedIsReorged, NamedIsHolder
  <2>7. ClaimsAreHeld' /\ NamedIsHolder' /\ AbsentIsUnclaimed' /\ HolderIsOwned'
    BY <2>3, <2>4 DEF DedupInv, ClaimsAreHeld, NamedIsHolder, AbsentIsUnclaimed,
                      HolderIsOwned
  <2>8. InvalidatingIsReorged' /\ SnapshotsHaveOwners'
    BY <2>4, <2>5 DEF DedupInv, InvalidatingIsReorged, SnapshotsHaveOwners
  <2>9. RowsHaveOwners' /\ TasksHaveOwners' /\ SweptHaveOwners'
    BY <2>4 DEF DedupInv, RowsHaveOwners, TasksHaveOwners, SweptHaveOwners
  <2> QED BY <2>6, <2>7, <2>8, <2>9 DEF DedupInv
<1>12. CASE PollReorgDispatch(p)
  BY <1>12, <1>n, <1>q DEF PollReorgDispatch, Resume, TypeOK, PollRec
<1>13. CASE PollEnd(p)
  BY <1>13, <1>d DEF PollEnd
<1>14. CASE PollCrash(p)
  BY <1>14, <1>d DEF PollCrash
<1> QED
  BY <1>1, <1>2, <1>3, <1>4, <1>5, <1>6, <1>7, <1>8, <1>9, <1>10, <1>11,
     <1>12, <1>13, <1>14 DEF PollNext

\* The steps of a sweeper: it expires only rows it fetched.
LEMMA SweepDedup ==
    ASSUME TypeOK, DedupInv, NEW w \in Sweepers, SweepNext(w)
    PROVE  DedupInv'
<1> USE DEF dbVars, histVars
<1>1. UNCHANGED <<nonces, task, poll, owner, holder, reorgedEver>>
  BY DEF SweepNext, SweepFetch, SweepExpire, SweepSkip, SweepDispatch, SweepCrash
<1>2. Ledger'
  BY <1>1, LedgerFrame DEF Ledger, DedupInv
<1>3. InvalidatingIsReorged' /\ TasksHaveOwners' /\ SnapshotsHaveOwners'
  BY <1>1 DEF DedupInv, InvalidatingIsReorged, TasksHaveOwners, SnapshotsHaveOwners
<1>4. RowsHaveOwners'
  <2>1. CASE SweepExpire(w)
    BY <1>1, <2>1 DEF SweepExpire, DedupInv, RowsHaveOwners, SweptHaveOwners, TypeOK
  <2>2. CASE ~SweepExpire(w)
    BY <1>1, <2>2 DEF SweepNext, SweepFetch, SweepSkip, SweepDispatch, SweepCrash,
                      DedupInv, RowsHaveOwners
  <2> QED BY <2>1, <2>2
<1>5. SweptHaveOwners'
  <2>1. sweep[w] \in SweepRec
    BY DEF TypeOK
  <2>2. \A v \in Sweepers : v # w => sweep'[v] = sweep[v]
    BY DEF SweepNext, SweepFetch, SweepExpire, SweepSkip, SweepDispatch, SweepCrash, TypeOK
  <2>3. \A e \in sweep'[w].todo : owner[e] # NULL
    <3>1. CASE SweepFetch(w)
      BY <2>1, <3>1 DEF SweepFetch, DedupInv, RowsHaveOwners, TypeOK, SweepRec
    <3>2. CASE SweepExpire(w)
      BY <3>2 DEF SweepExpire, DedupInv, SweptHaveOwners, TypeOK
    <3>3. CASE SweepSkip(w)
      BY <2>1, <3>3 DEF SweepSkip, DedupInv, SweptHaveOwners, TypeOK, SweepRec
    <3>4. CASE SweepDispatch(w)
      BY <2>1, <3>4 DEF SweepDispatch, DedupInv, SweptHaveOwners, TypeOK, SweepRec
    <3>5. CASE SweepCrash(w)
      BY <3>5 DEF SweepCrash, TypeOK, IdleSweep
    <3> QED BY <3>1, <3>2, <3>3, <3>4, <3>5 DEF SweepNext
  <2> QED BY <1>1, <2>2, <2>3 DEF DedupInv, SweptHaveOwners
<1> QED BY <1>2, <1>3, <1>4, <1>5 DEF DedupInv, Ledger

LEMMA InitDedup == Init => DedupInv
<1> SUFFICES ASSUME Init PROVE DedupInv
  OBVIOUS
<1> USE DEF Init
<1>1. ClaimsAreHeld /\ ReleasedIsReorged /\ NamedIsHolder
  BY DEF ClaimsAreHeld, ReleasedIsReorged, NamedIsHolder, NoNonce
<1>2. AbsentIsUnclaimed /\ HolderIsOwned
  BY NullIsNoAuth DEF AbsentIsUnclaimed, HolderIsOwned
<1>3. InvalidatingIsReorged /\ SnapshotsHaveOwners
  BY DEF InvalidatingIsReorged, SnapshotsHaveOwners, IdlePoll
<1>4. RowsHaveOwners /\ TasksHaveOwners /\ SweptHaveOwners
  BY DEF RowsHaveOwners, TasksHaveOwners, SweptHaveOwners, NoRow, IdleTask, IdleSweep
<1> QED BY <1>1, <1>2, <1>3, <1>4 DEF DedupInv

LEMMA NextDedup ==
    ASSUME "archive" \notin Contingencies, TypeOK, DedupInv, [Next]_vars
    PROVE  DedupInv'
<1>1. ASSUME UNCHANGED <<dbVars, task, poll, sweep, histVars>> PROVE DedupInv'
  BY <1>1, LedgerFrame
  DEF dbVars, histVars, DedupInv, Ledger, InvalidatingIsReorged, RowsHaveOwners,
      TasksHaveOwners, SnapshotsHaveOwners, SweptHaveOwners
<1>2. CASE Environment
  BY <1>1, <1>2 DEF Environment
<1>3. CASE \E m \in Deliverable : GoldskyAnswered(m)
  BY <1>1, <1>3 DEF GoldskyAnswered
<1>4. ASSUME NEW t \in Tasks, TaskNext(t) PROVE DedupInv'
  BY <1>4, TaskDedup
<1>5. ASSUME NEW p \in Pollers, PollNext(p) PROVE DedupInv'
  BY <1>5, PollDedup
<1>6. ASSUME NEW w \in Sweepers, SweepNext(w) PROVE DedupInv'
  BY <1>6, SweepDedup
<1>7. CASE \E a \in Auths : Archive(a)
  BY <1>7 DEF Archive, May
<1>8. CASE UNCHANGED vars
  BY <1>1, <1>8 DEF vars
<1> QED BY <1>2, <1>3, <1>4, <1>5, <1>6, <1>7, <1>8 DEF Next

\* While no nonce is archived, the parts of DedupInv hold together.
THEOREM DedupCorrect ==
    ASSUME "archive" \notin Contingencies
    PROVE  Spec => []DedupInv
<1>1. Init => TypeOK /\ DedupInv
  BY InitType, InitDedup
<1>2. TypeOK /\ DedupInv /\ [Next]_vars => TypeOK' /\ DedupInv'
  BY NextType, NextDedup
<1> QED BY <1>1, <1>2, PTL DEF Spec

\* Nonce uniqueness: however many deliveries, replicas, crashes, failures and
\* reorgs interleave, two recorded events of one authorization are never both
\* free of the reorged mark, as long as the archiver has not moved the nonce.
THEOREM NonceUniqueness ==
    ASSUME "archive" \notin Contingencies
    PROVE  Spec => []OneLiveEventPerAuthorization
<1>1. DedupInv => OneLiveEventPerAuthorization
  BY DEF DedupInv, ClaimsAreHeld, RowsHaveOwners, OneLiveEventPerAuthorization
<1> QED BY <1>1, DedupCorrect, PTL
=============================================================================
