--------------------------- MODULE FinalityProofs ---------------------------
(***************************************************************************)
(* What the webhooks of PaymentLifecycle say about finality, and the       *)
(* order in which a row's status moves, for every set of tasks, pollers,   *)
(* sweepers, endpoints and events and every depth and bound.               *)
(***************************************************************************)
EXTENDS PaymentLifecycleProofs

-----------------------------------------------------------------------------
(* The chain *)

\* Heads and versions only grow, and a block at the chain's depth keeps its hash.
Grows ==
    /\ head' >= head
    /\ \A b \in Blocks : /\ canon'[b] >= canon[b]
                         /\ head - b >= Required \/ Required = 0 => canon'[b] = canon[b]

LEMMA NumberTypes ==
    ASSUME TypeOK
    PROVE  /\ head \in Int /\ Required \in Int /\ MaxHead \in Int
           /\ \A b \in Blocks : canon[b] \in Int /\ canon[b] >= 0
BY RequiredCoversReorgs, ChainBounds DEF TypeOK, ChainTypeOK, Blocks, Hashes

LEMMA ChainGrows ==
    ASSUME TypeOK, ChainNext
    PROVE  Grows
<1>1. CASE Mine
  BY <1>1, NumberTypes DEF Mine, Grows
<1>2. CASE \E a \in Auths : Land(a)
  BY <1>2, NumberTypes DEF Land, Grows
<1>3. ASSUME NEW n \in Blocks, Reorg(n) PROVE Grows
  <2>1. head' = head /\ n \in Int /\ head - n < Required /\ Required # 0
    BY <1>3, NumberTypes, ReorgDepthType, RequiredCoversReorgs DEF Reorg, Blocks
  <2>2. ASSUME NEW b \in Blocks
        PROVE  /\ canon'[b] >= canon[b]
               /\ head - b >= Required \/ Required = 0 => canon'[b] = canon[b]
    <3>1. canon'[b] = IF b >= n THEN canon[b] + 1 ELSE canon[b]
      BY <1>3 DEF Reorg
    <3>2. b \in Int
      BY DEF Blocks
    <3> QED BY <2>1, <3>1, <3>2, NumberTypes
  <2> QED BY <2>1, <2>2, NumberTypes DEF Grows
<1> QED BY <1>1, <1>2, <1>3 DEF ChainNext

LEMMA StaysGrown ==
    ASSUME TypeOK, UNCHANGED chainVars
    PROVE  Grows
BY NumberTypes DEF chainVars, Grows

\* What was seen stays seen.
LEMMA SeenStays ==
    ASSUME TypeOK, TypeOK', Grows, NEW b \in Depth, NEW h \in StoredHash, Seen(b, h)
    PROVE  b \in Blocks => b <= head' /\ h <= canon'[b]
<1>1. b \in Int /\ h \in Int
  BY DEF Depth, StoredHash, Hashes, NoHash
<1>2. head' \in Int /\ \A c \in Blocks : canon'[c] \in Int
  BY ChainBounds DEF TypeOK, ChainTypeOK, Blocks, Hashes
<1> QED BY <1>1, <1>2, NumberTypes DEF Grows, Seen

-----------------------------------------------------------------------------
(* FinalityInv: what a step leaves alone stays sound while the chain grows *)

LEMMA RowStays ==
    ASSUME TypeOK, TypeOK', Grows, NEW e \in EventIds, row'[e] = row[e],
           Seen(row[e].block, row[e].hash)
    PROVE  Seen(row[e].block, row[e].hash)'
<1>1. row[e].block \in Depth /\ row[e].hash \in StoredHash
  BY DEF TypeOK, EventRow
<1> QED BY <1>1, SeenStays DEF Seen

LEMMA TaskStays ==
    ASSUME TypeOK, TypeOK', Grows, NEW t \in Tasks, task'[t] = task[t],
           TaskIsSound(task[t])
    PROVE  TaskIsSound(task[t])'
<1> SUFFICES ASSUME task[t].pc # "idle"
             PROVE  /\ Seen(task[t].block, task[t].hash)'
                    /\ task[t].conf # NoConf =>
                         task[t].block > 0 /\ task[t].conf <= head' - task[t].block
  BY DEF TaskIsSound
<1>1. /\ task[t].block \in Depth /\ task[t].hash \in StoredHash
      /\ task[t].conf \in Conf
  BY BusyIsBusy, BusyFields
<1>2. Seen(task[t].block, task[t].hash)'
  BY <1>1, SeenStays DEF Seen, TaskIsSound
<1>3. task[t].block \in Int /\ task[t].conf \in Int /\ head \in Int /\ head' \in Int
  BY <1>1, ChainBounds DEF Depth, Conf, NoConf, TypeOK, ChainTypeOK, Blocks
<1> QED BY <1>2, <1>3 DEF TaskIsSound, Grows

LEMMA CycleStays ==
    ASSUME TypeOK, TypeOK', Grows, NEW p \in Pollers, poll'[p] = poll[p],
           CycleIsSound(poll[p])
    PROVE  CycleIsSound(poll[p])'
<1> DEFINE c == poll[p]
<1>t. /\ c \in PollRec /\ c.head \in Int /\ c.head \in Depth
      /\ head \in Int /\ head' \in Int /\ Required \in Nat
      /\ \A b \in Blocks : b \in Int /\ canon[b] \in Int /\ canon'[b] \in Int
      /\ \A h \in StoredHash : h \in Int
  BY ChainBounds, RequiredCoversReorgs
  DEF TypeOK, ChainTypeOK, PollRec, Depth, Blocks, Hashes, StoredHash, NoHash
<1>s. \A s \in c.todo \cup c.cur : s \in Snapshot /\ s.block \in Depth /\ s.hash \in StoredHash
  BY <1>t, SnapshotFields DEF PollRec
<1>1. c.head <= head'
  BY <1>t DEF CycleIsSound, Grows
<1>2. \A s \in c.todo \cup c.cur :
        s.block \in Blocks /\ s.block <= head' /\ s.hash <= canon'[s.block]
  BY <1>s, SeenStays DEF CycleIsSound
<1>3. ASSUME NEW b \in Blocks PROVE HashIsSound(poll[p], b)'
  <2>1. HashIsSound(c, b)
    BY DEF CycleIsSound
  <2>2. /\ canon'[b] >= canon[b]
        /\ head - b >= Required \/ Required = 0 => canon'[b] = canon[b]
    BY DEF Grows
  <2>3. ChainFinalized(Confirmations(c.head, b)) => canon'[b] = canon[b]
    BY <1>t, <2>2 DEF ChainFinalized, Confirmations, CycleIsSound
  <2>4. c.hashes[b] \in Hashes => c.hashes[b] \in Int
    BY DEF Hashes
  <2> QED BY <1>t, <2>1, <2>2, <2>3, <2>4 DEF HashIsSound, ChainFinalized, Confirmations
<1>4. ASSUME c.pc \in {"transition", "dispatch"}, NEW s \in c.cur
      PROVE  head' - s.block >= Required /\ (~May("rpc") => canon'[s.block] = s.hash)
  BY <1>4, <1>t, <1>s DEF CycleIsSound, Grows
<1>5. ASSUME c.pc \in {"invalidate", "reorg_dispatch"}, NEW s \in c.cur
      PROVE  s.hash < canon'[s.block]
  BY <1>5, <1>t, <1>s DEF CycleIsSound, Grows
<1> QED BY <1>1, <1>2, <1>3, <1>4, <1>5 DEF CycleIsSound, Seen

-----------------------------------------------------------------------------
(* FinalityInv, one lemma per process *)

LEMMA ChainFinality ==
    ASSUME TypeOK, TypeOK', FinalityInv, Environment
    PROVE  FinalityInv'
<1>g. Grows
  BY ChainGrows DEF Environment
<1>1. LogsAreSeen'
  <2> SUFFICES ASSUME NEW m \in logs' PROVE Seen(m.block, m.hash)'
    BY DEF LogsAreSeen
  <2>1. CASE m \in logs
    <3>1. m.block \in Depth /\ m.hash \in StoredHash
      BY <2>1, ChainBounds DEF TypeOK, ChainTypeOK, Log, Blocks, Depth, StoredHash
    <3> QED BY <1>g, <2>1, <3>1, SeenStays DEF FinalityInv, LogsAreSeen, Seen
  <2>2. CASE m \notin logs
    <3>1. PICK a \in Auths : Land(a)
      BY <2>2 DEF Environment, ChainNext, Mine, Reorg
    <3>2. m.block = head /\ m.hash = canon[head] /\ head' = head /\ canon' = canon
      BY <2>2, <3>1 DEF Land
    <3> QED BY <3>2, NumberTypes DEF Seen
  <2> QED BY <2>1, <2>2
<1>2. RowsAreSeen'
  BY <1>g, RowStays DEF FinalityInv, RowsAreSeen, Environment, dbVars
<1>3. \A t \in Tasks : TaskIsSound(task[t])'
  BY <1>g, TaskStays DEF FinalityInv, Environment
<1>4. \A p \in Pollers : CycleIsSound(poll[p])'
  BY <1>g, CycleStays DEF FinalityInv, Environment
<1> QED BY <1>1, <1>2, <1>3, <1>4 DEF FinalityInv

\* A step that leaves the chain and the pollers alone, and writes at most the
\* task t and the row e.
LEMMA LocalFinality ==
    ASSUME TypeOK, TypeOK', FinalityInv, UNCHANGED <<chainVars, poll>>, NEW t, NEW e,
           \A u \in Tasks : u # t => task'[u] = task[u],
           \A f \in EventIds : f # e => row'[f] = row[f],
           t \in Tasks => TaskIsSound(task[t])',
           e \in EventIds => Seen(row[e].block, row[e].hash)'
    PROVE  FinalityInv'
<1>g. Grows
  BY StaysGrown
<1>1. LogsAreSeen'
  BY DEF FinalityInv, LogsAreSeen, Seen, chainVars
<1>2. RowsAreSeen'
  BY <1>g, RowStays DEF FinalityInv, RowsAreSeen
<1>3. \A u \in Tasks : TaskIsSound(task[u])'
  BY <1>g, TaskStays DEF FinalityInv
<1>4. \A p \in Pollers : CycleIsSound(poll[p])'
  BY <1>g, CycleStays DEF FinalityInv
<1> QED BY <1>1, <1>2, <1>3, <1>4 DEF FinalityInv

\* check_finality reads no more confirmations than the block has.
LEMMA ReadIsSound ==
    ASSUME TypeOK, NEW k \in GoldskyTask, Seen(k.block, k.hash),
           NEW conf \in ReadConfirmations(k)
    PROVE  conf # NoConf => k.block > 0 /\ conf <= head - k.block
<1>1. k.block \in Blocks /\ k.block \in Int /\ k.block > 0 /\ k.block <= head
  BY DEF GoldskyTask, Blocks, Seen
<1> QED BY <1>1, NumberTypes DEF ReadConfirmations, Confirmations

LEMMA TaskFinality ==
    ASSUME TypeOK, TypeOK', FinalityInv, NEW t \in Tasks, TaskNext(t)
    PROVE  FinalityInv'
<1> USE DEF chainVars, dbVars
<1>b. task[t].pc # "idle" => task[t] \in BusyTask /\ task[t].eid \in EventIds
  BY BusyIsBusy, BusyFields
<1>s. TaskIsSound(task[t]) /\ \A e \in EventIds : Seen(row[e].block, row[e].hash)
  BY DEF FinalityInv, RowsAreSeen
<1>c. UNCHANGED <<chainVars, poll>> /\ \A u \in Tasks : u # t => task'[u] = task[u]
  BY DEF TaskNext, FacilitatorClaim, GoldskyClaim, GoldskyCorrelate, Accept, Finality,
         Record, RecordUnmatched, RecordFailed, Link, Dispatch, Promote, PromoteNotFound,
         PromoteFinality, PromoteDispatch, TaskError, TaskCrash, Return, TypeOK
<1>m. ASSUME NEW m \in Deliverable PROVE m \in Log /\ Seen(m.block, m.hash)
  BY DEF Deliverable, FinalityInv, LogsAreSeen, TypeOK, ChainTypeOK
\* The task itself.
<1>t. TaskIsSound(task[t])'
  <2>i. ASSUME task'[t] = IdleTask PROVE TaskIsSound(task[t])'
    BY <2>i DEF TaskIsSound, IdleTask
  <2>k. ASSUME NEW pc, task' = [task EXCEPT ![t].pc = pc], task[t].pc # "idle"
        PROVE  TaskIsSound(task[t])'
    <3>1. /\ task'[t].block = task[t].block /\ task'[t].hash = task[t].hash
          /\ task'[t].conf = task[t].conf
      BY <1>b, <2>k DEF TypeOK, BusyTask, GoldskyTask, FacilitatorTask
    <3> QED BY <1>c, <1>s, <2>k, <3>1 DEF TaskIsSound, Seen
  <2>r. ASSUME NEW pc, NEW conf \in ReadConfirmations(task[t]),
               task[t].pc \in {"finality", "promote_finality"},
               task' = [task EXCEPT ![t].pc = pc, ![t].conf = conf]
        PROVE  TaskIsSound(task[t])'
    <3>2. task[t] \in GoldskyTask /\ Seen(task[t].block, task[t].hash)
      BY <1>b, <1>s, <2>r DEF BusyTask, FacilitatorTask, TaskIsSound
    <3>3. conf # NoConf => task[t].block > 0 /\ conf <= head - task[t].block
      BY <3>2, ReadIsSound
    <3>4. /\ task'[t].block = task[t].block /\ task'[t].hash = task[t].hash
          /\ task'[t].conf = conf
      BY <2>r, <3>2 DEF TypeOK, GoldskyTask
    <3> QED BY <1>c, <3>2, <3>3, <3>4 DEF TaskIsSound, Seen
  <2>1. ASSUME NEW a \in Auths, FacilitatorClaim(t, a) PROVE TaskIsSound(task[t])'
    <3>1. task'[t].block = 0 /\ task'[t].conf = NoConf
      BY <2>1 DEF FacilitatorClaim, Accept, TypeOK
    <3> QED BY <3>1 DEF TaskIsSound, Seen, Blocks
  <2>2. ASSUME NEW m \in Deliverable, GoldskyClaim(t, m) \/ GoldskyCorrelate(t, m)
        PROVE  TaskIsSound(task[t])'
    <3>1. task'[t].block = m.block /\ task'[t].hash = m.hash /\ task'[t].conf = NoConf
      BY <2>2 DEF GoldskyClaim, GoldskyCorrelate, Accept, TypeOK
    <3> QED BY <1>c, <1>m, <3>1 DEF TaskIsSound, Seen
  <2>3. CASE Finality(t)
    <3>1. PICK conf \in ReadConfirmations(task[t]) :
            task' = [task EXCEPT ![t].pc = "record", ![t].conf = conf]
      BY <2>3 DEF Finality
    <3> QED BY <2>3, <2>r, <3>1 DEF Finality
  <2>4. CASE PromoteFinality(t)
    <3>1. PICK conf \in ReadConfirmations(task[t]) :
            task' = [task EXCEPT ![t].pc = "promote_dispatch", ![t].conf = conf]
      BY <2>4 DEF PromoteFinality
    <3> QED BY <2>4, <2>r, <3>1 DEF PromoteFinality
  <2>5. CASE Record(t)
    BY <2>5, <2>k DEF Record
  <2>6. CASE RecordFailed(t)
    BY <2>6, <2>k DEF RecordFailed
  <2>7. CASE Link(t)
    BY <2>7, <2>k DEF Link
  <2>8. CASE Promote(t)
    BY <2>8, <2>k DEF Promote
  <2>9. CASE \/ RecordUnmatched(t) \/ Dispatch(t) \/ PromoteNotFound(t)
             \/ PromoteDispatch(t) \/ TaskError(t) \/ TaskCrash(t)
    BY <2>9, <2>i DEF RecordUnmatched, Dispatch, PromoteNotFound, PromoteDispatch,
                      TaskError, TaskCrash, Return, TypeOK
  <2> QED BY <2>1, <2>2, <2>3, <2>4, <2>5, <2>6, <2>7, <2>8, <2>9 DEF TaskNext
\* The row it writes.
<1>1. CASE Record(t) \/ RecordUnmatched(t)
  <2>1. PICK ep : row' = [row EXCEPT ![task[t].eid] = RecordedRow(task[t], ep)]
    BY <1>1 DEF Record, RecordUnmatched
  <2>2. task[t].pc # "idle"
    BY <1>1 DEF Record, RecordUnmatched
  <2>3. /\ row'[task[t].eid].block = task[t].block /\ row'[task[t].eid].hash = task[t].hash
        /\ \A f \in EventIds : f # task[t].eid => row'[f] = row[f]
    BY <1>b, <2>1, <2>2 DEF RecordedRow, TypeOK
  <2>4. PICK e : e = task[t].eid
    OBVIOUS
  <2>5. Seen(row[e].block, row[e].hash)'
    BY <1>c, <1>s, <2>2, <2>3, <2>4 DEF TaskIsSound, Seen
  <2> QED BY <1>c, <1>t, <2>3, <2>4, <2>5, LocalFinality
<1>2. CASE Promote(t)
  <2>2. task[t].pc # "idle"
    BY <1>2 DEF Promote
  <2>3. /\ row'[task[t].eid].block = task[t].block /\ row'[task[t].eid].hash = task[t].hash
        /\ \A f \in EventIds : f # task[t].eid => row'[f] = row[f]
    BY <1>2, <1>b, <2>2 DEF Promote, TypeOK, EventRow
  <2>4. PICK e : e = task[t].eid
    OBVIOUS
  <2>5. Seen(row[e].block, row[e].hash)'
    BY <1>c, <1>s, <2>2, <2>3, <2>4 DEF TaskIsSound, Seen
  <2> QED BY <1>c, <1>t, <2>3, <2>4, <2>5, LocalFinality
<1>3. CASE row' = row
  <2>1. \A e \in EventIds : Seen(row[e].block, row[e].hash)'
    BY <1>c, <1>s, <1>3 DEF Seen
  <2> QED BY <1>c, <1>t, <1>3, <2>1, LocalFinality
<1>4. Record(t) \/ RecordUnmatched(t) \/ Promote(t) \/ row' = row
  BY DEF TaskNext, FacilitatorClaim, GoldskyClaim, GoldskyCorrelate, Accept, Finality,
         RecordFailed, Link, Dispatch, PromoteNotFound, PromoteFinality, PromoteDispatch,
         TaskError, TaskCrash
<1> QED BY <1>1, <1>2, <1>3, <1>4

\* A step of one poller writes neither the chain nor the block of a row.
LEMMA PollFrame ==
    ASSUME TypeOK, NEW p \in Pollers, PollNext(p)
    PROVE  /\ UNCHANGED <<head, canon, logs, task>>
           /\ \A q \in Pollers : q # p => poll'[q] = poll[q]
           /\ \A e \in EventIds : /\ row'[e].block = row[e].block
                                  /\ row'[e].hash = row[e].hash
<1> USE DEF chainVars, dbVars, PollDone, Take, Resume
<1>1. UNCHANGED <<head, canon, logs, task>>
  BY DEF PollNext, PollStart, PollFetch, PollHead, PollHash, PollReorg, PollDepth,
         PollSkip, PollTransition, PollTransitionFailed, PollDispatch, PollInvalidate,
         PollReorgDispatch, PollEnd, PollCrash
<1>2. \A q \in Pollers : q # p => poll'[q] = poll[q]
  BY DEF PollNext, PollStart, PollFetch, PollHead, PollHash, PollReorg, PollDepth,
         PollSkip, PollTransition, PollTransitionFailed, PollDispatch, PollInvalidate,
         PollReorgDispatch, PollEnd, PollCrash, TypeOK
<1>3. \/ row' = row
      \/ \E f, st : row' = [row EXCEPT ![f].status = st]
      \/ \E f, d : row' = [row EXCEPT ![f].depth = d]
  BY DEF PollNext, PollStart, PollFetch, PollHead, PollHash, PollReorg, PollDepth,
         PollSkip, PollTransition, PollTransitionFailed, PollDispatch, PollInvalidate,
         PollReorgDispatch, PollEnd, PollCrash
<1>4. \A e \in EventIds : row'[e].block = row[e].block /\ row'[e].hash = row[e].hash
  BY <1>3 DEF TypeOK, EventRow
<1> QED BY <1>1, <1>2, <1>4

LEMMA PollFinality ==
    ASSUME TypeOK, TypeOK', FinalityInv, NEW p \in Pollers, PollNext(p)
    PROVE  FinalityInv'
<1> DEFINE c == poll[p]
           d == poll'[p]
<1>f. /\ UNCHANGED <<head, canon, logs, task>>
      /\ \A q \in Pollers : q # p => poll'[q] = poll[q]
      /\ \A e \in EventIds : /\ row'[e].block = row[e].block
                             /\ row'[e].hash = row[e].hash
  BY PollFrame
<1>t. /\ c \in PollRec /\ c.head \in Int /\ head \in Int /\ Required \in Int
      /\ \A b \in Blocks : b \in Int /\ canon[b] \in Hashes /\ canon[b] \in Int
      /\ \A h \in StoredHash : h \in Int
  BY ChainBounds, RequiredCoversReorgs
  DEF TypeOK, ChainTypeOK, PollRec, Depth, Blocks, Hashes, StoredHash, NoHash
<1>s. \A s \in c.todo \cup c.cur :
        /\ s.hash \in StoredHash /\ s.hash \in Int
        /\ s.block \in Blocks /\ s.block <= head /\ s.hash <= canon[s.block]
  BY <1>t, SnapshotFields DEF PollRec, FinalityInv, CycleIsSound, Seen
<1>c. CycleIsSound(c)
  BY DEF FinalityInv
<1>q. ASSUME CycleIsSound(poll[p])' PROVE FinalityInv'
  <2>1. LogsAreSeen'
    BY <1>f DEF FinalityInv, LogsAreSeen, Seen
  <2>2. RowsAreSeen'
    BY <1>f DEF FinalityInv, RowsAreSeen, Seen
  <2>3. \A t \in Tasks : TaskIsSound(task[t])'
    BY <1>f DEF FinalityInv, TaskIsSound, Seen
  <2>4. \A q \in Pollers : CycleIsSound(poll[q])'
    <3> SUFFICES ASSUME NEW q \in Pollers, q # p PROVE CycleIsSound(poll[q])'
      BY <1>q
    <3>1. Grows
      BY <1>f, StaysGrown DEF chainVars
    <3> QED BY <1>f, <3>1, CycleStays DEF FinalityInv
  <2> QED BY <2>1, <2>2, <2>3, <2>4 DEF FinalityInv
\* A step that fetches nothing keeps the head, the hashes and some of the snapshots.
<1>k. ASSUME d.head = c.head, d.hashes = c.hashes, d.todo \subseteq c.todo,
             d.cur \subseteq c.todo \cup c.cur,
             d.pc \in {"idle", "fetch", "head"} => c.pc \in {"idle", "fetch", "head"},
             d.pc \in {"transition", "dispatch"} =>
               \A s \in d.cur : /\ head - s.block >= Required
                                /\ ~May("rpc") => canon[s.block] = s.hash,
             d.pc \in {"invalidate", "reorg_dispatch"} =>
               \A s \in d.cur : s.hash < canon[s.block]
      PROVE  FinalityInv'
  <2>1. \A b \in Blocks : HashIsSound(poll[p], b)'
    BY <1>c, <1>f, <1>k DEF CycleIsSound, HashIsSound, ChainFinalized, Confirmations
  <2>2. CycleIsSound(poll[p])'
    BY <1>c, <1>f, <1>k, <1>s, <2>1 DEF CycleIsSound, Seen
  <2> QED BY <1>q, <2>2
<1>d. ASSUME PollDone(p) PROVE FinalityInv'
  <2>1. d = IdlePoll
    BY <1>d DEF PollDone, TypeOK
  <2>2. \A b \in Blocks : d.hashes[b] = Unread
    BY <2>1 DEF IdlePoll
  <2>3. \A b \in Blocks : HashIsSound(poll[p], b)'
    BY <2>2 DEF HashIsSound, Hashes, NoHash, Unread
  <2>4. d.head = 0 /\ d.pc = "idle" /\ d.todo \cup d.cur = {}
    BY <2>1 DEF IdlePoll
  <2>5. 0 <= head
    BY <1>t DEF TypeOK, ChainTypeOK, Blocks
  <2>6. CycleIsSound(poll[p])'
    BY <1>f, <2>2, <2>3, <2>4, <2>5 DEF CycleIsSound
  <2> QED BY <1>q, <2>6
\* What the poller finds when it takes up an event: its hash was asked for.
<1>n. ASSUME NEW s \in NextEvents(p)
      PROVE  /\ s \in c.todo /\ c.pc = "events"
             /\ c.hashes[s.block] \in StoredHash
             /\ c.hashes[s.block] = NoHash => May("rpc")
             /\ c.hashes[s.block] # NoHash =>
                  /\ s.hash <= c.hashes[s.block] /\ c.hashes[s.block] <= canon[s.block]
                  /\ ChainFinalized(Confirmations(c.head, s.block)) =>
                       c.hashes[s.block] = canon[s.block]
  <2>1. s \in c.todo /\ c.pc = "events" /\ UnreadBlocks(p) = {}
    BY DEF NextEvents
  <2>2. s.block \in Blocks /\ c.hashes[s.block] # Unread
    BY <1>s, <2>1 DEF UnreadBlocks
  <2>3. c.hashes[s.block] \in StoredHash
    BY <1>t, <2>2 DEF PollRec
  <2>4. HashIsSound(c, s.block)
    BY <1>c, <2>2 DEF CycleIsSound
  <2> QED BY <2>1, <2>2, <2>3, <2>4 DEF HashIsSound, StoredHash
<1>1. CASE PollStart(p)
  BY <1>1, <1>c, <1>k, <1>t DEF PollStart, TypeOK, PollRec
<1>2. CASE PollFetch(p)
  <2>1. PICK S \in SUBSET Pollable :
          poll' = [poll EXCEPT ![p].pc = "head", ![p].todo = {Snap(e) : e \in S}]
    BY <1>2 DEF PollFetch
  <2>2. /\ d.pc = "head" /\ d.todo = {Snap(e) : e \in S} /\ d.cur = c.cur
        /\ d.head = c.head /\ d.hashes = c.hashes
    BY <1>t, <2>1 DEF TypeOK, PollRec
  <2>3. \A s \in d.todo : s.block \in Blocks /\ s.block <= head /\ s.hash <= canon[s.block]
    <3>1. ASSUME NEW e \in S
          PROVE  /\ row[e].block \in Blocks /\ row[e].block <= head
                 /\ row[e].hash <= canon[row[e].block]
      <4>1. e \in EventIds /\ row[e].block > 0 /\ row[e].block \in Depth
        BY DEF Pollable, TypeOK, EventRow
      <4>2. row[e].block \in Blocks
        BY <4>1, ChainBounds DEF Depth, Blocks
      <4> QED BY <4>1, <4>2 DEF FinalityInv, RowsAreSeen, Seen
    <3> QED BY <2>2, <3>1 DEF Snap
  <2>4. \A b \in Blocks : d.hashes[b] = Unread
    BY <1>2, <1>c, <2>2 DEF PollFetch, CycleIsSound
  <2>5. \A b \in Blocks : HashIsSound(poll[p], b)'
    BY <2>4 DEF HashIsSound, Hashes, NoHash, Unread
  <2>6. CycleIsSound(poll[p])'
    BY <1>c, <1>f, <1>s, <2>2, <2>3, <2>4, <2>5 DEF CycleIsSound, Seen
  <2> QED BY <1>q, <2>6
<1>3. CASE PollHead(p)
  <2>1. /\ d.pc = "events" /\ d.todo = c.todo /\ d.cur = c.cur
        /\ d.head = head /\ d.hashes = c.hashes
    BY <1>3, <1>t DEF PollHead, TypeOK, PollRec
  <2>2. \A b \in Blocks : d.hashes[b] = Unread
    BY <1>3, <1>c, <2>1 DEF PollHead, CycleIsSound
  <2>3. \A b \in Blocks : HashIsSound(poll[p], b)'
    BY <2>2 DEF HashIsSound, Hashes, NoHash, Unread
  <2>4. CycleIsSound(poll[p])'
    BY <1>c, <1>f, <1>s, <1>t, <2>1, <2>3 DEF CycleIsSound, Seen
  <2> QED BY <1>q, <2>4
<1>4. CASE PollHash(p)
  <2>1. PICK b \in UnreadBlocks(p), h \in {NoHash} \cup Hashes :
          /\ h = canon[b] \/ (h = NoHash /\ May("rpc"))
          /\ poll' = [poll EXCEPT ![p].hashes[b] = h]
    BY <1>4 DEF PollHash
  <2>2. b \in Blocks
    BY <1>s DEF UnreadBlocks
  <2>3. /\ d.pc = "events" /\ d.todo = c.todo /\ d.cur = c.cur /\ d.head = c.head
        /\ \A x \in Blocks : d.hashes[x] = IF x = b THEN h ELSE c.hashes[x]
    BY <1>4, <1>t, <2>1, <2>2 DEF PollHash, TypeOK, PollRec
  <2>4. ASSUME NEW x \in Blocks PROVE HashIsSound(poll[p], x)'
    <3>1. CASE x = b
      <4>1. d.hashes[x] = h
        BY <2>3, <3>1
      <4>2. h = NoHash => May("rpc")
        BY <1>t, <2>1, <2>2 DEF Hashes, NoHash
      <4>3. h \in Hashes => h = canon[x]
        BY <2>1, <3>1 DEF Hashes, NoHash
      <4>4. \A s \in d.todo : s.block = x => s.hash <= canon[x]
        BY <1>s, <2>3
      <4> QED BY <1>f, <1>t, <4>1, <4>2, <4>3, <4>4 DEF HashIsSound
    <3>2. CASE x # b
      BY <1>c, <1>f, <2>3, <3>2 DEF CycleIsSound, HashIsSound, ChainFinalized, Confirmations
    <3> QED BY <3>1, <3>2
  <2>5. CycleIsSound(poll[p])'
    BY <1>c, <1>f, <1>s, <2>3, <2>4 DEF CycleIsSound, Seen
  <2> QED BY <1>q, <2>5
<1>5. CASE PollReorg(p)
  <2>1. PICK s \in NextEvents(p) : Mismatch(p, s) /\ Take(p, s, "invalidate")
    BY <1>5 DEF PollReorg
  <2>2. /\ d.pc = "invalidate" /\ d.cur = {s} /\ d.todo \subseteq c.todo
        /\ d.head = c.head /\ d.hashes = c.hashes
    BY <1>t, <2>1 DEF Take, TypeOK, PollRec
  <2>3. s.hash < canon[s.block]
    BY <1>n, <1>s, <1>t, <2>1 DEF Mismatch
  <2> QED BY <1>k, <1>n, <2>1, <2>2, <2>3
<1>6. CASE PollDepth(p)
  <2>1. PICK s \in NextEvents(p) :
          /\ ~Mismatch(p, s)
          /\ IF ChainFinalized(Confirmations(c.head, s.block))
             THEN Take(p, s, "transition")
             ELSE poll' = [poll EXCEPT ![p].todo = @ \ {s}]
    BY <1>6 DEF PollDepth
  <2>2. CASE ChainFinalized(Confirmations(c.head, s.block))
    <3>1. /\ d.pc = "transition" /\ d.cur = {s} /\ d.todo \subseteq c.todo
          /\ d.head = c.head /\ d.hashes = c.hashes
      BY <1>t, <2>1, <2>2 DEF Take, TypeOK, PollRec
    <3>2. head - s.block >= Required
      BY <1>c, <1>n, <1>s, <1>t, <2>2 DEF ChainFinalized, Confirmations, CycleIsSound
    <3>3. ~May("rpc") => canon[s.block] = s.hash
      BY <1>n, <2>1, <2>2 DEF Mismatch
    <3> QED BY <1>k, <1>n, <3>1, <3>2, <3>3
  <2>3. CASE ~ChainFinalized(Confirmations(c.head, s.block))
    <3>1. /\ d.pc = "events" /\ d.cur = c.cur /\ d.todo \subseteq c.todo
          /\ d.head = c.head /\ d.hashes = c.hashes
      BY <1>n, <1>t, <2>1, <2>3 DEF TypeOK, PollRec
    <3> QED BY <1>k, <3>1
  <2> QED BY <2>2, <2>3
<1>7. CASE PollSkip(p)
  <2>1. PICK s \in NextEvents(p) : poll' = [poll EXCEPT ![p].todo = @ \ {s}]
    BY <1>7 DEF PollSkip
  <2>2. /\ d.pc = "events" /\ d.cur = c.cur /\ d.todo \subseteq c.todo
        /\ d.head = c.head /\ d.hashes = c.hashes
    BY <1>n, <1>t, <2>1 DEF TypeOK, PollRec
  <2> QED BY <1>k, <2>2
<1>8. CASE PollTransition(p)
  <2>1. /\ c.pc = "transition" /\ d.pc = "dispatch" /\ d.cur = c.cur /\ d.todo = c.todo
        /\ d.head = c.head /\ d.hashes = c.hashes
    BY <1>8, <1>t DEF PollTransition, TypeOK, PollRec
  <2> QED BY <1>c, <1>k, <2>1 DEF CycleIsSound
<1>9. CASE PollTransitionFailed(p) \/ PollDispatch(p) \/ PollReorgDispatch(p)
  <2>1. /\ d.pc = "events" /\ d.cur = {} /\ d.todo = c.todo
        /\ d.head = c.head /\ d.hashes = c.hashes
    BY <1>9, <1>t DEF PollTransitionFailed, PollDispatch, PollReorgDispatch, Resume,
                      TypeOK, PollRec
  <2> QED BY <1>k, <2>1
<1>10. CASE PollInvalidate(p)
  <2>1. /\ c.pc = "invalidate" /\ d.pc = "reorg_dispatch" /\ d.cur = c.cur
        /\ d.todo = c.todo /\ d.head = c.head /\ d.hashes = c.hashes
    BY <1>10, <1>t DEF PollInvalidate, TypeOK, PollRec
  <2> QED BY <1>c, <1>k, <2>1 DEF CycleIsSound
<1>11. CASE PollEnd(p) \/ PollCrash(p)
  BY <1>11, <1>d DEF PollEnd, PollCrash
<1> QED
  BY <1>1, <1>2, <1>3, <1>4, <1>5, <1>6, <1>7, <1>8, <1>9, <1>10, <1>11 DEF PollNext

\* A sweeper, an answered delivery or the archiver touches no block and no poller.
LEMMA OtherFinality ==
    ASSUME TypeOK, FinalityInv, UNCHANGED <<chainVars, task, poll>>,
           \A e \in EventIds : row'[e].block = row[e].block /\ row'[e].hash = row[e].hash
    PROVE  FinalityInv'
<1>1. LogsAreSeen' /\ RowsAreSeen'
  BY DEF FinalityInv, LogsAreSeen, RowsAreSeen, Seen, chainVars
<1>2. \A t \in Tasks : TaskIsSound(task[t])'
  BY DEF FinalityInv, TaskIsSound, Seen, chainVars
<1>3. \A p \in Pollers : CycleIsSound(poll[p])'
  <2> SUFFICES ASSUME NEW p \in Pollers PROVE CycleIsSound(poll[p])'
    OBVIOUS
  <2>1. \A b \in Blocks : HashIsSound(poll[p], b)'
    BY DEF FinalityInv, CycleIsSound, HashIsSound, ChainFinalized, Confirmations, chainVars
  <2> QED BY <2>1 DEF FinalityInv, CycleIsSound, Seen, chainVars
<1> QED BY <1>1, <1>2, <1>3 DEF FinalityInv

LEMMA InitFinality == Init => FinalityInv
<1> SUFFICES ASSUME Init PROVE FinalityInv
  OBVIOUS
<1>1. LogsAreSeen
  BY DEF Init, ChainInit, LogsAreSeen
<1>2. RowsAreSeen
  BY DEF Init, RowsAreSeen, NoRow, Seen, Blocks
<1>3. \A t \in Tasks : TaskIsSound(task[t])
  BY DEF Init, IdleTask, TaskIsSound
<1>4. ASSUME NEW p \in Pollers PROVE CycleIsSound(poll[p])
  <2>1. poll[p] = IdlePoll /\ head = 1
    BY DEF Init, ChainInit
  <2>2. \A b \in Blocks : poll[p].hashes[b] = Unread
    BY <2>1 DEF IdlePoll
  <2>3. \A b \in Blocks : HashIsSound(poll[p], b)
    BY <2>2 DEF HashIsSound, Hashes, NoHash, Unread
  <2> QED BY <2>1, <2>2, <2>3 DEF CycleIsSound, IdlePoll
<1> QED BY <1>1, <1>2, <1>3, <1>4 DEF FinalityInv

LEMMA NextFinality == TypeOK /\ FinalityInv /\ [Next]_vars => FinalityInv'
<1> SUFFICES ASSUME TypeOK, FinalityInv, [Next]_vars PROVE FinalityInv'
  OBVIOUS
<1>t. TypeOK'
  BY NextType
<1>1. CASE Environment
  BY <1>1, <1>t, ChainFinality
<1>2. CASE \E m \in Deliverable : GoldskyAnswered(m)
  BY <1>2, OtherFinality DEF GoldskyAnswered, dbVars
<1>3. ASSUME NEW t \in Tasks, TaskNext(t) PROVE FinalityInv'
  BY <1>3, <1>t, TaskFinality
<1>4. ASSUME NEW p \in Pollers, PollNext(p) PROVE FinalityInv'
  BY <1>4, <1>t, PollFinality
<1>5. ASSUME NEW w \in Sweepers, SweepNext(w) PROVE FinalityInv'
  <2>1. row' = row \/ \E e : row' = [row EXCEPT ![e].status = "payment.failed"]
    BY <1>5 DEF SweepNext, SweepFetch, SweepExpire, SweepSkip, SweepDispatch, SweepCrash,
                dbVars
  <2>2. \A e \in EventIds : row'[e].block = row[e].block /\ row'[e].hash = row[e].hash
    BY <2>1 DEF TypeOK, EventRow
  <2> QED BY <1>5, <2>2, OtherFinality
          DEF SweepNext, SweepFetch, SweepExpire, SweepSkip, SweepDispatch, SweepCrash
<1>6. CASE \E a \in Auths : Archive(a)
  BY <1>6, OtherFinality DEF Archive
<1>7. CASE UNCHANGED vars
  BY <1>7, OtherFinality DEF vars, dbVars
<1> QED BY <1>1, <1>2, <1>3, <1>4, <1>5, <1>6, <1>7 DEF Next

-----------------------------------------------------------------------------
(* What the webhooks say *)

\* What dispatch_event and notify_batch put in a payload.
LEMMA WebhookFields ==
    ASSUME NEW e, NEW eps, NEW type, NEW block, NEW hash, NEW conf, NEW by,
           NEW w \in Webhooks(e, eps, type, block, hash, conf, by)
    PROVE  /\ w.ep \in eps /\ w.type = type /\ w.block = block /\ w.hash = hash
           /\ w.by = by /\ w.safe = SafeToExecute(type, PayloadFinalized(w.ep, conf, by))
BY DEF Webhooks

\* An event is called safe when it is finalized, or when the confirmation count
\* given to the payload reaches the endpoint's or the chain's depth.
LEMMA SafeMeansDeep ==
    ASSUME NEW ep \in Endpoints, NEW conf \in Conf, NEW type, NEW by,
           SafeToExecute(type, PayloadFinalized(ep, conf, by))
    PROVE  /\ type \notin {"payment.pre_confirmed", "payment.reorged", "payment.failed"}
           /\ \/ type = "payment.finalized"
              \/ conf # NoConf /\ conf >= SafeFloor(ep)
<1>1. conf \in Int /\ Required \in Nat /\ RequiredFor(ep) \in Nat
  BY OverrideType, RequiredCoversReorgs DEF Conf, Depth, NoConf, RequiredFor
<1>2. type \notin {"payment.pre_confirmed", "payment.reorged", "payment.failed"}
  BY DEF SafeToExecute, ExecutionState
<1>3. type = "payment.finalized" \/ PayloadFinalized(ep, conf, by)
  BY DEF SafeToExecute, ExecutionState
<1>4. PayloadFinalized(ep, conf, by) => conf # NoConf /\ conf >= SafeFloor(ep)
  BY <1>1 DEF PayloadFinalized, ChainFinalized, EndpointFinalized, SafeFloor, NoConf
<1> QED BY <1>2, <1>3, <1>4

LEMMA WithdrawnIsUnsafe ==
    ASSUME NEW type \in {"payment.reorged", "payment.failed"}, NEW finalized
    PROVE  ~SafeToExecute(type, finalized)
BY DEF SafeToExecute, ExecutionState

LEMMA FloorType ==
    ASSUME NEW ep \in Endpoints
    PROVE  SafeFloor(ep) \in Int /\ SafeFloor(ep) <= Required
BY OverrideType, RequiredCoversReorgs DEF SafeFloor, RequiredFor

Announced ==
    /\ SafeWebhooksAreDeep
    /\ ~May("rpc") => PollerAnnouncesCanonical
    /\ ReorgedWebhookIsOffChain

LEMMA SilentIsAnnounced ==
    ASSUME out' = {}
    PROVE  Announced'
BY DEF Announced, SafeWebhooksAreDeep, PollerAnnouncesCanonical, ReorgedWebhookIsOffChain

\* The webhooks of the two ingestion paths.
LEMMA TaskAnnounces ==
    ASSUME TypeOK, FinalityInv, UNCHANGED <<head, canon>>, NEW t \in Tasks,
           task[t].pc # "idle", NEW eps \in SUBSET Endpoints, NEW type,
           NEW by \in {"ingest", "promote"}, type # "payment.reorged",
           type = "payment.finalized" => ChainFinalized(task[t].conf),
           out' = Webhooks(task[t].eid, eps, type, task[t].block, task[t].hash,
                           task[t].conf, by)
    PROVE  Announced'
<1>b. /\ task[t].conf \in Conf /\ task[t].conf \in Int
      /\ task[t].block \in Int /\ Required \in Nat /\ head \in Int
  BY BusyIsBusy, BusyFields, NumberTypes, RequiredCoversReorgs
  DEF Conf, Depth, NoConf
<1>s. task[t].conf # NoConf => task[t].block > 0 /\ task[t].conf <= head - task[t].block
  BY DEF FinalityInv, TaskIsSound
<1> SUFFICES ASSUME NEW w \in out'
             PROVE  /\ w.by # "poller" /\ w.type # "payment.reorged"
                    /\ w.safe => w.block > 0 /\ head - w.block >= SafeFloor(w.ep)
  BY DEF Announced, SafeWebhooksAreDeep, PollerAnnouncesCanonical, ReorgedWebhookIsOffChain
<1>1. /\ w.ep \in eps /\ w.type = type /\ w.block = task[t].block
      /\ w.by = by /\ w.safe = SafeToExecute(type, PayloadFinalized(w.ep, task[t].conf, by))
  BY WebhookFields
<1>2. ASSUME w.safe PROVE w.block > 0 /\ head - w.block >= SafeFloor(w.ep)
  <2>1. w.ep \in Endpoints /\ SafeFloor(w.ep) \in Int /\ SafeFloor(w.ep) <= Required
    BY <1>1, FloorType
  <2>2. type = "payment.finalized" \/ (task[t].conf # NoConf /\ task[t].conf >= SafeFloor(w.ep))
    BY <1>1, <1>2, <1>b, <2>1, SafeMeansDeep
  <2>3. task[t].conf # NoConf /\ task[t].conf >= SafeFloor(w.ep)
    BY <1>b, <2>1, <2>2 DEF ChainFinalized, NoConf
  <2> QED BY <1>1, <1>b, <1>s, <2>1, <2>3
<1> QED BY <1>1, <1>2

LEMMA TaskStepAnnounces ==
    ASSUME TypeOK, FinalityInv, NEW t \in Tasks, TaskNext(t)
    PROVE  Announced'
<1>1. CASE Dispatch(t)
  <2>1. PICK eps \in SUBSET Endpoints :
          out' = Webhooks(task[t].eid, eps, IngestType(task[t]), task[t].block,
                          task[t].hash, task[t].conf, "ingest")
    <3>1. ASSUME NEW approved \in Approved(Endpoints),
                 NEW eps \in Reached(ReadyEndpoints(approved, task[t].conf))
          PROVE  eps \subseteq Endpoints
      <4>1. approved \subseteq Endpoints
        BY ReachedType
      <4>2. ReadyEndpoints(approved, task[t].conf) \subseteq Endpoints
        BY <4>1 DEF ReadyEndpoints
      <4> QED BY <4>2, ReachedType
    <3> QED BY <1>1, <3>1 DEF Dispatch
  <2>2. IngestType(task[t]) \notin {"payment.reorged", "payment.finalized"}
    BY DEF IngestType
  <2>3. task[t].pc # "idle" /\ UNCHANGED <<head, canon>>
    BY <1>1 DEF Dispatch, chainVars
  <2> HIDE DEF IngestType
  <2> QED BY <2>1, <2>2, <2>3, TaskAnnounces
<1>2. CASE PromoteDispatch(t)
  <2>b. task[t].eid \in EventIds /\ row[task[t].eid].endpoint \in OptEndpoint
    BY <1>2, BusyIsBusy, BusyFields DEF PromoteDispatch, TypeOK, EventRow
  <2>1. PICK eps \in SUBSET Endpoints :
          out' = Webhooks(task[t].eid, eps, PromotedType(task[t]), task[t].block,
                          task[t].hash, task[t].conf, "promote")
    <3>1. ASSUME NEW found \in LinkedEndpoints(task[t].eid, row[task[t].eid].endpoint),
                 NEW approved \in Approved(found), NEW eps \in Reached(approved)
          PROVE  eps \subseteq Endpoints
      BY <2>b, LinkedEndpointsType, ReachedType
    <3> QED BY <1>2, <3>1 DEF PromoteDispatch
  <2>2. /\ PromotedType(task[t]) # "payment.reorged"
        /\ PromotedType(task[t]) = "payment.finalized" => ChainFinalized(task[t].conf)
    BY DEF PromotedType
  <2>3. task[t].pc # "idle" /\ UNCHANGED <<head, canon>>
    BY <1>2 DEF PromoteDispatch, chainVars
  <2> QED BY <2>1, <2>2, <2>3, TaskAnnounces
<1>3. CASE ~Dispatch(t) /\ ~PromoteDispatch(t)
  <2>1. out' = {}
    BY <1>3 DEF TaskNext, FacilitatorClaim, GoldskyClaim, GoldskyCorrelate, Accept,
         Finality, Record, RecordUnmatched, RecordFailed, Link, Promote, PromoteNotFound,
         PromoteFinality, TaskError, TaskCrash
  <2> QED BY <2>1, SilentIsAnnounced
<1> QED BY <1>1, <1>2, <1>3

LEMMA PollStepAnnounces ==
    ASSUME TypeOK, FinalityInv, NEW p \in Pollers, PollNext(p)
    PROVE  Announced'
<1>f. UNCHANGED <<head, canon>>
  BY PollFrame
<1>c. CycleIsSound(poll[p]) /\ poll[p].cur \subseteq Snapshot
  BY DEF FinalityInv, TypeOK, PollRec
<1>t. head \in Int /\ Required \in Int /\ \A b \in Blocks : b \in Int /\ b > 0 /\ canon[b] \in Int
  BY NumberTypes DEF Blocks
<1>1. CASE PollDispatch(p)
  <2>1. PICK s \in poll[p].cur, eps \in SUBSET Endpoints :
          out' = Webhooks(s.eid, eps, SuccessorType(s), s.block, s.hash, s.depth,
                          "poller")
    <3>1. ASSUME NEW s \in poll[p].cur, NEW found \in LinkedEndpoints(s.eid, s.endpoint),
                 NEW eps \in Reached(found)
          PROVE  eps \subseteq Endpoints
      BY <1>c, SnapshotFields, LinkedEndpointsType, ReachedType
    <3> QED BY <1>1, <3>1 DEF PollDispatch
  <2>2. /\ s.block \in Blocks /\ head - s.block >= Required
        /\ ~May("rpc") => canon[s.block] = s.hash
    BY <1>1, <1>c DEF PollDispatch, CycleIsSound
  <2>3. ASSUME NEW w \in out'
        PROVE  /\ w.ep \in Endpoints /\ w.block = s.block /\ w.hash = s.hash
               /\ w.type # "payment.reorged"
    BY <2>1, WebhookFields DEF SuccessorType
  <2>4. SafeWebhooksAreDeep'
    BY <1>f, <1>t, <2>2, <2>3, FloorType DEF SafeWebhooksAreDeep
  <2>5. ~May("rpc") => PollerAnnouncesCanonical'
    BY <1>f, <2>2, <2>3 DEF PollerAnnouncesCanonical, IsCanonical
  <2>6. ReorgedWebhookIsOffChain'
    BY <2>3 DEF ReorgedWebhookIsOffChain
  <2> QED BY <2>4, <2>5, <2>6 DEF Announced
<1>2. CASE PollReorgDispatch(p)
  <2>1. PICK s \in poll[p].cur, eps \in SUBSET Endpoints :
          out' = Webhooks(s.eid, eps, "payment.reorged", s.block, s.hash, NoConf,
                          "poller")
    <3>1. ASSUME NEW s \in poll[p].cur, NEW found \in LinkedEndpoints(s.eid, s.endpoint),
                 NEW eps \in Reached(found)
          PROVE  eps \subseteq Endpoints
      BY <1>c, SnapshotFields, LinkedEndpointsType, ReachedType
    <3> QED BY <1>2, <3>1 DEF PollReorgDispatch
  <2>2. s.block \in Blocks /\ s.hash < canon[s.block] /\ s.hash \in Int
    BY <1>2, <1>c, SnapshotFields
    DEF PollReorgDispatch, CycleIsSound, StoredHash, Hashes, NoHash
  <2>3. ASSUME NEW w \in out'
        PROVE  /\ w.block = s.block /\ w.hash = s.hash /\ w.type = "payment.reorged"
               /\ ~w.safe
    BY <2>1, WebhookFields, WithdrawnIsUnsafe
  <2>4. SafeWebhooksAreDeep' /\ PollerAnnouncesCanonical'
    BY <2>3 DEF SafeWebhooksAreDeep, PollerAnnouncesCanonical
  <2>5. ReorgedWebhookIsOffChain'
    BY <1>f, <1>t, <2>2, <2>3 DEF ReorgedWebhookIsOffChain, IsCanonical
  <2> QED BY <2>4, <2>5 DEF Announced
<1>3. CASE ~PollDispatch(p) /\ ~PollReorgDispatch(p)
  <2>1. out' = {}
    BY <1>3 DEF PollNext, PollStart, PollFetch, PollHead, PollHash, PollReorg, PollDepth,
         PollSkip, PollTransition, PollTransitionFailed, PollInvalidate, PollEnd,
         PollCrash, PollDone
  <2> QED BY <2>1, SilentIsAnnounced
<1> QED BY <1>1, <1>2, <1>3

LEMMA SweepStepAnnounces ==
    ASSUME NEW w \in Sweepers, SweepNext(w)
    PROVE  Announced'
<1>1. CASE SweepDispatch(w)
  <2>1. PICK e, eps : out' = Webhooks(e, eps, "payment.failed", 0, NoHash, NoConf, "sweeper")
    BY <1>1 DEF SweepDispatch
  <2>2. ASSUME NEW x \in out'
        PROVE  x.type = "payment.failed" /\ ~x.safe
    BY <2>1, WebhookFields, WithdrawnIsUnsafe
  <2> QED BY <2>2 DEF Announced, SafeWebhooksAreDeep, PollerAnnouncesCanonical,
                      ReorgedWebhookIsOffChain
<1>2. CASE ~SweepDispatch(w)
  <2>1. out' = {}
    BY <1>2 DEF SweepNext, SweepFetch, SweepExpire, SweepSkip, SweepCrash
  <2> QED BY <2>1, SilentIsAnnounced
<1> QED BY <1>1, <1>2

LEMMA NextAnnounces ==
    ASSUME TypeOK, FinalityInv, Announced, [Next]_vars
    PROVE  Announced'
<1>1. CASE Environment \/ (\E m \in Deliverable : GoldskyAnswered(m))
           \/ (\E a \in Auths : Archive(a))
  BY <1>1, SilentIsAnnounced DEF Environment, GoldskyAnswered, Archive
<1>2. CASE \E t \in Tasks : TaskNext(t)
  BY <1>2, TaskStepAnnounces
<1>3. CASE \E p \in Pollers : PollNext(p)
  BY <1>3, PollStepAnnounces
<1>4. CASE \E w \in Sweepers : SweepNext(w)
  BY <1>4, SweepStepAnnounces
<1>5. CASE UNCHANGED vars
  BY <1>5 DEF vars, chainVars, Announced, SafeWebhooksAreDeep, PollerAnnouncesCanonical,
              ReorgedWebhookIsOffChain, IsCanonical
<1> QED BY <1>1, <1>2, <1>3, <1>4, <1>5 DEF Next

\* The parts of FinalityInv hold together, and with them what every webhook says
\* when it is sent, whatever fails and however the pollers interleave.
THEOREM FinalityCorrect == Spec => [](FinalityInv /\ Announced)
<1>1. Init => TypeOK /\ FinalityInv /\ Announced
  BY InitType, InitFinality
  DEF Init, Announced, SafeWebhooksAreDeep, PollerAnnouncesCanonical,
      ReorgedWebhookIsOffChain
<1>2. /\ TypeOK /\ FinalityInv /\ Announced
      /\ [Next]_vars
      => TypeOK' /\ FinalityInv' /\ Announced'
  BY NextType, NextFinality, NextAnnounces
<1> QED BY <1>1, <1>2, PTL DEF Spec

\* No path sends safe_to_execute for a block shallower than the endpoint's or the
\* chain's depth, although heads, rows and snapshots may be stale, RPC calls may
\* fail, and any number of replicas poll.
THEOREM SafeToExecuteIsDeep == Spec => []SafeWebhooksAreDeep
<1>1. FinalityInv /\ Announced => SafeWebhooksAreDeep
  BY DEF Announced
<1> QED BY <1>1, FinalityCorrect, PTL

\* While every hash can be fetched, what any poller announces as confirmed or
\* finalized is canonical and at least the chain's depth deep when it is sent,
\* with no assumption on the leader lock: the head is read before the hashes, and
\* no reorg reaches that depth.
THEOREM PollerIsRight ==
    ASSUME "rpc" \notin Contingencies
    PROVE  Spec => []PollerAnnouncesCanonical
<1>1. FinalityInv /\ Announced => PollerAnnouncesCanonical
  BY DEF Announced, May
<1> QED BY <1>1, FinalityCorrect, PTL

\* payment.reorged is only sent for a block that was replaced: a hash that is
\* missing is no mismatch, and the fetched hash is newer than the snapshot.
THEOREM ReorgIsReal == Spec => []ReorgedWebhookIsOffChain
<1>1. FinalityInv /\ Announced => ReorgedWebhookIsOffChain
  BY DEF Announced
<1> QED BY <1>1, FinalityCorrect, PTL

-----------------------------------------------------------------------------
(* The statuses of an event that Goldsky recorded: every writer updates by id
   alone and any number of pollers run side by side, and yet what a status says of
   the chain is true. *)

\* The row e is there as before, with the type, block and hash it had, and it has
\* not become pre_confirmed.
Kept(e) ==
    /\ row'[e].type = row[e].type
    /\ row'[e].block = row[e].block /\ row'[e].hash = row[e].hash
    /\ row'[e].status = "absent" <=> row[e].status = "absent"
    /\ row'[e].status = "pre_confirmed" => row[e].status = "pre_confirmed"

\* The parts of ForwardInv that are about tasks and rows.
TaskForward ==
    /\ RowsHaveOwners /\ TasksHaveOwners /\ RecordersAreAlone
    /\ NamedAreFacilitated /\ PromotedAreFacilitated /\ PreConfirmedAreFacilitated

\* A step that leaves the tasks alone keeps them, when it keeps every row and
\* names no event anew.
LEMMA TaskForwardFrame ==
    ASSUME TypeOK, TaskForward, UNCHANGED <<task, owner>>,
           \A e \in EventIds : Kept(e),
           \A a \in Auths : nonces'[a].event \in {NULL, nonces[a].event}
    PROVE  TaskForward'
<1>e. \A t \in Tasks : task[t].pc # "idle" => task[t].eid \in EventIds
  BY BusyIsBusy, BusyFields
<1>1. RowsHaveOwners' /\ TasksHaveOwners'
  BY DEF TaskForward, RowsHaveOwners, TasksHaveOwners, Kept
<1>2. RecordersAreAlone'
  BY <1>e DEF TaskForward, RecordersAreAlone, Recording, Kept
<1>3. ASSUME NEW e \in EventIds, Facilitated(e) PROVE Facilitated(e)'
  BY <1>3 DEF Facilitated, Recording, Kept
<1>4. NamedAreFacilitated'
  <2> SUFFICES ASSUME NEW a \in Auths, nonces'[a].event # NULL
               PROVE  Facilitated(nonces[a].event)'
    BY DEF NamedAreFacilitated
  <2>1. nonces[a].event \in EventIds /\ nonces'[a].event = nonces[a].event
    BY DEF TypeOK, NonceRow
  <2>2. PICK e \in EventIds : e = nonces[a].event
    BY <2>1
  <2>3. Facilitated(e)
    BY <2>1, <2>2 DEF TaskForward, NamedAreFacilitated
  <2> QED BY <1>3, <2>1, <2>2, <2>3 DEF Facilitated
<1>5. PromotedAreFacilitated'
  <2> SUFFICES ASSUME NEW t \in Tasks, task[t].pc = "promote"
               PROVE  Facilitated(task[t].eid)'
    BY DEF PromotedAreFacilitated
  <2>1. PICK e \in EventIds : e = task[t].eid
    BY <1>e
  <2>2. Facilitated(e)
    BY <2>1 DEF TaskForward, PromotedAreFacilitated
  <2> QED BY <1>3, <2>1, <2>2 DEF Facilitated
<1>6. PreConfirmedAreFacilitated'
  BY DEF TaskForward, PreConfirmedAreFacilitated, Kept
<1> QED BY <1>1, <1>2, <1>4, <1>5, <1>6 DEF TaskForward

\* Steps of other processes do not get between a poller and its rows when the
\* statuses they write are those of facilitator events.
LEMMA SnapshotsFrame ==
    ASSUME TypeOK, SnapshotsAreOfRows, SnapshotsAreInStep, poll' = poll,
           \A e \in EventIds : row[e].status # "absent" =>
             /\ row'[e].type = row[e].type /\ row'[e].status # "absent"
             /\ row[e].type # "payment.pre_confirmed" =>
                  /\ row'[e].status = row[e].status
                  /\ row'[e].block = row[e].block /\ row'[e].hash = row[e].hash
    PROVE  SnapshotsAreOfRows' /\ SnapshotsAreInStep'
<1>1. ASSUME NEW p \in Pollers, NEW s \in poll[p].todo \cup poll[p].cur
      PROVE  /\ row[s.eid].status # "absent" /\ row'[s.eid].status # "absent"
             /\ Direct(s.eid)' <=> Direct(s.eid)
             /\ Direct(s.eid) =>
                  /\ row'[s.eid].status = row[s.eid].status
                  /\ row'[s.eid].block = row[s.eid].block
                  /\ row'[s.eid].hash = row[s.eid].hash
  <2>1. s.eid \in EventIds
    BY SnapshotFields DEF TypeOK, PollRec
  <2>2. row[s.eid].status # "absent"
    BY DEF SnapshotsAreOfRows
  <2> QED BY <2>1, <2>2 DEF Direct
<1>2. SnapshotsAreOfRows'
  BY <1>1 DEF SnapshotsAreOfRows
<1>3. SnapshotsAreInStep'
  BY <1>1 DEF SnapshotsAreInStep, Acting
<1> QED BY <1>2, <1>3

LEMMA SweptFrame ==
    ASSUME TypeOK, SweptAreFacilitated, NEW v,
           \A w \in Sweepers : w # v => sweep'[w] = sweep[w],
           v \in Sweepers => sweep'[v].todo \subseteq sweep[v].todo,
           \A e \in EventIds : row[e].status # "absent" =>
             row'[e].type = row[e].type /\ row'[e].status # "absent"
    PROVE  SweptAreFacilitated'
BY DEF SweptAreFacilitated, TypeOK, SweepRec

\* A claim: the uuid is fresh, so no row, nonce, task or sweeper knows it.
LEMMA ClaimForward ==
    ASSUME TypeOK, ForwardInv, NEW t \in Tasks, NEW a \in Auths, NEW e \in Fresh,
           NEW column \in {e, NULL}, NEW src, NEW busy \in BusyTask,
           busy.eid = e, busy.pc \in {"finality", "record"},
           column # NULL => busy.source = "facilitator",
           Accept(t, a, e, column, src, busy)
    PROVE  ForwardInv'
<1>e. e \in EventIds /\ owner[e] = NULL /\ a # NULL
  BY NullIsNoAuth DEF Fresh
<1>1. /\ \A f \in EventIds : owner'[f] = IF f = e THEN a ELSE owner[f]
      /\ \A b \in Auths : b # a => nonces'[b] = nonces[b]
      /\ nonces'[a].event = column
      /\ task'[t] = busy /\ \A u \in Tasks : u # t => task'[u] = task[u]
      /\ UNCHANGED <<row, poll, sweep>>
  BY <1>e DEF TypeOK, Accept, Claimed
<1>2. \A u \in Tasks : task[u].pc # "idle" => task[u].eid \in EventIds /\ task[u].eid # e
  BY <1>e, BusyIsBusy, BusyFields DEF ForwardInv, TasksHaveOwners
<1>3. row[e].status = "absent"
  BY <1>e DEF ForwardInv, RowsHaveOwners
<1>4. RowsHaveOwners' /\ TasksHaveOwners'
  BY <1>1, <1>2, <1>e DEF ForwardInv, RowsHaveOwners, TasksHaveOwners
<1>5. RecordersAreAlone'
  BY <1>1, <1>2, <1>3 DEF ForwardInv, RecordersAreAlone, Recording
<1>6. ASSUME NEW f \in EventIds, Facilitated(f) PROVE Facilitated(f)'
  BY <1>1, <1>6, <1>e DEF Facilitated, Recording
<1>7. column # NULL => Facilitated(e)'
  BY <1>1, <1>2, <1>3, <1>e DEF Facilitated, Recording
<1>8. NamedAreFacilitated'
  <2> SUFFICES ASSUME NEW b \in Auths, nonces'[b].event # NULL
               PROVE  Facilitated(nonces[b].event)'
    BY DEF NamedAreFacilitated
  <2>1. CASE b = a
    BY <1>1, <1>7, <2>1 DEF Facilitated
  <2>2. CASE b # a
    <3>1. PICK f \in EventIds : f = nonces[b].event
      BY <1>1, <2>2 DEF TypeOK, NonceRow
    <3>2. Facilitated(f)
      BY <1>1, <2>2, <3>1 DEF ForwardInv, NamedAreFacilitated
    <3> QED BY <1>1, <1>6, <2>2, <3>1, <3>2 DEF Facilitated
  <2> QED BY <2>1, <2>2
<1>9. PromotedAreFacilitated'
  <2> SUFFICES ASSUME NEW u \in Tasks, task'[u].pc = "promote"
               PROVE  Facilitated(task[u].eid)'
    BY DEF PromotedAreFacilitated
  <2>1. u # t /\ task'[u] = task[u]
    BY <1>1
  <2>2. PICK f \in EventIds : f = task[u].eid
    BY <1>2, <2>1
  <2>3. Facilitated(f)
    BY <2>1, <2>2 DEF ForwardInv, PromotedAreFacilitated
  <2> QED BY <1>6, <2>1, <2>2, <2>3 DEF Facilitated
<1>10. /\ PreConfirmedAreFacilitated' /\ SweptAreFacilitated'
       /\ SnapshotsAreOfRows' /\ SnapshotsAreInStep'
  BY <1>1 DEF ForwardInv, PreConfirmedAreFacilitated, SweptAreFacilitated,
              SnapshotsAreOfRows, SnapshotsAreInStep, Acting, Direct
<1> QED BY <1>4, <1>5, <1>8, <1>9, <1>10 DEF ForwardInv

\* A task that has its uuid: it writes its own row when that is not there yet, or
\* promotes one that is the facilitator's.
LEMMA BusyForward ==
    ASSUME TypeOK, ForwardInv, NEW t \in Tasks, task[t].pc # "idle",
           UNCHANGED <<nonces, poll, sweep, owner>>,
           \A u \in Tasks : u # t => task'[u] = task[u],
           \/ task'[t] = IdleTask
           \/ /\ task'[t].eid = task[t].eid /\ task'[t].source = task[t].source
              /\ task'[t].pc # "promote"
              /\ Recording(t)' => Recording(t) /\ row' = row,
           \/ row' = row
           \/ /\ Recording(t)
              /\ \E ep : row' = [row EXCEPT ![task[t].eid] = RecordedRow(task[t], ep)]
           \/ /\ task[t].pc = "promote" /\ row[task[t].eid].status # "absent"
              /\ row'[task[t].eid].status = "confirmed"
              /\ row'[task[t].eid].type = row[task[t].eid].type
              /\ \A f \in EventIds : f # task[t].eid => row'[f] = row[f]
    PROVE  ForwardInv'
<1>e. PICK e \in EventIds : e = task[t].eid
  BY BusyIsBusy, BusyFields
<1>o. owner[e] # NULL
  BY <1>e DEF ForwardInv, TasksHaveOwners
<1>b. \A u \in Tasks : task[u].pc # "idle" => task[u].eid \in EventIds
  BY BusyIsBusy, BusyFields
<1>r. \/ row' = row
      \/ /\ Recording(t) /\ row[e].status = "absent"
         /\ row'[e].status = "pre_confirmed" => row'[e].type = "payment.pre_confirmed"
         /\ task[t].source = "facilitator" => row'[e].type = "payment.pre_confirmed"
         /\ \A f \in EventIds : f # e => row'[f] = row[f]
      \/ /\ row[e].status # "absent" /\ row[e].type = "payment.pre_confirmed"
         /\ row'[e].status = "confirmed" /\ row'[e].type = row[e].type
         /\ \A f \in EventIds : f # e => row'[f] = row[f]
  <2>1. CASE /\ Recording(t)
             /\ \E ep : row' = [row EXCEPT ![task[t].eid] = RecordedRow(task[t], ep)]
    <3>1. row[e].status = "absent"
      BY <1>e, <2>1 DEF ForwardInv, RecordersAreAlone
    <3>2. /\ row'[e].status = RecordedStatus(task[t]) /\ row'[e].type = IngestType(task[t])
          /\ \A f \in EventIds : f # e => row'[f] = row[f]
      BY <1>e, <2>1 DEF RecordedRow, TypeOK
    <3>3. RecordedStatus(task[t]) = "pre_confirmed" => task[t].source = "facilitator"
      BY DEF RecordedStatus
    <3>4. task[t].source = "facilitator" => IngestType(task[t]) = "payment.pre_confirmed"
      BY DEF IngestType
    <3> QED BY <2>1, <3>1, <3>2, <3>3, <3>4
  <2>2. CASE task[t].pc = "promote" /\ row[task[t].eid].status # "absent"
    BY <1>e, <2>2 DEF ForwardInv, PromotedAreFacilitated, Facilitated, Recording
  <2> QED BY <1>e, <2>1, <2>2
<1>1. RowsHaveOwners' /\ TasksHaveOwners'
  <2>1. RowsHaveOwners'
    BY <1>o, <1>r DEF ForwardInv, RowsHaveOwners
  <2>2. TasksHaveOwners'
    BY <1>e, <1>o DEF ForwardInv, TasksHaveOwners, IdleTask
  <2> QED BY <2>1, <2>2
<1>t. \A u \in Tasks : Recording(u)' =>
        /\ Recording(u) /\ task'[u].eid = task[u].eid /\ task'[u].source = task[u].source
        /\ row'[task[u].eid] = row[task[u].eid]
  <2> SUFFICES ASSUME NEW u \in Tasks, Recording(u)'
               PROVE  /\ Recording(u) /\ task'[u].eid = task[u].eid
                      /\ task'[u].source = task[u].source
                      /\ row'[task[u].eid] = row[task[u].eid]
    OBVIOUS
  <2>1. CASE u = t
    BY <2>1 DEF Recording, IdleTask
  <2>2. CASE u # t
    <3>1. task'[u] = task[u] /\ Recording(u) /\ task[u].eid \in EventIds
      BY <1>b, <2>2 DEF Recording
    <3>2. row[task[u].eid].status = "absent" /\ (Recording(t) => task[u].eid # e)
      BY <1>e, <2>2, <3>1 DEF ForwardInv, RecordersAreAlone
    <3> QED BY <1>r, <3>1, <3>2
  <2> QED BY <2>1, <2>2
<1>2. RecordersAreAlone'
  BY <1>t DEF ForwardInv, RecordersAreAlone
<1>3. ASSUME NEW f \in EventIds, Facilitated(f) PROVE Facilitated(f)'
  BY <1>3, <1>e, <1>r, <1>t DEF Facilitated
<1>4. NamedAreFacilitated'
  <2> SUFFICES ASSUME NEW a \in Auths, nonces[a].event # NULL
               PROVE  Facilitated(nonces[a].event)'
    BY DEF NamedAreFacilitated
  <2>1. PICK f \in EventIds : f = nonces[a].event
    BY DEF TypeOK, NonceRow
  <2>2. Facilitated(f)
    BY <2>1 DEF ForwardInv, NamedAreFacilitated
  <2> QED BY <1>3, <2>1, <2>2 DEF Facilitated
<1>5. PromotedAreFacilitated'
  <2> SUFFICES ASSUME NEW u \in Tasks, task'[u].pc = "promote"
               PROVE  Facilitated(task[u].eid)'
    BY DEF PromotedAreFacilitated
  <2>1. task'[u] = task[u]
    BY DEF IdleTask
  <2>2. PICK f \in EventIds : f = task[u].eid
    BY <1>b, <2>1
  <2>3. Facilitated(f)
    BY <2>1, <2>2 DEF ForwardInv, PromotedAreFacilitated
  <2> QED BY <1>3, <2>1, <2>2, <2>3 DEF Facilitated
<1>6. PreConfirmedAreFacilitated'
  BY <1>r DEF ForwardInv, PreConfirmedAreFacilitated
<1>7. SweptAreFacilitated'
  BY <1>r DEF ForwardInv, SweptAreFacilitated, TypeOK, SweepRec
<1>8. SnapshotsAreOfRows' /\ SnapshotsAreInStep'
  BY <1>r, SnapshotsFrame DEF ForwardInv
<1> QED BY <1>1, <1>2, <1>4, <1>5, <1>6, <1>7, <1>8 DEF ForwardInv

LEMMA TaskStepForward ==
    ASSUME TypeOK, ForwardInv, NEW t \in Tasks, TaskNext(t)
    PROVE  ForwardInv'
<1> USE DEF dbVars, histVars
<1>b. task[t].pc # "idle" => task[t] \in BusyTask
  BY BusyIsBusy
<1>i. ASSUME task[t].pc # "idle", task'[t] = IdleTask, row' = row,
             UNCHANGED <<nonces, poll, sweep, owner>>,
             \A u \in Tasks : u # t => task'[u] = task[u]
      PROVE  ForwardInv'
  BY <1>i, BusyForward
<1>1. ASSUME NEW a \in Auths, FacilitatorClaim(t, a) PROVE ForwardInv'
  <2> DEFINE busy(e) == [pc |-> "record", source |-> "facilitator", auth |-> a, eid |-> e,
                         block |-> 0, hash |-> NoHash, conf |-> NoConf]
  <2>1. PICK e \in Fresh : Accept(t, a, e, e, "facilitator", busy(e))
    BY <1>1 DEF FacilitatorClaim
  <2>2. /\ busy(e) \in BusyTask /\ busy(e).eid = e /\ busy(e).pc = "record"
        /\ busy(e).source = "facilitator"
    BY DEF BusyTask, FacilitatorTask, Fresh
  <2> HIDE DEF busy
  <2> QED BY <2>1, <2>2, ClaimForward
<1>2. ASSUME NEW m \in Deliverable, GoldskyClaim(t, m) PROVE ForwardInv'
  <2> DEFINE busy(e) == [pc |-> "finality", source |-> "goldsky", auth |-> m.auth, eid |-> e,
                         block |-> m.block, hash |-> m.hash, conf |-> NoConf]
  <2>1. PICK e \in Fresh : Accept(t, m.auth, e, NULL, "goldsky", busy(e))
    BY <1>2 DEF GoldskyClaim
  <2>2. m \in Log /\ m.auth \in Auths
    BY DEF Deliverable, TypeOK, ChainTypeOK, Log
  <2>3. busy(e) \in BusyTask /\ busy(e).eid = e /\ busy(e).pc = "finality"
    BY <2>2 DEF BusyTask, GoldskyTask, Log, Conf, Fresh
  <2> HIDE DEF busy
  <2> QED BY <2>1, <2>2, <2>3, ClaimForward
<1>3. ASSUME NEW m \in Deliverable, GoldskyCorrelate(t, m) PROVE ForwardInv'
  <2>1. m \in Log /\ m.auth \in Auths
    BY DEF Deliverable, TypeOK, ChainTypeOK, Log
  <2>2. PICK e \in EventIds : e = nonces[m.auth].event /\ Facilitated(e)
    BY <1>3, <2>1 DEF GoldskyCorrelate, Correlates, ForwardInv, NamedAreFacilitated,
                      TypeOK, NonceRow
  <2>3. /\ task'[t].pc = "promote" /\ task'[t].eid = e
        /\ \A u \in Tasks : u # t => task'[u] = task[u]
        /\ UNCHANGED <<row, nonces, owner, poll, sweep>>
    BY <1>3, <2>2 DEF GoldskyCorrelate, TypeOK
  <2>4. RowsHaveOwners' /\ TasksHaveOwners'
    BY <2>2, <2>3 DEF ForwardInv, RowsHaveOwners, TasksHaveOwners, Facilitated
  <2>5. RecordersAreAlone'
    BY <2>3 DEF ForwardInv, RecordersAreAlone, Recording
  <2>6. \A f \in EventIds : Facilitated(f) => Facilitated(f)'
    BY <2>3 DEF Facilitated, Recording
  <2>7. NamedAreFacilitated'
    <3> SUFFICES ASSUME NEW a \in Auths, nonces[a].event # NULL
                 PROVE  Facilitated(nonces[a].event)'
      BY <2>3 DEF NamedAreFacilitated
    <3>1. PICK f \in EventIds : f = nonces[a].event
      BY DEF TypeOK, NonceRow
    <3> QED BY <2>3, <2>6, <3>1 DEF ForwardInv, NamedAreFacilitated, Facilitated
  <2>8. PromotedAreFacilitated'
    <3> SUFFICES ASSUME NEW u \in Tasks, task'[u].pc = "promote"
                 PROVE  Facilitated(task[u].eid)'
      BY DEF PromotedAreFacilitated
    <3>1. PICK f \in EventIds : f = task'[u].eid /\ Facilitated(f)
      <4>1. CASE u = t
        BY <2>2, <2>3, <4>1
      <4>2. CASE u # t
        BY <2>3, <4>2, BusyIsBusy, BusyFields DEF ForwardInv, PromotedAreFacilitated
      <4> QED BY <4>1, <4>2
    <3> QED BY <2>6, <3>1 DEF Facilitated
  <2>9. /\ PreConfirmedAreFacilitated' /\ SweptAreFacilitated'
        /\ SnapshotsAreOfRows' /\ SnapshotsAreInStep'
    BY <2>3 DEF ForwardInv, PreConfirmedAreFacilitated, SweptAreFacilitated,
                SnapshotsAreOfRows, SnapshotsAreInStep, Acting, Direct
  <2> QED BY <2>4, <2>5, <2>7, <2>8, <2>9 DEF ForwardInv
<1>4. CASE Finality(t)
  <2>1. /\ task'[t].eid = task[t].eid /\ task'[t].source = task[t].source
        /\ task'[t].pc = "record" /\ Recording(t)
        /\ \A u \in Tasks : u # t => task'[u] = task[u]
    BY <1>4, <1>b DEF Finality, Recording, TypeOK, BusyTask, FacilitatorTask, GoldskyTask
  <2> QED BY <1>4, <2>1, BusyForward DEF Finality
<1>5. CASE Record(t)
  <2>k. /\ \A u \in Tasks : u # t => task'[u] = task[u]
        /\ task'[t].eid = task[t].eid /\ task'[t].source = task[t].source
        /\ task'[t].pc # "promote" /\ ~Recording(t)'
    BY <1>5, <1>b DEF Record, TypeOK, BusyTask, FacilitatorTask, GoldskyTask, Recording
  <2> QED BY <1>5, <2>k, BusyForward DEF Record, Recording
<1>6. CASE RecordUnmatched(t)
  <2>1. task'[t] = IdleTask /\ \A u \in Tasks : u # t => task'[u] = task[u]
    BY <1>6 DEF RecordUnmatched, Return, TypeOK
  <2> QED BY <1>6, <2>1, BusyForward DEF RecordUnmatched, Recording
<1>7. CASE RecordFailed(t)
  <2>k. /\ \A u \in Tasks : u # t => task'[u] = task[u]
        /\ task'[t].eid = task[t].eid /\ task'[t].source = task[t].source
        /\ task'[t].pc # "promote" /\ ~Recording(t)'
    BY <1>7, <1>b DEF RecordFailed, TypeOK, BusyTask, FacilitatorTask, GoldskyTask, Recording
  <2> QED BY <1>7, <2>k, BusyForward DEF RecordFailed
<1>8. CASE Link(t)
  <2>k. /\ \A u \in Tasks : u # t => task'[u] = task[u]
        /\ task'[t].eid = task[t].eid /\ task'[t].source = task[t].source
        /\ task'[t].pc # "promote" /\ ~Recording(t)'
    BY <1>8, <1>b DEF Link, TypeOK, BusyTask, FacilitatorTask, GoldskyTask, Recording
  <2> QED BY <1>8, <2>k, BusyForward DEF Link
<1>9. CASE Promote(t)
  <2>1. task[t].eid \in EventIds
    BY <1>9, BusyIsBusy, BusyFields DEF Promote
  <2>2. /\ row'[task[t].eid].status = "confirmed"
        /\ row'[task[t].eid].type = row[task[t].eid].type
        /\ \A f \in EventIds : f # task[t].eid => row'[f] = row[f]
    BY <1>9, <2>1 DEF Promote, TypeOK, EventRow
  <2>k. /\ \A u \in Tasks : u # t => task'[u] = task[u]
        /\ task'[t].eid = task[t].eid /\ task'[t].source = task[t].source
        /\ task'[t].pc # "promote" /\ ~Recording(t)'
    BY <1>9, <1>b DEF Promote, TypeOK, BusyTask, FacilitatorTask, GoldskyTask, Recording
  <2> QED BY <1>9, <2>k, <2>2, BusyForward DEF Promote
<1>10. CASE PromoteFinality(t)
  <2>k. /\ \A u \in Tasks : u # t => task'[u] = task[u]
        /\ task'[t].eid = task[t].eid /\ task'[t].source = task[t].source
        /\ task'[t].pc # "promote" /\ ~Recording(t)'
    BY <1>10, <1>b DEF PromoteFinality, TypeOK, BusyTask, FacilitatorTask, GoldskyTask, Recording
  <2> QED BY <1>10, <2>k, BusyForward DEF PromoteFinality
<1>11. CASE Dispatch(t) \/ PromoteNotFound(t) \/ PromoteDispatch(t) \/ TaskError(t)
            \/ TaskCrash(t)
  BY <1>11, <1>i DEF Dispatch, PromoteNotFound, PromoteDispatch, TaskError, TaskCrash,
                     Return, TypeOK
<1> QED BY <1>1, <1>2, <1>3, <1>4, <1>5, <1>6, <1>7, <1>8, <1>9, <1>10, <1>11 DEF TaskNext

-----------------------------------------------------------------------------
(* The poller, the sweeper and the rest *)

\* SnapshotsAreOfRows and SnapshotsAreInStep for one poller.
InStep(p) ==
    /\ poll[p].pc \in {"idle", "fetch", "head", "events"} => poll[p].cur = {}
    /\ poll[p].pc \in {"idle", "fetch"} => poll[p].todo = {}
    /\ \A s, u \in poll[p].todo \cup poll[p].cur : s.eid = u.eid => s = u
    /\ poll[p].todo \cap poll[p].cur = {}
    /\ \A s \in poll[p].todo \cup poll[p].cur :
         /\ row[s.eid].status # "absent" /\ s.status \in {"pending", "confirmed"}
         /\ Direct(s.eid) => row[s.eid].block = s.block /\ row[s.eid].hash = s.hash
    /\ OnePoller => \A s \in Acting(poll[p]) :
         Direct(s.eid) => row[s.eid].status = s.status

LEMMA InStepIsPart ==
    SnapshotsAreOfRows /\ SnapshotsAreInStep <=> \A p \in Pollers : InStep(p)
<1>1. ASSUME SnapshotsAreOfRows, SnapshotsAreInStep, NEW p \in Pollers PROVE InStep(p)
  BY <1>1 DEF SnapshotsAreOfRows, SnapshotsAreInStep, InStep
<1>2. ASSUME \A p \in Pollers : InStep(p) PROVE SnapshotsAreOfRows /\ SnapshotsAreInStep
  BY <1>2 DEF SnapshotsAreOfRows, SnapshotsAreInStep, InStep
<1> QED BY <1>1, <1>2

\* A step of a poller writes at most the status or the depth of one row, and never
\* makes it absent or pre_confirmed.
PollWrites ==
    \/ row' = row
    \/ \E e \in EventIds, st \in Status \ {"absent", "pre_confirmed"} :
         row[e].status # "absent" /\ row' = [row EXCEPT ![e].status = st]
    \/ \E e \in EventIds : \E d : row' = [row EXCEPT ![e].depth = d]

LEMMA PollWritesKeep ==
    ASSUME TypeOK, PollWrites
    PROVE  \A e \in EventIds : Kept(e)
<1>1. CASE row' = row
  BY <1>1 DEF Kept
<1>2. ASSUME NEW e \in EventIds, NEW st \in Status \ {"absent", "pre_confirmed"},
             row[e].status # "absent", row' = [row EXCEPT ![e].status = st]
      PROVE  \A f \in EventIds : Kept(f)
  BY <1>2 DEF Kept, TypeOK, EventRow
<1>3. ASSUME NEW e \in EventIds, NEW d, row' = [row EXCEPT ![e].depth = d]
      PROVE  \A f \in EventIds : Kept(f)
  BY <1>3 DEF Kept, TypeOK, EventRow
<1> QED BY <1>1, <1>2, <1>3 DEF PollWrites

LEMMA PollFrameForward ==
    ASSUME TypeOK, ForwardInv, NEW p \in Pollers, UNCHANGED <<task, sweep, owner>>,
           \A a \in Auths : nonces'[a].event = nonces[a].event,
           \A q \in Pollers : q # p => poll'[q] = poll[q],
           PollWrites, InStep(p)'
    PROVE  ForwardInv'
<1>k. \A e \in EventIds : Kept(e)
  BY PollWritesKeep
<1>1. TaskForward'
  BY <1>k, TaskForwardFrame DEF ForwardInv, TaskForward
<1>2. SweptAreFacilitated'
  BY <1>k DEF ForwardInv, SweptAreFacilitated, Kept, TypeOK, SweepRec
<1>3. ASSUME NEW q \in Pollers, q # p PROVE InStep(q)'
  <2>1. poll'[q] = poll[q] /\ InStep(q) /\ ~OnePoller
    BY <1>3, InStepIsPart DEF ForwardInv, OnePoller
  <2>2. \A u \in poll[q].todo \cup poll[q].cur : u.eid \in EventIds
    BY SnapshotFields DEF TypeOK, PollRec
  <2>3. ASSUME NEW u \in poll[q].todo \cup poll[q].cur
        PROVE  /\ row'[u.eid].status # "absent"
               /\ Direct(u.eid)' =>
                    row'[u.eid].block = u.block /\ row'[u.eid].hash = u.hash
    BY <1>k, <2>1, <2>2 DEF InStep, Direct, Kept
  <2>4. ~OnePoller'
    BY <2>1 DEF OnePoller
  <2> QED BY <2>1, <2>3, <2>4 DEF InStep
<1>4. SnapshotsAreOfRows' /\ SnapshotsAreInStep'
  <2>1. \A q \in Pollers : InStep(q)'
    BY <1>3
  <2>2. SnapshotsAreOfRows'
    BY <2>1 DEF SnapshotsAreOfRows, InStep
  <2>3. SnapshotsAreInStep'
    BY <2>1 DEF SnapshotsAreInStep, InStep
  <2> QED BY <2>2, <2>3
<1> QED BY <1>1, <1>2, <1>4 DEF ForwardInv, TaskForward

LEMMA PollStepForward ==
    ASSUME TypeOK, ForwardInv, NEW p \in Pollers, PollNext(p)
    PROVE  ForwardInv'
<1> USE DEF dbVars, histVars
<1> DEFINE c == poll[p]
           d == poll'[p]
<1>t. c \in PollRec /\ \A s \in c.todo \cup c.cur : s \in Snapshot /\ s.eid \in EventIds
  BY SnapshotFields DEF TypeOK, PollRec
<1>i. InStep(p)
  BY InStepIsPart DEF ForwardInv
<1>n. ASSUME NEW s \in NextEvents(p)
      PROVE  /\ s \in c.todo /\ c.pc = "events" /\ s.eid \in EventIds
             /\ row[s.eid].status # "absent"
  BY <1>t, <1>i DEF NextEvents, InStep
<1>d. ASSUME c.pc # "idle", PollDone(p) PROVE ForwardInv'
  <2>1. d = IdlePoll /\ \A q \in Pollers : q # p => poll'[q] = poll[q]
    BY <1>d DEF PollDone, TypeOK
  <2>2. InStep(p)'
    BY <2>1 DEF InStep, Acting, Direct, IdlePoll
  <2> QED BY <1>d, <2>1, <2>2, PollFrameForward DEF PollDone, PollWrites
<1>1. CASE PollStart(p)
  <2>1. /\ d.pc = "fetch" /\ d.todo = c.todo /\ d.cur = c.cur /\ c.pc = "idle"
        /\ \A q \in Pollers : q # p => poll'[q] = poll[q]
    BY <1>1, <1>t DEF PollStart, TypeOK, PollRec
  <2>2. InStep(p)'
    BY <1>1, <1>i, <2>1 DEF PollStart, InStep, Acting, Direct
  <2> QED BY <1>1, <2>1, <2>2, PollFrameForward DEF PollStart, PollWrites
<1>2. CASE PollFetch(p)
  <2>1. PICK S \in SUBSET Pollable :
          poll' = [poll EXCEPT ![p].pc = "head", ![p].todo = {Snap(e) : e \in S}]
    BY <1>2 DEF PollFetch
  <2>2. /\ d.pc = "head" /\ d.todo = {Snap(e) : e \in S} /\ d.cur = c.cur
        /\ c.pc = "fetch" /\ row' = row
        /\ \A q \in Pollers : q # p => poll'[q] = poll[q]
    BY <1>2, <1>t, <2>1 DEF PollFetch, TypeOK, PollRec
  <2>3. d.cur = {}
    BY <1>i, <2>2 DEF InStep
  <2>4. \A s \in d.todo : /\ s = Snap(s.eid) /\ s.status = row[s.eid].status
                          /\ s.status \in {"pending", "confirmed"}
                          /\ s.block = row[s.eid].block /\ s.hash = row[s.eid].hash
    BY <2>2 DEF Snap, Pollable
  <2>5. InStep(p)'
    BY <2>2, <2>3, <2>4 DEF InStep, Acting, Direct
  <2> QED BY <1>2, <2>2, <2>5, PollFrameForward DEF PollFetch, PollWrites
<1>3. CASE PollHead(p) \/ PollHash(p)
  <2>1. /\ d.pc = "events" /\ d.todo = c.todo /\ d.cur = c.cur /\ row' = row
        /\ c.pc \in {"head", "events"}
        /\ \A q \in Pollers : q # p => poll'[q] = poll[q]
    BY <1>3, <1>t DEF PollHead, PollHash, TypeOK, PollRec
  <2>2. InStep(p)'
    BY <1>i, <2>1 DEF InStep, Acting, Direct
  <2> QED BY <1>3, <2>1, <2>2, PollFrameForward DEF PollHead, PollHash, PollWrites
<1>4. CASE PollReorg(p)
  <2>1. PICK s \in NextEvents(p) :
          row' = [row EXCEPT ![s.eid].status = "reorged"] /\ Take(p, s, "invalidate")
    BY <1>4 DEF PollReorg
  <2>2. /\ d.pc = "invalidate" /\ d.cur = {s} /\ d.todo = c.todo \ {s}
        /\ \A q \in Pollers : q # p => poll'[q] = poll[q]
    BY <1>t, <2>1 DEF Take, TypeOK, PollRec
  <2>3. PollWrites
    BY <1>n, <2>1 DEF PollWrites, Status
  <2>4. \A e \in EventIds : Kept(e) /\ (e # s.eid => row'[e] = row[e])
    BY <2>1, <2>3, PollWritesKeep DEF TypeOK
  <2>5. \A u \in c.todo \ {s} : u.eid # s.eid
    BY <1>i, <1>n DEF InStep
  <2>6. InStep(p)'
    BY <1>i, <1>n, <1>t, <2>2, <2>4, <2>5 DEF InStep, Acting, Direct, Kept
  <2> QED BY <1>4, <1>n, <2>2, <2>3, <2>6, PollFrameForward DEF PollReorg
<1>5. CASE PollDepth(p)
  <2>1. PICK s \in NextEvents(p) :
          /\ \E x : row' = [row EXCEPT ![s.eid].depth = x]
          /\ \/ Take(p, s, "transition")
             \/ poll' = [poll EXCEPT ![p].todo = @ \ {s}]
    BY <1>5 DEF PollDepth
  <2>2. /\ d.todo = c.todo \ {s}
        /\ \/ d.pc = "transition" /\ d.cur = {s}
           \/ d.pc = "events" /\ d.cur = c.cur
        /\ \A q \in Pollers : q # p => poll'[q] = poll[q]
    BY <1>n, <1>t, <2>1 DEF Take, TypeOK, PollRec
  <2>3. PollWrites
    BY <1>n, <2>1 DEF PollWrites
  <2>4. \A e \in EventIds : /\ row'[e].status = row[e].status /\ row'[e].type = row[e].type
                             /\ row'[e].block = row[e].block /\ row'[e].hash = row[e].hash
    BY <2>1 DEF TypeOK, EventRow
  <2>5. InStep(p)'
    BY <1>i, <1>n, <1>t, <2>2, <2>4 DEF InStep, Acting, Direct
  <2> QED BY <1>5, <1>n, <2>2, <2>3, <2>5, PollFrameForward DEF PollDepth
<1>6. CASE PollSkip(p)
  <2>1. PICK s \in NextEvents(p) : poll' = [poll EXCEPT ![p].todo = @ \ {s}]
    BY <1>6 DEF PollSkip
  <2>2. /\ d.todo = c.todo \ {s} /\ d.pc = "events" /\ d.cur = c.cur
        /\ row' = row
        /\ \A q \in Pollers : q # p => poll'[q] = poll[q]
    BY <1>6, <1>n, <1>t, <2>1 DEF PollSkip, TypeOK, PollRec
  <2>3. InStep(p)'
    BY <1>i, <1>n, <2>2 DEF InStep, Acting, Direct
  <2> QED BY <1>6, <2>2, <2>3, PollFrameForward DEF PollSkip, PollWrites
<1>7. CASE PollTransition(p)
  <2>1. PICK s \in c.cur : row' = [row EXCEPT ![s.eid].status = Successor(s)]
    BY <1>7 DEF PollTransition
  <2>2. /\ d.pc = "dispatch" /\ d.cur = c.cur /\ d.todo = c.todo
        /\ c.pc = "transition"
        /\ \A q \in Pollers : q # p => poll'[q] = poll[q]
    BY <1>7, <1>t DEF PollTransition, TypeOK, PollRec
  <2>3. s.eid \in EventIds /\ row[s.eid].status # "absent"
    BY <1>i, <1>t DEF InStep
  <2>4. PollWrites
    BY <2>1, <2>3 DEF PollWrites, Status, Successor
  <2>5. \A e \in EventIds : Kept(e) /\ (e # s.eid => row'[e] = row[e])
    BY <2>1, <2>4, PollWritesKeep DEF TypeOK
  <2>6. \A u \in c.todo : u.eid # s.eid
    BY <1>i DEF InStep
  <2>7. InStep(p)'
    BY <1>i, <1>t, <2>2, <2>5, <2>6 DEF InStep, Acting, Direct, Kept
  <2> QED BY <1>7, <2>2, <2>4, <2>7, PollFrameForward DEF PollTransition
<1>8. CASE PollTransitionFailed(p) \/ PollDispatch(p) \/ PollReorgDispatch(p)
  <2>1. /\ d.pc = "events" /\ d.cur = {} /\ d.todo = c.todo /\ row' = row
        /\ c.pc # "idle" /\ nonces' = nonces
        /\ UNCHANGED <<task, sweep, owner>>
        /\ \A q \in Pollers : q # p => poll'[q] = poll[q]
    BY <1>8, <1>t DEF PollTransitionFailed, PollDispatch, PollReorgDispatch, Resume,
                      TypeOK, PollRec
  <2>2. InStep(p)'
    BY <1>i, <2>1 DEF InStep, Acting, Direct
  <2> QED BY <2>1, <2>2, PollFrameForward DEF PollWrites
<1>9. CASE PollInvalidate(p)
  <2>1. /\ d.pc = "reorg_dispatch" /\ d.cur = c.cur /\ d.todo = c.todo /\ row' = row
        /\ c.pc = "invalidate"
        /\ \A q \in Pollers : q # p => poll'[q] = poll[q]
    BY <1>9, <1>t DEF PollInvalidate, TypeOK, PollRec
  <2>2. InStep(p)'
    BY <1>i, <2>1 DEF InStep, Acting, Direct
  <2>4. \A a \in Auths : nonces'[a].event = nonces[a].event
    BY <1>9 DEF PollInvalidate, InvalidateByEventId, TypeOK, NonceRow
  <2> QED BY <1>9, <2>1, <2>2, <2>4, PollFrameForward DEF PollInvalidate, PollWrites
<1>10. CASE PollEnd(p) \/ PollCrash(p)
  BY <1>10, <1>d DEF PollEnd, PollCrash
<1> QED BY <1>1, <1>2, <1>3, <1>4, <1>5, <1>6, <1>7, <1>8, <1>9, <1>10 DEF PollNext

\* A sweeper expires only events of the facilitator, which no poller relies on.
LEMMA SweepStepForward ==
    ASSUME TypeOK, ForwardInv, NEW w \in Sweepers, SweepNext(w)
    PROVE  ForwardInv'
<1> USE DEF dbVars, histVars
<1>1. /\ UNCHANGED <<nonces, task, poll, owner>>
      /\ \A v \in Sweepers : v # w => sweep'[v] = sweep[v]
  BY DEF SweepNext, SweepFetch, SweepExpire, SweepSkip, SweepDispatch, SweepCrash, TypeOK
<1>2. \/ row' = row
      \/ \E e \in sweep[w].todo : row' = [row EXCEPT ![e].status = "payment.failed"]
  BY DEF SweepNext, SweepFetch, SweepExpire, SweepSkip, SweepDispatch, SweepCrash
<1>3. ASSUME NEW e \in EventIds
      PROVE  /\ Kept(e)
             /\ row[e].type # "payment.pre_confirmed" => row'[e].status = row[e].status
  <2>1. CASE row' = row
    BY <2>1 DEF Kept
  <2>2. ASSUME NEW f \in sweep[w].todo, row' = [row EXCEPT ![f].status = "payment.failed"]
        PROVE  /\ Kept(e)
               /\ row[e].type # "payment.pre_confirmed" => row'[e].status = row[e].status
    <3>1. /\ f \in EventIds /\ row[f].status # "absent"
          /\ row[f].type = "payment.pre_confirmed"
      BY DEF ForwardInv, SweptAreFacilitated, TypeOK, SweepRec
    <3> QED BY <2>2, <3>1 DEF Kept, TypeOK, EventRow
  <2> QED BY <1>2, <2>1, <2>2
<1>4. TaskForward'
  BY <1>1, <1>3, TaskForwardFrame DEF ForwardInv, TaskForward
<1>6. SnapshotsAreOfRows' /\ SnapshotsAreInStep'
  BY <1>1, <1>3, SnapshotsFrame DEF ForwardInv, Kept
<1>7. SweptAreFacilitated'
  <2>1. CASE SweepFetch(w)
    <3>1. PICK S \in SUBSET {e \in EventIds : row[e].status = "pre_confirmed"} :
            sweep' = [sweep EXCEPT ![w].todo = S]
      BY <2>1 DEF SweepFetch
    <3>2. sweep'[w].todo = S /\ row' = row
      BY <2>1, <3>1 DEF SweepFetch, TypeOK, SweepRec
    <3> QED BY <1>1, <3>2 DEF ForwardInv, SweptAreFacilitated, PreConfirmedAreFacilitated
  <2>2. CASE ~SweepFetch(w)
    <3>1. sweep'[w].todo \subseteq sweep[w].todo
      BY <2>2 DEF SweepNext, SweepExpire, SweepSkip, SweepDispatch, SweepCrash, TypeOK,
                  SweepRec, IdleSweep
    <3> QED BY <1>1, <1>3, <3>1, SweptFrame DEF ForwardInv, Kept
  <2> QED BY <2>1, <2>2
<1> QED BY <1>4, <1>6, <1>7 DEF ForwardInv, TaskForward

LEMMA InitForward == Init => ForwardInv
<1> SUFFICES ASSUME Init PROVE ForwardInv
  OBVIOUS
<1> USE DEF Init
<1>1. RowsHaveOwners /\ TasksHaveOwners /\ PreConfirmedAreFacilitated
  BY DEF RowsHaveOwners, TasksHaveOwners, PreConfirmedAreFacilitated, NoRow, IdleTask
<1>2. RecordersAreAlone /\ NamedAreFacilitated /\ PromotedAreFacilitated
  BY DEF RecordersAreAlone, NamedAreFacilitated, PromotedAreFacilitated, Recording,
         IdleTask, NoNonce
<1>3. SweptAreFacilitated
  BY DEF SweptAreFacilitated, IdleSweep
<1>4. SnapshotsAreOfRows /\ SnapshotsAreInStep
  BY DEF SnapshotsAreOfRows, SnapshotsAreInStep, Acting, IdlePoll
<1> QED BY <1>1, <1>2, <1>3, <1>4 DEF ForwardInv

LEMMA NextForward ==
    ASSUME TypeOK, ForwardInv, [Next]_vars
    PROVE  ForwardInv'
<1>f. ASSUME UNCHANGED <<row, task, poll, sweep, owner>>,
             \A a \in Auths : nonces'[a].event \in {NULL, nonces[a].event}
      PROVE  ForwardInv'
  <2>1. TaskForward'
    BY <1>f, TaskForwardFrame DEF ForwardInv, TaskForward, Kept
  <2>2. SweptAreFacilitated' /\ SnapshotsAreOfRows' /\ SnapshotsAreInStep'
    BY <1>f DEF ForwardInv, SweptAreFacilitated, SnapshotsAreOfRows, SnapshotsAreInStep,
                Acting, Direct
  <2> QED BY <2>1, <2>2 DEF ForwardInv, TaskForward
<1>1. CASE Environment \/ (\E m \in Deliverable : GoldskyAnswered(m)) \/ UNCHANGED vars
  BY <1>1, <1>f DEF Environment, GoldskyAnswered, vars, dbVars, histVars
<1>2. ASSUME NEW a \in Auths, Archive(a) PROVE ForwardInv'
  BY <1>2, <1>f DEF Archive, NoNonce, TypeOK, histVars
<1>3. CASE \E t \in Tasks : TaskNext(t)
  BY <1>3, TaskStepForward
<1>4. CASE \E p \in Pollers : PollNext(p)
  BY <1>4, PollStepForward
<1>5. CASE \E w \in Sweepers : SweepNext(w)
  BY <1>5, SweepStepForward
<1> QED BY <1>1, <1>2, <1>3, <1>4, <1>5 DEF Next

-----------------------------------------------------------------------------
(* What the statuses say *)

\* The writes a poller has reason to make for a direct event e: it takes the next
\* status because its block is canonical and deep, or is withdrawn because its
\* block was replaced.
Advances(e) ==
    /\ row'[e].status \in {"confirmed", "finalized"}
    /\ row[e].block \in Blocks /\ head - row[e].block >= Required
    /\ ~May("rpc") => canon[row[e].block] = row[e].hash
    /\ OnePoller => \/ row[e].status = "pending" /\ row'[e].status = "confirmed"
                    \/ row[e].status = "confirmed" /\ row'[e].status = "finalized"

Withdrawn(e) ==
    /\ row'[e].status = "reorged"
    /\ row[e].block \in Blocks /\ row[e].hash < canon[row[e].block]

LEMMA PollStepVerdict ==
    ASSUME TypeOK, FinalityInv, FinalityInv', ForwardInv, NEW p \in Pollers, PollNext(p),
           NEW e \in EventIds, Direct(e)
    PROVE  /\ row'[e].type = row[e].type /\ UNCHANGED chainVars
           /\ row'[e].block = row[e].block /\ row'[e].hash = row[e].hash
           /\ row'[e].status = row[e].status \/ Advances(e) \/ Withdrawn(e)
<1> USE DEF dbVars
<1>i. InStep(p) /\ CycleIsSound(poll[p]) /\ CycleIsSound(poll[p])' /\ poll[p] \in PollRec
  BY InStepIsPart DEF ForwardInv, FinalityInv, TypeOK
<1>c. UNCHANGED chainVars
  BY DEF PollNext, PollStart, PollFetch, PollHead, PollHash, PollReorg, PollDepth,
         PollSkip, PollTransition, PollTransitionFailed, PollDispatch, PollInvalidate,
         PollReorgDispatch, PollEnd, PollCrash, PollDone
<1>1. CASE PollReorg(p)
  <2>1. PICK s \in NextEvents(p) :
          row' = [row EXCEPT ![s.eid].status = "reorged"] /\ Take(p, s, "invalidate")
    BY <1>1 DEF PollReorg
  <2>2. s \in poll[p].todo
    BY DEF NextEvents
  <2>3. poll'[p].pc = "invalidate" /\ s \in poll'[p].cur
    BY <1>i, <2>1 DEF Take, TypeOK, PollRec
  <2>4. canon' = canon
    BY <1>c DEF chainVars
  <2>5. s.block \in Blocks /\ s.hash < canon[s.block]
    BY <1>i, <2>2, <2>3, <2>4 DEF CycleIsSound
  <2>6. CASE s.eid = e
    <3>1. /\ row'[e].status = "reorged" /\ row'[e].type = row[e].type
          /\ row'[e].block = row[e].block /\ row'[e].hash = row[e].hash
      BY <2>1, <2>6 DEF TypeOK, EventRow
    <3>2. row[e].block = s.block /\ row[e].hash = s.hash
      BY <1>i, <2>2, <2>6 DEF InStep
    <3> QED BY <1>c, <2>5, <3>1, <3>2 DEF Withdrawn
  <2>7. CASE s.eid # e
    BY <1>c, <2>1, <2>7 DEF TypeOK
  <2> QED BY <2>6, <2>7
<1>2. CASE PollDepth(p)
  BY <1>2, <1>c DEF PollDepth, TypeOK, EventRow
<1>3. CASE PollTransition(p)
  <2>1. PICK s \in poll[p].cur : row' = [row EXCEPT ![s.eid].status = Successor(s)]
    BY <1>3 DEF PollTransition
  <2>2. CASE s.eid = e
    <3>1. /\ row'[e].status = Successor(s) /\ row'[e].type = row[e].type
          /\ row'[e].block = row[e].block /\ row'[e].hash = row[e].hash
      BY <2>1, <2>2 DEF TypeOK, EventRow
    <3>2. /\ row[e].block = s.block /\ row[e].hash = s.hash
          /\ s.status \in {"pending", "confirmed"}
      BY <1>i, <2>2 DEF InStep
    <3>3. OnePoller => row[e].status = s.status
      BY <1>3, <1>i, <2>2 DEF PollTransition, InStep, Acting
    <3>4. /\ s.block \in Blocks /\ head - s.block >= Required
          /\ ~May("rpc") => canon[s.block] = s.hash
      BY <1>3, <1>i DEF PollTransition, CycleIsSound
    <3>5. Advances(e)
      BY <3>1, <3>2, <3>3, <3>4 DEF Advances, Successor
    <3> QED BY <1>c, <3>1, <3>5
  <2>3. CASE s.eid # e
    BY <1>c, <2>1, <2>3 DEF TypeOK
  <2> QED BY <2>2, <2>3
<1>4. CASE row' = row
  BY <1>4, <1>c
<1> QED
  BY <1>1, <1>2, <1>3, <1>4
  DEF PollNext, PollStart, PollFetch, PollHead, PollHash, PollSkip,
      PollTransitionFailed, PollDispatch, PollInvalidate, PollReorgDispatch, PollEnd,
      PollCrash, PollDone

\* Nobody else writes the row of a direct event.
LEMMA StepVerdict ==
    ASSUME TypeOK, FinalityInv, FinalityInv', ForwardInv, [Next]_vars,
           NEW e \in EventIds, Direct(e)
    PROVE  /\ row'[e].type = row[e].type
           /\ row'[e].block = row[e].block /\ row'[e].hash = row[e].hash
           /\ \/ row'[e].status = row[e].status
              \/ UNCHANGED chainVars /\ (Advances(e) \/ Withdrawn(e))
<1> USE DEF dbVars
<1>1. ASSUME NEW t \in Tasks, TaskNext(t) PROVE row'[e] = row[e]
  <2>b. task[t].pc # "idle" => task[t].eid \in EventIds
    BY BusyIsBusy, BusyFields
  <2>1. CASE Record(t) \/ RecordUnmatched(t)
    <3>1. task[t].eid # e
      BY <2>1 DEF Record, RecordUnmatched, ForwardInv, RecordersAreAlone, Recording, Direct
    <3> QED BY <2>1, <3>1 DEF Record, RecordUnmatched, TypeOK
  <2>2. CASE Promote(t)
    <3>1. task[t].eid # e
      BY <2>2 DEF Promote, ForwardInv, PromotedAreFacilitated, Facilitated, Direct
    <3> QED BY <2>2, <2>b, <3>1 DEF Promote, TypeOK
  <2>3. CASE row' = row
    BY <2>3
  <2> QED
    BY <1>1, <2>1, <2>2, <2>3
    DEF TaskNext, FacilitatorClaim, GoldskyClaim, GoldskyCorrelate, Accept, Finality,
        RecordFailed, Link, Dispatch, PromoteNotFound, PromoteFinality, PromoteDispatch,
        TaskError, TaskCrash
<1>2. ASSUME NEW p \in Pollers, PollNext(p)
      PROVE  /\ row'[e].type = row[e].type /\ UNCHANGED chainVars
             /\ row'[e].block = row[e].block /\ row'[e].hash = row[e].hash
             /\ row'[e].status = row[e].status \/ Advances(e) \/ Withdrawn(e)
  BY <1>2, PollStepVerdict
<1>3. ASSUME NEW w \in Sweepers, SweepNext(w) PROVE row'[e] = row[e]
  <2>1. CASE SweepExpire(w)
    BY <2>1 DEF SweepExpire, ForwardInv, SweptAreFacilitated, TypeOK, Direct
  <2>2. CASE ~SweepExpire(w)
    BY <1>3, <2>2 DEF SweepNext, SweepFetch, SweepSkip, SweepDispatch, SweepCrash
  <2> QED BY <2>1, <2>2
<1>4. CASE \/ Environment \/ (\E m \in Deliverable : GoldskyAnswered(m))
           \/ (\E a \in Auths : Archive(a)) \/ UNCHANGED vars
  BY <1>4 DEF Environment, GoldskyAnswered, Archive, vars
<1> QED BY <1>1, <1>2, <1>3, <1>4 DEF Next

\* A row is not finalized or reorged when it is inserted.
LEMMA BecomesDirect ==
    ASSUME TypeOK, ForwardInv, [Next]_vars, NEW e \in EventIds, ~Direct(e), Direct(e)'
    PROVE  row'[e].status \notin {"finalized", "reorged"}
<1> USE DEF dbVars
<1>k. ASSUME Kept(e) PROVE FALSE
  BY <1>k DEF Kept, Direct
<1>1. ASSUME NEW t \in Tasks, TaskNext(t)
      PROVE  row'[e].status \notin {"finalized", "reorged"}
  <2>1. CASE Record(t) \/ RecordUnmatched(t)
    <3>1. PICK ep : row' = [row EXCEPT ![task[t].eid] = RecordedRow(task[t], ep)]
      BY <2>1 DEF Record, RecordUnmatched
    <3>2. CASE task[t].eid = e
      BY <3>1, <3>2 DEF TypeOK, RecordedRow, RecordedStatus
    <3>3. CASE task[t].eid # e
      BY <1>k, <3>1, <3>3 DEF TypeOK, Kept
    <3> QED BY <3>2, <3>3
  <2>2. CASE Promote(t)
    <3>1. /\ task[t].eid \in EventIds /\ row[task[t].eid].status # "absent"
          /\ row[task[t].eid].type = "payment.pre_confirmed"
      BY <2>2, BusyIsBusy, BusyFields
      DEF Promote, ForwardInv, PromotedAreFacilitated, Facilitated
    <3>2. CASE task[t].eid = e
      BY <2>2, <3>1, <3>2 DEF Promote, TypeOK, EventRow, Direct
    <3>3. CASE task[t].eid # e
      BY <1>k, <2>2, <3>3 DEF Promote, TypeOK, Kept
    <3> QED BY <3>2, <3>3
  <2>3. CASE row' = row
    BY <1>k, <2>3 DEF Kept
  <2> QED
    BY <1>1, <2>1, <2>2, <2>3
    DEF TaskNext, FacilitatorClaim, GoldskyClaim, GoldskyCorrelate, Accept, Finality,
        RecordFailed, Link, Dispatch, PromoteNotFound, PromoteFinality, PromoteDispatch,
        TaskError, TaskCrash
<1>2. ASSUME NEW p \in Pollers, PollNext(p) PROVE FALSE
  <2>t. \A s \in poll[p].todo \cup poll[p].cur :
          s.eid \in EventIds /\ row[s.eid].status # "absent"
    BY SnapshotFields DEF TypeOK, PollRec, ForwardInv, SnapshotsAreOfRows
  <2>1. PollWrites
    <3>1. CASE PollReorg(p)
      BY <2>t, <3>1 DEF PollReorg, NextEvents, PollWrites, Status
    <3>2. CASE PollDepth(p)
      BY <2>t, <3>2 DEF PollDepth, NextEvents, PollWrites
    <3>3. CASE PollTransition(p)
      BY <2>t, <3>3 DEF PollTransition, PollWrites, Status, Successor
    <3> QED
      BY <1>2, <3>1, <3>2, <3>3
      DEF PollNext, PollStart, PollFetch, PollHead, PollHash, PollSkip,
          PollTransitionFailed, PollDispatch, PollInvalidate, PollReorgDispatch, PollEnd,
          PollCrash, PollDone, PollWrites
  <2> QED BY <1>k, <2>1, PollWritesKeep
<1>3. ASSUME NEW w \in Sweepers, SweepNext(w) PROVE FALSE
  <2>1. CASE SweepExpire(w)
    <3>1. PICK f \in sweep[w].todo : row' \in {row, [row EXCEPT ![f].status = "payment.failed"]}
      BY <2>1 DEF SweepExpire
    <3>2. f \in EventIds /\ row[f].status # "absent"
      BY DEF ForwardInv, SweptAreFacilitated, TypeOK, SweepRec
    <3> QED BY <1>k, <3>1, <3>2 DEF Kept, TypeOK, EventRow
  <2>2. CASE ~SweepExpire(w)
    BY <1>3, <1>k, <2>2 DEF SweepNext, SweepFetch, SweepSkip, SweepDispatch, SweepCrash, Kept
  <2> QED BY <2>1, <2>2
<1>4. CASE \/ Environment \/ (\E m \in Deliverable : GoldskyAnswered(m))
           \/ (\E a \in Auths : Archive(a)) \/ UNCHANGED vars
  BY <1>4, <1>k DEF Environment, GoldskyAnswered, Archive, vars, Kept
<1> QED BY <1>1, <1>2, <1>3, <1>4 DEF Next

\* VerdictsAreTrue in the form every step preserves.
Verdict(e) ==
    Direct(e) =>
        /\ row[e].status = "finalized" =>
             /\ row[e].block \in Blocks /\ canon[row[e].block] = row[e].hash
             /\ head - row[e].block >= Required
        /\ row[e].status = "reorged" =>
             row[e].block \in Blocks /\ row[e].hash < canon[row[e].block]

LEMMA NextGrows ==
    ASSUME TypeOK, [Next]_vars
    PROVE  Grows
<1>1. CASE Environment
  BY <1>1, ChainGrows DEF Environment
<1>2. CASE ~Environment
  <2>1. UNCHANGED chainVars
    BY <1>2
    DEF Next, vars, TaskNext, FacilitatorClaim, GoldskyClaim, GoldskyCorrelate, Accept,
        Finality, Record, RecordUnmatched, RecordFailed, Link, Dispatch, Promote,
        PromoteNotFound, PromoteFinality, PromoteDispatch, TaskError, TaskCrash,
        GoldskyAnswered, Archive, PollNext, PollStart, PollFetch, PollHead, PollHash,
        PollReorg, PollDepth, PollSkip, PollTransition, PollTransitionFailed,
        PollDispatch, PollInvalidate, PollReorgDispatch, PollEnd, PollCrash, PollDone,
        SweepNext, SweepFetch, SweepExpire, SweepSkip, SweepDispatch, SweepCrash
  <2> QED BY <2>1, StaysGrown
<1> QED BY <1>1, <1>2

LEMMA NextVerdict ==
    ASSUME ~May("rpc"), TypeOK, TypeOK', FinalityInv, FinalityInv', ForwardInv,
           [Next]_vars, NEW e \in EventIds, Verdict(e)
    PROVE  Verdict(e)'
<1>1. CASE ~Direct(e)
  BY <1>1, BecomesDirect DEF Verdict
<1>2. CASE Direct(e)
  <2>1. /\ row'[e].block = row[e].block /\ row'[e].hash = row[e].hash
        /\ \/ row'[e].status = row[e].status
           \/ UNCHANGED chainVars /\ (Advances(e) \/ Withdrawn(e))
    BY <1>2, StepVerdict
  <2>2. Grows
    BY NextGrows
  <2>3. /\ head \in Int /\ head' \in Int /\ Required \in Int /\ row[e].hash \in Int
        /\ \A b \in Blocks : b \in Int /\ canon[b] \in Int /\ canon'[b] \in Int
    BY NumberTypes, ChainBounds
    DEF TypeOK, ChainTypeOK, Blocks, Hashes, EventRow, StoredHash, NoHash
  <2>4. CASE row'[e].status = row[e].status
    <3>1. ASSUME row[e].status = "finalized"
          PROVE  /\ row[e].block \in Blocks /\ canon'[row[e].block] = row[e].hash
                 /\ head' - row[e].block >= Required
      BY <1>2, <2>2, <2>3, <3>1 DEF Verdict, Grows
    <3>2. ASSUME row[e].status = "reorged"
          PROVE  row[e].block \in Blocks /\ row[e].hash < canon'[row[e].block]
      BY <1>2, <2>2, <2>3, <3>2 DEF Verdict, Grows
    <3> QED BY <2>1, <2>4, <3>1, <3>2 DEF Verdict
  <2>5. CASE UNCHANGED chainVars /\ (Advances(e) \/ Withdrawn(e))
    BY <2>1, <2>5 DEF Advances, Withdrawn, Verdict, chainVars
  <2> QED BY <2>1, <2>4, <2>5
<1> QED BY <1>1, <1>2

\* A verdict is not taken back: the poller that would write another one has seen
\* the block in a way that the verdict contradicts.
Stands(e) ==
    Direct(e) =>
        /\ row[e].status = "reorged" => row'[e].status = "reorged"
        /\ row'[e].status # row[e].status =>
             row'[e].status \in {"confirmed", "finalized", "reorged"}

LEMMA StepStands ==
    ASSUME ~May("rpc"), TypeOK, FinalityInv, FinalityInv', ForwardInv, [Next]_vars,
           NEW e \in EventIds, Verdict(e)
    PROVE  Stands(e)
<1> SUFFICES ASSUME Direct(e)
             PROVE  /\ row[e].status = "reorged" => row'[e].status = "reorged"
                    /\ row'[e].status # row[e].status =>
                         row'[e].status \in {"confirmed", "finalized", "reorged"}
  BY DEF Stands
<1>1. \/ row'[e].status = row[e].status
      \/ UNCHANGED chainVars /\ (Advances(e) \/ Withdrawn(e))
  BY StepVerdict
<1>2. row[e].hash \in Int
  BY DEF TypeOK, EventRow, StoredHash, Hashes, NoHash
<1>3. ASSUME Advances(e), row[e].status = "reorged" PROVE FALSE
  BY <1>2, <1>3, NumberTypes DEF Advances, Verdict
<1> QED BY <1>1, <1>3 DEF Advances, Withdrawn

\* The step that DirectEventsMoveForward asks of every step.
MovesForward(e) == Direct(e) => Rank(row'[e].status) >= Rank(row[e].status)

LEMMA StepMovesForward ==
    ASSUME OnePoller, TypeOK, FinalityInv, FinalityInv', ForwardInv, [Next]_vars,
           NEW e \in EventIds
    PROVE  MovesForward(e)
<1> SUFFICES ASSUME Direct(e) PROVE Rank(row'[e].status) >= Rank(row[e].status)
  BY DEF MovesForward
<1>1. \/ row'[e].status = row[e].status
      \/ row'[e].status = "reorged"
      \/ row[e].status = "pending" /\ row'[e].status = "confirmed"
      \/ row[e].status = "confirmed" /\ row'[e].status = "finalized"
  BY StepVerdict DEF Advances, Withdrawn
<1>2. Rank(row[e].status) \in 0..4
  BY DEF Rank
<1>3. row'[e].status = "reorged" => Rank(row'[e].status) = 4
  BY DEF Rank
<1>4. Rank("pending") = 1 /\ Rank("confirmed") = 2 /\ Rank("finalized") = 3
  BY DEF Rank
<1> QED BY <1>1, <1>2, <1>3, <1>4

-----------------------------------------------------------------------------
(* The theorems *)

LEMMA InitAll == Init => TypeOK /\ FinalityInv /\ ForwardInv
BY InitType, InitFinality, InitForward

LEMMA NextAll ==
    TypeOK /\ FinalityInv /\ ForwardInv /\ [Next]_vars
    => TypeOK' /\ FinalityInv' /\ ForwardInv'
BY NextType, NextFinality, NextForward

\* Recorders are alone, promotion and expiry are of facilitator events, and every
\* poller works on snapshots of rows whose block stays, for any number of pollers.
THEOREM ForwardCorrect == Spec => []ForwardInv
<1>1. Init => TypeOK /\ ForwardInv
  BY InitType, InitForward
<1>2. TypeOK /\ ForwardInv /\ [Next]_vars => TypeOK' /\ ForwardInv'
  BY NextType, NextForward
<1> QED BY <1>1, <1>2, PTL DEF Spec

\* Any number of pollers, none kept out by the leader lock, overwrite each other's
\* statuses by id alone; yet where every hash can be fetched, a finalized event is
\* canonical and deep, the block of a reorged one was replaced, and no such verdict
\* is taken back.
THEOREM VerdictsHold ==
    ASSUME ~May("rpc")
    PROVE  Spec => []VerdictsAreTrue /\ VerdictsStand
<1> DEFINE All == TypeOK /\ FinalityInv /\ ForwardInv
           Verdicts == \A e \in EventIds : Verdict(e)
           AllStand == \A e \in EventIds : Stands(e)
<1>1. Init => All /\ Verdicts
  <2>1. Init => Verdicts
    BY DEF Init, Verdict, Direct, NoRow
  <2> QED BY <2>1, InitAll
<1>2. All /\ [Next]_vars => All'
  BY NextAll
<1>3. All /\ All' /\ Verdicts /\ [Next]_vars => Verdicts'
  <2> SUFFICES ASSUME All, All', Verdicts, [Next]_vars, NEW e \in EventIds
               PROVE  Verdict(e)'
    OBVIOUS
  <2>1. Verdict(e)
    OBVIOUS
  <2> QED BY <2>1, NextVerdict
<1>4. All /\ All' /\ Verdicts /\ [Next]_vars => AllStand
  <2> SUFFICES ASSUME All, All', Verdicts, [Next]_vars, NEW e \in EventIds
               PROVE  Stands(e)
    OBVIOUS
  <2>1. Verdict(e)
    OBVIOUS
  <2> QED BY <2>1, StepStands
<1>5. All /\ Verdicts => VerdictsAreTrue
  <2> SUFFICES ASSUME All, Verdicts, NEW e \in EventIds, Direct(e)
               PROVE  /\ row[e].status = "finalized" =>
                           /\ IsCanonical(row[e].block, row[e].hash)
                           /\ head - row[e].block >= Required
                      /\ row[e].status = "reorged" =>
                           ~IsCanonical(row[e].block, row[e].hash)
    BY DEF VerdictsAreTrue
  <2>1. Verdict(e) /\ row[e].hash \in Int
    BY DEF TypeOK, EventRow, StoredHash, Hashes, NoHash
  <2> QED BY <2>1, NumberTypes DEF Verdict, IsCanonical
<1>6. AllStand <=>
        \A e \in EventIds : Direct(e) =>
          /\ row[e].status = "reorged" => row'[e].status = "reorged"
          /\ row'[e].status # row[e].status =>
               row'[e].status \in {"confirmed", "finalized", "reorged"}
  BY DEF Stands
<1> QED BY <1>1, <1>2, <1>3, <1>4, <1>5, <1>6, PTL DEF Spec, VerdictsStand

\* Where a single instance polls, the lifecycle never runs backwards for an event
\* Goldsky recorded: unconditional status updates, retried cycles, crashes,
\* promotions and expiries leave pending, confirmed, finalized, reorged in order.
THEOREM StatusOrder ==
    ASSUME OnePoller
    PROVE  Spec => DirectEventsMoveForward
<1> DEFINE All == TypeOK /\ FinalityInv /\ ForwardInv
           AllMove == \A e \in EventIds : MovesForward(e)
<1>1. Init => All
  BY InitAll
<1>2. All /\ [Next]_vars => All'
  BY NextAll
<1>3. All /\ All' /\ [Next]_vars => AllMove
  BY StepMovesForward
<1>4. AllMove <=>
        \A e \in EventIds : Direct(e) => Rank(row'[e].status) >= Rank(row[e].status)
  BY DEF MovesForward
<1> QED BY <1>1, <1>2, <1>3, <1>4, PTL DEF Spec, DirectEventsMoveForward
=============================================================================
