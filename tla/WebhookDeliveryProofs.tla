------------------------ MODULE WebhookDeliveryProofs ------------------------
(***************************************************************************)
(* Webhook delivery for every number of tasks, endpoints and handlers: the *)
(* breaker's count and state agree, the delivery rows hold the ids that    *)
(* the provider returned, no row is one that retry_delivery accepts, and   *)
(* no DLQ handler is left in the middle of a turn.                         *)
(***************************************************************************)
EXTENDS WebhookDelivery, FiniteSetTheorems, TLAPS

\* The ids of a dispatch are messages of its event, in the order of the endpoints;
\* the i-th is not before the i-th endpoint, and after it there is an endpoint for
\* each of the ids that follow.
IdsAreInOrder ==
    \A t \in Tasks :
        LET r == task[t] IN
        /\ r.at <= Targets[t] + 1 /\ Len(r.ids) <= r.at - 1
        /\ r.pc \in {"send", "wait"} => r.at <= Targets[t]
        /\ \A i \in 1..Len(r.ids) :
             /\ r.ids[i][1] = t /\ i <= r.ids[i][2]
             /\ r.ids[i][2] - i <= (r.at - 1) - Len(r.ids)
        /\ \A i, j \in 1..Len(r.ids) : i < j => r.ids[i][2] < r.ids[j][2]

\* A row is written when the dispatch is over, with the id that RowFor gives it,
\* and it is failed when it got none.
RowsAreAsWritten ==
    \A m \in Msgs : row[m] # None =>
        /\ task[m[1]].pc = "done"
        /\ row[m].id = RowFor(m[1], m[2]).id
        /\ row[m].status = "failed" <=> row[m].id = None

DispatchInv == IdsAreInOrder /\ RowsAreAsWritten

\* A DLQ handler in the middle of its turn has a next step, a delivery to judge or
\* a batch to send, and every delivery it has in hand is one of a dispatch that is
\* over, whose row is written if it ever will be.
HandlersGoOn ==
    \A h \in Handlers :
        /\ handler[h].pc = "judge" => handler[h].todo # {}
        /\ handler[h].pc = "resend" => handler[h].retry # {}
        /\ \A m \in handler[h].todo \cup handler[h].retry : task[m[1]].pc = "done"

\* Convoy gives up long after the dispatch.
FailedIsOver == \A m \in Msgs : convoy[m] = "failed" => task[m[1]].pc = "done"

Breakers == [state : {"closed", "open", "half_open"}, fails : Nat, cooled : BOOLEAN]

-----------------------------------------------------------------------------
(* The breaker *)

LEMMA BreakerStep ==
    ASSUME breaker \in Breakers, BreakerAgrees,
           \/ breaker' \in {breaker, Checked, RecordSuccess, RecordFailure}
           \/ breaker.state = "open" /\ breaker' = [breaker EXCEPT !.cooled = TRUE]
    PROVE  breaker' \in Breakers /\ BreakerAgrees'
<1>1. CASE breaker' = breaker
  BY <1>1 DEF BreakerAgrees
<1>2. CASE breaker' = Checked
  BY <1>2 DEF Checked, Breakers, BreakerAgrees
<1>3. CASE breaker' = RecordSuccess
  BY <1>3, DeliveryBounds DEF RecordSuccess, Breakers, BreakerAgrees
<1>4. CASE breaker' = RecordFailure
  <2> DEFINE n == IF breaker.fails < Threshold THEN breaker.fails + 1 ELSE Threshold
  <2>1. n \in Nat
    BY DeliveryBounds DEF Breakers
  <2>2. breaker' = [state |-> IF n >= Threshold THEN "open" ELSE breaker.state,
                    fails |-> n, cooled |-> FALSE]
    BY <1>4 DEF RecordFailure
  <2>3. n < Threshold => breaker.fails < Threshold
    BY DeliveryBounds DEF Breakers
  <2> HIDE DEF n
  <2>4. CASE n >= Threshold
    BY <2>1, <2>2, <2>4, DeliveryBounds DEF Breakers, BreakerAgrees
  <2>5. CASE n < Threshold
    BY <2>1, <2>2, <2>3, <2>5, DeliveryBounds DEF Breakers, BreakerAgrees
  <2> QED BY <2>1, <2>4, <2>5, DeliveryBounds
<1>5. CASE breaker.state = "open" /\ breaker' = [breaker EXCEPT !.cooled = TRUE]
  BY <1>5 DEF Breakers, BreakerAgrees
<1> QED BY <1>1, <1>2, <1>3, <1>4, <1>5

-----------------------------------------------------------------------------
(* Dispatch *)

LEMMA TargetsAreEndpoints ==
    ASSUME NEW t \in Tasks, NEW e \in 1..Targets[t]
    PROVE  <<t, e>> \in Msgs
BY DeliveryBounds DEF Msgs, Endpoints

LEMMA MsgsAreTargets ==
    ASSUME NEW m \in Msgs
    PROVE  m[1] \in Tasks /\ m[2] \in 1..Targets[m[1]] /\ m = <<m[1], m[2]>>
BY DeliveryBounds DEF Msgs, Endpoints

LEMMA EndpointIsNat == ASSUME NEW m \in Msgs PROVE m[2] \in Nat
BY MsgsAreTargets, DeliveryBounds

\* What Advance makes of a dispatch.
LEMMA AdvanceKeeps ==
    ASSUME TypeOK, IdsAreInOrder, NEW t \in Tasks, task[t].pc \in {"send", "wait"},
           \/ Advance(t, task[t].ids)
           \/ Advance(t, Append(task[t].ids, <<t, task[t].at>>))
    PROVE  task' \in [Tasks -> TaskRec] /\ IdsAreInOrder'
           /\ \A u \in Tasks : task[u].pc = "done" => task'[u] = task[u]
<1>r. task[t] \in TaskRec /\ Targets[t] \in Nat \ {0}
  BY DeliveryBounds DEF TypeOK
<1>at. PICK at \in Nat \ {0} : at = task[t].at
  BY <1>r DEF TaskRec
<1>old. PICK old \in Seq(Msgs) : old = task[t].ids
  BY <1>r DEF TaskRec
<1>1. /\ at <= Targets[t] /\ Len(old) <= at - 1
      /\ \A i \in 1..Len(old) : /\ old[i][1] = t /\ i <= old[i][2]
                                /\ old[i][2] - i <= (at - 1) - Len(old)
      /\ \A i, j \in 1..Len(old) : i < j => old[i][2] < old[j][2]
  BY <1>at, <1>old DEF IdsAreInOrder
<1>m. <<t, at>> \in Msgs
  BY <1>1, <1>at, <1>r, TargetsAreEndpoints
<1>2. PICK ids \in Seq(Msgs) :
        /\ ids \in {old, Append(old, <<t, at>>)} /\ Advance(t, ids)
  <2>1. Append(old, <<t, at>>) \in Seq(Msgs)
    BY <1>m
  <2>2. Advance(t, old) \/ Advance(t, Append(old, <<t, at>>))
    BY <1>at, <1>old
  <2> QED BY <2>1, <2>2
<1>3. PICK r \in TaskRec : r = [pc  |-> IF at = Targets[t] THEN "record" ELSE "send",
                                at  |-> at + 1, ids |-> ids]
  <2>1. PICK pc \in {"record", "send"} :
           pc = IF at = Targets[t] THEN "record" ELSE "send"
    OBVIOUS
  <2>2. at + 1 \in Nat \ {0}
    OBVIOUS
  <2> QED BY <2>1, <2>2 DEF TaskRec
<1>4. task' = [task EXCEPT ![t] = r]
  BY <1>2, <1>3, <1>at DEF Advance, TypeOK
<1>5. task'[t] = r /\ \A u \in Tasks : u # t => task'[u] = task[u]
  BY <1>4 DEF TypeOK
<1>n. \A i \in 1..Len(old) : old[i][2] \in Nat /\ old[i][2] <= at - 1
  <2> SUFFICES ASSUME NEW i \in 1..Len(old) PROVE old[i][2] \in Nat /\ old[i][2] <= at - 1
    OBVIOUS
  <2>1. old[i] \in Msgs
    OBVIOUS
  <2>2. old[i][2] \in 1..Targets[old[i][1]] /\ Targets[old[i][1]] \in Nat
    BY <2>1, MsgsAreTargets, DeliveryBounds
  <2>3. old[i][2] - i <= (at - 1) - Len(old)
    BY <1>1
  <2>4. Len(old) \in Nat /\ i \in Nat /\ i <= Len(old)
    OBVIOUS
  <2>5. old[i][2] \in Nat
    BY <2>2
  <2> QED BY <2>3, <2>4, <2>5
<1>6. /\ Len(ids) <= (at + 1) - 1
      /\ \A i \in 1..Len(ids) : /\ ids[i][1] = t /\ i <= ids[i][2]
                                /\ ids[i][2] - i <= ((at + 1) - 1) - Len(ids)
      /\ \A i, j \in 1..Len(ids) : i < j => ids[i][2] < ids[j][2]
  <2>1. CASE ids = old
    <3>1. \A i \in 1..Len(old) : old[i][2] - i <= ((at + 1) - 1) - Len(old)
      <4> SUFFICES ASSUME NEW i \in 1..Len(old)
                   PROVE old[i][2] - i <= ((at + 1) - 1) - Len(old)
        OBVIOUS
      <4>1. old[i][2] \in Nat /\ old[i][2] - i <= (at - 1) - Len(old)
        BY <1>1, <1>n
      <4>2. i \in Nat /\ Len(old) \in Nat
        OBVIOUS
      <4> QED BY <4>1, <4>2
    <3> QED BY <2>1, <1>1, <3>1
  <2>2. CASE ids = Append(old, <<t, at>>)
    <3>1. /\ Len(ids) = Len(old) + 1 /\ Len(old) \in Nat
          /\ \A i \in 1..Len(old) : ids[i] = old[i]
          /\ ids[Len(old) + 1] = <<t, at>>
      BY <2>2
    <3>2. ASSUME NEW i \in 1..Len(ids)
          PROVE  /\ ids[i][1] = t /\ i <= ids[i][2]
                 /\ ids[i][2] - i <= ((at + 1) - 1) - Len(ids)
      <4>1. CASE i \in 1..Len(old)
        <5>1. ids[i] = old[i] /\ old[i][2] \in Nat /\ old[i][1] = t /\ i <= old[i][2]
              /\ old[i][2] - i <= (at - 1) - Len(old)
          BY <4>1, <3>1, <1>1, <1>n
        <5> QED BY <3>1, <5>1
      <4>2. CASE i = Len(old) + 1
        BY <4>2, <3>1, <1>1
      <4> QED BY <3>1, <4>1, <4>2
    <3>3. ASSUME NEW i \in 1..Len(ids), NEW j \in 1..Len(ids), i < j
          PROVE  ids[i][2] < ids[j][2]
      <4>0. i \in 1..Len(old)
        BY <3>1, <3>3
      <4>1. CASE j \in 1..Len(old)
        BY <4>0, <4>1, <3>1, <3>3, <1>1
      <4>2. CASE j = Len(old) + 1
        BY <4>0, <4>2, <3>1, <1>n
      <4> QED BY <3>1, <4>1, <4>2
    <3> QED BY <3>1, <3>2, <3>3, <1>1
  <2> QED BY <1>2, <2>1, <2>2
<1>7. IdsAreInOrder'
  <2> SUFFICES ASSUME NEW u \in Tasks
               PROVE  LET s == task'[u] IN
                      /\ s.at <= Targets[u] + 1 /\ Len(s.ids) <= s.at - 1
                      /\ s.pc \in {"send", "wait"} => s.at <= Targets[u]
                      /\ \A i \in 1..Len(s.ids) :
                           /\ s.ids[i][1] = u /\ i <= s.ids[i][2]
                           /\ s.ids[i][2] - i <= (s.at - 1) - Len(s.ids)
                      /\ \A i, j \in 1..Len(s.ids) : i < j => s.ids[i][2] < s.ids[j][2]
    BY DEF IdsAreInOrder
  <2>1. CASE u = t
    <3>1. r.at = at + 1 /\ r.ids = ids /\ (r.pc \in {"send", "wait"} => at # Targets[t])
      BY <1>3
    <3>2. at + 1 <= Targets[t] + 1 /\ (at # Targets[t] => at + 1 <= Targets[t])
      BY <1>1, <1>r
    <3> QED BY <2>1, <1>5, <1>6, <3>1, <3>2
  <2>2. CASE u # t
    BY <2>2, <1>5 DEF IdsAreInOrder
  <2> QED BY <2>1, <2>2
<1>8. task' \in [Tasks -> TaskRec]
  BY <1>4 DEF TypeOK
<1> QED BY <1>5, <1>7, <1>8

\* A step that changes no more of a dispatch than where it is.
LEMMA PcKeeps ==
    ASSUME TypeOK, IdsAreInOrder, NEW t \in Tasks, NEW pc \in {"wait", "done"},
           task[t].pc = "send" \/ pc = "done", task[t].pc # "done",
           task' = [task EXCEPT ![t].pc = pc]
    PROVE  /\ task' \in [Tasks -> TaskRec] /\ IdsAreInOrder'
           /\ \A u \in Tasks : task'[u].ids = task[u].ids
           /\ \A u \in Tasks : task[u].pc = "done" => task'[u].pc = "done"
           /\ task'[t].pc = pc
<1>r. task[t] \in TaskRec
  BY DEF TypeOK
<1>1. PICK r \in TaskRec : r = [task[t] EXCEPT !.pc = pc]
  BY <1>r DEF TaskRec
<1>2. task' = [task EXCEPT ![t] = r]
  BY <1>1 DEF TypeOK
<1>3. task'[t] = r /\ \A u \in Tasks : u # t => task'[u] = task[u]
  BY <1>2 DEF TypeOK
<1>4. r.pc = pc /\ r.at = task[t].at /\ r.ids = task[t].ids
  BY <1>r, <1>1 DEF TaskRec
<1>5. \A u \in Tasks : /\ task'[u].at = task[u].at /\ task'[u].ids = task[u].ids
                       /\ task'[u].pc \in {"send", "wait"} => task[u].pc \in {"send", "wait"}
  BY <1>3, <1>4
<1>6. IdsAreInOrder'
  BY <1>5 DEF IdsAreInOrder
<1> QED BY <1>2, <1>3, <1>4, <1>5, <1>6 DEF TypeOK

-----------------------------------------------------------------------------
(* Rows *)

\* A row once written does not change.
LEMMA RowsFrame ==
    ASSUME TypeOK, RowsAreAsWritten,
           \A t \in Tasks : task[t].pc = "done" =>
               task'[t].pc = "done" /\ task'[t].ids = task[t].ids,
           row' = row
    PROVE  RowsAreAsWritten'
<1> SUFFICES ASSUME NEW m \in Msgs, row'[m] # None
             PROVE  /\ task'[m[1]].pc = "done"
                    /\ row'[m].id = RowFor(m[1], m[2])'.id
                    /\ row'[m].status = "failed" <=> row'[m].id = None
  BY DEF RowsAreAsWritten
<1>0. row[m] # None
  OBVIOUS
<1>1. /\ task[m[1]].pc = "done" /\ row[m].id = RowFor(m[1], m[2]).id
      /\ row[m].status = "failed" <=> row[m].id = None
  BY <1>0 DEF RowsAreAsWritten
<1>2. m[1] \in Tasks
  BY MsgsAreTargets
<1>3. RowFor(m[1], m[2])' = RowFor(m[1], m[2])
  BY <1>1, <1>2 DEF RowFor
<1> QED BY <1>0, <1>1, <1>2, <1>3

\* The rows that RowFor makes.
LEMMA RowForIsRow ==
    ASSUME TypeOK, NEW m \in Msgs
    PROVE  /\ RowFor(m[1], m[2]) \in Row
           /\ RowFor(m[1], m[2]).status = "failed" <=> RowFor(m[1], m[2]).id = None
<1>1. m[1] \in Tasks /\ m[2] \in Nat \ {0}
  BY MsgsAreTargets, DeliveryBounds
<1>2. PICK ids \in Seq(Msgs) : ids = task[m[1]].ids
  BY <1>1 DEF TypeOK, TaskRec
<1>3. CASE m[2] <= Len(ids)
  <2>1. ids[m[2]] \in Msgs
    BY <1>1, <1>3
  <2>2. RowFor(m[1], m[2]) = [id |-> ids[m[2]], status |-> "sent"]
    BY <1>2, <1>3 DEF RowFor
  <2> QED BY <2>1, <2>2, NoneIsNoRow DEF Row
<1>4. CASE ~(m[2] <= Len(ids))
  <2>1. RowFor(m[1], m[2]) = [id |-> None, status |-> "failed"]
    BY <1>2, <1>4 DEF RowFor
  <2> QED BY <2>1 DEF Row
<1> QED BY <1>3, <1>4

LEMMA RecordKeeps ==
    ASSUME TypeOK, DispatchInv, NEW t \in Tasks, Record(t)
    PROVE  /\ task' \in [Tasks -> TaskRec] /\ row' \in [Msgs -> {None} \cup Row]
           /\ DispatchInv'
           /\ \A u \in Tasks : task[u].pc = "done" => task'[u].pc = "done"
<1>1. task[t].pc = "record" /\ task' = [task EXCEPT ![t].pc = "done"]
  BY DEF Record
<1>2. /\ task' \in [Tasks -> TaskRec] /\ IdsAreInOrder'
      /\ \A u \in Tasks : task'[u].ids = task[u].ids
      /\ \A u \in Tasks : task[u].pc = "done" => task'[u].pc = "done"
      /\ task'[t].pc = "done"
  BY <1>1, PcKeeps DEF DispatchInv
<1>3. PICK lost :
        row' = [m \in Msgs |-> IF m[1] = t /\ m[2] \notin lost
                               THEN RowFor(t, m[2]) ELSE row[m]]
  BY DEF Record
<1>4. row' \in [Msgs -> {None} \cup Row]
  <2>1. ASSUME NEW m \in Msgs PROVE row'[m] \in {None} \cup Row
    <3>1. CASE m[1] = t /\ m[2] \notin lost
      <4>1. row'[m] = RowFor(m[1], m[2])
        BY <1>3, <3>1
      <4> QED BY <4>1, RowForIsRow
    <3>2. CASE ~(m[1] = t /\ m[2] \notin lost)
      BY <1>3, <3>2 DEF TypeOK
    <3> QED BY <3>1, <3>2
  <2>2. row' = [m \in Msgs |-> row'[m]]
    BY <1>3
  <2> QED BY <2>1, <2>2
<1>5. RowsAreAsWritten'
  <2> SUFFICES ASSUME NEW m \in Msgs, row'[m] # None
               PROVE  /\ task'[m[1]].pc = "done"
                      /\ row'[m].id = RowFor(m[1], m[2])'.id
                      /\ row'[m].status = "failed" <=> row'[m].id = None
    BY DEF RowsAreAsWritten
  <2>1. m[1] \in Tasks
    BY MsgsAreTargets
  <2>2. RowFor(m[1], m[2])' = RowFor(m[1], m[2])
    BY <1>2, <2>1 DEF RowFor
  <2>3. CASE m[1] = t /\ m[2] \notin lost
    <3>1. row'[m] = RowFor(m[1], m[2])
      BY <1>3, <2>3
    <3> QED BY <1>2, <2>2, <2>3, <3>1, RowForIsRow
  <2>4. CASE ~(m[1] = t /\ m[2] \notin lost)
    <3>1. row'[m] = row[m]
      BY <1>3, <2>4
    <3> QED BY <1>2, <2>1, <2>2, <3>1 DEF DispatchInv, RowsAreAsWritten
  <2> QED BY <2>3, <2>4
<1> QED BY <1>2, <1>4, <1>5 DEF DispatchInv

-----------------------------------------------------------------------------
(* The DLQ handlers *)

LEMMA PollingIsHandlerRec == Polling \in HandlerRec
BY DEF Polling, HandlerRec

\* What a handler holds after a step of its turn.
LEMMA PollStep ==
    ASSUME TypeOK, FailedIsOver, HandlersGoOn, NEW h \in Handlers, Poll(h)
    PROVE  \E r \in HandlerRec :
              /\ handler' = [handler EXCEPT ![h] = r]
              /\ r.pc = "judge" => r.todo # {}
              /\ r.pc = "resend" => r.retry # {}
              /\ \A m \in r.todo \cup r.retry : task[m[1]].pc = "done"
<1> DEFINE Ok(r) == /\ handler' = [handler EXCEPT ![h] = r]
                    /\ r.pc = "judge" => r.todo # {}
                    /\ r.pc = "resend" => r.retry # {}
                    /\ \A m \in r.todo \cup r.retry : task[m[1]].pc = "done"
<1>h. PICK s \in HandlerRec : s = handler[h]
  BY DEF TypeOK
<1>1. CASE TurnFails(h) \/ Resend(h) \/ ResendFails(h)
  <2>1. Ok(Polling)
    BY <1>1 DEF TurnFails, Resend, ResendFails, Polling
  <2> QED BY <2>1, PollingIsHandlerRec
<1>2. ASSUME NEW m \in Msgs, Judge(h, m) PROVE \E r \in HandlerRec : Ok(r)
  <2>1. PICK todo \in SUBSET Msgs, retry \in SUBSET Msgs :
          todo = s.todo \ {m} /\ retry = s.retry \cup {m}
    BY DEF HandlerRec
  <2>2. PICK r : r = Looked(todo, retry)
    OBVIOUS
  <2>3. r \in HandlerRec /\ r.todo = todo /\ r.retry = retry
        /\ r.pc = IF todo # {} THEN "judge" ELSE "resend"
    BY <2>2 DEF Looked, HandlerRec
  <2>4. handler' = [handler EXCEPT ![h] = r]
    BY <1>2, <1>h, <2>1, <2>2 DEF Judge
  <2>5. \A k \in todo \cup retry : task[k[1]].pc = "done"
    BY <1>2, <1>h, <2>1 DEF Judge, HandlersGoOn
  <2>6. Ok(r)
    BY <2>1, <2>3, <2>4, <2>5
  <2> QED BY <2>3, <2>6
<1>3. ASSUME NEW e \in Endpoints, List(h, e) PROVE \E r \in HandlerRec : Ok(r)
  <2>1. PICK failed \in SUBSET Msgs :
          /\ failed # {} /\ \A m \in failed : convoy[m] = "failed"
          /\ handler' = [handler EXCEPT ![h].pc = "judge", ![h].todo = failed]
    BY <1>3 DEF List
  <2>2. PICK r : r = [s EXCEPT !.pc = "judge", !.todo = failed]
    OBVIOUS
  <2>3. r \in HandlerRec /\ r.pc = "judge" /\ r.todo = failed /\ r.retry = s.retry
    BY <2>2 DEF HandlerRec
  <2>4. handler' = [handler EXCEPT ![h] = r]
    BY <1>h, <2>1, <2>2 DEF TypeOK
  <2>5. \A m \in failed \cup s.retry : task[m[1]].pc = "done"
    BY <1>h, <2>1 DEF HandlersGoOn, FailedIsOver
  <2>6. Ok(r)
    BY <2>1, <2>3, <2>4, <2>5
  <2> QED BY <2>3, <2>6
<1> QED BY <1>1, <1>2, <1>3 DEF Poll

LEMMA PollKeeps ==
    ASSUME TypeOK, DispatchInv, FailedIsOver, HandlersGoOn, NEW h \in Handlers, Poll(h)
    PROVE  TypeOK' /\ DispatchInv' /\ FailedIsOver' /\ HandlersGoOn'
<1>u. UNCHANGED <<breaker, task, row>>
  BY DEF Poll, TurnFails, Resend, ResendFails, Judge, List
<1>c. /\ convoy' \in [Msgs -> {"none", "queued", "ok", "failed"}]
      /\ \A m \in Msgs : convoy'[m] = "failed" => convoy[m] = "failed"
  <2>1. CASE Resend(h)
    BY <2>1 DEF Resend, TypeOK
  <2>2. CASE convoy' = convoy
    BY <2>2 DEF TypeOK
  <2> QED BY <2>1, <2>2 DEF Poll, TurnFails, ResendFails, Judge, List
<1>1. PICK r \in HandlerRec :
              /\ handler' = [handler EXCEPT ![h] = r]
              /\ r.pc = "judge" => r.todo # {}
              /\ r.pc = "resend" => r.retry # {}
              /\ \A m \in r.todo \cup r.retry : task[m[1]].pc = "done"
  BY PollStep
<1>2. handler'[h] = r /\ \A g \in Handlers : g # h => handler'[g] = handler[g]
  BY <1>1 DEF TypeOK
<1>3. HandlersGoOn'
  BY <1>u, <1>1, <1>2 DEF HandlersGoOn
<1>4. TypeOK'
  BY <1>u, <1>c, <1>1 DEF TypeOK
<1>5. RowsAreAsWritten'
  BY <1>u, RowsFrame DEF DispatchInv
<1>6. IdsAreInOrder' /\ FailedIsOver'
  BY <1>u, <1>c DEF DispatchInv, IdsAreInOrder, FailedIsOver
<1> QED BY <1>3, <1>4, <1>5, <1>6 DEF DispatchInv

-----------------------------------------------------------------------------
(* The theorems *)

DeliveryInv == TypeOK /\ BreakerAgrees /\ DispatchInv /\ FailedIsOver /\ HandlersGoOn

LEMMA DispatchKeeps ==
    ASSUME TypeOK, DispatchInv, NEW t \in Tasks, Dispatch(t)
    PROVE  /\ task' \in [Tasks -> TaskRec] /\ row' \in [Msgs -> {None} \cup Row]
           /\ convoy' \in [Msgs -> {"none", "queued", "ok", "failed"}]
           /\ UNCHANGED handler /\ DispatchInv'
           /\ \A m \in Msgs : convoy'[m] = "failed" => convoy[m] = "failed"
           /\ \A u \in Tasks : task[u].pc = "done" => task'[u].pc = "done"
<1>u. UNCHANGED handler
  BY DEF Dispatch, Skip, Send, Accepted, Unreachable, Rejected, Record, Crash
<1>c. convoy' \in [Msgs -> {"none", "queued", "ok", "failed"}]
  BY DEF TypeOK, Dispatch, Skip, Send, Accepted, Unreachable, Rejected, Record, Crash
<1>f. \A m \in Msgs : convoy'[m] = "failed" => convoy[m] = "failed"
  BY DEF TypeOK, Dispatch, Skip, Send, Accepted, Unreachable, Rejected, Record, Crash
<1>1. CASE Skip(t) \/ Accepted(t) \/ Unreachable(t) \/ Rejected(t)
  <2>1. /\ task[t].pc \in {"send", "wait"} /\ row' = row
        /\ \/ Advance(t, task[t].ids)
           \/ Advance(t, Append(task[t].ids, <<t, task[t].at>>))
    BY <1>1 DEF Skip, Accepted, Unreachable, Rejected
  <2>2. task' \in [Tasks -> TaskRec] /\ IdsAreInOrder'
        /\ \A u \in Tasks : task[u].pc = "done" => task'[u] = task[u]
    BY <2>1, AdvanceKeeps DEF DispatchInv
  <2>3. RowsAreAsWritten'
    BY <2>1, <2>2, RowsFrame DEF DispatchInv
  <2> QED BY <1>u, <1>c, <1>f, <2>1, <2>2, <2>3 DEF DispatchInv, TypeOK
<1>2. CASE Send(t) \/ Crash(t)
  <2>1. PICK pc \in {"wait", "done"} :
          /\ task[t].pc = "send" \/ pc = "done"
          /\ task[t].pc # "done" /\ task' = [task EXCEPT ![t].pc = pc]
    BY <1>2 DEF Send, Crash
  <2>2. row' = row
    BY <1>2 DEF Send, Crash
  <2>3. /\ task' \in [Tasks -> TaskRec] /\ IdsAreInOrder'
        /\ \A u \in Tasks : task'[u].ids = task[u].ids
        /\ \A u \in Tasks : task[u].pc = "done" => task'[u].pc = "done"
    BY <2>1, PcKeeps DEF DispatchInv
  <2>4. RowsAreAsWritten'
    BY <2>2, <2>3, RowsFrame DEF DispatchInv
  <2> QED BY <1>u, <1>c, <1>f, <2>2, <2>3, <2>4 DEF DispatchInv, TypeOK
<1>3. CASE Record(t)
  BY <1>3, <1>u, <1>c, <1>f, RecordKeeps
<1> QED BY <1>1, <1>2, <1>3 DEF Dispatch

LEMMA DeliveryNext ==
    ASSUME DeliveryInv, [Next]_vars
    PROVE  DeliveryInv'
<1>b. breaker \in Breakers /\ BreakerAgrees /\ TypeOK /\ DispatchInv /\ FailedIsOver
      /\ HandlersGoOn
  BY DEF DeliveryInv, TypeOK, Breakers
<1>1. breaker' \in Breakers /\ BreakerAgrees'
  <2>1. \/ breaker' \in {breaker, Checked, RecordSuccess, RecordFailure}
        \/ breaker.state = "open" /\ breaker' = [breaker EXCEPT !.cooled = TRUE]
    <3>1. CASE Cool \/ OtherAsks \/ OtherAnswered
      BY <3>1 DEF Cool, OtherAsks, OtherAnswered
    <3>2. CASE \E t \in Tasks : Dispatch(t)
      BY <3>2 DEF Dispatch, Skip, Send, Accepted, Unreachable, Rejected, Record, Crash
    <3>3. CASE \E m \in Msgs : Deliver(m)
      BY <3>3 DEF Deliver
    <3>4. CASE \E h \in Handlers : Poll(h)
      BY <3>4 DEF Poll, TurnFails, Resend, ResendFails, Judge, List
    <3>5. CASE UNCHANGED vars
      BY <3>5 DEF vars
    <3> QED BY <3>1, <3>2, <3>3, <3>4, <3>5 DEF Next
  <2> QED BY <1>b, <2>1, BreakerStep
<1>2. CASE /\ UNCHANGED <<task, row, handler>>
           /\ convoy' \in [Msgs -> {"none", "queued", "ok", "failed"}]
           /\ \A m \in Msgs : convoy'[m] = "failed" =>
                 convoy[m] = "failed" \/ task[m[1]].pc = "done"
  <2>1. TypeOK'
    BY <1>b, <1>1, <1>2 DEF TypeOK, Breakers
  <2>2. RowsAreAsWritten'
    BY <1>b, <1>2, RowsFrame DEF DispatchInv
  <2>3. IdsAreInOrder' /\ FailedIsOver' /\ HandlersGoOn'
    BY <1>b, <1>2 DEF DispatchInv, IdsAreInOrder, FailedIsOver, HandlersGoOn
  <2> QED BY <1>1, <2>1, <2>2, <2>3 DEF DeliveryInv, DispatchInv
<1>3. CASE Cool \/ OtherAsks \/ OtherAnswered \/ UNCHANGED vars
  BY <1>b, <1>2, <1>3 DEF Cool, OtherAsks, OtherAnswered, vars, TypeOK
<1>4. CASE \E m \in Msgs : Deliver(m)
  BY <1>b, <1>2, <1>4 DEF Deliver, TypeOK
<1>5. ASSUME NEW t \in Tasks, Dispatch(t) PROVE DeliveryInv'
  <2>1. /\ task' \in [Tasks -> TaskRec] /\ row' \in [Msgs -> {None} \cup Row]
        /\ convoy' \in [Msgs -> {"none", "queued", "ok", "failed"}]
        /\ UNCHANGED handler /\ DispatchInv'
        /\ \A m \in Msgs : convoy'[m] = "failed" => convoy[m] = "failed"
        /\ \A u \in Tasks : task[u].pc = "done" => task'[u].pc = "done"
    BY <1>b, <1>5, DispatchKeeps
  <2>2. TypeOK'
    BY <1>b, <1>1, <2>1 DEF TypeOK, Breakers
  <2>3. FailedIsOver'
    BY <1>b, <2>1, MsgsAreTargets DEF FailedIsOver
  <2>4. HandlersGoOn'
    <3>1. \A h \in Handlers : handler[h].todo \cup handler[h].retry \in SUBSET Msgs
      BY <1>b DEF TypeOK, HandlerRec
    <3> QED BY <1>b, <2>1, <3>1, MsgsAreTargets DEF HandlersGoOn
  <2> QED BY <1>1, <2>1, <2>2, <2>3, <2>4 DEF DeliveryInv
<1>6. ASSUME NEW h \in Handlers, Poll(h) PROVE DeliveryInv'
  BY <1>b, <1>1, <1>6, PollKeeps DEF DeliveryInv
<1> QED BY <1>3, <1>4, <1>5, <1>6 DEF Next

LEMMA DeliveryInit == ASSUME Init PROVE DeliveryInv
<1>0. <<>> \in Seq(Msgs) /\ Len(<<>>) = 0
  OBVIOUS
<1>1. TypeOK
  <2>1. [pc |-> "send", at |-> 1, ids |-> <<>>] \in TaskRec
    BY <1>0 DEF TaskRec
  <2> QED BY <2>1, PollingIsHandlerRec, DeliveryBounds DEF Init, TypeOK
<1>2. BreakerAgrees
  BY DeliveryBounds DEF Init, BreakerAgrees
<1>3. IdsAreInOrder
  <2> SUFFICES ASSUME NEW t \in Tasks
               PROVE  1 <= Targets[t] + 1 /\ 0 <= 1 - 1 /\ 1 <= Targets[t]
    BY <1>0 DEF Init, IdsAreInOrder
  <2> QED BY DeliveryBounds
<1>4. RowsAreAsWritten /\ FailedIsOver /\ HandlersGoOn
  BY DEF Init, RowsAreAsWritten, FailedIsOver, HandlersGoOn, Polling
<1> QED BY <1>1, <1>2, <1>3, <1>4 DEF DeliveryInv, DispatchInv

\* The dispatches, the rows, the breaker and the handlers stay as the invariant
\* describes them, whatever fails.
THEOREM DeliveryCorrect == Spec => []DeliveryInv
<1>1. Init => DeliveryInv
  BY DeliveryInit
<1>2. DeliveryInv /\ [Next]_vars => DeliveryInv'
  BY DeliveryNext
<1> QED BY <1>1, <1>2, PTL DEF Spec

\* The state that dispatch_event, the delivery rows, Convoy and the DLQ handlers
\* keep is well formed.
THEOREM DeliveryTypes == Spec => []TypeOK
<1>1. DeliveryInv => TypeOK
  BY DEF DeliveryInv
<1> QED BY <1>1, DeliveryCorrect, PTL

\* The breaker that concurrent sends share is closed exactly while its count is
\* below the threshold, in whatever order the answers come.
THEOREM BreakerIsSound == Spec => []BreakerAgrees
<1>1. DeliveryInv => BreakerAgrees
  BY DEF DeliveryInv
<1> QED BY <1>1, DeliveryCorrect, PTL

\* The 202 of retry_delivery is given in no state: a row is failed when it is written
\* without an id, and no later write makes one failed.
THEOREM NothingToRetry == Spec => [](\A m \in Msgs : ~RetryAccepts(m))
<1>1. DeliveryInv => \A m \in Msgs : ~RetryAccepts(m)
  BY DEF DeliveryInv, DispatchInv, RowsAreAsWritten, RetryAccepts
<1> QED BY <1>1, DeliveryCorrect, PTL

\* When all the rows of an event are there, they are those of its endpoints.
LEMMA AllRows ==
    ASSUME NEW t \in Tasks,
           Cardinality({m \in Msgs : m[1] = t /\ row[m] # None}) = Targets[t]
    PROVE  {m \in Msgs : m[1] = t /\ row[m] # None} = {t} \X (1..Targets[t])
<1> DEFINE rows == {m \in Msgs : m[1] = t /\ row[m] # None}
           all == {t} \X (1..Targets[t])
<1>n. Targets[t] \in Nat \ {0}
  BY DeliveryBounds
<1>1. IsFiniteSet(1..Targets[t]) /\ Cardinality(1..Targets[t]) = Targets[t]
  BY <1>n, FS_Interval
<1>2. IsFiniteSet({t}) /\ Cardinality({t}) = 1
  BY FS_Singleton
<1>3. IsFiniteSet(all) /\ Cardinality(all) = 1 * Targets[t]
  <2>1. /\ IsFiniteSet({t} \X (1..Targets[t]))
        /\ Cardinality({t} \X (1..Targets[t])) = Cardinality({t}) * Cardinality(1..Targets[t])
    BY <1>1, <1>2, FS_Product, Zenon
  <2> QED BY <1>1, <1>2, <2>1
<1>4. rows \in SUBSET all
  BY MsgsAreTargets
<1>5. Cardinality(all) = Cardinality(rows)
  BY <1>n, <1>3
<1> HIDE DEF rows, all
<1>6. all = rows
  BY <1>3, <1>4, <1>5, FS_Subset
<1> QED BY <1>6 DEF rows, all

\* Once all the rows of an event are written they hold every id that the provider
\* returned, each once, and where every send went well each its own endpoint's,
\* although _record_delivery pairs ids and endpoints by position.
THEOREM RowsHoldTheMessages == Spec => []MessagesAreAccounted
<1>1. ASSUME DeliveryInv PROVE MessagesAreAccounted
  <2> SUFFICES ASSUME NEW t \in Tasks,
                      Cardinality({m \in Msgs : m[1] = t /\ row[m] # None}) = Targets[t]
               PROVE  LET rows == {m \in Msgs : m[1] = t /\ row[m] # None}
                          ids  == {task[t].ids[i] : i \in 1..Len(task[t].ids)}
                      IN  /\ {row[m].id : m \in rows} \ {None} = ids
                          /\ \A m, k \in rows : row[m].id = row[k].id /\ row[m].id # None
                                                  => m = k
                          /\ Len(task[t].ids) = Targets[t] =>
                                \A m \in rows : row[m].id = m
    BY DEF MessagesAreAccounted
  <2> DEFINE rows == {m \in Msgs : m[1] = t /\ row[m] # None}
  <2>n. Targets[t] \in Nat \ {0}
    BY DeliveryBounds
  <2>s. PICK s \in Seq(Msgs) : s = task[t].ids
    BY <1>1 DEF DeliveryInv, TypeOK, TaskRec
  <2>l. Len(s) \in Nat /\ \A i \in 1..Len(s) : s[i] \in Msgs
    OBVIOUS
  <2>1. rows = {t} \X (1..Targets[t])
    BY AllRows
  <2>2. /\ Len(s) <= Targets[t]
        /\ \A i \in 1..Len(s) : s[i][1] = t /\ i <= s[i][2]
        /\ \A i \in 1..Len(s) : Len(s) = Targets[t] => s[i][2] <= i
        /\ \A i, j \in 1..Len(s) : i < j => s[i][2] < s[j][2]
    <3>1. PICK at \in Nat \ {0} : at = task[t].at
      BY <1>1 DEF DeliveryInv, TypeOK, TaskRec
    <3>2. /\ at <= Targets[t] + 1 /\ Len(s) <= at - 1
          /\ \A i \in 1..Len(s) : /\ s[i][1] = t /\ i <= s[i][2]
                                  /\ s[i][2] - i <= (at - 1) - Len(s)
          /\ \A i, j \in 1..Len(s) : i < j => s[i][2] < s[j][2]
      BY <1>1, <2>s, <3>1 DEF DeliveryInv, DispatchInv, IdsAreInOrder
    <3>3. Len(s) <= Targets[t]
      BY <2>n, <2>l, <3>2
    <3>4. ASSUME NEW i \in 1..Len(s), Len(s) = Targets[t] PROVE s[i][2] <= i
      <4>1. s[i][2] \in Nat
        BY <2>l, MsgsAreTargets, DeliveryBounds
      <4>2. s[i][2] - i <= (at - 1) - Len(s) /\ (at - 1) - Len(s) <= 0
        BY <2>n, <2>l, <3>2, <3>4
      <4> QED BY <2>l, <3>1, <4>1, <4>2
    <3> QED BY <3>2, <3>3, <3>4
  <2>3. ASSUME NEW e \in 1..Targets[t]
        PROVE  row[<<t, e>>].id = IF e <= Len(s) THEN s[e] ELSE None
    <3>1. <<t, e>> \in Msgs /\ row[<<t, e>>] # None
      BY <2>1
    <3>2. row[<<t, e>>].id = RowFor(t, e).id
      BY <1>1, <3>1 DEF DeliveryInv, DispatchInv, RowsAreAsWritten
    <3> QED BY <2>s, <3>2 DEF RowFor
  <2>4. {row[m].id : m \in rows} \ {None} = {s[i] : i \in 1..Len(s)}
    <3>1. ASSUME NEW x \in {row[m].id : m \in rows} \ {None}
          PROVE  x \in {s[i] : i \in 1..Len(s)}
      <4>1. PICK m \in rows : x = row[m].id
        BY <3>1
      <4>2. PICK e \in 1..Targets[t] : m = <<t, e>>
        BY <2>1
      <4>3. e <= Len(s) /\ x = s[e]
        BY <2>3, <3>1, <4>1, <4>2
      <4>4. e \in 1..Len(s)
        BY <2>l, <2>n, <4>3
      <4> QED BY <4>3, <4>4
    <3>2. ASSUME NEW i \in 1..Len(s) PROVE s[i] \in {row[m].id : m \in rows} \ {None}
      <4>1. i \in 1..Targets[t] /\ i <= Len(s)
        BY <2>l, <2>n, <2>2
      <4>2. row[<<t, i>>].id = s[i] /\ <<t, i>> \in rows
        BY <2>1, <2>3, <4>1
      <4>3. s[i] # None
        BY <2>l, NoneIsNoRow
      <4> QED BY <4>2, <4>3
    <3> QED BY <3>1, <3>2
  <2>5. ASSUME NEW m \in rows, NEW k \in rows, row[m].id = row[k].id, row[m].id # None
        PROVE  m = k
    <3>1. PICK d \in 1..Targets[t], e \in 1..Targets[t] : m = <<t, d>> /\ k = <<t, e>>
      BY <2>1
    <3>2. d \in 1..Len(s) /\ e \in 1..Len(s) /\ s[d] = s[e]
      BY <2>3, <2>5, <2>l, <2>n, <3>1
    <3>3. s[d][2] \in Nat /\ s[e][2] \in Nat
      BY <2>l, <3>2, EndpointIsNat
    <3>4. ~(d < e) /\ ~(e < d)
      BY <2>2, <3>2, <3>3
    <3> QED BY <2>n, <3>1, <3>4
  <2>6. ASSUME Len(s) = Targets[t], NEW m \in rows PROVE row[m].id = m
    <3>1. PICK e \in 1..Targets[t] : m = <<t, e>>
      BY <2>1
    <3>2. e \in 1..Len(s) /\ row[m].id = s[e]
      BY <2>3, <2>6, <2>l, <3>1
    <3>3. s[e] \in Msgs /\ s[e][1] = t /\ e <= s[e][2] /\ s[e][2] <= e
      BY <2>2, <2>l, <2>6, <3>2
    <3>4. s[e][2] = e
      BY <3>3, <2>n, MsgsAreTargets, DeliveryBounds
    <3> QED BY <3>1, <3>2, <3>3, <3>4, MsgsAreTargets
  <2>7. {s[i] : i \in 1..Len(s)} = {task[t].ids[i] : i \in 1..Len(task[t].ids)}
    BY <2>s
  <2>8. {row[m].id : m \in rows} \ {None} = {task[t].ids[i] : i \in 1..Len(task[t].ids)}
    BY <2>4, <2>7
  <2>9. \A m, k \in rows : row[m].id = row[k].id /\ row[m].id # None => m = k
    BY <2>5
  <2>10. Len(task[t].ids) = Targets[t] => \A m \in rows : row[m].id = m
    BY <2>6, <2>s
  <2> QED BY <2>8, <2>9, <2>10, Zenon
<1> QED BY <1>1, DeliveryCorrect, PTL

\* No DLQ handler is left in the middle of its turn without a step to take, and it
\* has in hand only deliveries whose dispatch is over.
THEOREM HandlersNeverStick == Spec => []HandlersGoOn
<1>1. DeliveryInv => HandlersGoOn
  BY DEF DeliveryInv
<1> QED BY <1>1, DeliveryCorrect, PTL
=============================================================================
