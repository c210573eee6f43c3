--------------------------- MODULE WebhookDelivery ---------------------------
(***************************************************************************)
(* From dispatch_event to the end of a delivery.  Tasks are concurrent     *)
(* dispatches of one process, which share the circuit breaker of           *)
(* convoy_client with everything else there that calls Convoy; each sends  *)
(* one event to the endpoints 1..Targets[t] in turn and then writes the    *)
(* delivery rows.  Handlers are the DLQHandlers of the instances: each     *)
(* polls Convoy for the failed deliveries of every endpoint's project and  *)
(* has them resent.  A message is the pair of its task and its endpoint.   *)
(*                                                                         *)
(* Convoy gives a message two ids: send_webhook returns the id of the      *)
(* event, which the rows keep, and list_failed_deliveries the uid of the   *)
(* delivery, under which the DLQ handler looks for the row.  It never      *)
(* finds one, so that a delivery's retries are not counted, and what       *)
(* _process_endpoint and _dead_letter do with a row that was found         *)
(* (increment_dlq_retry, dead_lettered, the alert) happens in no state.    *)
(***************************************************************************)
EXTENDS Integers, Sequences, FiniteSets

CONSTANTS
    Tasks, Handlers, None,
    Targets,        \* how many endpoints each task's event has
    Flaky,          \* the endpoints whose receiver may fail
    Threshold,      \* _FAILURE_THRESHOLD
    Contingencies   \* which of the failures below may happen

AllContingencies == {
    "unwired",      \* an endpoint has no convoy_project_id
    "connect",      \* Convoy cannot be reached, or times out before it accepts
    "late",         \* Convoy accepts and the answer times out
    "reject",       \* Convoy answers with an error
    "db",           \* a delivery row is not written, or cannot be looked up
    "crash",        \* the task dies between its sends and its rows
    "batch" }       \* batchretry fails

ASSUME DeliveryBounds ==
    /\ Targets \in [Tasks -> Nat \ {0}] /\ Threshold \in Nat \ {0}
    /\ Flaky \subseteq Nat /\ Contingencies \subseteq AllContingencies

Endpoints == UNION {1..Targets[t] : t \in Tasks}
Msgs == {m \in Tasks \X Endpoints : m[2] <= Targets[m[1]]}

\* provider_message_id is the event of a message, named by the message.
Row == [id : Msgs \cup {None}, status : {"sent", "failed"}]

ASSUME NoneIsNoRow == None \notin Msgs /\ None \notin Row

VARIABLES
    breaker,    \* _circuit_state, _failure_count, and has _RECOVERY_TIMEOUT passed?
    task,       \* the dispatches
    convoy,     \* the state of each message at Convoy
    row,        \* webhook_deliveries, one row per task and endpoint
    handler     \* the DLQ handlers

vars == <<breaker, task, convoy, row, handler>>

May(c) == c \in Contingencies

TaskRec == [pc : {"send", "wait", "record", "done"}, at : Nat \ {0},
            ids : Seq(Msgs)]
HandlerRec == [pc : {"list", "judge", "resend"},
               todo : SUBSET Msgs,      \* failed deliveries not looked at yet
               retry : SUBSET Msgs]     \* retryable_ids

TypeOK ==
    /\ breaker \in [state : {"closed", "open", "half_open"},
                    fails : Nat, cooled : BOOLEAN]
    /\ task \in [Tasks -> TaskRec]
    /\ convoy \in [Msgs -> {"none", "queued", "ok", "failed"}]
    /\ row \in [Msgs -> {None} \cup Row]
    /\ handler \in [Handlers -> HandlerRec]

Polling == [pc |-> "list", todo |-> {}, retry |-> {}]

Init ==
    /\ breaker = [state |-> "closed", fails |-> 0, cooled |-> FALSE]
    /\ task = [t \in Tasks |-> [pc |-> "send", at |-> 1, ids |-> <<>>]]
    /\ convoy = [m \in Msgs |-> "none"]
    /\ row = [m \in Msgs |-> None]
    /\ handler = [h \in Handlers |-> Polling]

-----------------------------------------------------------------------------
(* The circuit breaker *)

\* _check_circuit, and the state it leaves.
Allows == breaker.state # "open" \/ breaker.cooled
Checked == IF breaker.state = "open" /\ breaker.cooled
           THEN [breaker EXCEPT !.state = "half_open"] ELSE breaker

\* Mutant: a success closes the circuit and keeps the count.
RecordSuccessKeeping == [breaker EXCEPT !.state = "closed", !.cooled = FALSE]

\* Mutant: a success takes one failure back.
RecordSuccessDecrementing ==
    [state |-> "closed", fails |-> breaker.fails - 1, cooled |-> FALSE]

RecordSuccess == [state |-> "closed", fails |-> 0, cooled |-> FALSE]

\* The count only matters up to the threshold.
RecordFailure ==
    LET n == IF breaker.fails < Threshold THEN breaker.fails + 1 ELSE Threshold
    IN  [state  |-> IF n >= Threshold THEN "open" ELSE breaker.state,
         fails  |-> n,
         cooled |-> FALSE]

\* _RECOVERY_TIMEOUT passes.
Cool ==
    /\ breaker.state = "open" /\ ~breaker.cooled
    /\ breaker' = [breaker EXCEPT !.cooled = TRUE]
    /\ UNCHANGED <<task, convoy, row, handler>>

\* create_application, create_endpoint and the sends of other events: any number
\* of them is in flight, so that one may ask for leave or have its answer at any
\* time.
OtherAsks ==
    /\ Allows /\ Checked # breaker
    /\ breaker' = Checked
    /\ UNCHANGED <<task, convoy, row, handler>>

OtherAnswered ==
    /\ \/ breaker' = RecordSuccess
       \/ May("connect") /\ breaker' = RecordFailure
    /\ UNCHANGED <<task, convoy, row, handler>>

-----------------------------------------------------------------------------
(* dispatch_event *)

\* On to the next endpoint, or to the rows.
Advance(t, ids) ==
    task' = [task EXCEPT ![t] =
        [pc  |-> IF @.at = Targets[t] THEN "record" ELSE "send",
         at  |-> @.at + 1,
         ids |-> ids]]

\* The next endpoint has no project, or the circuit rejects.
Skip(t) ==
    /\ task[t].pc = "send"
    /\ May("unwired") \/ ~Allows
    /\ Advance(t, task[t].ids)
    /\ UNCHANGED <<breaker, convoy, row, handler>>

\* send_webhook: the guard lets the request go.
Send(t) ==
    /\ task[t].pc = "send"
    /\ Allows
    /\ breaker' = Checked
    /\ task' = [task EXCEPT ![t].pc = "wait"]
    /\ UNCHANGED <<convoy, row, handler>>

Accepted(t) ==
    LET m == <<t, task[t].at>> IN
    /\ task[t].pc = "wait"
    /\ convoy' = [convoy EXCEPT ![m] = "queued"]
    /\ breaker' = RecordSuccess
    /\ Advance(t, Append(task[t].ids, m))
    /\ UNCHANGED <<row, handler>>

\* ConnectError or TimeoutException; the message may have been accepted.
Unreachable(t) ==
    /\ task[t].pc = "wait"
    /\ \/ May("connect") /\ UNCHANGED convoy
       \/ May("late") /\ convoy' = [convoy EXCEPT ![<<t, task[t].at>>] = "queued"]
    /\ breaker' = RecordFailure
    /\ Advance(t, task[t].ids)
    /\ UNCHANGED <<row, handler>>

\* Any other exception leaves the breaker alone.
Rejected(t) ==
    /\ task[t].pc = "wait"
    /\ May("reject")
    /\ Advance(t, task[t].ids)
    /\ UNCHANGED <<breaker, convoy, row, handler>>

\* Mutant: the first id goes to the second endpoint.
RowForShifted(t, e) ==
    LET ids == task[t].ids IN
    IF e > 1 /\ e - 1 <= Len(ids)
    THEN [id |-> ids[e - 1], status |-> "sent"]
    ELSE [id |-> None, status |-> "failed"]

\* _record_delivery for the e-th endpoint: it gets the e-th of the ids that were
\* returned, whichever endpoint that one was for.
RowFor(t, e) ==
    LET ids == task[t].ids IN
    IF e <= Len(ids)
    THEN [id |-> ids[e], status |-> "sent"]
    ELSE [id |-> None, status |-> "failed"]

Record(t) ==
    /\ task[t].pc = "record"
    /\ \E lost \in SUBSET (1..Targets[t]) :
          /\ lost = {} \/ May("db")
          /\ row' = [m \in Msgs |-> IF m[1] = t /\ m[2] \notin lost
                                    THEN RowFor(t, m[2]) ELSE row[m]]
    /\ task' = [task EXCEPT ![t].pc = "done"]
    /\ UNCHANGED <<breaker, convoy, handler>>

Crash(t) ==
    /\ May("crash")
    /\ task[t].pc = "record"
    /\ task' = [task EXCEPT ![t].pc = "done"]
    /\ UNCHANGED <<breaker, convoy, row, handler>>

-----------------------------------------------------------------------------
(* Convoy's own attempts, and the DLQ handlers *)

\* Convoy is through with its attempts.  It gives up after ten of them with
\* growing pauses, when the dispatch is long over.
Deliver(m) ==
    /\ convoy[m] = "queued"
    /\ \/ convoy' = [convoy EXCEPT ![m] = "ok"]
       \/ /\ m[2] \in Flaky /\ task[m[1]].pc = "done"
          /\ convoy' = [convoy EXCEPT ![m] = "failed"]
    /\ UNCHANGED <<breaker, task, row, handler>>

\* list_failed_deliveries of one endpoint's project.  The poll takes the endpoints
\* in turn and passes over those that have none.
List(h, e) ==
    LET failed == {m \in Msgs : m[2] = e /\ convoy[m] = "failed"} IN
    /\ handler[h].pc = "list"
    /\ failed # {}
    /\ handler' = [handler EXCEPT ![h].pc = "judge", ![h].todo = failed]
    /\ UNCHANGED <<breaker, task, convoy, row>>

\* After the last delivery comes the batch.
Looked(todo, retry) ==
    [pc |-> IF todo # {} THEN "judge" ELSE "resend", todo |-> todo, retry |-> retry]

\* Mutant: a delivery without a row is passed over.
JudgeKnown(h, m) ==
    /\ handler[h].pc = "judge" /\ m \in handler[h].todo
    /\ handler' = [handler EXCEPT ![h] =
          Looked(handler[h].todo \ {m}, handler[h].retry)]
    /\ UNCHANGED <<breaker, task, convoy, row>>

\* One failed delivery: no row is found for its uid, its count is taken as 0, and
\* it is to be retried.
Judge(h, m) ==
    /\ handler[h].pc = "judge" /\ m \in handler[h].todo
    /\ handler' = [handler EXCEPT ![h] =
          Looked(handler[h].todo \ {m}, handler[h].retry \cup {m})]
    /\ UNCHANGED <<breaker, task, convoy, row>>

\* A database error ends the endpoint's turn: nothing of it is resent.
TurnFails(h) ==
    /\ May("db")
    /\ handler[h].pc = "judge"
    /\ handler' = [handler EXCEPT ![h] = Polling]
    /\ UNCHANGED <<breaker, task, convoy, row>>

\* force_resend: what is still failed is queued once more.
Resend(h) ==
    /\ handler[h].pc = "resend"
    /\ convoy' = [m \in Msgs |->
          IF m \in handler[h].retry /\ convoy[m] = "failed" THEN "queued" ELSE convoy[m]]
    /\ handler' = [handler EXCEPT ![h] = Polling]
    /\ UNCHANGED <<breaker, task, row>>

\* The call raises, and the turn is over all the same.
ResendFails(h) ==
    /\ May("batch")
    /\ handler[h].pc = "resend"
    /\ handler' = [handler EXCEPT ![h] = Polling]
    /\ UNCHANGED <<breaker, task, convoy, row>>

-----------------------------------------------------------------------------
(* retry_delivery *)

\* What the route wants of a row before it asks Convoy for a retry and answers 202.
RetryAccepts(m) == row[m] # None /\ row[m].status = "failed" /\ row[m].id # None

Dispatch(t) ==
    \/ Skip(t) \/ Send(t) \/ Accepted(t) \/ Unreachable(t) \/ Rejected(t)
    \/ Record(t) \/ Crash(t)
Poll(h) ==
    \/ TurnFails(h) \/ Resend(h) \/ ResendFails(h)
    \/ \E m \in Msgs : Judge(h, m)
    \/ \E e \in Endpoints : List(h, e)

Next ==
    \/ Cool \/ OtherAsks \/ OtherAnswered
    \/ \E t \in Tasks : Dispatch(t)
    \/ \E m \in Msgs : Deliver(m)
    \/ \E h \in Handlers : Poll(h)

Spec == Init /\ [][Next]_vars

\* The poll loops go on, a poll comes to every endpoint, Convoy finishes its
\* attempts, and the outages of the database and of Convoy end.  A batch that had
\* nothing failed to resend is no outage, though its step is as one that failed.
Outage == \E h \in Handlers : TurnFails(h) \/ (ResendFails(h) /\ ~Resend(h))

Fairness ==
    /\ \A m \in Msgs : WF_vars(Deliver(m))
    /\ \A h \in Handlers : WF_vars(Poll(h))
    /\ \A h \in Handlers, e \in Endpoints : SF_vars(List(h, e))
    /\ <>[][~Outage]_vars

LiveSpec == Spec /\ Fairness

-----------------------------------------------------------------------------
(* Correctness *)

\* The count and the state of the breaker agree whatever the order in which the
\* answers of concurrent sends come: the circuit is closed below the threshold
\* only, and half open one more failure opens it again.
BreakerAgrees ==
    (breaker.state = "closed") <=> (breaker.fails < Threshold)

\* The rows of an event hold the messages that were sent for it: every id the
\* provider returned is in one row, no id is in two, and where every send went
\* well each row has the message of its own endpoint.
MessagesAreAccounted ==
    \A t \in Tasks :
        LET rows == {m \in Msgs : m[1] = t /\ row[m] # None}
            ids  == {task[t].ids[i] : i \in 1..Len(task[t].ids)}
        IN  Cardinality(rows) = Targets[t] =>
                /\ {row[m].id : m \in rows} \ {None} = ids
                /\ \A m, k \in rows : row[m].id = row[k].id /\ row[m].id # None
                                        => m = k
                /\ Len(task[t].ids) = Targets[t] =>
                      \A m \in rows : row[m].id = m

\* A delivery that Convoy has given up does not stay failed: some DLQ handler has
\* it resent, whatever became of its row (processor.py loses rows, and writes rows
\* without an id for messages that Convoy accepted), however the handlers' turns
\* overlap and although turns and batches fail.
FailedIsResent == \A m \in Msgs : convoy[m] = "failed" ~> convoy[m] # "failed"

\* "Retry a failed delivery via Convoy" (retry_delivery): the owner of a delivery
\* that has failed gets a retry from the route.
FailedCanBeRetried ==
    \A m \in Msgs : convoy[m] = "failed" /\ row[m] # None => RetryAccepts(m)
=============================================================================
