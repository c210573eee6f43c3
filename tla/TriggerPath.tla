----------------------------- MODULE TriggerPath -----------------------------
(***************************************************************************)
(* A log against the triggers of its topic: detection, the gates, the      *)
(* claim of each (log, trigger) pair, identity and finality, the endpoint, *)
(* the webhook or the notification, the rows.  Tasks are calls of          *)
(* process_event: a log may be given to any of them any number of times.   *)
(* The deployment runs the unified loop or the handlers of the older path. *)
(***************************************************************************)
EXTENDS Integers, Sequences, FiniteSets

CONSTANTS
    Logs, Triggers, Endpoints, Tasks, None,
    LogOf,          \* what is in a log
    TriggerOf,      \* the rows of the triggers that are indexed
    EndpointOf,     \* the rows of the endpoints, except "active"
    ChainDepth,     \* FINALITY_DEPTHS of the chain
    MaxHead,        \* bound: height of the chain
    Contingencies   \* which of the failures below may happen

AllContingencies == {
    "claim",    \* record_nonce raises, and may have inserted the nonce
    "cut",      \* process_event is cancelled after _PROCESS_TIMEOUT, or the process dies
    "rpc",      \* the head cannot be read
    "resolver", \* the identity cannot be resolved
    "fetch",    \* the endpoint cannot be read
    "send",     \* the provider or the insert of a notification fails
    "db",       \* a row is not written
    "edit" }    \* endpoints are switched off and on

\* What may become of a pair that a call has claimed.
Outcomes == {"reputation", "unreadable", "inactive", "policy", "deferred", "processed"}

\* FINALITY_DEPTHS are at least 1, and so is a finality_depth that is set.
ASSUME PathBounds ==
    /\ ChainDepth \in Nat \ {0} /\ MaxHead \in Nat \ {0}
    /\ Contingencies \subseteq AllContingencies
ASSUME NoneIsNoValue ==
    None \notin Nat /\ None \notin Logs /\ None \notin Triggers /\ None \notin Outcomes
ASSUME LogsHaveBlocks == \A l \in Logs : LogOf[l].block \in Nat
ASSUME TriggersHaveEndpoints == \A t \in Triggers : TriggerOf[t].endpoint \in Endpoints
ASSUME DepthsArePositive ==
    \A e \in Endpoints : EndpointOf[e].depth \in (Nat \ {0}) \cup {None}

Pairs == Logs \X Triggers

VARIABLES
    unified,    \* settings.unified_processor
    head,       \* the height of the chain
    active,     \* the endpoints that are active
    claims,     \* the nonces of the pairs
    task,       \* the calls of process_event
    sent,       \* what was said about each pair, in webhooks and notifications
    events,     \* the pairs with an event row
    deliveries, \* the pairs with a delivery row
    outcome,    \* history: what became of a pair
    stranded    \* history: the pairs that were claimed and then lost sight of

vars == <<unified, head, active, claims, task, sent, events, deliveries, outcome, stranded>>

May(c) == c \in Contingencies

Said == [safe : BOOLEAN, confirmations : Nat \cup {None}]
TaskRec == [pc : {"idle", "dedup", "enrich", "route", "send", "record"},
            log : Logs \cup {None},
            todo : SUBSET Triggers,         \* pairs still to be claimed
            held : SUBSET Triggers,         \* claimed and not settled
            cur : Triggers \cup {None},
            confirmations : Nat \cup {None},
            known : BOOLEAN,                \* was the identity resolved?
            id : BOOLEAN]                   \* did the provider return an id?

TypeOK ==
    /\ unified \in BOOLEAN /\ head \in 0..MaxHead /\ active \subseteq Endpoints
    /\ claims \subseteq Pairs /\ events \subseteq claims /\ deliveries \subseteq claims
    /\ task \in [Tasks -> TaskRec]
    /\ sent \in [Pairs -> Seq(Said)]
    /\ outcome \in [Pairs -> Outcomes \cup {None}]
    /\ stranded \subseteq claims

Idle == [pc |-> "idle", log |-> None, todo |-> {}, held |-> {}, cur |-> None,
         confirmations |-> None, known |-> FALSE, id |-> FALSE]

Init ==
    /\ unified \in BOOLEAN /\ head = 1 /\ active = Endpoints
    /\ claims = {} /\ events = {} /\ deliveries = {} /\ stranded = {}
    /\ task = [k \in Tasks |-> Idle]
    /\ sent = [p \in Pairs |-> <<>>]
    /\ outcome = [p \in Pairs |-> None]

-----------------------------------------------------------------------------
(* Which triggers a log is for *)

\* _detect_event_type: topic, chain and contract.
Matches(log, t) ==
    /\ t.topic = log.topic
    /\ t.chains = {} \/ log.chain \in t.chains \cup {None}
    /\ None \in {t.contract, log.contract} \/ t.contract = log.contract

\* _evaluate_op on the field a filter names; an operator that is not known rejects.
\* "contains", "regex" and "jmespath" are "in" the texts that match.
EvaluateOp(v, op, target) ==
    CASE op = "eq" -> v = target
      [] op = "neq" -> v # target
      [] op = "gt" -> v > target
      [] op = "gte" -> v >= target
      [] op = "lt" -> v < target
      [] op = "lte" -> v <= target
      [] op = "in" -> v \in target
      [] op = "not_in" -> v \notin target
      [] op = "between" -> target[1] <= v /\ v <= target[2]
      [] OTHER -> FALSE

\* evaluate_filters: all must pass, and a field that is not there does not.
EvaluateFilters(log, filters) ==
    \A i \in DOMAIN filters :
        LET f == filters[i] IN
        f.field \in DOMAIN log.fields /\ EvaluateOp(log.fields[f.field], f.op, f.value)

\* _check_payment_gate
PaymentGate(log, t) ==
    t.requirePayment =>
        /\ log.amount # None
        /\ t.token = None \/ log.token = t.token
        /\ t.minAmount = None \/ log.amount >= t.minAmount

\* evaluate_policy; identity is None or the sender's class and reputation.
EvaluatePolicy(log, identity, p) ==
    LET amount == IF log.amount = None THEN 0 ELSE log.amount IN
    /\ p.minAmount = None \/ amount >= p.minAmount
    /\ p.maxAmount = None \/ amount <= p.maxAmount
    /\ log.sender \notin p.blocked
    /\ p.allowed = {} \/ log.sender \in p.allowed
    /\ p.class = None \/ (identity # None /\ identity.class = p.class)
    /\ p.minReputation = None
         \/ (identity # None /\ identity.reputation >= p.minReputation)

\* The triggers whose filters and, in the unified loop, payment gate the log passes.
Wanted(l) ==
    {t \in Triggers :
        /\ Matches(LogOf[l], TriggerOf[t])
        /\ LogOf[l].shape = TriggerOf[t].shape
        /\ EvaluateFilters(LogOf[l], TriggerOf[t].filters)
        /\ unified => PaymentGate(LogOf[l], TriggerOf[t])}

-----------------------------------------------------------------------------
(* Dedup *)

Settle(k, ts, how) ==
    outcome' = [p \in Pairs |-> IF p[1] = task[k].log /\ p[2] \in ts
                                THEN how ELSE outcome[p]]

\* process_event begins on a log.
Start(k, l) ==
    /\ task[k].pc = "idle"
    /\ Wanted(l) # {}
    /\ task' = [task EXCEPT ![k] = [Idle EXCEPT !.pc = "dedup", !.log = l, !.todo = Wanted(l)]]
    /\ UNCHANGED <<unified, head, active, claims, sent, events, deliveries, outcome, stranded>>

\* record_nonce is new for the pair.
IsNew(l, t) == <<l, t>> \notin claims

\* Mutant: a duplicate at the end ends the call.
AfterDedupForgetting(r, t, held) ==
    LET todo == r.todo \ {t} IN
    IF todo = {} /\ t \notin held THEN Idle
    ELSE IF held # {} /\ (todo = {} \/ ~unified)
    THEN [r EXCEPT !.pc = "enrich", !.todo = todo, !.held = held]
    ELSE [r EXCEPT !.todo = todo, !.held = held]

\* The next pair, or, when there is none, what was claimed; the older path goes on
\* with each pair as it claims it.
AfterDedup(r, t, held) ==
    LET todo == r.todo \ {t} IN
    IF held # {} /\ (todo = {} \/ ~unified)
    THEN [r EXCEPT !.pc = "enrich", !.todo = todo, !.held = held]
    ELSE IF todo = {} THEN Idle
    ELSE [r EXCEPT !.todo = todo, !.held = held]

\* A new pair is claimed, one that has been claimed is a duplicate.
Claim(k, t) ==
    LET r == task[k] IN
    /\ r.pc = "dedup" /\ t \in r.todo
    /\ claims' = claims \cup {<<r.log, t>>}
    /\ task' = [task EXCEPT ![k] =
          AfterDedup(r, t, IF IsNew(r.log, t) THEN r.held \cup {t} ELSE r.held)]
    /\ UNCHANGED <<unified, head, active, sent, events, deliveries, outcome, stranded>>

\* "dedup_failed": the pair is left out, and the log goes on.  When the nonce was
\* inserted before the call raised, the pair is a duplicate from then on.
ClaimFails(k, t) ==
    LET r == task[k] IN
    /\ May("claim")
    /\ r.pc = "dedup" /\ t \in r.todo
    /\ \/ UNCHANGED <<claims, stranded>>
       \/ /\ IsNew(r.log, t)
          /\ claims' = claims \cup {<<r.log, t>>}
          /\ stranded' = stranded \cup {<<r.log, t>>}
    /\ task' = [task EXCEPT ![k] = AfterDedup(r, t, r.held)]
    /\ UNCHANGED <<unified, head, active, sent, events, deliveries, outcome>>

-----------------------------------------------------------------------------
(* Finality, identity, reputation *)

\* Mutant: the difference may be negative.
ConfirmationsRaw(block, h) == h - block

\* check_finality_generic against a node that may lag behind.
Confirmations(block, h) == IF h > block THEN h - block ELSE 0

Reputation(l, known) == IF known THEN LogOf[l].identity.reputation ELSE 0

\* The rest of the pairs, or the end.
AfterPairs(r, ts) ==
    IF r.held \ ts # {} THEN [r EXCEPT !.pc = "route", !.held = @ \ ts, !.cur = None]
    ELSE IF r.todo # {}
    THEN [Idle EXCEPT !.pc = "dedup", !.log = r.log, !.todo = r.todo]
    ELSE Idle

\* Both are fetched, and the pairs whose trigger wants more reputation are dropped.
Enrich(k) ==
    LET r == task[k]
        l == r.log
    IN
    /\ r.pc = "enrich"
    /\ \E conf \in {None} \cup {Confirmations(LogOf[l].block, h) : h \in 0..head},
          known \in BOOLEAN :
          /\ IF unified THEN conf = None => May("rpc") ELSE conf = None
          /\ IF known THEN LogOf[l].identity # None
             ELSE LogOf[l].identity = None \/ May("resolver")
          /\ LET poor == {t \in r.held : TriggerOf[t].threshold > Reputation(l, known)} IN
             /\ Settle(k, poor, "reputation")
             /\ task' = [task EXCEPT ![k] =
                   AfterPairs([r EXCEPT !.confirmations = conf, !.known = known], poor)]
    /\ UNCHANGED <<unified, head, active, claims, sent, events, deliveries, stranded>>

-----------------------------------------------------------------------------
(* Endpoint, policy, depth *)

EndpointFor(t) == EndpointOf[TriggerOf[t].endpoint]

\* The endpoint's finality_depth, or the chain's.
Required(t) ==
    IF EndpointFor(t).depth = None THEN ChainDepth ELSE EndpointFor(t).depth

\* Mutant: one confirmation too few is enough.
DeepEnoughEarly(confirmations, t) ==
    confirmations = None \/ confirmations + 1 >= Required(t)

\* Without an answer about finality the gate is not applied.
DeepEnough(confirmations, t) ==
    confirmations = None \/ confirmations >= Required(t)

\* What becomes of a pair once its endpoint was read; the older path has neither
\* policy nor depth.
Verdict(r, t) ==
    LET identity == IF r.known THEN LogOf[r.log].identity ELSE None IN
    CASE TriggerOf[t].endpoint \notin active -> "inactive"
      [] unified /\ ~EvaluatePolicy(LogOf[r.log], identity, EndpointFor(t).policies)
            -> "policy"
      [] unified /\ ~DeepEnough(r.confirmations, t) -> "deferred"
      [] OTHER -> "go"

\* Mutant: a deferred pair is looked at again, with the head that was read before.
DropUnlessDeferred(k, t) ==
    LET r == task[k] IN
    /\ r.pc = "route" /\ t \in r.held
    /\ Verdict(r, t) \notin {"go", "deferred"} /\ Settle(k, {t}, Verdict(r, t))
    /\ task' = [task EXCEPT ![k] = AfterPairs(r, {t})]
    /\ UNCHANGED <<unified, head, active, claims, sent, events, deliveries, stranded>>

\* The pair is dropped for good.
Drop(k, t) ==
    LET r == task[k] IN
    /\ r.pc = "route" /\ t \in r.held
    /\ \/ Verdict(r, t) # "go" /\ Settle(k, {t}, Verdict(r, t))
       \/ May("fetch") /\ Settle(k, {t}, "unreadable")
    /\ task' = [task EXCEPT ![k] = AfterPairs(r, {t})]
    /\ UNCHANGED <<unified, head, active, claims, sent, events, deliveries, stranded>>

Go(k, t) ==
    LET r == task[k] IN
    /\ r.pc = "route" /\ t \in r.held
    /\ Verdict(r, t) = "go"
    /\ task' = [task EXCEPT ![k].pc = "send", ![k].cur = t]
    /\ UNCHANGED <<unified, head, active, claims, sent, events, deliveries, outcome, stranded>>

-----------------------------------------------------------------------------
(* Webhook, notification, rows *)

\* The execution block.
Payload(r) ==
    [safe |-> r.confirmations # None /\ r.confirmations >= ChainDepth,
     confirmations |-> r.confirmations]

\* Is there anything to send, given the chains the subscriptions name?  When these
\* cannot be read there are none, and everything is wanted.
Channel(l, t, chains) ==
    LET ep == EndpointFor(t) IN
    IF unified /\ ep.mode = "notify"
    THEN IF chains = {} \/ LogOf[l].chain \in chains THEN "notify" ELSE "none"
    ELSE IF ep.wired THEN "webhook" ELSE "none"

Channels(r) ==
    LET chains == EndpointFor(r.cur).chains IN
    {Channel(r.log, r.cur, cs) : cs \in {chains} \cup {c \in {{}} : May("fetch")}}

Say(r) == sent' = [sent EXCEPT ![<<r.log, r.cur>>] = Append(@, Payload(r))]

\* provider.send, or the insert into realtime_events.
Send(k) ==
    LET r == task[k] IN
    /\ r.pc = "send"
    /\ Say(r)
    /\ \E c \in Channels(r) \ {"none"} :
          task' = [task EXCEPT ![k].pc = "record", ![k].id = (c = "webhook")]
    /\ UNCHANGED <<unified, head, active, claims, events, deliveries, outcome, stranded>>

\* Mutant: a failed call is made again.
SendNotAgain(k) ==
    LET r == task[k] IN
    /\ r.pc = "send"
    /\ \/ "none" \in Channels(r) /\ UNCHANGED sent /\ task' = [task EXCEPT ![k].pc = "record"]
       \/ May("send") /\ Channels(r) # {"none"} /\ Say(r) /\ UNCHANGED task
    /\ UNCHANGED <<unified, head, active, claims, events, deliveries, outcome, stranded>>

\* Nothing to send, or the call fails, and may have been carried out.
SendNot(k) ==
    LET r == task[k] IN
    /\ r.pc = "send"
    /\ \/ "none" \in Channels(r) /\ UNCHANGED sent
       \/ May("send") /\ Channels(r) # {"none"} /\ (Say(r) \/ UNCHANGED sent)
    /\ task' = [task EXCEPT ![k].pc = "record"]
    /\ UNCHANGED <<unified, head, active, claims, events, deliveries, outcome, stranded>>

\* Event row and delivery row; errors are logged.
Record(k) ==
    LET r == task[k]
        p == <<r.log, r.cur>>
    IN
    /\ r.pc = "record"
    /\ \/ events' = events \cup {p}
       \/ May("db") /\ UNCHANGED events
    /\ \/ deliveries' = IF r.id THEN deliveries \cup {p} ELSE deliveries
       \/ May("db") /\ UNCHANGED deliveries
    /\ Settle(k, {r.cur}, "processed")
    /\ task' = [task EXCEPT ![k] = AfterPairs([r EXCEPT !.id = FALSE], {r.cur})]
    /\ UNCHANGED <<unified, head, active, claims, sent, stranded>>

\* The call is cut off.  A claim, a send or a row that was under way may
\* come through, and nobody takes the pairs up again.
Cut(k) ==
    LET r == task[k] IN
    /\ May("cut")
    /\ r.pc # "idle"
    /\ \E late \in {{}} \cup {{t} : t \in {u \in r.todo : r.pc = "dedup" /\ IsNew(r.log, u)}} :
          /\ claims' = claims \cup {<<r.log, t>> : t \in late}
          /\ stranded' = stranded \cup {<<r.log, t>> : t \in r.held \cup late}
    /\ \/ UNCHANGED sent
       \/ r.pc = "send" /\ Channels(r) # {"none"} /\ Say(r)
    /\ \/ UNCHANGED events
       \/ r.pc = "record" /\ events' = events \cup {<<r.log, r.cur>>}
    /\ task' = [task EXCEPT ![k] = Idle]
    /\ UNCHANGED <<unified, head, active, deliveries, outcome>>

\* The chain grows, and owners switch endpoints off and on.
Grow ==
    /\ head < MaxHead
    /\ head' = head + 1
    /\ UNCHANGED <<unified, active, claims, task, sent, events, deliveries, outcome, stranded>>

SwitchEndpoint(e) ==
    /\ May("edit")
    /\ active' = IF e \in active THEN active \ {e} ELSE active \cup {e}
    /\ UNCHANGED <<unified, head, claims, task, sent, events, deliveries, outcome, stranded>>

Step(k) ==
    \/ Enrich(k) \/ Send(k) \/ SendNot(k) \/ Record(k)
    \/ \E t \in Triggers : Claim(k, t) \/ ClaimFails(k, t) \/ Drop(k, t) \/ Go(k, t)

Next ==
    \/ Grow
    \/ \E e \in Endpoints : SwitchEndpoint(e)
    \/ \E k \in Tasks : Step(k) \/ Cut(k) \/ \E l \in Logs : Start(k, l)

Spec == Init /\ [][Next]_vars

\* A call that has begun goes on.
LiveSpec == Spec /\ \A k \in Tasks : WF_vars(Step(k))

-----------------------------------------------------------------------------
(* Correctness *)

Holds(k, p) == task[k].log = p[1] /\ p[2] \in task[k].held

\* Nobody will do anything more for the pair.
Ended(p) == outcome[p] # None \/ p \in stranded

\* A claim is in one place, however often the log comes and wherever a call is cut
\* off or loses an answer: one task holds it, or something became of it, or it is
\* stranded.  Its nonce keeps every other call away in each of these cases.
ClaimHasOneOwner ==
    \A p \in Pairs :
        LET owners == {k \in Tasks : Holds(k, p)} IN
        /\ p \in claims <=> (owners # {} \/ Ended(p))
        /\ owners # {} => ~Ended(p) /\ Cardinality(owners) = 1
        /\ p \in stranded => outcome[p] = None

\* An owner is told at most once of a pair, whichever tasks get the log, and a
\* delivery row is about something that was sent.
ToldAtMostOnce ==
    /\ \A p \in Pairs : Len(sent[p]) <= 1
    /\ \A p \in deliveries : sent[p] # <<>>

\* What carries a finality block was sent when the block was as deep as the
\* endpoint asks, and calls execution safe only at the chain's depth, although the
\* head was read before the endpoint and the node may lag.
SaidIsDeep ==
    \A p \in Pairs : \A i \in DOMAIN sent[p] :
        LET s == sent[p][i]
            depth == head - LogOf[p[1]].block
        IN  /\ s.confirmations # None => depth >= Required(p[2])
            /\ s.safe => depth >= ChainDepth

\* Why the three hold, in parts that every step preserves together.  A claim that
\* has not ended is held, one that is held has not ended, and by one task only ...
ClaimsAreHeld ==
    \A p \in Pairs : p \in claims <=> (Ended(p) \/ \E k \in Tasks : Holds(k, p))
HeldIsOpen == \A p \in Pairs, k \in Tasks : Holds(k, p) => ~Ended(p)
StrandedIsOpen == \A p \in stranded : outcome[p] = None
HeldOnce == \A p \in Pairs, j, k \in Tasks : Holds(j, p) /\ Holds(k, p) => j = k

\* ... a call that runs has a log, and what it holds it has not told yet, except
\* the pair whose rows it is about to write ...
CallIsSound(r) ==
    /\ r.pc = "idle" => r.held = {}
    /\ r.pc # "idle" => r.log \in Logs
    /\ r.pc \in {"send", "record"} => r.cur \in r.held
    /\ r.id => r.pc = "record" /\ sent[<<r.log, r.cur>>] # <<>>
    /\ \A t \in r.held : sent[<<r.log, t>>] # <<>> => r.pc = "record" /\ r.cur = t

\* ... what it knows of the depth was true when it was read, and is enough for the
\* pair it speaks of ...
DepthIsSound(r) ==
    r.confirmations # None =>
        /\ unified /\ r.pc # "idle"
        /\ r.confirmations > 0 => r.confirmations <= head - LogOf[r.log].block
        /\ r.pc \in {"send", "record"} => r.confirmations >= Required(r.cur)

\* ... and nobody was told of a pair that was not claimed.
UnclaimedIsUntold == \A p \in Pairs : p \notin claims => sent[p] = <<>>

PathInv ==
    /\ ClaimsAreHeld /\ HeldIsOpen /\ StrandedIsOpen /\ HeldOnce
    /\ \A k \in Tasks : CallIsSound(task[k]) /\ DepthIsSound(task[k])
    /\ UnclaimedIsUntold
    /\ ToldAtMostOnce /\ SaidIsDeep

\* A call decides on every pair it has claimed, unless it is cut off.  "deferred" is
\* such a decision: the pair is dropped, and nobody looks at it again when the chain
\* has grown.
ClaimsAreSettled == \A p \in Pairs : p \in claims ~> Ended(p)
=============================================================================
