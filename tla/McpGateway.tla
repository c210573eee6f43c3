----------------------------- MODULE McpGateway -----------------------------
(***************************************************************************)
(* The MCP tool calls, and the session and endpoint routes, of one wallet, *)
(* several at a time.  A call is paid for in one of three ways: out of a session budget *)
(* kept in Redis, with an x402 payment proof that the facilitator verifies *)
(* and settles, or with a SIWE nonce (the free tools and the REST routes). *)
(* Every await on Redis, the database, the webhook provider, the identity  *)
(* resolver or the facilitator is a step of its own.                       *)
(***************************************************************************)
EXTENDS Naturals, FiniteSetsExt

CONSTANTS
    Calls, Sessions, Payments, Nonces, None,
    MaxTriggers,    \* settings.max_triggers_per_wallet
    MaxEndpoints,   \* settings.max_endpoints_per_wallet
    RateLimit,      \* 60 calls per window
    MaxSlugs,       \* bound on the triggers one register_middleware asks for
    DefaultBudget,  \* settings.session_default_budget_usdc
    MaxBudget,      \* settings.session_max_budget_usdc
    Requests,       \* the budgets that are asked for; None: no budget given
    Contingencies   \* which of the failures below may happen

AllContingencies == {
    "redis",        \* a Redis command raises, done or not
    "db",           \* a database call raises
    "convoy",       \* the webhook provider raises
    "resolver",     \* the resolver raises: no RPC URL for the tool's chain
    "facilitator",  \* settle raises, settled or not
    "crash" }       \* the process dies

ASSUME GatewayBounds ==
    /\ MaxTriggers \in Nat \ {0} /\ MaxEndpoints \in Nat \ {0}
    /\ RateLimit \in Nat \ {0} /\ MaxSlugs \in Nat
    /\ DefaultBudget \in Nat \ {0} /\ MaxBudget \in Nat \ {0}
    /\ Requests \subseteq Nat \cup {None}
    /\ Contingencies \subseteq AllContingencies

\* A wallet has finitely many requests; the ids of sessions, the payment proofs and
\* the nonces are told apart.
ASSUME CallsAreFinite == IsFiniteSet(Calls)
ASSUME PursesDiffer ==
    /\ Sessions \cap Payments = {} /\ Sessions \cap Nonces = {}
    /\ Payments \cap Nonces = {}

\* The X402 tools; all four have min_reputation 10.
Paid == {"register_endpoint", "register_middleware", "create_trigger",
         "activate_template"}
\* The SIWX tools; "read" stands for those that change nothing.
Free == {"delete_trigger", "read"}
\* The session and endpoint routes, behind require_wallet_auth; "set_active" stands
\* for PATCH with the field active and for DELETE, which unsets it.
Rest == {"open_session", "close_session", "post_endpoint", "set_active"}
Tools == Paid \cup Free \cup Rest

\* _price_to_smallest_units, in thousandths of a dollar.
Price(t) == IF t = "activate_template" THEN 1 ELSE IF t \in Paid THEN 3 ELSE 0

VARIABLES
    call,       \* the requests
    session,    \* the Redis hashes session:{id}
    claimed,    \* the dedup keys x402:payment:{hash}:{tool}
    spent,      \* the payments the facilitator has settled
    nonce,      \* the keys siwe:nonce:{nonce}
    rate,       \* the key mcp:rate:{wallet}, and whether it has a TTL
    endpoints,  \* the calls whose endpoint row exists
    inactive,   \* those of them that are not active
    triggers,   \* the active triggers of each call's endpoint
    backing     \* history: what each call was charged to

authVars == <<session, claimed, spent, nonce, backing>>
toolVars == <<endpoints, inactive, triggers>>
vars == <<call, authVars, rate, toolVars>>

May(c) == c \in Contingencies

\* left: refused, while a row that was to be deleted is still there
Ended == {"answered", "errored", "refused", "left", "failed", "lost"}
ToolSteps == {"endpoint_quota", "endpoint_insert", "wire", "trigger_quota",
              "trigger_insert", "delete", "read", "open", "close", "set"}
CallRec ==
    [pc    : {"idle", "auth", "fetch", "claim", "identify", "rate", "settle",
              "undo", "reply"} \cup ToolSteps \cup Ended,
     via   : {"session", "x402", "siwx"},
     tool  : Tools,
     purse : Sessions \cup Payments \cup Nonces,
     todo  : 0..(MaxSlugs + 1),     \* triggers still to be created
     then  : Ended]                 \* how the call ends once it is undone
\* key: the hash is there, or a hash with budget_remaining as its only field
SessionRec == [key : {"none", "hash", "ghost"}, left : Nat, total : Nat,
               late : BOOLEAN,      \* expires_at has passed
               trusted : BOOLEAN]   \* the reputation cached at opening passes

\* What a call was charged to, and how much.
Charge == [purse : Sessions \cup Payments \cup Nonces, cost : Nat]

ASSUME NoneIsNoRecord == None \notin CallRec /\ None \notin Charge

TypeOK ==
    /\ call \in [Calls -> {None} \cup CallRec]
    /\ session \in [Sessions -> SessionRec]
    /\ claimed \subseteq Payments \X Paid
    /\ spent \subseteq Payments
    /\ nonce \in [Nonces -> {"none", "live", "used", "expired"}]
    /\ rate \in [n : 0..RateLimit, ttl : BOOLEAN]
    /\ endpoints \subseteq Calls /\ inactive \subseteq endpoints
    /\ triggers \in [Calls -> Nat]
    /\ backing \in [Calls -> {None} \cup Charge]

At(c, pc) == call[c] # None /\ call[c].pc = pc
Active(c) == call[c] # None /\ call[c].pc \notin Ended
Goto(c, pc) == call' = [call EXCEPT ![c].pc = pc]
\* The locals of a call that has ended do not matter.
End(c, end) ==
    call' = [call EXCEPT ![c].pc = end, ![c].then = end, ![c].todo = 0]

\* SessionManager.create: the budget that is granted.
EffectiveBudget(b) ==
    Max({1, Min({IF b = None THEN DefaultBudget ELSE b, MaxBudget})})

NoSession == [key |-> "none", left |-> 0, total |-> 0, late |-> FALSE,
              trusted |-> FALSE]
Opened(b, t) == [key |-> "hash", left |-> EffectiveBudget(b),
                 total |-> EffectiveBudget(b), late |-> FALSE, trusted |-> t]

Init ==
    /\ call = [c \in Calls |-> None]
    /\ session \in [Sessions -> {NoSession} \cup {Opened(b, TRUE) : b \in Requests}]
    /\ claimed = {}
    /\ spent = {}
    /\ nonce = [n \in Nonces |-> "none"]
    /\ rate = [n |-> 0, ttl |-> FALSE]
    /\ endpoints = {}
    /\ inactive = {}
    /\ triggers = [c \in Calls |-> 0]
    /\ backing = [c \in Calls |-> None]

-----------------------------------------------------------------------------
(* Where a call goes next *)

\* The tools and the route that register an endpoint.
Registers == {"register_endpoint", "register_middleware", "post_endpoint"}

\* The first step of the handler.
Enter(t) ==
    CASE t \in Registers -> "endpoint_quota"
      [] t \in {"create_trigger", "activate_template"} -> "trigger_quota"
      [] t = "delete_trigger" -> "delete"
      [] t = "open_session" -> "open"
      [] t = "close_session" -> "close"
      [] t = "set_active" -> "set"
      [] OTHER -> "read"

\* The handler returned its result: x402 settles, the others answer.
Return(c) == Goto(c, IF call[c].via = "x402" THEN "settle" ELSE "reply")

\* The call is undone (the budget refunded, the dedup key released) and ends.
UndoThen(c, end) ==
    IF call[c].via = "x402" \/ (call[c].via = "session" /\ Price(call[c].tool) > 0)
    THEN call' = [call EXCEPT ![c].pc = "undo", ![c].then = end]
    ELSE End(c, end)

\* The handler returned {"error": ...}: only x402 gives anything back.
ReturnError(c) ==
    IF call[c].via = "x402" THEN UndoThen(c, "errored") ELSE End(c, "errored")

-----------------------------------------------------------------------------
(* Authentication and payment *)

\* mcp_endpoint: a session header routes any MCP tool to the session path.
Begin(c) ==
    /\ call[c] = None
    /\ \E t \in Tools, u \in Sessions \cup Payments \cup Nonces, k \in 0..MaxSlugs :
          /\ \/ u \in Sessions /\ t \notin Rest
             \/ u \in Payments /\ t \in Paid
             \/ u \in Nonces /\ t \notin Paid
          /\ t # "register_middleware" => k = 0
          /\ call' = [call EXCEPT ![c] =
                [pc |-> "auth", tool |-> t, purse |-> u, then |-> "refused",
                 via |-> IF u \in Sessions THEN "session"
                         ELSE IF u \in Payments THEN "x402" ELSE "siwx",
                 todo |-> IF t = "register_middleware" THEN k ELSE 1]]
    /\ UNCHANGED <<authVars, rate, toolVars>>

\* Mutant: the budget is not compared with the cost.
ChargeableUnchecked(s, cost) ==
    /\ session[s].key # "none"
    /\ ~(session[s].key = "hash" /\ session[s].late)

\* Mutant: expires_at is not looked at.
ChargeableLate(s, cost) ==
    /\ session[s].key # "none"
    /\ session[s].left >= cost

\* Does the Lua script charge session s?  A key without expires_at never is late.
Chargeable(s, cost) ==
    /\ session[s].key # "none"
    /\ ~(session[s].key = "hash" /\ session[s].late)
    /\ session[s].left >= cost

\* validate_and_decrement, the script.
Decrement(c) ==
    LET s == call[c].purse  cost == Price(call[c].tool) IN
    /\ At(c, "auth") /\ call[c].via = "session"
    /\ \/ /\ Chargeable(s, cost)
          /\ session' = [session EXCEPT ![s].left = @ - cost]
          /\ backing' = IF session[s].key = "ghost" THEN backing
                        ELSE [backing EXCEPT ![c] = [purse |-> s, cost |-> cost]]
          /\ Goto(c, "fetch")
       \/ /\ ~Chargeable(s, cost) \/ May("redis")
          /\ End(c, "refused")
          /\ UNCHANGED <<session, backing>>
    /\ UNCHANGED <<claimed, spent, nonce, rate, toolVars>>

\* validate_and_decrement reads the session again (a hash without its fields
\* raises), then the reputation cached in it is gated.  Nothing is refunded when
\* the read fails.
Fetch(c) ==
    LET s == call[c].purse IN
    /\ At(c, "fetch")
    /\ \/ session[s].key # "hash" /\ End(c, "refused")
       \/ May("redis") /\ End(c, "failed")
       \/ /\ session[s].key = "hash"
          /\ session[s].trusted \/ call[c].tool \notin Paid
          /\ Goto(c, "rate")
       \/ /\ session[s].key = "hash"
          /\ ~session[s].trusted /\ call[c].tool \in Paid
          /\ UndoThen(c, "refused")
    /\ UNCHANGED <<authVars, rate, toolVars>>

\* x402ResourceServer.verify; a proof the facilitator has settled is invalid.
Verify(c) ==
    /\ At(c, "auth") /\ call[c].via = "x402"
    /\ \/ call[c].purse \notin spent /\ Goto(c, "claim")
       \/ End(c, "refused")
    /\ UNCHANGED <<authVars, rate, toolVars>>

Key(c) == <<call[c].purse, call[c].tool>>

\* Mutant: a replayed proof releases the key it did not set.
ClaimReleasing(c) ==
    /\ At(c, "claim")
    /\ IF Key(c) \in claimed
       THEN UndoThen(c, "refused") /\ UNCHANGED claimed
       ELSE claimed' = claimed \cup {Key(c)} /\ Goto(c, "identify")
    /\ UNCHANGED <<session, spent, nonce, backing, rate, toolVars>>

\* before_execution: SET NX of the dedup key.
Claim(c) ==
    /\ At(c, "claim")
    /\ \/ /\ Key(c) \in claimed
          /\ End(c, "refused")
          /\ UNCHANGED claimed
       \/ /\ Key(c) \notin claimed
          /\ claimed' = claimed \cup {Key(c)}
          /\ Goto(c, "identify")
       \/ /\ May("redis")
          /\ claimed' \in {claimed, claimed \cup {Key(c)}}
          /\ End(c, "failed")
    /\ UNCHANGED <<session, spent, nonce, backing, rate, toolVars>>

\* The SIWE headers hold, and DEL consumes the nonce.
Consumes(c, next) ==
    LET n == call[c].purse IN
    /\ \/ /\ nonce[n] = "live"
          /\ nonce' = [nonce EXCEPT ![n] = "used"]
          /\ backing' = [backing EXCEPT ![c] = [purse |-> n, cost |-> 1]]
          /\ Goto(c, next)
       \/ /\ nonce[n] # "live" \/ May("redis")
          /\ End(c, "refused")
          /\ UNCHANGED <<nonce, backing>>
    /\ UNCHANGED <<session, claimed, spent, rate, toolVars>>

\* Of an MCP call ...
VerifySiwe(c) ==
    /\ At(c, "auth") /\ call[c].via = "siwx" /\ call[c].tool \in Free
    /\ Consumes(c, "identify")

\* ... and of a REST route.
RequireWalletAuth(c) ==
    /\ At(c, "auth") /\ call[c].tool \in Rest
    /\ Consumes(c, Enter(call[c].tool))

\* before_execution: identity resolution and the reputation gate.  An unknown
\* agent, a payer that verify did not name and an RPC that fails all have
\* reputation 0.  When the resolver raises, the dedup key stays set.
IdentifyPayer(c) ==
    /\ At(c, "identify") /\ call[c].via = "x402"
    /\ \/ Goto(c, "rate")
       \/ UndoThen(c, "refused")
       \/ May("resolver") /\ End(c, "failed")
    /\ UNCHANGED <<authVars, rate, toolVars>>

\* build_auth_context; no SIWX tool has a reputation gate.
IdentifyWallet(c) ==
    /\ At(c, "identify") /\ call[c].via = "siwx"
    /\ \/ Goto(c, "rate")
       \/ May("resolver") /\ End(c, "failed")
    /\ UNCHANGED <<authVars, rate, toolVars>>

\* INCR, and EXPIRE on the first call of the window.  The counter is kept up to the
\* limit: beyond it every call is refused alike.
Counted ==
    rate' = [n |-> Min({rate.n + 1, RateLimit}), ttl |-> rate.ttl \/ rate.n = 0]
WithinLimit(c) == Counted /\ rate.n < RateLimit /\ Goto(c, Enter(call[c].tool))

\* A Redis error lets the call through; when it was EXPIRE that failed, the
\* counter never ends.
FailOpen(c) ==
    /\ May("redis")
    /\ rate' \in {rate, [rate EXCEPT !.n = Min({@ + 1, RateLimit})]}
    /\ Goto(c, Enter(call[c].tool))

RateSession(c) ==
    /\ At(c, "rate") /\ call[c].via = "session"
    /\ \/ WithinLimit(c)
       \/ Counted /\ rate.n >= RateLimit /\ UndoThen(c, "refused")
       \/ FailOpen(c)
    /\ UNCHANGED <<authVars, toolVars>>

\* Mutant: over the limit the dedup key is kept.
RatePayerKeeping(c) ==
    /\ At(c, "rate") /\ call[c].via = "x402"
    /\ \/ WithinLimit(c)
       \/ Counted /\ rate.n >= RateLimit /\ End(c, "refused")
    /\ UNCHANGED <<authVars, toolVars>>

RatePayer(c) ==
    /\ At(c, "rate") /\ call[c].via = "x402"
    /\ \/ WithinLimit(c)
       \/ Counted /\ rate.n >= RateLimit /\ UndoThen(c, "refused")
       \/ FailOpen(c)
    /\ UNCHANGED <<authVars, toolVars>>

RateWallet(c) ==
    /\ At(c, "rate") /\ call[c].via = "siwx"
    /\ \/ WithinLimit(c)
       \/ Counted /\ rate.n >= RateLimit /\ End(c, "refused")
       \/ FailOpen(c)
    /\ UNCHANGED <<authVars, toolVars>>

-----------------------------------------------------------------------------
(* The tool handlers *)

Pending(pc) == {c \in Calls : At(c, pc)}
ActiveTriggers == MapThenSumSet(LAMBDA c : triggers[c], Calls)

\* The row and, by ON DELETE CASCADE, its triggers.
DeleteEndpoint(c) ==
    /\ endpoints' = endpoints \ {c}
    /\ inactive' = inactive \ {c}
    /\ triggers' = [triggers EXCEPT ![c] = 0]

\* A database call of the handler raised.
DbRaises(c) == May("db") /\ UndoThen(c, "failed") /\ UNCHANGED toolVars

\* A delete that was to clean up raised, and the call is refused all the same.
CleanupFails(c) == May("db") /\ UndoThen(c, "left") /\ UNCHANGED toolVars

\* What check_endpoint_quota counts.
ActiveEndpoints == Cardinality(endpoints \ inactive)

\* _create_endpoint_core checks the URL, and then as the route the quota.
EndpointQuota(c) ==
    /\ At(c, "endpoint_quota")
    /\ \/ call[c].tool \in Paid /\ ReturnError(c)
       \/ ActiveEndpoints >= MaxEndpoints /\ UndoThen(c, "refused")
       \/ ActiveEndpoints < MaxEndpoints /\ Goto(c, "endpoint_insert")
       \/ DbRaises(c)
    /\ UNCHANGED <<authVars, rate, toolVars>>

\* register_endpoint and the route end here; register_middleware goes on to its triggers.
AfterEndpoint(c) ==
    IF call[c].tool = "register_middleware" /\ call[c].todo > 0
    THEN Goto(c, "trigger_quota") ELSE Return(c)

EndpointInsert(c) ==
    /\ At(c, "endpoint_insert")
    /\ \/ /\ endpoints' = endpoints \cup {c}
          /\ Goto(c, "wire")
          /\ UNCHANGED <<inactive, triggers>>
       \/ DbRaises(c)
    /\ UNCHANGED <<authVars, rate>>

\* Mutant: the row of an endpoint that could not be wired stays.
WireLeaving(c) ==
    /\ At(c, "wire")
    /\ \/ AfterEndpoint(c)
       \/ May("convoy") /\ ReturnError(c)
    /\ UNCHANGED <<authVars, rate, toolVars>>

\* The provider's application and endpoint (execute mode only); the row is
\* deleted when they cannot be had.
Wire(c) ==
    /\ At(c, "wire")
    /\ \/ AfterEndpoint(c) /\ UNCHANGED toolVars
       \/ May("convoy") /\ DeleteEndpoint(c) /\ ReturnError(c)
       \/ May("convoy") /\ call[c].tool \in Paid /\ DbRaises(c)
       \/ May("convoy") /\ call[c].tool \in Rest /\ CleanupFails(c)
    /\ UNCHANGED <<authVars, rate>>

\* check_trigger_quota.  Its 429 makes register_middleware delete the endpoint,
\* and goes out even if that fails; any other exception leaves it.  A slug without a template is passed over.
TriggerQuota(c) ==
    LET middleware == call[c].tool = "register_middleware" IN
    /\ At(c, "trigger_quota")
    /\ \/ /\ ActiveTriggers < MaxTriggers
          /\ Goto(c, "trigger_insert")
          /\ UNCHANGED toolVars
       \/ /\ ActiveTriggers < MaxTriggers /\ middleware
          /\ IF call[c].todo > 1 THEN call' = [call EXCEPT ![c].todo = @ - 1]
             ELSE Return(c)
          /\ UNCHANGED toolVars
       \/ /\ ActiveTriggers >= MaxTriggers
          /\ UndoThen(c, "refused")
          /\ IF middleware THEN DeleteEndpoint(c) ELSE UNCHANGED toolVars
       \/ ActiveTriggers >= MaxTriggers /\ middleware /\ CleanupFails(c)
       \/ DbRaises(c)
    /\ UNCHANGED <<authVars, rate>>

\* Mutant: the quota is checked once for all the triggers of a call.
InsertUnchecked(c, e) ==
    /\ triggers' = [triggers EXCEPT ![e] = @ + 1]
    /\ IF call[c].todo > 1 THEN call' = [call EXCEPT ![c].todo = @ - 1]
       ELSE Return(c)
    /\ UNCHANGED <<endpoints, inactive>>

\* trigger_repo.create on endpoint e; the cache invalidation that follows the
\* last one is best effort.
Insert(c, e) ==
    /\ triggers' = [triggers EXCEPT ![e] = @ + 1]
    /\ IF call[c].todo > 1
       THEN call' = [call EXCEPT ![c].todo = @ - 1, ![c].pc = "trigger_quota"]
       ELSE Return(c)
    /\ UNCHANGED <<endpoints, inactive>>

\* register_middleware, the body of its loops.
MiddlewareTrigger(c) ==
    /\ At(c, "trigger_insert") /\ call[c].tool = "register_middleware"
    /\ Insert(c, c) \/ DbRaises(c)
    /\ UNCHANGED <<authVars, rate>>

CreateTrigger(c) ==
    /\ At(c, "trigger_insert") /\ call[c].tool = "create_trigger"
    /\ \/ \E e \in endpoints : Insert(c, e)
       \/ ReturnError(c) /\ UNCHANGED toolVars
       \/ DbRaises(c)
    /\ UNCHANGED <<authVars, rate>>

ActivateTemplate(c) ==
    /\ At(c, "trigger_insert") /\ call[c].tool = "activate_template"
    /\ \/ \E e \in endpoints : Insert(c, e)
       \/ ReturnError(c) /\ UNCHANGED toolVars
       \/ DbRaises(c)
    /\ UNCHANGED <<authVars, rate>>

\* delete_trigger; the row of a deactivated trigger is found again.
DeleteTrigger(c) ==
    /\ At(c, "delete")
    /\ \/ /\ Return(c)
          /\ \/ \E e \in endpoints :
                /\ triggers[e] > 0
                /\ triggers' = [triggers EXCEPT ![e] = @ - 1]
             \/ UNCHANGED triggers
          /\ UNCHANGED <<endpoints, inactive>>
       \/ ReturnError(c) /\ UNCHANGED toolVars
       \/ DbRaises(c)
    /\ UNCHANGED <<authVars, rate>>

\* update_endpoint and deactivate_endpoint: no quota is looked at, whichever way
\* active turns.
SetActive(c) ==
    /\ At(c, "set")
    /\ \/ \E e \in endpoints :
             /\ inactive' \in {inactive \cup {e}, inactive \ {e}}
             /\ Return(c)
       \/ ReturnError(c) /\ UNCHANGED inactive
       \/ May("db") /\ UndoThen(c, "failed") /\ UNCHANGED inactive
    /\ UNCHANGED <<authVars, rate, endpoints, triggers>>

\* The tools that only read.
Read(c) ==
    /\ At(c, "read")
    /\ Return(c) \/ ReturnError(c) \/ DbRaises(c)
    /\ UNCHANGED <<authVars, rate, toolVars>>

\* open_session: a resolver that raises leaves reputation 0.
OpenSession(c) ==
    /\ At(c, "open")
    /\ \/ \E s \in Sessions, b \in Requests, t \in BOOLEAN :
             /\ session[s] = NoSession
             /\ session' = [session EXCEPT ![s] = Opened(b, t)]
             /\ Goto(c, "reply")
       \/ May("redis") /\ End(c, "failed") /\ UNCHANGED session
    /\ UNCHANGED <<claimed, spent, nonce, backing, rate, toolVars>>

\* close_session; a hash without its fields raises.
CloseSession(c) ==
    /\ At(c, "close")
    /\ \E s \in Sessions :
          \/ /\ session[s].key = "hash"
             /\ session' = [session EXCEPT ![s].key = "none", ![s].left = 0]
             /\ Goto(c, "reply")
          \/ /\ session[s].key # "hash" \/ May("redis")
             /\ End(c, "refused")
             /\ UNCHANGED session
    /\ UNCHANGED <<claimed, spent, nonce, backing, rate, toolVars>>

-----------------------------------------------------------------------------
(* How a call ends *)

\* Mutant: the result is returned although settlement failed.
SettleLenient(c) ==
    /\ At(c, "settle")
    /\ spent' = spent \cup {call[c].purse}
    /\ backing' = IF call[c].purse \in spent THEN backing
                  ELSE [backing EXCEPT ![c] = [purse |-> call[c].purse, cost |-> 1]]
    /\ Goto(c, "reply")
    /\ UNCHANGED <<session, claimed, nonce, rate, toolVars>>

\* settle: the facilitator moves the money of a proof once.  When it raises, the
\* result is withheld and the key released.
Settle(c) ==
    LET p == call[c].purse IN
    /\ At(c, "settle")
    /\ \/ /\ p \notin spent
          /\ spent' = spent \cup {p}
          /\ backing' = [backing EXCEPT ![c] = [purse |-> p, cost |-> 1]]
          /\ Goto(c, "reply")
       \/ /\ p \in spent \/ May("facilitator")
          /\ spent' \in {spent, spent \cup {p}}
          /\ UndoThen(c, "failed")
          /\ UNCHANGED backing
    /\ UNCHANGED <<session, claimed, nonce, rate, toolVars>>

\* Mutant: the refund is given twice.
RefundTwice(s, cost) ==
    session' = [session EXCEPT
        ![s].left = @ + 2 * cost,
        ![s].key = IF @ = "none" THEN "ghost" ELSE @]

\* SessionManager.refund: HINCRBY creates the key when it is gone.
Refund(s, cost) ==
    session' = [session EXCEPT
        ![s].left = @ + cost,
        ![s].key = IF @ = "none" THEN "ghost" ELSE @]

\* The best-effort undoing: a refund, or DEL of the dedup key.
Undo(c) ==
    /\ At(c, "undo")
    /\ \/ /\ call[c].via = "session"
          /\ Refund(call[c].purse, Price(call[c].tool))
          /\ backing' = [backing EXCEPT ![c] = None]
          /\ End(c, call[c].then)
          /\ UNCHANGED claimed
       \/ /\ call[c].via = "x402"
          /\ claimed' = claimed \ {Key(c)}
          /\ End(c, call[c].then)
          /\ UNCHANGED <<session, backing>>
       \/ /\ May("redis")
          /\ End(c, "failed")
          /\ UNCHANGED <<session, backing, claimed>>
    /\ UNCHANGED <<spent, nonce, rate, toolVars>>

\* The JSON-RPC answer with the tool's result.
Reply(c) ==
    /\ At(c, "reply")
    /\ End(c, "answered")
    /\ UNCHANGED <<authVars, rate, toolVars>>

-----------------------------------------------------------------------------
(* Time and failure *)

\* expires_at passes, and a minute later Redis drops the key.
SessionExpires(s) ==
    /\ session[s].key = "hash"
    /\ session' = IF session[s].late
                  THEN [session EXCEPT ![s].key = "none", ![s].left = 0]
                  ELSE [session EXCEPT ![s].late = TRUE]
    /\ UNCHANGED <<call, claimed, spent, nonce, backing, rate, toolVars>>

\* The 24 hours of a dedup key, longer than any call.
KeyExpires(k) ==
    /\ ~\E c \in Calls : Active(c) /\ Key(c) = k
    /\ claimed' = claimed \ {k}
    /\ UNCHANGED <<call, session, spent, nonce, backing, rate, toolVars>>

\* GET /auth/nonce, and the five minutes a nonce lasts.
NonceTurns(n) ==
    /\ \/ nonce[n] = "none" /\ nonce' = [nonce EXCEPT ![n] = "live"]
       \/ nonce[n] = "live" /\ nonce' = [nonce EXCEPT ![n] = "expired"]
    /\ UNCHANGED <<call, session, claimed, spent, backing, rate, toolVars>>

WindowEnds ==
    /\ rate.ttl
    /\ rate' = [n |-> 0, ttl |-> FALSE]
    /\ UNCHANGED <<call, authVars, toolVars>>

Crash ==
    /\ May("crash")
    /\ \E c \in Calls : Active(c)
    /\ call' = [c \in Calls |->
          IF Active(c) THEN [call[c] EXCEPT !.pc = "lost", !.then = "lost", !.todo = 0]
          ELSE call[c]]
    /\ UNCHANGED <<authVars, rate, toolVars>>

\* _handle_session_tool_call, _handle_x402_tool_call, _handle_siwx_public_tool_call
HandleSession(c) == Decrement(c) \/ Fetch(c) \/ RateSession(c)
HandleX402(c) == Verify(c) \/ Claim(c) \/ IdentifyPayer(c) \/ RatePayer(c) \/ Settle(c)
HandleSiwx(c) == VerifySiwe(c) \/ IdentifyWallet(c) \/ RateWallet(c)
Route(c) == RequireWalletAuth(c) \/ OpenSession(c) \/ CloseSession(c)
Tool(c) ==
    \/ EndpointQuota(c) \/ EndpointInsert(c) \/ Wire(c)
    \/ TriggerQuota(c) \/ MiddlewareTrigger(c) \/ CreateTrigger(c)
    \/ ActivateTemplate(c) \/ DeleteTrigger(c) \/ Read(c) \/ SetActive(c)

Handle(c) ==
    \/ Begin(c) \/ HandleSession(c) \/ HandleX402(c) \/ HandleSiwx(c) \/ Route(c)
    \/ Tool(c) \/ Undo(c) \/ Reply(c)

Next ==
    \/ \E c \in Calls : Handle(c)
    \/ \E s \in Sessions : SessionExpires(s)
    \/ \E k \in claimed : KeyExpires(k)
    \/ \E n \in Nonces : NonceTurns(n)
    \/ WindowEnds
    \/ Crash

Spec == Init /\ [][Next]_vars

-----------------------------------------------------------------------------
(* Correctness *)

\* A session's budget is neither lost nor minted: while its hash exists, what is
\* left and what calls were charged make up the budget, through every decrement
\* and refund of concurrent calls.
BudgetConserved ==
    \A s \in Sessions : session[s].key = "hash" =>
        session[s].left +
        MapThenSumSet(LAMBDA c : backing[c].cost,
                      {c \in Calls : backing[c] # None /\ backing[c].purse = s})
        = session[s].total

\* The quota on triggers is best effort, but the overshoot is bounded: each call
\* adds at most one row after a check it passed, whatever the checks of others saw
\* and however many rows a call of register_middleware adds (check_trigger_quota
\* before each insert).
QuotaOvershoot ==
    ActiveTriggers + Cardinality(Pending("trigger_insert"))
        <= MaxTriggers - 1 + Cardinality(Calls)

\* The calls that hold a dedup key they set.
Holding(k) ==
    {c \in Calls : /\ call[c] # None /\ call[c].via = "x402" /\ Key(c) = k
                   /\ call[c].pc \in {"identify", "rate", "settle", "undo", "reply"}
                                        \cup ToolSteps}

\* One payment proof runs a tool for one call at a time, and the key that says so
\* is there as long as the call is.
ExclusiveProof ==
    \A p \in Payments, t \in Paid :
        /\ Cardinality(Holding(<<p, t>>)) <= 1
        /\ Holding(<<p, t>>) # {} => <<p, t>> \in claimed

\* A proof that bought nothing can be used again: its key outlives a call only
\* when the proof is settled, or the process or a service it called failed.
ProofStaysUsable ==
    \A k \in claimed :
        \/ k[1] \in spent
        \/ Holding(k) # {}
        \/ \E c \in Calls : /\ call[c] # None /\ Key(c) = k
                            /\ call[c].pc \in {"failed", "lost"}

\* A call that is answered with an error or refused leaves no endpoint behind, unless
\* the very delete of it failed.
NoOrphans ==
    \A c \in endpoints : call[c].pc \notin {"errored", "refused"}

-----------------------------------------------------------------------------
(* Why it is correct: an invariant that every step preserves *)

\* The steps of a call that has authenticated and is not undone.
Served == {"identify", "rate", "settle", "reply"} \cup ToolSteps

\* Where a request r can be follows from how it pays and from its tool.
Routed(r) ==
    /\ r.via = "session" => r.purse \in Sessions /\ r.tool \notin Rest
    /\ r.via = "x402" => r.purse \in Payments /\ r.tool \in Paid
    /\ r.via = "siwx" => r.purse \in Nonces /\ r.tool \notin Paid
    /\ r.pc = "fetch" => r.via = "session"
    /\ r.pc \in {"claim", "settle"} => r.via = "x402"
    /\ r.pc = "identify" => r.via # "session"
    /\ r.pc \in {"identify", "rate"} => r.tool \notin Rest
    /\ r.pc = "undo" => r.via # "siwx" /\ Price(r.tool) > 0
    /\ r.pc \in {"endpoint_quota", "endpoint_insert", "wire"} =>
          r.tool \in Registers
    /\ r.pc \in {"trigger_quota", "trigger_insert"} =>
          r.tool \in {"register_middleware", "create_trigger", "activate_template"}
    /\ r.pc \in {"open", "close"} => r.via = "siwx"

CallsAreRouted == \A c \in Calls : call[c] # None => Routed(call[c])

\* Call c, at request r, was charged what its step says it was.
Covered(c, r) ==
    /\ r.pc = "auth" => backing[c] = None
    /\ r.via = "session" =>
          /\ r.pc \in Served \cup {"undo"} =>
                backing[c] = [purse |-> r.purse, cost |-> Price(r.tool)]
          /\ r.pc = "fetch" =>
                \/ backing[c] = [purse |-> r.purse, cost |-> Price(r.tool)]
                \/ session[r.purse].key = "ghost"
    /\ r.via = "x402" =>
          /\ r.pc \notin Ended \cup {"reply"} => backing[c] = None
          /\ r.pc = "reply" => backing[c] # None /\ r.purse \in spent
    /\ r.via = "siwx" /\ r.pc \in Served => backing[c] # None

CallsAreCovered ==
    \A c \in Calls : IF call[c] = None THEN backing[c] = None
                     ELSE Covered(c, call[c])

\* A charge is on a purse that was opened and, of one call's worth, is used up.
ChargesAreReal ==
    /\ \A c \in Calls : backing[c] # None =>
          /\ backing[c].purse \in Sessions => session[backing[c].purse].total > 0
          /\ backing[c].purse \in Payments => backing[c].purse \in spent
          /\ backing[c].purse \in Nonces => nonce[backing[c].purse] = "used"
    /\ \A s \in Sessions : session[s].key = "hash" => session[s].total > 0

\* An endpoint's row belongs to a registration that is under way, was answered, or
\* failed without the chance to take the row back.
Keeps(r) ==
    /\ r.tool \in Registers
    /\ r.pc \in {"wire", "trigger_quota", "trigger_insert", "settle", "undo", "reply",
                 "answered", "left", "failed", "lost"}
    /\ r.pc = "undo" => r.then \in {"left", "failed"}

EndpointsAreKept == \A e \in endpoints : call[e] # None /\ Keeps(call[e])

\* Two calls never hold the same key, and a key is there while a call holds it.
KeysAreHeld ==
    \A p \in Payments, t \in Paid : \A c \in Holding(<<p, t>>) :
        <<p, t>> \in claimed /\ \A d \in Holding(<<p, t>>) : c = d

\* What every step of the gateway preserves: the properties above, and how a call's
\* step, its charge, its key and its endpoint go together.
GatewayInv ==
    /\ TypeOK
    /\ CallsAreRouted
    /\ CallsAreCovered
    /\ ChargesAreReal
    /\ EndpointsAreKept
    /\ KeysAreHeld
    /\ ProofStaysUsable
    /\ BudgetConserved
    /\ QuotaOvershoot

-----------------------------------------------------------------------------
\* What the abstract purses see.
Sources == Sessions \cup Payments \cup Nonces
Limit == [u \in Sources |->
    IF u \in Sessions THEN session[u].total
    ELSE IF u \in Nonces /\ nonce[u] = "none" THEN 0 ELSE 1]
Closed == {s \in Sessions : session[s].total > 0 /\
                            (session[s].key # "hash" \/ session[s].late)}
          \cup {n \in Nonces : nonce[n] = "expired"}
Answered == {c \in Calls : At(c, "answered")}

P == INSTANCE Purses WITH limit <- Limit, closed <- Closed, answered <- Answered

\* Whatever the tier, a result is only returned against an open purse that covers
\* it, and no purse covers more than its limit: the gateway implements Purses.
ServiceIsBacked == P!PursesSpec
=============================================================================
