-------------------------- MODULE McpGatewayProofs --------------------------
(***************************************************************************)
(* Proofs about the gateway: the invariant GatewayInv, for any number of   *)
(* calls, sessions, payment proofs and nonces, what follows from it, and   *)
(* that the gateway implements Purses.                                     *)
(***************************************************************************)
EXTENDS McpGateway, SumTheorems

-----------------------------------------------------------------------------
(* The sum of what calls were charged *)

CostSum(b, S) == MapThenSumSet(LAMBDA c : b[c].cost, S)

LEMMA CostUnfolds ==
    ASSUME NEW S, NEW f, NEW b, \A c \in S : f[c] = b[c].cost
    PROVE  CostSum(b, S) = SumOf(f, S)
<1> DEFINE Is(g) == g = [s \in SUBSET S |-> IF s = {} THEN 0 ELSE b[Pick(s)].cost + g[s \ {Pick(s)}]]
<1>1. \A s \in SUBSET S : s # {} => f[Pick(s)] = b[Pick(s)].cost
  BY PickIsMember
<1>2. ASSUME NEW g PROVE IsSum(g, f, S) <=> Is(g)
  BY <1>1 DEF IsSum
<1>3. (CHOOSE g : IsSum(g, f, S)) = (CHOOSE g : Is(g))
  BY <1>2
<1>4. SumOf(f,S) = (CHOOSE g : IsSum(g, f, S))[S]
  BY DEF SumOf, MapThenSumSet, MapThenFoldSet, IsSum, Pick
<1>5. CostSum(b, S) = (CHOOSE g : Is(g))[S]
  BY DEF CostSum, MapThenSumSet, MapThenFoldSet, Pick
<1> QED BY <1>3, <1>4, <1>5
-----------------------------------------------------------------------------
(* How a step moves a call *)

Pcs == {"idle", "auth", "fetch", "claim", "identify", "rate", "settle", "undo",
        "reply"} \cup ToolSteps \cup Ended

\* Call c goes on as r, with the same tool and the same purse.
Moves(c, r) ==
    /\ call' = [call EXCEPT ![c] = r]
    /\ r.via = call[c].via /\ r.tool = call[c].tool /\ r.purse = call[c].purse

LEMMA PriceIsNat == \A t \in Tools : Price(t) \in Nat /\ (t \in Paid => Price(t) > 0)
BY DEF Price, Tools, Paid, Free, Rest

\* Where Enter leads.
LEMMA EnterLeads ==
    ASSUME NEW t \in Tools
    PROVE  /\ Enter(t) \in ToolSteps \ {"endpoint_insert", "wire", "trigger_insert"}
           /\ Enter(t) = "endpoint_quota" => t \in Registers
           /\ Enter(t) = "trigger_quota" => t \in {"create_trigger", "activate_template"}
           /\ Enter(t) \in {"open", "close"} => t \in Rest
<1>1. CASE t \in Paid
  BY <1>1 DEF Paid, Registers, Enter, ToolSteps
<1>2. CASE t \in Free
  BY <1>2 DEF Free, Registers, Enter, ToolSteps
<1>3. CASE t \in Rest
  BY <1>3 DEF Rest, Registers, Enter, ToolSteps
<1> QED BY <1>1, <1>2, <1>3 DEF Tools

LEMMA CallIsRec ==
    ASSUME TypeOK, NEW c \in Calls, call[c] # None
    PROVE  call[c] \in CallRec
BY DEF TypeOK

LEMMA Going ==
    ASSUME TypeOK, NEW c \in Calls, call[c] # None, NEW p \in Pcs, Goto(c, p)
    PROVE  \E r \in CallRec : /\ Moves(c, r) /\ r.pc = p
                              /\ r.then = call[c].then /\ r.todo = call[c].todo
<1>1. PICK a \in CallRec : a = call[c]
  BY CallIsRec
<1> DEFINE r == [a EXCEPT !.pc = p]
<1>2. r \in CallRec /\ r.pc = p /\ r.then = a.then /\ r.todo = a.todo
      /\ r.via = a.via /\ r.tool = a.tool /\ r.purse = a.purse
  BY DEF CallRec, Pcs
<1>3. call' = [call EXCEPT ![c] = r]
  BY <1>1 DEF Goto
<1> QED BY <1>1, <1>2, <1>3 DEF Moves

LEMMA Ending ==
    ASSUME TypeOK, NEW c \in Calls, call[c] # None, NEW e \in Ended, End(c, e)
    PROVE  \E r \in CallRec : Moves(c, r) /\ r.pc = e /\ r.then = e /\ r.todo = 0
<1>1. PICK a \in CallRec : a = call[c]
  BY CallIsRec
<1> DEFINE r == [a EXCEPT !.pc = e, !.then = e, !.todo = 0]
<1>2. 0 \in 0..(MaxSlugs + 1)
  BY GatewayBounds
<1>3. r \in CallRec /\ r.pc = e /\ r.then = e /\ r.todo = 0
      /\ r.via = a.via /\ r.tool = a.tool /\ r.purse = a.purse
  BY <1>2 DEF CallRec
<1>4. call' = [call EXCEPT ![c] = r]
  BY <1>1 DEF End, TypeOK
<1> QED BY <1>1, <1>3, <1>4 DEF Moves

\* A refund or a key is due.
Undoes(r) == r.via = "x402" \/ (r.via = "session" /\ Price(r.tool) > 0)

LEMMA Undoing ==
    ASSUME TypeOK, NEW c \in Calls, call[c] # None, NEW e \in Ended, UndoThen(c, e)
    PROVE  \E r \in CallRec : /\ Moves(c, r) /\ r.then = e
                              /\ r.pc = IF Undoes(call[c]) THEN "undo" ELSE e
<1>1. CASE Undoes(call[c])
  <2>1. PICK a \in CallRec : a = call[c]
    BY CallIsRec
  <2> DEFINE r == [a EXCEPT !.pc = "undo", !.then = e]
  <2>2. r \in CallRec /\ r.pc = "undo" /\ r.then = e
        /\ r.via = a.via /\ r.tool = a.tool /\ r.purse = a.purse
    BY DEF CallRec
  <2>3. call' = [call EXCEPT ![c] = r]
    BY <1>1, <2>1 DEF UndoThen, Undoes, TypeOK
  <2> QED BY <1>1, <2>1, <2>2, <2>3 DEF Moves
<1>2. CASE ~Undoes(call[c])
  <2>1. End(c, e)
    BY <1>2 DEF UndoThen, Undoes
  <2> QED BY <1>2, <2>1, Ending
<1> QED BY <1>1, <1>2

LEMMA Erring ==
    ASSUME TypeOK, NEW c \in Calls, call[c] # None, ReturnError(c)
    PROVE  \E r \in CallRec : /\ Moves(c, r) /\ r.then = "errored"
                              /\ r.pc = IF call[c].via = "x402" THEN "undo" ELSE "errored"
<1>e. "errored" \in Ended
  BY DEF Ended
<1>1. CASE call[c].via = "x402"
  BY <1>e, <1>1, Undoing DEF ReturnError, Undoes
<1>2. CASE call[c].via # "x402"
  BY <1>e, <1>2, Ending DEF ReturnError
<1> QED BY <1>1, <1>2

LEMMA Returning ==
    ASSUME TypeOK, NEW c \in Calls, call[c] # None, Return(c)
    PROVE  \E r \in CallRec : /\ Moves(c, r) /\ r.then = call[c].then
                              /\ r.pc = IF call[c].via = "x402" THEN "settle" ELSE "reply"
<1>1. CASE call[c].via = "x402"
  <2>1. Goto(c, "settle") /\ "settle" \in Pcs
    BY <1>1 DEF Return, Pcs
  <2> QED BY <1>1, <2>1, Going
<1>2. CASE call[c].via # "x402"
  <2>1. Goto(c, "reply") /\ "reply" \in Pcs
    BY <1>2 DEF Return, Pcs
  <2> QED BY <1>2, <2>1, Going
<1> QED BY <1>1, <1>2

-----------------------------------------------------------------------------
(* What a purse covers *)

Mine(b, u) == {c \in Calls : b[c] # None /\ b[c].purse = u}
Costs(b) == [c \in Calls |-> b[c].cost]
Charged(b, u) == SumOf(Costs(b), Mine(b, u))

LEMMA ChargedIs ==
    ASSUME NEW u
    PROVE  MapThenSumSet(LAMBDA c : backing[c].cost,
                         {c \in Calls : backing[c] # None /\ backing[c].purse = u})
           = Charged(backing, u)
<1>1. PICK b : b = backing
  OBVIOUS
<1>2. CostSum(b, Mine(b, u)) = SumOf(Costs(b), Mine(b, u))
  <2>1. \A c \in Mine(b, u) : Costs(b)[c] = b[c].cost
    BY DEF Mine, Costs
  <2> QED BY <2>1, CostUnfolds
<1> QED BY <1>1, <1>2 DEF Charged, CostSum, Mine, MapThenSumSet, MapThenFoldSet

\* Session s is in balance.
Balanced(s, b, x) == x.key = "hash" => x.left + Charged(b, s) = x.total

LEMMA BudgetIs ==
    BudgetConserved <=> \A s \in Sessions : Balanced(s, backing, session[s])
BY ChargedIs DEF BudgetConserved, Balanced

LEMMA BudgetIsNext ==
    BudgetConserved' <=> \A s \in Sessions : Balanced(s, backing', session'[s])
<1>1. PICK b : b = backing'
  OBVIOUS
<1>2. ASSUME NEW s
      PROVE  MapThenSumSet(LAMBDA c : backing'[c].cost,
                           {c \in Calls : backing'[c] # None /\ backing'[c].purse = s})
             = Charged(backing', s)
  <2>2. CostSum(b, Mine(b, s)) = SumOf(Costs(b), Mine(b, s))
    <3>1. \A c \in Mine(b, s) : Costs(b)[c] = b[c].cost
      BY DEF Mine, Costs
    <3> QED BY <3>1, CostUnfolds
  <2> QED BY <1>1, <2>2 DEF Charged, CostSum, Mine, MapThenSumSet, MapThenFoldSet
<1> QED BY <1>2 DEF BudgetConserved, Balanced, MapThenSumSet, MapThenFoldSet

\* Charge e differs from b by the charge of call c.
LEMMA ChargeAdds ==
    ASSUME NEW b \in [Calls -> {None} \cup Charge], NEW e \in [Calls -> {None} \cup Charge],
           NEW c \in Calls, NEW x \in Charge, NEW u,
           b[c] = None, e[c] = x, \A d \in Calls \ {c} : e[d] = b[d]
    PROVE  /\ Charged(b, u) \in Nat
           /\ Charged(e, u) = Charged(b, u) + IF x.purse = u THEN x.cost ELSE 0
<1> DEFINE M == Mine(b, u)  N == Mine(e, u)
<1>1. IsFiniteSet(M) /\ IsFiniteSet(N)
  BY CallsAreFinite, FS_Subset DEF Mine
<1>2. (\A d \in M : Costs(b)[d] \in Nat) /\ (\A d \in N : Costs(e)[d] \in Nat)
  BY DEF Mine, Costs, Charge
<1>3. c \notin M /\ N = IF x.purse = u THEN M \cup {c} ELSE M
  BY NoneIsNoRecord DEF Mine
<1>4. \A d \in M : Costs(e)[d] = Costs(b)[d]
  BY <1>3 DEF Costs, Mine
<1>5. Costs(e)[c] = x.cost
  BY DEF Costs
<1> HIDE DEF M, N
<1>6. SumOf(Costs(e), M) = SumOf(Costs(b), M)
  BY <1>4, SumAgrees
<1>7. SumOf(Costs(b), M) \in Nat
  BY <1>1, <1>2, SumPicks
<1>8. x.purse = u => SumOf(Costs(e), N) = SumOf(Costs(b), M) + x.cost
  <2> HAVE x.purse = u
  <2>1. c \in N /\ N \ {c} = M
    BY <1>3
  <2>2. SumOf(Costs(e), N) = Costs(e)[c] + SumOf(Costs(e), N \ {c})
    BY <1>1, <1>2, <2>1, SumSplits
  <2>3. x.cost \in Nat
    BY DEF Charge
  <2>4. SumOf(Costs(e), N) = Costs(e)[c] + SumOf(Costs(e), M)
    BY <2>1, <2>2, Zenon
  <2> QED BY <1>5, <1>6, <1>7, <2>3, <2>4
<1>9. x.purse # u => SumOf(Costs(e), N) = SumOf(Costs(b), M) + 0
  BY <1>3, <1>6, <1>7
<1>10. Charged(b, u) = SumOf(Costs(b), M) /\ Charged(e, u) = SumOf(Costs(e), N)
  BY DEF Charged, M, N
<1>11. Charged(e, u) = Charged(b, u) + IF x.purse = u THEN x.cost ELSE 0
  BY <1>8, <1>9, <1>10
<1> QED BY <1>7, <1>10, <1>11

\* A purse that no call is charged to covers nothing.
LEMMA NothingCharged ==
    ASSUME NEW b, NEW u, \A c \in Calls : b[c] = None \/ b[c].purse # u
    PROVE  Charged(b, u) = 0
<1>1. Mine(b, u) = {}
  BY DEF Mine
<1>2. SumOf(Costs(b), {}) = 0
  BY FS_EmptySet, SumPicks
<1> QED BY <1>1, <1>2 DEF Charged

-----------------------------------------------------------------------------
(* Rows and the calls about to add one *)

LEMMA TriggersAdd ==
    ASSUME NEW f \in [Calls -> Nat], NEW g \in [Calls -> Nat], NEW e \in Calls,
           \A x \in Calls \ {e} : g[x] = f[x]
    PROVE  /\ SumOf(f, Calls) \in Nat /\ SumOf(g, Calls) \in Nat
           /\ SumOf(g, Calls) + f[e] = SumOf(f, Calls) + g[e]
<1>2. SumOf(f, Calls) \in Nat /\ SumOf(g, Calls) \in Nat
  BY CallsAreFinite, SumPicks
<1>3. SumOf(f, Calls) = f[e] + SumOf(f, Calls \ {e})
  BY CallsAreFinite, SumSplits
<1>4. SumOf(g, Calls) = g[e] + SumOf(g, Calls \ {e})
  BY CallsAreFinite, SumSplits
<1>5. SumOf(g, Calls \ {e}) = SumOf(f, Calls \ {e})
  BY SumAgrees
<1>6. SumOf(f, Calls \ {e}) \in Nat
  <2>1. IsFiniteSet(Calls \ {e})
    BY CallsAreFinite, FS_Subset
  <2> QED BY <2>1, SumPicks
<1>7. g[e] \in Nat /\ f[e] \in Nat
  OBVIOUS
<1> QED BY <1>2, <1>3, <1>4, <1>5, <1>6, <1>7

LEMMA ActiveIs == ActiveTriggers = SumOf(triggers, Calls)
BY DEF ActiveTriggers, SumOf, MapThenSumSet, MapThenFoldSet

LEMMA ActiveIsNext == ActiveTriggers' = SumOf(triggers', Calls)
BY DEF ActiveTriggers, SumOf, MapThenSumSet, MapThenFoldSet

LEMMA PendingMoves ==
    ASSUME TypeOK, NEW c \in Calls, NEW r \in CallRec, call' = [call EXCEPT ![c] = r], NEW p
    PROVE  /\ Cardinality(Pending(p)) \in Nat /\ Cardinality(Pending(p)') \in Nat
           /\ Cardinality(Calls) \in Nat
           /\ Cardinality(Pending(p)') <= Cardinality(Calls)
           /\ r.pc # p => Cardinality(Pending(p)') <= Cardinality(Pending(p))
           /\ r.pc # p /\ At(c, p) =>
                Cardinality(Pending(p)') + 1 <= Cardinality(Pending(p))
<1>0. PICK A, B : A = Pending(p) /\ B = Pending(p)'
  OBVIOUS
<1>1. A \subseteq Calls /\ B \subseteq Calls
  BY <1>0 DEF Pending
<1>2. /\ IsFiniteSet(A) /\ IsFiniteSet(B) /\ Cardinality(Calls) \in Nat
      /\ Cardinality(A) \in Nat /\ Cardinality(B) \in Nat
      /\ Cardinality(B) <= Cardinality(Calls)
  BY <1>1, CallsAreFinite, FS_Subset, FS_CardinalityType
<1>3. r.pc # p => B \subseteq A \ {c}
  BY <1>0 DEF Pending, At, TypeOK
<1>4. r.pc # p => Cardinality(B) <= Cardinality(A)
  <2> SUFFICES ASSUME r.pc # p PROVE Cardinality(B) <= Cardinality(A)
    OBVIOUS
  <2>1. B \subseteq A
    BY <1>3
  <2> QED BY <1>2, <2>1, FS_Subset
<1>5. r.pc # p /\ At(c, p) => Cardinality(B) + 1 <= Cardinality(A)
  <2> SUFFICES ASSUME r.pc # p, At(c, p) PROVE Cardinality(B) + 1 <= Cardinality(A)
    OBVIOUS
  <2>1. c \in A
    BY <1>0 DEF Pending
  <2>2. PICK D : D = A \ {c}
    OBVIOUS
  <2>3. IsFiniteSet(D) /\ Cardinality(D) = Cardinality(A) - 1
    BY <1>2, <2>1, <2>2, FS_RemoveElement
  <2>4. Cardinality(B) <= Cardinality(D) /\ Cardinality(D) \in Nat
    BY <1>3, <2>2, <2>3, FS_Subset, FS_CardinalityType
  <2> QED BY <1>2, <2>3, <2>4
<1> QED BY <1>0, <1>2, <1>4, <1>5

\* A step that adds no row and is not let through by a trigger check.
LEMMA RowsKeep ==
    ASSUME TypeOK, EndpointsAreKept, QuotaOvershoot, NEW c \in Calls, NEW r \in CallRec,
           call' = [call EXCEPT ![c] = r], UNCHANGED toolVars,
           call[c] # None /\ Keeps(call[c]) => Keeps(r),
           r.pc # "trigger_insert"
    PROVE  EndpointsAreKept' /\ QuotaOvershoot'
<1>0. endpoints' = endpoints /\ triggers' = triggers
  BY DEF toolVars
<1>1. EndpointsAreKept'
  <2> SUFFICES ASSUME NEW e \in endpoints
               PROVE  call'[e] # None /\ Keeps(call'[e])
    BY <1>0 DEF EndpointsAreKept, Keeps
  <2>1. e \in Calls /\ call[e] # None /\ Keeps(call[e])
    BY DEF TypeOK, EndpointsAreKept
  <2>2. CASE e = c
    <3>1. call'[e] = r /\ r # None /\ Keeps(r)
      BY <2>1, <2>2, NoneIsNoRecord DEF TypeOK
    <3> QED BY <3>1
  <2>3. CASE e # c
    <3>1. call'[e] = call[e]
      BY <2>3
    <3> QED BY <2>1, <3>1
  <2> QED BY <2>2, <2>3
<1>2. ActiveTriggers' = ActiveTriggers /\ ActiveTriggers \in Nat
  <2>1. SumOf(triggers, Calls) \in Nat
    <3>1. PICK f \in [Calls -> Nat] : f = triggers
      BY DEF TypeOK
    <3> QED BY <3>1, CallsAreFinite, SumPicks
  <2> QED BY <1>0, <2>1, ActiveIs, ActiveIsNext
<1>3. /\ Cardinality(Pending("trigger_insert")) \in Nat
      /\ Cardinality(Pending("trigger_insert")') \in Nat
      /\ Cardinality(Pending("trigger_insert")') <= Cardinality(Pending("trigger_insert"))
  BY PendingMoves
<1>4. Cardinality(Calls) \in Nat
  BY PendingMoves
<1>5. QuotaOvershoot'
  BY <1>2, <1>3, <1>4, GatewayBounds DEF QuotaOvershoot
<1> QED BY <1>1, <1>5

-----------------------------------------------------------------------------
(* Steps that change no session, key, payment, nonce or charge *)

\* The steps at which a call holds what it was let in with.
Busy == Served \cup {"undo"}

LEMMA RoutingStep ==
    ASSUME TypeOK, CallsAreRouted, NEW c \in Calls, NEW r \in CallRec,
           call' = [call EXCEPT ![c] = r], Routed(r)
    PROVE  CallsAreRouted'
<1>1. call'[c] = r /\ r # None /\ \A d \in Calls : d # c => call'[d] = call[d]
  BY NoneIsNoRecord DEF TypeOK
<1> QED BY <1>1 DEF CallsAreRouted, Routed

\* Only call c's charge changes, ghosts stay ghosts and payments stay settled.
LEMMA CoveringStep ==
    ASSUME TypeOK, CallsAreRouted, CallsAreCovered, NEW c \in Calls, NEW r \in CallRec,
           call' = [call EXCEPT ![c] = r], Covered(c, r)',
           \A d \in Calls \ {c} : backing'[d] = backing[d],
           \A s \in Sessions : session[s].key = "ghost" => session'[s].key = "ghost",
           spent \subseteq spent'
    PROVE  CallsAreCovered'
<1>1. call'[c] = r /\ r # None /\ \A d \in Calls : d # c => call'[d] = call[d]
  BY NoneIsNoRecord DEF TypeOK
<1> SUFFICES ASSUME NEW d \in Calls
             PROVE  IF call'[d] = None THEN backing'[d] = None ELSE Covered(d, call[d])'
  BY DEF CallsAreCovered
<1>2. CASE d = c
  BY <1>1, <1>2 DEF Covered
<1>3. CASE d # c
  <2>1. call'[d] = call[d] /\ backing'[d] = backing[d]
    BY <1>1, <1>3
  <2>2. CASE call[d] = None
    BY <2>1, <2>2 DEF CallsAreCovered
  <2>3. CASE call[d] # None
    <3>1. Covered(d, call[d])
      BY <2>3 DEF CallsAreCovered
    <3>2. call[d].pc = "fetch" => call[d].via = "session" /\ call[d].purse \in Sessions
      BY <2>3 DEF CallsAreRouted, Routed
    <3>3. Covered(d, call[d])'
      BY <2>1, <3>1, <3>2 DEF Covered
    <3> QED BY <2>1, <2>3, <3>3
  <2> QED BY <2>2, <2>3
<1> QED BY <1>2, <1>3

\* A step that sets and releases no key: a call that gives up the one it holds fails,
\* or its payment is settled.
LEMMA KeysStep ==
    ASSUME TypeOK, KeysAreHeld, ProofStaysUsable, NEW c \in Calls, NEW r \in CallRec,
           call' = [call EXCEPT ![c] = r], claimed' = claimed, spent \subseteq spent',
           call[c] # None =>
              /\ call[c].pc \notin Ended
              /\ r.via = call[c].via /\ r.tool = call[c].tool /\ r.purse = call[c].purse,
           r.via = "x402" /\ r.pc \in Busy => call[c] # None /\ call[c].pc \in Busy,
           r.via = "x402" /\ call[c] # None /\ call[c].pc \in Busy =>
              r.pc \in Busy \cup {"failed"} \/ r.purse \in spent'
    PROVE  KeysAreHeld' /\ ProofStaysUsable'
<1>1. call'[c] = r /\ r # None /\ \A d \in Calls : d # c => call'[d] = call[d]
  BY NoneIsNoRecord DEF TypeOK
<1>2. ASSUME NEW k, NEW d \in Holding(k)' PROVE d \in Holding(k)
  BY <1>1 DEF Holding, Key, Busy, Served
<1>3. KeysAreHeld'
  <2> SUFFICES ASSUME NEW q \in Payments, NEW t \in Paid, NEW d \in Holding(<<q, t>>)'
               PROVE  <<q, t>> \in claimed' /\ \A e \in Holding(<<q, t>>)' : d = e
    BY DEF KeysAreHeld
  <2> QED BY <1>2 DEF KeysAreHeld
<1>4. ProofStaysUsable'
  <2> SUFFICES ASSUME NEW k \in claimed'
               PROVE  \/ k[1] \in spent'
                      \/ Holding(k)' # {}
                      \/ \E d \in Calls : /\ call'[d] # None /\ Key(d)' = k
                                          /\ call'[d].pc \in {"failed", "lost"}
    BY DEF ProofStaysUsable
  <2>1. \/ k[1] \in spent
        \/ Holding(k) # {}
        \/ \E d \in Calls : /\ call[d] # None /\ Key(d) = k
                            /\ call[d].pc \in {"failed", "lost"}
    BY DEF ProofStaysUsable
  <2>2. CASE k[1] \in spent
    BY <2>2
  <2>3. CASE Holding(k) # {}
    <3>1. PICK d \in Calls : d \in Holding(k)
      BY <2>3 DEF Holding
    <3>2. CASE d # c
      <4>1. d \in Holding(k)'
        BY <1>1, <3>1, <3>2 DEF Holding, Key
      <4> QED BY <4>1
    <3>3. CASE d = c
      <4>1. /\ call[c] # None /\ call[c].via = "x402" /\ Key(c) = k
            /\ call[c].pc \in Busy
        BY <3>1, <3>3 DEF Holding, Busy, Served
      <4>2. CASE r.purse \in spent'
        BY <4>1, <4>2 DEF Key
      <4>3. CASE r.pc \in Busy
        <5>1. c \in Holding(k)'
          BY <1>1, <4>1, <4>3 DEF Holding, Key, Busy, Served
        <5> QED BY <5>1
      <4>4. CASE r.pc = "failed"
        BY <1>1, <4>1, <4>4 DEF Key
      <4> QED BY <4>1, <4>2, <4>3, <4>4
    <3> QED BY <3>2, <3>3
  <2>4. CASE \E d \in Calls : /\ call[d] # None /\ Key(d) = k
                              /\ call[d].pc \in {"failed", "lost"}
    BY <1>1, <2>4 DEF Ended, Key
  <2> QED BY <2>1, <2>2, <2>3, <2>4
<1> QED BY <1>3, <1>4

\* Call c may go on as r without anything being charged, given back or released.
Quiet(c, r) ==
    /\ call[c] # None /\ call[c].pc \notin Ended
    /\ r.pc \notin {"auth", "fetch"}
    /\ Routed(r)
    /\ r.via = "session" /\ r.pc \in Busy =>
          \/ call[c].pc \in Busy
          \/ call[c].pc = "fetch" /\ session[call[c].purse].key = "hash"
    /\ r.via = "x402" =>
          /\ r.pc # "reply"
          /\ r.pc \in Busy => call[c].pc \in Busy
          /\ call[c].pc = "reply" => r.pc = "answered"
          /\ call[c].pc \in Busy \ {"reply"} => r.pc \in Busy \cup {"failed"}
    /\ r.via = "siwx" /\ r.pc \in Served => call[c].pc \in Served

LEMMA QuietKeeps ==
    ASSUME GatewayInv, NEW c \in Calls, NEW r \in CallRec, Moves(c, r), Quiet(c, r),
           UNCHANGED authVars
    PROVE  /\ CallsAreRouted' /\ CallsAreCovered' /\ ChargesAreReal'
           /\ KeysAreHeld' /\ ProofStaysUsable' /\ BudgetConserved'
<1>0. UNCHANGED <<session, claimed, spent, nonce, backing>>
  BY DEF authVars
<1>2. CallsAreRouted'
  BY RoutingStep DEF Moves, Quiet, GatewayInv
<1>3. CallsAreCovered'
  <2>1. Covered(c, call[c])
    BY DEF CallsAreCovered, GatewayInv, Quiet
  <2>2. r.via = "session" /\ r.pc \in Busy =>
          backing[c] = [purse |-> r.purse, cost |-> Price(r.tool)]
    BY <2>1 DEF Covered, Quiet, Moves, Busy
  <2>3. r.via = "x402" /\ r.pc \notin Ended \cup {"reply"} => backing[c] = None
    BY <2>1 DEF Covered, Quiet, Moves, Ended
  <2>4. r.via = "siwx" /\ r.pc \in Served => backing[c] # None
    BY <2>1 DEF Covered, Quiet, Moves
  <2>5. Covered(c, r)'
    BY <1>0, <2>2, <2>3, <2>4 DEF Covered, Quiet, Busy
  <2> QED BY <1>0, <2>5, CoveringStep DEF Moves, GatewayInv
<1>4. ChargesAreReal'
  BY <1>0 DEF ChargesAreReal, GatewayInv
<1>5. KeysAreHeld' /\ ProofStaysUsable'
  <2>1. call[c].pc = "reply" /\ r.via = "x402" => r.purse \in spent
    BY DEF GatewayInv, CallsAreCovered, Covered, Quiet, Moves
  <2> QED BY <1>0, <2>1, KeysStep DEF Moves, Quiet, GatewayInv
<1>8. BudgetConserved'
  <2>1. \A s \in Sessions : Balanced(s, backing', session'[s])
    BY <1>0, BudgetIs DEF GatewayInv
  <2> QED BY <2>1, BudgetIsNext
<1> QED BY <1>2, <1>3, <1>4, <1>5, <1>8

\* Call c was let in, or its charge has just been found good.
LetIn(c) ==
    /\ call[c] # None
    /\ \/ call[c].pc \in Served \ {"reply"}
       \/ call[c].pc = "fetch" /\ session[call[c].purse].key = "hash"

LEMMA UndoIsQuiet ==
    ASSUME GatewayInv, NEW c \in Calls, LetIn(c), NEW e \in Ended, UndoThen(c, e)
    PROVE  \E r \in CallRec : /\ Moves(c, r) /\ Quiet(c, r) /\ r.then = e
                              /\ r.pc = IF Undoes(call[c]) THEN "undo" ELSE e
<1>0. TypeOK /\ call[c] # None /\ Routed(call[c]) /\ call[c] \in CallRec
  BY CallIsRec DEF GatewayInv, CallsAreRouted, LetIn
<1>f. call[c].pc = "fetch" => call[c].via = "session"
  BY <1>0 DEF Routed
<1>1. PICK r \in CallRec : /\ Moves(c, r) /\ r.then = e
                           /\ r.pc = IF Undoes(call[c]) THEN "undo" ELSE e
  BY <1>0, Undoing
<1>2. CASE Undoes(call[c])
  <2>1. Routed(r)
    BY <1>0, <1>1, <1>2, PriceIsNat DEF Routed, Moves, Undoes, CallRec
  <2>2. Quiet(c, r)
    BY <1>0, <1>1, <1>2, <2>1, <1>f DEF Quiet, Moves, Undoes, LetIn, Busy, Served, Ended, ToolSteps
  <2> QED BY <1>1, <2>2
<1>3. CASE ~Undoes(call[c])
  <2>1. Routed(r)
    BY <1>0, <1>1, <1>3 DEF Routed, Moves, Ended
  <2>2. Quiet(c, r)
    BY <1>0, <1>1, <1>3, <2>1, <1>f DEF Quiet, Moves, Undoes, LetIn, Busy, Served, Ended, ToolSteps
  <2> QED BY <1>1, <2>2
<1> QED BY <1>2, <1>3

LEMMA ErrorIsQuiet ==
    ASSUME GatewayInv, NEW c \in Calls, LetIn(c), ReturnError(c)
    PROVE  \E r \in CallRec : /\ Moves(c, r) /\ Quiet(c, r) /\ r.then = "errored"
                              /\ r.pc = IF call[c].via = "x402" THEN "undo" ELSE "errored"
<1>0. TypeOK /\ call[c] # None /\ Routed(call[c]) /\ call[c] \in CallRec
  BY CallIsRec DEF GatewayInv, CallsAreRouted, LetIn
<1>f. call[c].pc = "fetch" => call[c].via = "session"
  BY <1>0 DEF Routed
<1>1. PICK r \in CallRec : /\ Moves(c, r) /\ r.then = "errored"
                           /\ r.pc = IF call[c].via = "x402" THEN "undo" ELSE "errored"
  BY <1>0, Erring
<1>2. Routed(r)
  BY <1>0, <1>1, PriceIsNat DEF Routed, Moves, CallRec
<1>3. Quiet(c, r)
  BY <1>0, <1>1, <1>2, <1>f DEF Quiet, Moves, LetIn, Busy, Served, Ended, ToolSteps
<1> QED BY <1>1, <1>3

LEMMA ReturnIsQuiet ==
    ASSUME GatewayInv, NEW c \in Calls, LetIn(c), call[c].pc \in ToolSteps, Return(c)
    PROVE  \E r \in CallRec : /\ Moves(c, r) /\ Quiet(c, r) /\ r.then = call[c].then
                              /\ r.pc = IF call[c].via = "x402" THEN "settle" ELSE "reply"
<1>0. TypeOK /\ call[c] # None /\ Routed(call[c]) /\ call[c] \in CallRec
  BY CallIsRec DEF GatewayInv, CallsAreRouted, LetIn
<1>f. call[c].pc = "fetch" => call[c].via = "session"
  BY <1>0 DEF Routed
<1>1. PICK r \in CallRec : /\ Moves(c, r) /\ r.then = call[c].then
                           /\ r.pc = IF call[c].via = "x402" THEN "settle" ELSE "reply"
  BY <1>0, Returning
<1>2. Routed(r)
  BY <1>0, <1>1 DEF Routed, Moves
<1>3. Quiet(c, r)
  BY <1>0, <1>1, <1>2, <1>f DEF Quiet, Moves, LetIn, Busy, Served, Ended, ToolSteps
<1> QED BY <1>1, <1>3

\* A call ends; one that holds a key fails.
LEMMA EndIsQuiet ==
    ASSUME GatewayInv, NEW c \in Calls, call[c] # None, call[c].pc \notin Ended,
           NEW e \in Ended, End(c, e),
           call[c].via = "x402" /\ call[c].pc \in Busy =>
              e = IF call[c].pc = "reply" THEN "answered" ELSE "failed"
    PROVE  \E r \in CallRec : Moves(c, r) /\ Quiet(c, r) /\ r.pc = e /\ r.then = e
<1>0. TypeOK /\ call[c] # None /\ Routed(call[c]) /\ call[c] \in CallRec
  BY CallIsRec DEF GatewayInv, CallsAreRouted
<1>1. PICK r \in CallRec : Moves(c, r) /\ r.pc = e /\ r.then = e
  BY <1>0, Ending
<1>2. Routed(r)
  BY <1>0, <1>1 DEF Routed, Moves, Ended
<1>3. Quiet(c, r)
  BY <1>0, <1>1, <1>2 DEF Quiet, Moves, Busy, Served, Ended, ToolSteps
<1> QED BY <1>1, <1>3

\* A call goes on to a step that its tool and its way to pay admit.
LEMMA GotoIsQuiet ==
    ASSUME GatewayInv, NEW c \in Calls, LetIn(c), NEW p \in Served \ {"reply", "settle"},
           p = "identify" => call[c].via # "session",
           p \in {"identify", "rate"} => call[c].tool \notin Rest,
           p \in {"endpoint_quota", "endpoint_insert", "wire"} => call[c].tool \in Registers,
           p \in {"trigger_quota", "trigger_insert"} =>
              call[c].tool \in {"register_middleware", "create_trigger", "activate_template"},
           p \in {"open", "close"} => call[c].via = "siwx",
           Goto(c, p)
    PROVE  \E r \in CallRec : /\ Moves(c, r) /\ Quiet(c, r) /\ r.pc = p
                              /\ r.then = call[c].then
<1>0. TypeOK /\ call[c] # None /\ Routed(call[c]) /\ call[c] \in CallRec
  BY CallIsRec DEF GatewayInv, CallsAreRouted, LetIn
<1>f. call[c].pc = "fetch" => call[c].via = "session"
  BY <1>0 DEF Routed
<1>1. p \in Pcs
  BY DEF Pcs, Served
<1>2. PICK r \in CallRec : Moves(c, r) /\ r.pc = p /\ r.then = call[c].then
  BY <1>0, <1>1, Going
<1>3. Routed(r)
  BY <1>0, <1>2 DEF Routed, Moves, Served, ToolSteps
<1>4. Quiet(c, r)
  BY <1>0, <1>2, <1>3, <1>f DEF Quiet, Moves, LetIn, Busy, Served, Ended, ToolSteps
<1> QED BY <1>2, <1>4

LEMMA LeastOfTwo ==
    ASSUME NEW a \in Nat, NEW b \in Nat
    PROVE  Min({a, b}) \in {a, b} /\ Min({a, b}) <= a /\ Min({a, b}) <= b
<1>1. \E x \in {a, b} : \A y \in {a, b} : x <= y
  <2>1. CASE a <= b
    BY <2>1
  <2>2. CASE b <= a
    BY <2>2
  <2> QED BY <2>1, <2>2
<1> DEFINE m == CHOOSE x \in {a, b} : \A y \in {a, b} : x <= y
<1>2. m \in {a, b} /\ \A y \in {a, b} : m <= y
  BY <1>1
<1> QED BY <1>2 DEF Min

LEMMA GreatestOfTwo ==
    ASSUME NEW a \in Nat, NEW b \in Nat
    PROVE  Max({a, b}) \in {a, b} /\ a <= Max({a, b}) /\ b <= Max({a, b})
<1>1. \E x \in {a, b} : \A y \in {a, b} : x >= y
  <2>1. CASE a <= b
    BY <2>1
  <2>2. CASE b <= a
    BY <2>2
  <2> QED BY <2>1, <2>2
<1> DEFINE m == CHOOSE x \in {a, b} : \A y \in {a, b} : x >= y
<1>2. m \in {a, b} /\ \A y \in {a, b} : m >= y
  BY <1>1
<1> QED BY <1>2 DEF Max

RateRec == [n : 0..RateLimit, ttl : BOOLEAN]

LEMMA RateTypes ==
    ASSUME TypeOK
    PROVE  /\ Counted => rate' \in RateRec
           /\ \A c : FailOpen(c) => rate' \in RateRec
<1>1. PICK n \in 0..RateLimit, b \in BOOLEAN : rate = [n |-> n, ttl |-> b]
  BY DEF TypeOK
<1>2. n + 1 \in Nat /\ RateLimit \in Nat
  BY GatewayBounds
<1>3. PICK m \in Nat : m = Min({n + 1, RateLimit}) /\ m <= RateLimit
  BY <1>2, LeastOfTwo
<1>4. m \in 0..RateLimit
  BY <1>2, <1>3
<1>5. Counted => rate' \in RateRec
  <2> HAVE Counted
  <2>1. PICK t \in BOOLEAN : t = (rate.ttl \/ rate.n = 0)
    OBVIOUS
  <2>2. rate' = [n |-> m, ttl |-> t]
    BY <1>1, <1>3, <2>1 DEF Counted
  <2> QED BY <1>4, <2>2 DEF RateRec
<1>6. ASSUME NEW c, FailOpen(c) PROVE rate' \in RateRec
  <2>1. rate' = rate \/ rate' = [n |-> m, ttl |-> b]
    BY <1>1, <1>3, <1>6 DEF FailOpen
  <2> QED BY <1>1, <1>4, <2>1 DEF RateRec
<1> QED BY <1>5, <1>6

\* No row is added, and no trigger is due to be.
Calm(c, r) ==
    /\ Keeps(call[c]) => Keeps(r)
    /\ r.pc # "trigger_insert"

LEMMA QuietStep ==
    ASSUME GatewayInv, NEW c \in Calls, NEW r \in CallRec, Moves(c, r), Quiet(c, r),
           UNCHANGED authVars, rate' \in RateRec,
           endpoints' \subseteq Calls, inactive' \subseteq endpoints',
           triggers' \in [Calls -> Nat], EndpointsAreKept', QuotaOvershoot'
    PROVE  GatewayInv'
<1>1. call' \in [Calls -> {None} \cup CallRec]
  BY DEF Moves, GatewayInv, TypeOK
<1>2. UNCHANGED <<session, claimed, spent, nonce, backing>>
  BY DEF authVars
<1>3. TypeOK'
  BY <1>1, <1>2 DEF TypeOK, GatewayInv, RateRec
<1> QED BY <1>3, QuietKeeps DEF GatewayInv

LEMMA CalmStep ==
    ASSUME GatewayInv, NEW c \in Calls, NEW r \in CallRec, Moves(c, r), Quiet(c, r),
           Calm(c, r), UNCHANGED authVars, UNCHANGED toolVars, rate' \in RateRec
    PROVE  GatewayInv'
<1>1. TypeOK /\ EndpointsAreKept /\ QuotaOvershoot
  BY DEF GatewayInv
<1>2. call' = [call EXCEPT ![c] = r]
  BY DEF Moves
<1>3. EndpointsAreKept' /\ QuotaOvershoot'
  BY <1>1, <1>2, RowsKeep DEF Calm
<1>4. /\ endpoints' \subseteq Calls /\ inactive' \subseteq endpoints'
      /\ triggers' \in [Calls -> Nat]
  BY <1>1 DEF TypeOK, toolVars
<1> QED BY <1>3, <1>4, QuietStep

LEMMA FetchKeeps ==
    ASSUME GatewayInv, NEW c \in Calls, Fetch(c)
    PROVE  GatewayInv'
<1>0. /\ call[c] # None /\ call[c].pc = "fetch" /\ call[c] \in CallRec /\ TypeOK
      /\ Routed(call[c])
  BY CallIsRec DEF Fetch, At, GatewayInv, CallsAreRouted
<1>1. UNCHANGED authVars /\ UNCHANGED toolVars /\ rate' \in RateRec /\ ~Keeps(call[c])
  BY <1>0 DEF Fetch, TypeOK, RateRec, Keeps
<1>2. call[c].via = "session" /\ call[c].pc \notin Ended \cup Busy
  BY <1>0 DEF Routed, Ended, Busy, Served, ToolSteps
<1>e. "refused" \in Ended /\ "failed" \in Ended
  BY DEF Ended
<1>3. CASE End(c, "refused")
  <2>1. PICK r \in CallRec : Moves(c, r) /\ Quiet(c, r) /\ r.pc = "refused"
    BY <1>0, <1>2, <1>3, <1>e, EndIsQuiet
  <2> QED BY <1>1, <2>1, CalmStep DEF Calm
<1>4. CASE End(c, "failed")
  <2>1. PICK r \in CallRec : Moves(c, r) /\ Quiet(c, r) /\ r.pc = "failed"
    BY <1>0, <1>2, <1>4, <1>e, EndIsQuiet
  <2> QED BY <1>1, <2>1, CalmStep DEF Calm
<1>5. CASE session[call[c].purse].key = "hash" /\ Goto(c, "rate")
  <2>1. LetIn(c)
    BY <1>0, <1>5 DEF LetIn
  <2>2. "rate" \in Served \ {"reply", "settle"} /\ call[c].tool \notin Rest
    BY <1>0, <1>2 DEF Served, Routed
  <2>3. PICK r \in CallRec : Moves(c, r) /\ Quiet(c, r) /\ r.pc = "rate"
    BY <1>5, <2>1, <2>2, GotoIsQuiet
  <2> QED BY <1>1, <2>3, CalmStep DEF Calm
<1>6. CASE session[call[c].purse].key = "hash" /\ UndoThen(c, "refused")
  <2>1. LetIn(c)
    BY <1>0, <1>6 DEF LetIn
  <2>2. PICK r \in CallRec : /\ Moves(c, r) /\ Quiet(c, r)
                             /\ r.pc \in {"undo", "refused"}
    BY <1>6, <1>e, <2>1, UndoIsQuiet
  <2> QED BY <1>1, <2>2, CalmStep DEF Calm
<1> QED BY <1>3, <1>4, <1>5, <1>6 DEF Fetch

LEMMA VerifyKeeps ==
    ASSUME GatewayInv, NEW c \in Calls, Verify(c)
    PROVE  GatewayInv'
<1>0. /\ call[c] # None /\ call[c] \in CallRec /\ TypeOK /\ Routed(call[c])
      /\ call[c].pc = "auth" /\ call[c].via = "x402"
  BY CallIsRec DEF Verify, At, GatewayInv, CallsAreRouted
<1>1. UNCHANGED authVars /\ UNCHANGED toolVars /\ rate' \in RateRec /\ ~Keeps(call[c])
  BY <1>0 DEF Verify, TypeOK, RateRec, Keeps
<1>2. call[c].pc \notin Ended \cup Busy
  BY <1>0 DEF Ended, Busy, Served, ToolSteps
<1>3. CASE Goto(c, "claim")
  <2>1. "claim" \in Pcs
    BY DEF Pcs
  <2>2. PICK r \in CallRec : Moves(c, r) /\ r.pc = "claim"
    BY <1>0, <1>3, <2>1, Going
  <2>3. Routed(r)
    BY <1>0, <2>2 DEF Routed, Moves
  <2>4. Quiet(c, r)
    BY <1>0, <1>2, <2>2, <2>3 DEF Quiet, Moves, Busy, Served, ToolSteps
  <2> QED BY <1>1, <2>2, <2>4, CalmStep DEF Calm
<1>4. CASE End(c, "refused")
  <2>1. "refused" \in Ended
    BY DEF Ended
  <2>2. PICK r \in CallRec : Moves(c, r) /\ Quiet(c, r) /\ r.pc = "refused"
    BY <1>0, <1>2, <1>4, <2>1, EndIsQuiet
  <2> QED BY <1>1, <2>2, CalmStep DEF Calm
<1> QED BY <1>3, <1>4 DEF Verify

LEMMA IdentifyKeeps ==
    ASSUME GatewayInv, NEW c \in Calls, IdentifyPayer(c) \/ IdentifyWallet(c)
    PROVE  GatewayInv'
<1>0. /\ call[c] # None /\ call[c] \in CallRec /\ TypeOK /\ Routed(call[c])
      /\ call[c].pc = "identify"
  BY CallIsRec DEF IdentifyPayer, IdentifyWallet, At, GatewayInv, CallsAreRouted
<1>1. UNCHANGED authVars /\ UNCHANGED toolVars /\ rate' \in RateRec /\ ~Keeps(call[c])
  BY <1>0 DEF IdentifyPayer, IdentifyWallet, TypeOK, RateRec, Keeps
<1>2. LetIn(c) /\ call[c].pc \notin Ended
  BY <1>0 DEF LetIn, Served, Ended
<1>e. "refused" \in Ended /\ "failed" \in Ended
  BY DEF Ended
<1>3. CASE Goto(c, "rate")
  <2>1. "rate" \in Served \ {"reply", "settle"} /\ call[c].tool \notin Rest
    BY <1>0 DEF Served, Routed
  <2>2. PICK r \in CallRec : Moves(c, r) /\ Quiet(c, r) /\ r.pc = "rate"
    BY <1>2, <1>3, <2>1, GotoIsQuiet
  <2> QED BY <1>1, <2>2, CalmStep DEF Calm
<1>4. CASE UndoThen(c, "refused")
  <2>1. PICK r \in CallRec : Moves(c, r) /\ Quiet(c, r) /\ r.pc \in {"undo", "refused"}
    BY <1>2, <1>4, <1>e, UndoIsQuiet
  <2> QED BY <1>1, <2>1, CalmStep DEF Calm
<1>5. CASE End(c, "failed")
  <2>1. PICK r \in CallRec : Moves(c, r) /\ Quiet(c, r) /\ r.pc = "failed"
    BY <1>0, <1>2, <1>5, <1>e, EndIsQuiet
  <2> QED BY <1>1, <2>1, CalmStep DEF Calm
<1> QED BY <1>3, <1>4, <1>5 DEF IdentifyPayer, IdentifyWallet

LEMMA RateKeeps ==
    ASSUME GatewayInv, NEW c \in Calls, RateSession(c) \/ RatePayer(c) \/ RateWallet(c)
    PROVE  GatewayInv'
<1>0. /\ call[c] # None /\ call[c] \in CallRec /\ TypeOK /\ Routed(call[c])
      /\ call[c].pc = "rate"
  BY CallIsRec DEF RateSession, RatePayer, RateWallet, At, GatewayInv, CallsAreRouted
<1>1. UNCHANGED authVars /\ UNCHANGED toolVars /\ ~Keeps(call[c])
  BY <1>0 DEF RateSession, RatePayer, RateWallet, Keeps
<1>2. rate' \in RateRec
  BY <1>0, RateTypes DEF RateSession, RatePayer, RateWallet, WithinLimit
<1>3. LetIn(c) /\ call[c].pc \notin Ended
  BY <1>0 DEF LetIn, Served, Ended
<1>4. CASE Goto(c, Enter(call[c].tool))
  <2>1. PICK t \in Tools : t = call[c].tool
    BY <1>0 DEF CallRec
  <2>2. PICK p \in ToolSteps \ {"endpoint_insert", "wire", "trigger_insert"} : p = Enter(t)
    BY EnterLeads
  <2>3. /\ p = "endpoint_quota" => t \in Registers
        /\ p = "trigger_quota" => t \in {"create_trigger", "activate_template"}
        /\ p \in {"open", "close"} => t \in Rest
    BY <2>2, EnterLeads
  <2>4. t \notin Rest /\ p \in Served \ {"reply", "settle"} /\ p \notin {"identify", "rate"}
    BY <1>0, <2>1 DEF Routed, Served, ToolSteps
  <2>5. PICK r \in CallRec : Moves(c, r) /\ Quiet(c, r) /\ r.pc = p
    BY <1>3, <1>4, <2>1, <2>2, <2>3, <2>4, GotoIsQuiet
  <2> QED BY <1>1, <1>2, <2>2, <2>5, CalmStep DEF Calm
<1>5. CASE UndoThen(c, "refused")
  <2>1. "refused" \in Ended
    BY DEF Ended
  <2>2. PICK r \in CallRec : Moves(c, r) /\ Quiet(c, r) /\ r.pc \in {"undo", "refused"}
    BY <1>3, <1>5, <2>1, UndoIsQuiet
  <2> QED BY <1>1, <1>2, <2>2, CalmStep DEF Calm
<1>6. CASE End(c, "refused") /\ call[c].via = "siwx"
  <2>1. "refused" \in Ended
    BY DEF Ended
  <2>2. PICK r \in CallRec : Moves(c, r) /\ Quiet(c, r) /\ r.pc = "refused"
    BY <1>0, <1>3, <1>6, <2>1, EndIsQuiet
  <2> QED BY <1>1, <1>2, <2>2, CalmStep DEF Calm
<1> QED BY <1>4, <1>5, <1>6 DEF RateSession, RatePayer, RateWallet, WithinLimit, FailOpen

LEMMA EndpointQuotaKeeps ==
    ASSUME GatewayInv, NEW c \in Calls, EndpointQuota(c)
    PROVE  GatewayInv'
<1>0. /\ call[c] # None /\ call[c] \in CallRec /\ TypeOK /\ Routed(call[c])
      /\ call[c].pc = "endpoint_quota"
  BY CallIsRec DEF EndpointQuota, At, GatewayInv, CallsAreRouted
<1>1. UNCHANGED authVars /\ UNCHANGED toolVars /\ rate' \in RateRec /\ ~Keeps(call[c])
  BY <1>0 DEF EndpointQuota, TypeOK, RateRec, Keeps
<1>2. LetIn(c)
  BY <1>0 DEF LetIn, Served, ToolSteps
<1>e. "refused" \in Ended /\ "failed" \in Ended
  BY DEF Ended
<1>3. CASE ReturnError(c)
  <2>1. PICK r \in CallRec : Moves(c, r) /\ Quiet(c, r) /\ r.pc \in {"undo", "errored"}
    BY <1>2, <1>3, ErrorIsQuiet
  <2> QED BY <1>1, <2>1, CalmStep DEF Calm
<1>4. CASE UndoThen(c, "refused") \/ UndoThen(c, "failed")
  <2>1. PICK r \in CallRec : /\ Moves(c, r) /\ Quiet(c, r)
                             /\ r.pc \in {"undo", "refused", "failed"}
    BY <1>2, <1>4, <1>e, UndoIsQuiet
  <2> QED BY <1>1, <2>1, CalmStep DEF Calm
<1>5. CASE Goto(c, "endpoint_insert")
  <2>1. "endpoint_insert" \in Served \ {"reply", "settle"} /\ call[c].tool \in Registers
    BY <1>0 DEF Served, ToolSteps, Routed
  <2>2. PICK r \in CallRec : Moves(c, r) /\ Quiet(c, r) /\ r.pc = "endpoint_insert"
    BY <1>2, <1>5, <2>1, GotoIsQuiet
  <2> QED BY <1>1, <2>2, CalmStep DEF Calm
<1> QED BY <1>3, <1>4, <1>5 DEF EndpointQuota, DbRaises

LEMMA ReadKeeps ==
    ASSUME GatewayInv, NEW c \in Calls, Read(c)
    PROVE  GatewayInv'
<1>0. /\ call[c] # None /\ call[c] \in CallRec /\ TypeOK /\ call[c].pc = "read"
  BY CallIsRec DEF Read, At, GatewayInv
<1>1. UNCHANGED authVars /\ UNCHANGED toolVars /\ rate' \in RateRec /\ ~Keeps(call[c])
  BY <1>0 DEF Read, TypeOK, RateRec, Keeps
<1>2. LetIn(c) /\ call[c].pc \in ToolSteps
  BY <1>0 DEF LetIn, Served, ToolSteps
<1>3. CASE Return(c)
  <2>1. PICK r \in CallRec : Moves(c, r) /\ Quiet(c, r) /\ r.pc \in {"settle", "reply"}
    BY <1>2, <1>3, ReturnIsQuiet
  <2> QED BY <1>1, <2>1, CalmStep DEF Calm
<1>4. CASE ReturnError(c)
  <2>1. PICK r \in CallRec : Moves(c, r) /\ Quiet(c, r) /\ r.pc \in {"undo", "errored"}
    BY <1>2, <1>4, ErrorIsQuiet
  <2> QED BY <1>1, <2>1, CalmStep DEF Calm
<1>5. CASE UndoThen(c, "failed")
  <2>1. "failed" \in Ended
    BY DEF Ended
  <2>2. PICK r \in CallRec : Moves(c, r) /\ Quiet(c, r) /\ r.pc \in {"undo", "failed"}
    BY <1>2, <1>5, <2>1, UndoIsQuiet
  <2> QED BY <1>1, <2>2, CalmStep DEF Calm
<1> QED BY <1>3, <1>4, <1>5 DEF Read, DbRaises

LEMMA ReplyKeeps ==
    ASSUME GatewayInv, NEW c \in Calls, Reply(c)
    PROVE  GatewayInv'
<1>0. /\ call[c] # None /\ call[c] \in CallRec /\ TypeOK /\ call[c].pc = "reply"
  BY CallIsRec DEF Reply, At, GatewayInv
<1>1. UNCHANGED authVars /\ UNCHANGED toolVars /\ rate' \in RateRec
  BY <1>0 DEF Reply, TypeOK, RateRec
<1>2. "answered" \in Ended /\ call[c].pc \notin Ended
  BY <1>0 DEF Ended
<1>3. PICK r \in CallRec : Moves(c, r) /\ Quiet(c, r) /\ r.pc = "answered"
  BY <1>0, <1>2, EndIsQuiet DEF Reply
<1>4. Calm(c, r)
  BY <1>3 DEF Calm, Keeps, Moves
<1> QED BY <1>1, <1>3, <1>4, CalmStep

-----------------------------------------------------------------------------
(* The steps of the tool handlers *)

\* A trigger is added by a call that was about to, or the check sees room for one
\* more of each call.
LEMMA QuotaStep ==
    ASSUME TypeOK, QuotaOvershoot, NEW c \in Calls, NEW r \in CallRec,
           call' = [call EXCEPT ![c] = r],
           triggers' \in [Calls -> Nat],
           \/ ActiveTriggers' < MaxTriggers
           \/ r.pc # "trigger_insert" /\ ActiveTriggers' <= ActiveTriggers
           \/ /\ r.pc # "trigger_insert" /\ At(c, "trigger_insert")
              /\ ActiveTriggers' <= ActiveTriggers + 1
    PROVE  QuotaOvershoot'
<1>1. ActiveTriggers \in Nat /\ ActiveTriggers' \in Nat
  <2>1. PICK f \in [Calls -> Nat], g \in [Calls -> Nat] : f = triggers /\ g = triggers'
    BY DEF TypeOK
  <2>2. SumOf(f, Calls) \in Nat /\ SumOf(g, Calls) \in Nat
    BY CallsAreFinite, SumPicks
  <2> QED BY <2>1, <2>2, ActiveIs, ActiveIsNext
<1>2. PICK p \in Nat, q \in Nat, n \in Nat :
        /\ p = Cardinality(Pending("trigger_insert"))
        /\ q = Cardinality(Pending("trigger_insert")') /\ n = Cardinality(Calls)
  BY PendingMoves
<1>3. /\ q <= n
      /\ r.pc # "trigger_insert" => q <= p
      /\ r.pc # "trigger_insert" /\ At(c, "trigger_insert") => q + 1 <= p
  BY <1>2, PendingMoves
<1>4. ActiveTriggers' + q <= MaxTriggers - 1 + n
  BY <1>1, <1>2, <1>3, GatewayBounds DEF QuotaOvershoot
<1> QED BY <1>2, <1>4 DEF QuotaOvershoot

LEMMA KeptStep ==
    ASSUME TypeOK, EndpointsAreKept, NEW c \in Calls, NEW r \in CallRec,
           call' = [call EXCEPT ![c] = r], endpoints' \subseteq Calls,
           \A e \in endpoints' : e # c => e \in endpoints,
           c \in endpoints' => Keeps(r)
    PROVE  EndpointsAreKept'
<1> SUFFICES ASSUME NEW e \in endpoints' PROVE call'[e] # None /\ Keeps(call'[e])
  BY DEF EndpointsAreKept, Keeps
<1>1. CASE e = c
  <2>1. call'[e] = r
    BY <1>1 DEF TypeOK
  <2> QED BY <1>1, <2>1, NoneIsNoRecord
<1>2. CASE e # c
  <2>1. e \in Calls /\ call'[e] = call[e]
    BY <1>2 DEF TypeOK
  <2> QED BY <1>2, <2>1 DEF EndpointsAreKept
<1> QED BY <1>1, <1>2

\* DELETE with ON DELETE CASCADE adds no row.
LEMMA DeletingRows ==
    ASSUME TypeOK, NEW c \in Calls, DeleteEndpoint(c)
    PROVE  /\ triggers' \in [Calls -> Nat] /\ endpoints' \subseteq Calls
           /\ c \notin endpoints' /\ endpoints' \subseteq endpoints
           /\ inactive' \subseteq endpoints' /\ ActiveTriggers' <= ActiveTriggers
<1>1. /\ triggers' \in [Calls -> Nat] /\ endpoints' \subseteq Calls
      /\ c \notin endpoints' /\ endpoints' \subseteq endpoints
      /\ inactive' \subseteq endpoints'
  BY DEF TypeOK, DeleteEndpoint
<1>2. PICK f \in [Calls -> Nat] : f = triggers
  BY DEF TypeOK
<1>3. PICK g \in [Calls -> Nat] : g = [f EXCEPT ![c] = 0] /\ g = triggers'
  BY <1>2 DEF DeleteEndpoint
<1>0. g[c] = 0 /\ \A x \in Calls \ {c} : g[x] = f[x]
  BY <1>3
<1>4. /\ SumOf(f, Calls) \in Nat /\ SumOf(g, Calls) \in Nat
      /\ SumOf(g, Calls) + f[c] = SumOf(f, Calls) + g[c]
  BY <1>0, TriggersAdd
<1>5. ActiveTriggers' <= ActiveTriggers
  <2>1. f[c] \in Nat
    OBVIOUS
  <2>2. SumOf(g, Calls) <= SumOf(f, Calls)
    BY <1>0, <1>4, <2>1
  <2> QED BY <1>2, <1>3, <2>2, ActiveIs, ActiveIsNext
<1> QED BY <1>1, <1>5

LEMMA SameRows ==
    ASSUME TypeOK, UNCHANGED toolVars
    PROVE  /\ triggers' \in [Calls -> Nat] /\ endpoints' \subseteq Calls
           /\ endpoints' = endpoints /\ inactive' \subseteq endpoints'
           /\ ActiveTriggers' <= ActiveTriggers
<1>1. triggers' = triggers /\ endpoints' = endpoints /\ inactive' = inactive
  BY DEF toolVars
<1>2. PICK f \in [Calls -> Nat] : f = triggers
  BY DEF TypeOK
<1>3. SumOf(f, Calls) \in Nat
  BY CallsAreFinite, SumPicks
<1>4. ActiveTriggers' <= ActiveTriggers
  BY <1>1, <1>2, <1>3, ActiveIs, ActiveIsNext
<1> QED BY <1>1, <1>4 DEF TypeOK

\* A step of a handler that adds a trigger only where its check passed.
LEMMA HandlerStep ==
    ASSUME GatewayInv, NEW c \in Calls, NEW r \in CallRec, Moves(c, r), Quiet(c, r),
           UNCHANGED authVars, rate' = rate,
           triggers' \in [Calls -> Nat], endpoints' \subseteq Calls,
           inactive' \subseteq endpoints',
           \A e \in endpoints' : e # c => e \in endpoints,
           c \in endpoints' => Keeps(r),
           r.pc # "trigger_insert" \/ ActiveTriggers' < MaxTriggers,
           \/ ActiveTriggers' <= ActiveTriggers
           \/ At(c, "trigger_insert") /\ ActiveTriggers' <= ActiveTriggers + 1
    PROVE  GatewayInv'
<1>1. call' = [call EXCEPT ![c] = r] /\ TypeOK /\ EndpointsAreKept /\ QuotaOvershoot
  BY DEF Moves, GatewayInv
<1>2. EndpointsAreKept'
  BY <1>1, KeptStep
<1>3. QuotaOvershoot'
  BY <1>1, QuotaStep
<1>4. rate' \in RateRec
  BY <1>1 DEF TypeOK, RateRec
<1> QED BY <1>2, <1>3, <1>4, QuietStep

\* The triggers of e change by one, up or down.
LEMMA CountingRows ==
    ASSUME TypeOK, NEW e \in Calls, endpoints' = endpoints, inactive' = inactive,
           \/ triggers' = [triggers EXCEPT ![e] = @ + 1]
           \/ triggers[e] > 0 /\ triggers' = [triggers EXCEPT ![e] = @ - 1]
    PROVE  /\ triggers' \in [Calls -> Nat] /\ endpoints' \subseteq Calls
           /\ inactive' \subseteq endpoints'
           /\ ActiveTriggers' <= ActiveTriggers + 1
           /\ triggers'[e] <= triggers[e] => ActiveTriggers' <= ActiveTriggers
<1>1. PICK f \in [Calls -> Nat] : f = triggers
  BY DEF TypeOK
<1>2. PICK n \in Nat : /\ triggers' = [f EXCEPT ![e] = n]
                       /\ n = f[e] + 1 \/ n + 1 = f[e]
  <2>1. f[e] \in Nat
    OBVIOUS
  <2>2. CASE triggers' = [triggers EXCEPT ![e] = @ + 1]
    <3>1. triggers' = [f EXCEPT ![e] = f[e] + 1] /\ f[e] + 1 \in Nat
      BY <1>1, <2>1, <2>2
    <3> QED BY <3>1
  <2>3. CASE triggers[e] > 0 /\ triggers' = [triggers EXCEPT ![e] = @ - 1]
    <3>1. f[e] - 1 \in Nat /\ (f[e] - 1) + 1 = f[e]
      BY <1>1, <2>1, <2>3
    <3> QED BY <1>1, <2>3, <3>1
  <2> QED BY <2>2, <2>3
<1>3. PICK g \in [Calls -> Nat] : /\ g = triggers' /\ g[e] = n
                                  /\ \A x \in Calls \ {e} : g[x] = f[x]
  BY <1>2
<1>4. /\ SumOf(f, Calls) \in Nat /\ SumOf(g, Calls) \in Nat
      /\ SumOf(g, Calls) + f[e] = SumOf(f, Calls) + g[e]
  BY <1>3, TriggersAdd
<1>5. f[e] \in Nat
  OBVIOUS
<1>6. ActiveTriggers = SumOf(f, Calls) /\ ActiveTriggers' = SumOf(g, Calls)
  BY <1>1, <1>3, ActiveIs, ActiveIsNext
<1>7. /\ ActiveTriggers' <= ActiveTriggers + 1
      /\ triggers'[e] <= triggers[e] => ActiveTriggers' <= ActiveTriggers
  BY <1>1, <1>2, <1>3, <1>4, <1>5, <1>6
<1>8. endpoints' \subseteq Calls /\ inactive' \subseteq endpoints'
  BY DEF TypeOK
<1> QED BY <1>3, <1>7, <1>8

\* The next trigger of the same call: one fewer is to be created.
LEMMA NextTrigger ==
    ASSUME GatewayInv, NEW c \in Calls, LetIn(c),
           call[c].pc \in {"trigger_quota", "trigger_insert"}, call[c].todo > 1,
           \/ /\ call[c].pc = "trigger_quota"
              /\ call' = [call EXCEPT ![c].todo = @ - 1]
           \/ call' = [call EXCEPT ![c].todo = @ - 1, ![c].pc = "trigger_quota"]
    PROVE  \E r \in CallRec : Moves(c, r) /\ Quiet(c, r) /\ r.pc = "trigger_quota"
<1>1. PICK a \in CallRec : a = call[c]
  BY CallIsRec DEF GatewayInv, LetIn
<1>2. PICK n \in 0..(MaxSlugs + 1) : n = a.todo - 1
  <2>1. a.todo \in 0..(MaxSlugs + 1) /\ a.todo > 1
    BY <1>1 DEF CallRec
  <2> QED BY <2>1, GatewayBounds
<1> DEFINE r == [a EXCEPT !.todo = n, !.pc = "trigger_quota"]
<1>3. r \in CallRec /\ r.pc = "trigger_quota"
      /\ r.via = a.via /\ r.tool = a.tool /\ r.purse = a.purse
  BY DEF CallRec, ToolSteps
<1>4. call' = [call EXCEPT ![c] = r]
  <2>0. call \in [Calls -> {None} \cup CallRec]
    BY DEF GatewayInv, TypeOK
  <2>1. CASE /\ call[c].pc = "trigger_quota"
             /\ call' = [call EXCEPT ![c].todo = @ - 1]
    <3>1. r = [a EXCEPT !.todo = n]
      BY <1>1, <2>1 DEF CallRec
    <3> HIDE DEF r
    <3> QED BY <1>1, <1>2, <2>1, <3>1
  <2>2. CASE call' = [call EXCEPT ![c].todo = @ - 1, ![c].pc = "trigger_quota"]
    BY <1>1, <1>2, <2>0, <2>2
  <2> QED BY <2>1, <2>2
<1> HIDE DEF r
<1>5. Moves(c, r)
  BY <1>1, <1>3, <1>4 DEF Moves
<1>6. Routed(a)
  BY <1>1 DEF GatewayInv, CallsAreRouted, LetIn
<1>7. Routed(r)
  BY <1>1, <1>3, <1>6 DEF Routed
<1>8. Quiet(c, r)
  BY <1>1, <1>3, <1>7 DEF Quiet, LetIn, Busy, Served, Ended, ToolSteps
<1> QED BY <1>3, <1>5, <1>8

\* The handler of c is at one of its steps.
LEMMA AtTool ==
    ASSUME GatewayInv, NEW c \in Calls, NEW p \in ToolSteps, At(c, p)
    PROVE  /\ TypeOK /\ call[c] # None /\ call[c].pc = p /\ call[c] \in CallRec
           /\ Routed(call[c]) /\ LetIn(c)
           /\ c \in endpoints => Keeps(call[c])
BY CallIsRec DEF GatewayInv, At, CallsAreRouted, LetIn, Served, ToolSteps, EndpointsAreKept

\* A database error in a handler.
LEMMA DbRaisesKeeps ==
    ASSUME GatewayInv, NEW c \in Calls, LetIn(c), DbRaises(c),
           c \in endpoints => Keeps(call[c]), UNCHANGED authVars, rate' = rate
    PROVE  GatewayInv'
<1>1. "failed" \in Ended /\ UndoThen(c, "failed") /\ UNCHANGED toolVars /\ TypeOK
  BY DEF Ended, DbRaises, GatewayInv
<1>2. PICK r \in CallRec : /\ Moves(c, r) /\ Quiet(c, r) /\ r.then = "failed"
                           /\ r.pc \in {"undo", "failed"}
  BY <1>1, UndoIsQuiet
<1>3. c \in endpoints => Keeps(r)
  BY <1>2 DEF Keeps, Moves
<1> QED BY <1>1, <1>2, <1>3, SameRows, HandlerStep

\* A row that was to be deleted is left.
LEMMA CleanupFailsKeeps ==
    ASSUME GatewayInv, NEW c \in Calls, LetIn(c), CleanupFails(c),
           c \in endpoints => Keeps(call[c]), UNCHANGED authVars, rate' = rate
    PROVE  GatewayInv'
<1>1. "left" \in Ended /\ UndoThen(c, "left") /\ UNCHANGED toolVars /\ TypeOK
  BY DEF Ended, CleanupFails, GatewayInv
<1>2. PICK r \in CallRec : /\ Moves(c, r) /\ Quiet(c, r) /\ r.then = "left"
                           /\ r.pc \in {"undo", "left"}
  BY <1>1, UndoIsQuiet
<1>3. c \in endpoints => Keeps(r)
  BY <1>2 DEF Keeps, Moves
<1> QED BY <1>1, <1>2, <1>3, SameRows, HandlerStep

LEMMA EndpointInsertKeeps ==
    ASSUME GatewayInv, NEW c \in Calls, EndpointInsert(c)
    PROVE  GatewayInv'
<1>0. /\ TypeOK /\ call[c] # None /\ call[c].pc = "endpoint_insert" /\ Routed(call[c])
      /\ LetIn(c) /\ (c \in endpoints => Keeps(call[c]))
      /\ UNCHANGED authVars /\ rate' = rate /\ At(c, "endpoint_insert")
  BY AtTool DEF EndpointInsert, ToolSteps
<1>1. CASE DbRaises(c)
  BY <1>0, <1>1, DbRaisesKeeps
<1>2. CASE /\ endpoints' = endpoints \cup {c} /\ Goto(c, "wire")
           /\ UNCHANGED <<inactive, triggers>>
  <2>1. "wire" \in Served \ {"reply", "settle"} /\ call[c].tool \in Registers
    BY <1>0 DEF Served, ToolSteps, Routed
  <2>2. PICK r \in CallRec : Moves(c, r) /\ Quiet(c, r) /\ r.pc = "wire"
    BY <1>0, <1>2, <2>1, GotoIsQuiet
  <2>3. Keeps(r)
    BY <2>1, <2>2 DEF Keeps, Moves
  <2>4. /\ triggers' \in [Calls -> Nat] /\ endpoints' \subseteq Calls
        /\ inactive' \subseteq endpoints'
    BY <1>0, <1>2 DEF TypeOK
  <2>5. ActiveTriggers' <= ActiveTriggers
    <3>1. PICK f \in [Calls -> Nat] : f = triggers
      BY <1>0 DEF TypeOK
    <3>2. SumOf(f, Calls) \in Nat
      BY CallsAreFinite, SumPicks
    <3> QED BY <1>2, <3>1, <3>2, ActiveIs, ActiveIsNext
  <2> QED BY <1>0, <1>2, <2>2, <2>3, <2>4, <2>5, HandlerStep
<1> QED BY <1>1, <1>2 DEF EndpointInsert

LEMMA WireKeeps ==
    ASSUME GatewayInv, NEW c \in Calls, Wire(c)
    PROVE  GatewayInv'
<1>0. /\ TypeOK /\ call[c] # None /\ call[c].pc = "wire" /\ Routed(call[c])
      /\ LetIn(c) /\ (c \in endpoints => Keeps(call[c]))
      /\ UNCHANGED authVars /\ rate' = rate
  BY AtTool DEF Wire, ToolSteps
<1>t. call[c].tool \in Registers /\ call[c].pc \in ToolSteps
  BY <1>0 DEF Routed, ToolSteps
<1>1. CASE DbRaises(c)
  BY <1>0, <1>1, DbRaisesKeeps
<1>2. CASE AfterEndpoint(c) /\ UNCHANGED toolVars
  <2>1. CASE Goto(c, "trigger_quota") /\ call[c].tool = "register_middleware"
    <3>1. "trigger_quota" \in Served \ {"reply", "settle"}
      BY DEF Served, ToolSteps
    <3>2. PICK r \in CallRec : Moves(c, r) /\ Quiet(c, r) /\ r.pc = "trigger_quota"
      BY <1>0, <2>1, <3>1, GotoIsQuiet
    <3>3. Keeps(r)
      BY <1>t, <3>2 DEF Keeps, Moves
    <3> QED BY <1>0, <1>2, <3>2, <3>3, SameRows, HandlerStep
  <2>2. CASE Return(c)
    <3>1. PICK r \in CallRec : Moves(c, r) /\ Quiet(c, r) /\ r.pc \in {"settle", "reply"}
      BY <1>0, <1>t, <2>2, ReturnIsQuiet
    <3>2. Keeps(r)
      BY <1>t, <3>1 DEF Keeps, Moves
    <3> QED BY <1>0, <1>2, <3>1, <3>2, SameRows, HandlerStep
  <2> QED BY <1>2, <2>1, <2>2 DEF AfterEndpoint
<1>3. CASE DeleteEndpoint(c) /\ ReturnError(c)
  <2>1. PICK r \in CallRec : Moves(c, r) /\ Quiet(c, r) /\ r.pc \in {"undo", "errored"}
    BY <1>0, <1>3, ErrorIsQuiet
  <2> QED BY <1>0, <1>3, <2>1, DeletingRows, HandlerStep
<1>4. CASE CleanupFails(c)
  BY <1>0, <1>4, CleanupFailsKeeps
<1> QED BY <1>1, <1>2, <1>3, <1>4 DEF Wire

LEMMA TriggerQuotaKeeps ==
    ASSUME GatewayInv, NEW c \in Calls, TriggerQuota(c)
    PROVE  GatewayInv'
<1>0. /\ TypeOK /\ call[c] # None /\ call[c].pc = "trigger_quota" /\ Routed(call[c])
      /\ LetIn(c) /\ (c \in endpoints => Keeps(call[c]))
      /\ UNCHANGED authVars /\ rate' = rate
  BY AtTool DEF TriggerQuota, ToolSteps
<1>t. /\ call[c].tool \in {"register_middleware", "create_trigger", "activate_template"}
      /\ call[c].pc \in ToolSteps
  BY <1>0 DEF Routed, ToolSteps
<1>1. CASE DbRaises(c)
  BY <1>0, <1>1, DbRaisesKeeps
<1>2. CASE ActiveTriggers < MaxTriggers /\ Goto(c, "trigger_insert") /\ UNCHANGED toolVars
  <2>1. "trigger_insert" \in Served \ {"reply", "settle"}
    BY DEF Served, ToolSteps
  <2>2. PICK r \in CallRec : Moves(c, r) /\ Quiet(c, r) /\ r.pc = "trigger_insert"
    BY <1>0, <1>t, <1>2, <2>1, GotoIsQuiet
  <2>3. c \in endpoints => Keeps(r)
    BY <1>0, <2>2 DEF Keeps, Moves
  <2>4. ActiveTriggers' < MaxTriggers
    <3>1. ActiveTriggers' = ActiveTriggers
      BY <1>2, ActiveIs, ActiveIsNext DEF toolVars
    <3> QED BY <1>2, <3>1
  <2> QED BY <1>0, <1>2, <2>2, <2>3, <2>4, SameRows, HandlerStep
<1>3. CASE /\ UNCHANGED toolVars
           /\ IF call[c].todo > 1 THEN call' = [call EXCEPT ![c].todo = @ - 1]
              ELSE Return(c)
  <2>1. PICK r \in CallRec : /\ Moves(c, r) /\ Quiet(c, r)
                             /\ r.pc \in {"trigger_quota", "settle", "reply"}
    <3>1. CASE call[c].todo > 1
      BY <1>0, <1>3, <3>1, NextTrigger
    <3>2. CASE ~(call[c].todo > 1)
      BY <1>0, <1>t, <1>3, <3>2, ReturnIsQuiet
    <3> QED BY <3>1, <3>2
  <2>2. c \in endpoints => Keeps(r)
    BY <1>0, <2>1 DEF Keeps, Moves
  <2> QED BY <1>0, <1>3, <2>1, <2>2, SameRows, HandlerStep
<1>4. CASE /\ UndoThen(c, "refused")
           /\ IF call[c].tool = "register_middleware" THEN DeleteEndpoint(c)
              ELSE UNCHANGED toolVars
  <2>1. "refused" \in Ended
    BY DEF Ended
  <2>2. PICK r \in CallRec : Moves(c, r) /\ Quiet(c, r) /\ r.pc \in {"undo", "refused"}
    BY <1>0, <1>4, <2>1, UndoIsQuiet
  <2>3. CASE call[c].tool = "register_middleware"
    BY <1>0, <1>4, <2>2, <2>3, DeletingRows, HandlerStep
  <2>4. CASE call[c].tool # "register_middleware"
    <3>1. c \notin endpoints
      BY <1>0, <1>t, <2>4 DEF Keeps, Registers
    <3> QED BY <1>0, <1>4, <2>2, <2>4, <3>1, SameRows, HandlerStep
  <2> QED BY <2>3, <2>4
<1>5. CASE CleanupFails(c)
  BY <1>0, <1>5, CleanupFailsKeeps
<1> QED BY <1>1, <1>2, <1>3, <1>4, <1>5 DEF TriggerQuota

LEMMA InsertKeeps ==
    ASSUME GatewayInv, NEW c \in Calls, NEW e \in Calls, At(c, "trigger_insert"),
           Insert(c, e), UNCHANGED authVars, rate' = rate
    PROVE  GatewayInv'
<1>0. /\ TypeOK /\ call[c] # None /\ call[c].pc = "trigger_insert" /\ LetIn(c)
      /\ (c \in endpoints => Keeps(call[c])) /\ call[c].pc \in ToolSteps
  BY AtTool DEF ToolSteps
<1>1. PICK r \in CallRec : /\ Moves(c, r) /\ Quiet(c, r)
                           /\ r.pc \in {"trigger_quota", "settle", "reply"}
  <2>1. CASE call[c].todo > 1
    BY <1>0, <2>1, NextTrigger DEF Insert
  <2>2. CASE ~(call[c].todo > 1)
    BY <1>0, <2>2, ReturnIsQuiet DEF Insert
  <2> QED BY <2>1, <2>2
<1>2. c \in endpoints => Keeps(r)
  BY <1>0, <1>1 DEF Keeps, Moves
<1>3. /\ endpoints' = endpoints /\ inactive' = inactive
      /\ triggers' = [triggers EXCEPT ![e] = @ + 1]
  BY DEF Insert
<1>4. /\ triggers' \in [Calls -> Nat] /\ endpoints' \subseteq Calls
      /\ inactive' \subseteq endpoints'
      /\ ActiveTriggers' <= ActiveTriggers + 1
  BY <1>0, <1>3, CountingRows
<1> QED BY <1>0, <1>1, <1>2, <1>3, <1>4, HandlerStep

LEMMA TriggerInsertKeeps ==
    ASSUME GatewayInv, NEW c \in Calls,
           MiddlewareTrigger(c) \/ CreateTrigger(c) \/ ActivateTemplate(c)
    PROVE  GatewayInv'
<1>0. /\ UNCHANGED authVars /\ rate' = rate /\ At(c, "trigger_insert")
      /\ "trigger_insert" \in ToolSteps
  BY DEF MiddlewareTrigger, CreateTrigger, ActivateTemplate, ToolSteps
<1>1. TypeOK /\ call[c] # None /\ LetIn(c) /\ (c \in endpoints => Keeps(call[c]))
  BY <1>0, AtTool
<1>2. CASE DbRaises(c)
  BY <1>0, <1>1, <1>2, DbRaisesKeeps
<1>3. CASE \E e \in Calls : Insert(c, e)
  BY <1>0, <1>3, InsertKeeps
<1>4. CASE /\ call[c].tool \in {"create_trigger", "activate_template"}
           /\ ReturnError(c) /\ UNCHANGED toolVars
  <2>1. PICK r \in CallRec : Moves(c, r) /\ Quiet(c, r) /\ r.pc \in {"undo", "errored"}
    BY <1>1, <1>4, ErrorIsQuiet
  <2>2. c \notin endpoints
    BY <1>1, <1>4 DEF Keeps, Registers
  <2> QED BY <1>0, <1>1, <1>4, <2>1, <2>2, SameRows, HandlerStep
<1>5. endpoints \subseteq Calls
  BY <1>1 DEF TypeOK
<1> QED BY <1>2, <1>3, <1>4, <1>5 DEF MiddlewareTrigger, CreateTrigger, ActivateTemplate

LEMMA DeleteTriggerKeeps ==
    ASSUME GatewayInv, NEW c \in Calls, DeleteTrigger(c)
    PROVE  GatewayInv'
<1>0. /\ UNCHANGED authVars /\ rate' = rate /\ At(c, "delete") /\ "delete" \in ToolSteps
  BY DEF DeleteTrigger, ToolSteps
<1>1. /\ TypeOK /\ call[c] # None /\ call[c].pc = "delete" /\ LetIn(c)
      /\ (c \in endpoints => Keeps(call[c])) /\ call[c].pc \in ToolSteps
  BY <1>0, AtTool
<1>2. c \notin endpoints
  BY <1>1 DEF Keeps
<1>3. CASE DbRaises(c)
  BY <1>0, <1>1, <1>3, DbRaisesKeeps
<1>4. CASE ReturnError(c) /\ UNCHANGED toolVars
  <2>1. PICK r \in CallRec : Moves(c, r) /\ Quiet(c, r) /\ r.pc \in {"undo", "errored"}
    BY <1>1, <1>4, ErrorIsQuiet
  <2> QED BY <1>0, <1>1, <1>2, <1>4, <2>1, SameRows, HandlerStep
<1>5. CASE /\ Return(c) /\ endpoints' = endpoints /\ inactive' = inactive
           /\ \/ triggers' = triggers
              \/ \E e \in endpoints : /\ triggers[e] > 0
                                     /\ triggers' = [triggers EXCEPT ![e] = @ - 1]
  <2>1. PICK r \in CallRec : Moves(c, r) /\ Quiet(c, r) /\ r.pc \in {"settle", "reply"}
    BY <1>1, <1>5, ReturnIsQuiet
  <2>2. CASE triggers' = triggers
    <3>1. UNCHANGED toolVars
      BY <1>5, <2>2 DEF toolVars
    <3> QED BY <1>0, <1>1, <1>2, <2>1, <3>1, SameRows, HandlerStep
  <2>3. CASE \E e \in endpoints : /\ triggers[e] > 0
                                  /\ triggers' = [triggers EXCEPT ![e] = @ - 1]
    <3>1. PICK e \in Calls : triggers[e] > 0 /\ triggers' = [triggers EXCEPT ![e] = @ - 1]
      BY <1>1, <2>3 DEF TypeOK
    <3>2. triggers'[e] <= triggers[e]
      BY <1>1, <3>1 DEF TypeOK
    <3>3. /\ triggers' \in [Calls -> Nat] /\ endpoints' \subseteq Calls
          /\ inactive' \subseteq endpoints' /\ ActiveTriggers' <= ActiveTriggers
      BY <1>1, <1>5, <3>1, <3>2, CountingRows
    <3> QED BY <1>0, <1>2, <1>5, <2>1, <3>3, HandlerStep
  <2> QED BY <1>5, <2>2, <2>3
<1> QED BY <1>3, <1>4, <1>5 DEF DeleteTrigger

LEMMA SetActiveKeeps ==
    ASSUME GatewayInv, NEW c \in Calls, SetActive(c)
    PROVE  GatewayInv'
<1>0. /\ UNCHANGED authVars /\ rate' = rate /\ At(c, "set") /\ "set" \in ToolSteps
      /\ endpoints' = endpoints /\ triggers' = triggers
  BY DEF SetActive, ToolSteps
<1>1. /\ TypeOK /\ call[c] # None /\ call[c].pc = "set" /\ LetIn(c)
      /\ (c \in endpoints => Keeps(call[c])) /\ call[c].pc \in ToolSteps
  BY <1>0, AtTool
<1>2. c \notin endpoints
  BY <1>1 DEF Keeps
<1>3. "failed" \in Ended
  BY DEF Ended
<1>4. PICK r \in CallRec : /\ Moves(c, r) /\ Quiet(c, r)
                           /\ r.pc \in {"settle", "reply", "undo", "errored", "failed"}
  <2>1. CASE Return(c)
    BY <1>1, <2>1, ReturnIsQuiet
  <2>2. CASE ReturnError(c)
    BY <1>1, <2>2, ErrorIsQuiet
  <2>3. CASE UndoThen(c, "failed")
    BY <1>1, <1>3, <2>3, UndoIsQuiet
  <2> QED BY <2>1, <2>2, <2>3 DEF SetActive
<1>5. inactive' \subseteq endpoints'
  BY <1>0, <1>1 DEF SetActive, TypeOK
<1>6. triggers' \in [Calls -> Nat] /\ endpoints' \subseteq Calls
  BY <1>0, <1>1 DEF TypeOK
<1>7. ActiveTriggers' <= ActiveTriggers
  <2>1. PICK f \in [Calls -> Nat] : f = triggers
    BY <1>1 DEF TypeOK
  <2>2. SumOf(f, Calls) \in Nat
    BY CallsAreFinite, SumPicks
  <2> QED BY <1>0, <2>1, <2>2, ActiveIs, ActiveIsNext
<1> QED BY <1>0, <1>2, <1>4, <1>5, <1>6, <1>7, HandlerStep

-----------------------------------------------------------------------------
(* Steps that charge, give back, open or close *)

\* One session changes and no charge does.
LEMMA SessionStep ==
    ASSUME GatewayInv, NEW s \in Sessions, NEW y \in SessionRec,
           session' = [session EXCEPT ![s] = y],
           UNCHANGED <<spent, nonce, backing>>,
           session[s].total > 0 => y.total > 0,
           session[s].key = "ghost" => y.key = "ghost",
           y.key = "hash" => y.total > 0 /\ Balanced(s, backing, y)
    PROVE  /\ ChargesAreReal' /\ BudgetConserved' /\ session' \in [Sessions -> SessionRec]
           /\ \A u \in Sessions : session[u].key = "ghost" => session'[u].key = "ghost"
<1>0. session \in [Sessions -> SessionRec]
  BY DEF GatewayInv, TypeOK
<1>1. session'[s] = y /\ \A u \in Sessions : u # s => session'[u] = session[u]
  BY <1>0
<1>2. ChargesAreReal'
  BY <1>1 DEF ChargesAreReal, GatewayInv
<1>3. \A u \in Sessions : Balanced(u, backing', session'[u])
  <2> SUFFICES ASSUME NEW u \in Sessions PROVE Balanced(u, backing', session'[u])
    OBVIOUS
  <2>1. Balanced(u, backing, session[u])
    BY BudgetIs DEF GatewayInv
  <2>2. CASE u = s
    BY <1>1, <2>2 DEF Balanced
  <2>3. CASE u # s
    BY <1>1, <2>1, <2>3
  <2> QED BY <2>2, <2>3
<1>4. BudgetConserved'
  BY <1>3, BudgetIsNext
<1> QED BY <1>0, <1>1, <1>2, <1>4

LEMMA BeginKeeps ==
    ASSUME GatewayInv, NEW c \in Calls, Begin(c)
    PROVE  GatewayInv'
<1>0. TypeOK /\ call[c] = None /\ backing[c] = None
  BY DEF Begin, GatewayInv, CallsAreCovered
<1>1. UNCHANGED <<session, claimed, spent, nonce, backing>> /\ UNCHANGED toolVars
      /\ rate' = rate
  BY DEF Begin, authVars
<1>2. PICK t \in Tools, u \in Sessions \cup Payments \cup Nonces, k \in 0..MaxSlugs :
        /\ \/ u \in Sessions /\ t \notin Rest
           \/ u \in Payments /\ t \in Paid
           \/ u \in Nonces /\ t \notin Paid
        /\ call' = [call EXCEPT ![c] =
              [pc |-> "auth", tool |-> t, purse |-> u, then |-> "refused",
               via |-> IF u \in Sessions THEN "session"
                       ELSE IF u \in Payments THEN "x402" ELSE "siwx",
               todo |-> IF t = "register_middleware" THEN k ELSE 1]]
  BY DEF Begin
<1>3. PICK v \in {"session", "x402", "siwx"} :
        v = IF u \in Sessions THEN "session" ELSE IF u \in Payments THEN "x402" ELSE "siwx"
  OBVIOUS
<1>4. PICK n \in 0..(MaxSlugs + 1) : n = IF t = "register_middleware" THEN k ELSE 1
  BY GatewayBounds
<1> DEFINE r == [pc |-> "auth", tool |-> t, purse |-> u, then |-> "refused",
                 via |-> v, todo |-> n]
<1>5. r \in CallRec /\ r.pc = "auth" /\ r.via = v /\ r.tool = t /\ r.purse = u
  BY DEF CallRec, Ended
<1>6. call' = [call EXCEPT ![c] = r]
  BY <1>2, <1>3, <1>4
<1> HIDE DEF r
<1>7. /\ v = "session" => u \in Sessions /\ t \notin Rest
      /\ v = "x402" => u \in Payments /\ t \in Paid
      /\ v = "siwx" => u \in Nonces /\ t \notin Paid
  BY <1>2, <1>3, PursesDiffer
<1>8. Routed(r)
  BY <1>5, <1>7 DEF Routed
<1>9. Covered(c, r)'
  BY <1>0, <1>1, <1>5 DEF Covered, Served, ToolSteps, Ended
<1>10. CallsAreRouted' /\ CallsAreCovered'
  BY <1>0, <1>1, <1>5, <1>6, <1>8, <1>9, RoutingStep, CoveringStep DEF GatewayInv
<1>11. KeysAreHeld' /\ ProofStaysUsable'
  <2>1. r.pc \notin Busy
    BY <1>5 DEF Busy, Served, ToolSteps
  <2> QED BY <1>0, <1>1, <1>5, <1>6, <2>1, KeysStep DEF GatewayInv
<1>12. EndpointsAreKept' /\ QuotaOvershoot'
  BY <1>0, <1>1, <1>5, <1>6, RowsKeep DEF GatewayInv
<1>13. TypeOK'
  <2>1. endpoints' = endpoints /\ inactive' = inactive /\ triggers' = triggers
    BY <1>1 DEF toolVars
  <2> QED BY <1>0, <1>1, <1>5, <1>6, <2>1 DEF TypeOK
<1>14. ChargesAreReal'
  BY <1>1 DEF ChargesAreReal, GatewayInv
<1>15. BudgetConserved'
  BY <1>1, BudgetIs, BudgetIsNext DEF GatewayInv
<1> QED BY <1>10, <1>11, <1>12, <1>13, <1>14, <1>15 DEF GatewayInv

\* A call that holds nothing is turned away.
LEMMA TurnedAway ==
    ASSUME GatewayInv, NEW c \in Calls, call[c] # None, call[c].pc \in {"auth", "claim"},
           End(c, "refused"), UNCHANGED authVars, UNCHANGED toolVars, rate' = rate
    PROVE  GatewayInv'
<1>1. "refused" \in Ended /\ call[c].pc \notin Ended \cup Busy /\ ~Keeps(call[c])
  BY DEF Ended, Busy, Served, ToolSteps, Keeps
<1>2. PICK r \in CallRec : Moves(c, r) /\ Quiet(c, r) /\ r.pc = "refused"
  BY <1>1, EndIsQuiet
<1>3. rate' \in RateRec
  BY DEF GatewayInv, TypeOK, RateRec
<1> QED BY <1>1, <1>2, <1>3, CalmStep DEF Calm

LEMMA DecrementKeeps ==
    ASSUME GatewayInv, NEW c \in Calls, Decrement(c)
    PROVE  GatewayInv'
<1>0. /\ TypeOK /\ call[c] # None /\ call[c] \in CallRec /\ Routed(call[c])
      /\ call[c].pc = "auth" /\ call[c].via = "session" /\ backing[c] = None
  BY CallIsRec DEF Decrement, At, GatewayInv, CallsAreRouted, CallsAreCovered, Covered
<1>1. /\ claimed' = claimed /\ spent' = spent /\ nonce' = nonce /\ rate' = rate
      /\ UNCHANGED toolVars
  BY DEF Decrement
<1>2. CASE End(c, "refused") /\ UNCHANGED <<session, backing>>
  BY <1>0, <1>1, <1>2, TurnedAway DEF authVars
<1>3. CASE /\ Chargeable(call[c].purse, Price(call[c].tool))
           /\ session' = [session EXCEPT ![call[c].purse].left = @ - Price(call[c].tool)]
           /\ backing' = IF session[call[c].purse].key = "ghost" THEN backing
                         ELSE [backing EXCEPT ![c] =
                                 [purse |-> call[c].purse, cost |-> Price(call[c].tool)]]
           /\ Goto(c, "fetch")
  <2>1. PICK s \in Sessions : s = call[c].purse
    BY <1>0 DEF Routed
  <2>2. PICK n \in Nat : n = Price(call[c].tool)
    BY <1>0, PriceIsNat DEF CallRec
  <2>3. PICK x \in SessionRec : x = session[s]
    BY <1>0 DEF TypeOK
  <2>4. x.key # "none" /\ x.left \in Nat /\ x.left - n \in Nat /\ x.total \in Nat
    BY <1>3, <2>1, <2>2, <2>3 DEF Chargeable, SessionRec
  <2> DEFINE y == [x EXCEPT !.left = x.left - n]
  <2>5. /\ y \in SessionRec /\ y.key = x.key /\ y.total = x.total
        /\ y.left = x.left - n
    BY <2>4 DEF SessionRec
  <2>6. session' = [session EXCEPT ![s] = y]
    BY <1>3, <2>1, <2>2, <2>3
  <2> HIDE DEF y
  <2>7. "fetch" \in Pcs
    BY DEF Pcs
  <2>8. PICK r \in CallRec : Moves(c, r) /\ r.pc = "fetch"
    BY <1>0, <1>3, <2>7, Going
  <2>9. Routed(r)
    BY <1>0, <2>8 DEF Routed, Moves
  <2>10. CallsAreRouted'
    BY <2>8, <2>9, RoutingStep DEF Moves, GatewayInv
  <2>11. KeysAreHeld' /\ ProofStaysUsable'
    <3>1. r.via # "x402" /\ call[c].pc \notin Ended
      BY <1>0, <2>8 DEF Moves, Ended
    <3> QED BY <1>0, <1>1, <2>8, <3>1, KeysStep DEF Moves, GatewayInv
  <2>12. EndpointsAreKept' /\ QuotaOvershoot'
    <3>1. ~Keeps(call[c])
      BY <1>0 DEF Keeps
    <3> QED BY <1>1, <2>8, <3>1, RowsKeep DEF Moves, GatewayInv
  <2>13. session' \in [Sessions -> SessionRec] /\ session'[s] = y
         /\ \A u \in Sessions : u # s => session'[u] = session[u]
    BY <1>0, <2>5, <2>6 DEF TypeOK
  <2>14. PICK b \in [Calls -> {None} \cup Charge] : b = backing
    BY <1>0 DEF TypeOK
  <2>15. \A u \in Sessions : Balanced(u, b, session[u])
    BY <2>14, BudgetIs DEF GatewayInv
  <2>16. CASE x.key = "ghost"
    <3>1. backing' = backing
      BY <1>3, <2>1, <2>3, <2>16
    <3>2. /\ ChargesAreReal' /\ BudgetConserved'
          /\ \A u \in Sessions : session[u].key = "ghost" => session'[u].key = "ghost"
      BY <1>1, <2>3, <2>5, <2>6, <2>16, <3>1, SessionStep
    <3>3. Covered(c, r)'
      BY <1>0, <2>1, <2>5, <2>8, <2>13, <2>16 DEF Covered, Moves, Served, ToolSteps
    <3>4. CallsAreCovered'
      BY <1>0, <1>1, <2>8, <3>1, <3>2, <3>3, CoveringStep DEF Moves, GatewayInv
    <3>5. TypeOK'
      BY <1>0, <1>1, <2>8, <2>13, <3>1 DEF TypeOK, Moves, toolVars
    <3> QED BY <2>10, <2>11, <2>12, <3>2, <3>4, <3>5 DEF GatewayInv
  <2>17. CASE x.key # "ghost"
    <3> DEFINE ch == [purse |-> s, cost |-> n]
    <3>1. x.key = "hash"
      BY <2>4, <2>17 DEF SessionRec
    <3>2. ch \in Charge /\ ch # None /\ ch.purse = s /\ ch.cost = n
      BY NoneIsNoRecord DEF Charge
    <3>3. backing' = [backing EXCEPT ![c] = ch]
      BY <1>3, <2>1, <2>2, <2>3, <2>17
    <3>c. ch = [purse |-> r.purse, cost |-> Price(r.tool)]
      BY <2>1, <2>2, <2>8 DEF Moves
    <3> HIDE DEF ch
    <3>4. PICK e \in [Calls -> {None} \cup Charge] :
            e = backing' /\ e[c] = ch /\ \A d \in Calls \ {c} : e[d] = b[d]
      BY <2>14, <3>2, <3>3
    <3>5. ASSUME NEW u
          PROVE  /\ Charged(b, u) \in Nat
                 /\ Charged(e, u) = Charged(b, u) + IF ch.purse = u THEN ch.cost ELSE 0
      BY <1>0, <2>14, <3>2, <3>4, ChargeAdds
    <3>6. x.total > 0
      BY <2>3, <3>1 DEF GatewayInv, ChargesAreReal
    <3>7. \A u \in Sessions : Balanced(u, backing', session'[u])
      <4> SUFFICES ASSUME NEW u \in Sessions PROVE Balanced(u, e, session'[u])
        BY <3>4
      <4>1. Balanced(u, b, session[u])
        BY <2>15
      <4>2. CASE u = s
        <5>1. x.left + Charged(b, s) = x.total
          BY <2>3, <3>1, <4>1, <4>2 DEF Balanced
        <5>2. Charged(e, s) = Charged(b, s) + n /\ Charged(b, s) \in Nat
          BY <3>2, <3>5
        <5>3. y.left + Charged(e, s) = y.total
          BY <2>4, <2>5, <5>1, <5>2
        <5> QED BY <2>13, <4>2, <5>3 DEF Balanced
      <4>3. CASE u # s
        <5>1. Charged(e, u) = Charged(b, u)
          BY <3>2, <3>5, <4>3
        <5> QED BY <2>13, <4>1, <4>3, <5>1 DEF Balanced
      <4> QED BY <4>2, <4>3
    <3>8. BudgetConserved'
      BY <3>7, BudgetIsNext
    <3>9. ChargesAreReal'
      <4>1. \A u \in Sessions : /\ session'[u].total = session[u].total
                                /\ session'[u].key = session[u].key
        BY <2>3, <2>5, <2>13
      <4>2. ASSUME NEW d \in Calls, backing'[d] # None
            PROVE  /\ backing'[d].purse \in Sessions => session[backing'[d].purse].total > 0
                   /\ backing'[d].purse \in Payments => backing'[d].purse \in spent
                   /\ backing'[d].purse \in Nonces => nonce[backing'[d].purse] = "used"
        <5>1. CASE d = c
          BY <2>3, <3>2, <3>4, <3>6, <5>1, PursesDiffer
        <5>2. CASE d # c
          <6>1. backing'[d] = backing[d]
            BY <2>14, <3>4, <5>2
          <6> QED BY <4>2, <6>1 DEF GatewayInv, ChargesAreReal
        <5> QED BY <5>1, <5>2
      <4> QED BY <1>1, <4>1, <4>2 DEF GatewayInv, ChargesAreReal
    <3>10. Covered(c, r)'
      BY <1>0, <2>8, <3>4, <3>c DEF Covered, Moves, Served, ToolSteps
    <3>11. CallsAreCovered'
      <4>1. \A u \in Sessions : session[u].key = "ghost" => session'[u].key = "ghost"
        BY <2>3, <2>5, <2>13
      <4>2. \A d \in Calls \ {c} : backing'[d] = backing[d]
        BY <2>14, <3>4
      <4> QED BY <1>0, <1>1, <2>8, <3>10, <4>1, <4>2, CoveringStep DEF Moves, GatewayInv
    <3>12. TypeOK'
      BY <1>0, <1>1, <2>8, <2>13, <3>4 DEF TypeOK, Moves, toolVars
    <3> QED BY <2>10, <2>11, <2>12, <3>8, <3>9, <3>11, <3>12 DEF GatewayInv
  <2> QED BY <2>16, <2>17
<1> QED BY <1>2, <1>3 DEF Decrement

LEMMA ClaimKeeps ==
    ASSUME GatewayInv, NEW c \in Calls, Claim(c)
    PROVE  GatewayInv'
<1>0. /\ TypeOK /\ call[c] # None /\ call[c] \in CallRec /\ Routed(call[c])
      /\ call[c].pc = "claim" /\ Covered(c, call[c])
  BY CallIsRec DEF Claim, At, GatewayInv, CallsAreRouted, CallsAreCovered
<1>v. /\ call[c].via = "x402" /\ call[c].purse \in Payments /\ call[c].tool \in Paid
      /\ backing[c] = None
  BY <1>0 DEF Routed, Covered, Ended
<1>1. /\ session' = session /\ spent' = spent /\ nonce' = nonce /\ backing' = backing
      /\ rate' = rate /\ UNCHANGED toolVars
  BY DEF Claim
<1>2. CASE End(c, "refused") /\ claimed' = claimed
  BY <1>0, <1>1, <1>2, TurnedAway DEF authVars
<1>3. CASE End(c, "failed") /\ claimed' = claimed
  <2>1. "failed" \in Ended /\ call[c].pc \notin Ended \cup Busy /\ ~Keeps(call[c])
    BY <1>0 DEF Ended, Busy, Served, ToolSteps, Keeps
  <2>2. PICK r \in CallRec : Moves(c, r) /\ Quiet(c, r) /\ r.pc = "failed"
    BY <1>0, <1>3, <2>1, EndIsQuiet
  <2>3. rate' \in RateRec /\ UNCHANGED authVars
    BY <1>0, <1>1, <1>3 DEF TypeOK, RateRec, authVars
  <2> QED BY <1>1, <2>1, <2>2, <2>3, CalmStep DEF Calm
<1>4. CASE /\ claimed' = claimed \cup {Key(c)}
           /\ (Key(c) \notin claimed /\ Goto(c, "identify")) \/ End(c, "failed")
  <2>1. PICK r \in CallRec : /\ Moves(c, r)
                             /\ r.pc \in {"identify", "failed"}
                             /\ r.pc = "identify" => Key(c) \notin claimed
    <3>1. "identify" \in Pcs /\ "failed" \in Ended
      BY DEF Pcs, Ended
    <3>2. CASE Key(c) \notin claimed /\ Goto(c, "identify")
      BY <1>0, <3>1, <3>2, Going
    <3>3. CASE End(c, "failed")
      BY <1>0, <3>1, <3>3, Ending
    <3> QED BY <1>4, <3>2, <3>3
  <2>2. call' = [call EXCEPT ![c] = r] /\ r.via = "x402" /\ r.purse = call[c].purse
        /\ r.tool = call[c].tool
    BY <1>v, <2>1 DEF Moves
  <2>3. call'[c] = r /\ r # None /\ \A d \in Calls : d # c => call'[d] = call[d]
    BY <1>0, <2>2, NoneIsNoRecord DEF TypeOK
  <2>4. Routed(r)
    BY <1>0, <1>v, <2>1, <2>2, PriceIsNat DEF Routed, Paid, Rest
  <2>5. Covered(c, r)'
    BY <1>1, <1>v, <2>1, <2>2 DEF Covered, Served, ToolSteps, Ended
  <2>6. CallsAreRouted' /\ CallsAreCovered'
    BY <1>1, <2>2, <2>4, <2>5, RoutingStep, CoveringStep DEF GatewayInv
  <2>7. EndpointsAreKept' /\ QuotaOvershoot'
    <3>1. ~Keeps(call[c])
      BY <1>0 DEF Keeps
    <3> QED BY <1>1, <2>1, <2>2, <3>1, RowsKeep DEF GatewayInv
  <2>8. KeysAreHeld'
    <3> SUFFICES ASSUME NEW q \in Payments, NEW t \in Paid, NEW d \in Holding(<<q, t>>)',
                        NEW e \in Holding(<<q, t>>)'
                 PROVE  <<q, t>> \in claimed' /\ d = e
      BY DEF KeysAreHeld
    <3>1. ASSUME NEW f \in Holding(<<q, t>>)'
          PROVE  \/ f = c /\ r.pc = "identify" /\ <<q, t>> = Key(c)
                 \/ f # c /\ f \in Holding(<<q, t>>)
      BY <2>1, <2>2, <2>3 DEF Holding, Key, ToolSteps
    <3>2. ASSUME NEW f \in Holding(<<q, t>>) PROVE <<q, t>> \in claimed
      BY DEF GatewayInv, KeysAreHeld
    <3>3. \A f, h \in Holding(<<q, t>>) : f = h
      BY DEF GatewayInv, KeysAreHeld
    <3> QED BY <1>4, <2>1, <3>1, <3>2, <3>3
  <2>9. ProofStaysUsable'
    <3> SUFFICES ASSUME NEW k \in claimed'
                 PROVE  \/ k[1] \in spent'
                        \/ Holding(k)' # {}
                        \/ \E d \in Calls : /\ call'[d] # None /\ Key(d)' = k
                                            /\ call'[d].pc \in {"failed", "lost"}
      BY DEF ProofStaysUsable
    <3>1. CASE k = Key(c)
      <4>1. CASE r.pc = "identify"
        <5>1. c \in Holding(k)'
          BY <2>2, <2>3, <3>1, <4>1 DEF Holding, Key
        <5> QED BY <5>1
      <4>2. CASE r.pc = "failed"
        BY <2>2, <2>3, <3>1, <4>2 DEF Key
      <4> QED BY <2>1, <4>1, <4>2
    <3>2. CASE k \in claimed
      <4>1. \/ k[1] \in spent
            \/ Holding(k) # {}
            \/ \E d \in Calls : /\ call[d] # None /\ Key(d) = k
                                /\ call[d].pc \in {"failed", "lost"}
        BY <3>2 DEF GatewayInv, ProofStaysUsable
      <4>2. CASE Holding(k) # {}
        <5>1. PICK d \in Calls : d \in Holding(k)
          BY <4>2 DEF Holding
        <5>2. d # c
          BY <1>0, <5>1 DEF Holding, ToolSteps
        <5>3. d \in Holding(k)'
          BY <2>3, <5>1, <5>2 DEF Holding, Key
        <5> QED BY <5>3
      <4>3. CASE \E d \in Calls : /\ call[d] # None /\ Key(d) = k
                                  /\ call[d].pc \in {"failed", "lost"}
        BY <1>0, <2>3, <4>3 DEF Key
      <4> QED BY <1>1, <4>1, <4>2, <4>3
    <3> QED BY <1>4, <3>1, <3>2
  <2>10. claimed' \subseteq Payments \X Paid
    BY <1>0, <1>4, <1>v DEF TypeOK, Key
  <2>11. TypeOK'
    BY <1>0, <1>1, <2>2, <2>10 DEF TypeOK, toolVars
  <2>12. ChargesAreReal'
    BY <1>1 DEF ChargesAreReal, GatewayInv
  <2>13. BudgetConserved'
    BY <1>1, BudgetIs, BudgetIsNext DEF GatewayInv
  <2> QED BY <2>6, <2>7, <2>8, <2>9, <2>11, <2>12, <2>13 DEF GatewayInv
<1> QED BY <1>2, <1>3, <1>4 DEF Claim

\* A payment or a nonce, worth one call, is used up.
LEMMA OneCallCharge ==
    ASSUME GatewayInv, NEW c \in Calls, backing[c] = None, NEW x \in Charge,
           x.purse \notin Sessions, backing' = [backing EXCEPT ![c] = x],
           session' = session, spent \subseteq spent',
           \A n \in Nonces : nonce[n] = "used" => nonce'[n] = "used",
           x.purse \in Payments => x.purse \in spent',
           x.purse \in Nonces => nonce'[x.purse] = "used"
    PROVE  /\ BudgetConserved' /\ ChargesAreReal'
           /\ backing' \in [Calls -> {None} \cup Charge]
           /\ backing'[c] = x /\ x # None
           /\ \A d \in Calls \ {c} : backing'[d] = backing[d]
<1>1. PICK b \in [Calls -> {None} \cup Charge] : b = backing
  BY DEF GatewayInv, TypeOK
<1>2. PICK e \in [Calls -> {None} \cup Charge] :
        e = backing' /\ e[c] = x /\ \A d \in Calls \ {c} : e[d] = b[d]
  BY <1>1
<1>b. b[c] = None /\ e[c] = x /\ \A d \in Calls \ {c} : e[d] = b[d]
  BY <1>1, <1>2
<1>3. ASSUME NEW u \in Sessions PROVE Charged(e, u) = Charged(b, u)
  <2>1. /\ Charged(b, u) \in Nat
        /\ Charged(e, u) = Charged(b, u) + IF x.purse = u THEN x.cost ELSE 0
    BY <1>b, ChargeAdds
  <2> QED BY <2>1
<1>4. \A u \in Sessions : Balanced(u, backing', session'[u])
  BY <1>1, <1>2, <1>3, BudgetIs DEF Balanced, GatewayInv
<1>5. BudgetConserved'
  BY <1>4, BudgetIsNext
<1>6. ASSUME NEW d \in Calls, backing'[d] # None
      PROVE  /\ backing'[d].purse \in Sessions => session[backing'[d].purse].total > 0
             /\ backing'[d].purse \in Payments => backing'[d].purse \in spent'
             /\ backing'[d].purse \in Nonces => nonce'[backing'[d].purse] = "used"
  <2>1. CASE d = c
    BY <1>2, <2>1
  <2>2. CASE d # c
    <3>1. backing'[d] = backing[d]
      BY <1>1, <1>2, <2>2
    <3> QED BY <1>6, <3>1 DEF GatewayInv, ChargesAreReal
  <2> QED BY <2>1, <2>2
<1>7. ChargesAreReal'
  BY <1>6 DEF GatewayInv, ChargesAreReal
<1> QED BY <1>1, <1>2, <1>5, <1>7, NoneIsNoRecord

LEMMA ConsumesKeeps ==
    ASSUME GatewayInv, NEW c \in Calls, VerifySiwe(c) \/ RequireWalletAuth(c)
    PROVE  GatewayInv'
<1>0. /\ TypeOK /\ call[c] # None /\ call[c] \in CallRec /\ Routed(call[c])
      /\ call[c].pc = "auth" /\ Covered(c, call[c])
  BY CallIsRec DEF VerifySiwe, RequireWalletAuth, At, GatewayInv, CallsAreRouted, CallsAreCovered
<1>1. PICK p \in Pcs : /\ Consumes(c, p)
                       /\ p \in Served \ {"settle", "reply", "trigger_insert", "wire",
                                           "endpoint_insert", "trigger_quota", "rate"}
                       /\ p = "identify" => call[c].tool \notin Rest
                       /\ p = "endpoint_quota" => call[c].tool \in Registers
  <2>1. CASE VerifySiwe(c)
    <3>1. call[c].tool \notin Rest
      BY <2>1 DEF VerifySiwe, Free, Rest
    <3> QED BY <2>1, <3>1 DEF VerifySiwe, Pcs, Served, ToolSteps
  <2>2. CASE RequireWalletAuth(c)
    <3>1. PICK t \in Rest : t = call[c].tool
      BY <2>2 DEF RequireWalletAuth
    <3>2. /\ Enter(t) \in {"open", "close", "endpoint_quota", "set"}
          /\ Enter(t) = "endpoint_quota" => t \in Registers
      BY DEF Rest, Registers, Enter
    <3> QED BY <2>2, <3>1, <3>2 DEF RequireWalletAuth, Pcs, Served, ToolSteps
  <2> QED BY <2>1, <2>2
<1>v. /\ call[c].via = "siwx" /\ call[c].purse \in Nonces /\ call[c].tool \notin Paid
      /\ backing[c] = None
  BY <1>0 DEF Routed, Covered, VerifySiwe, RequireWalletAuth, Rest, Paid, CallRec
<1>2. /\ session' = session /\ claimed' = claimed /\ spent' = spent /\ rate' = rate
      /\ UNCHANGED toolVars
  BY <1>1 DEF Consumes
<1>3. CASE End(c, "refused") /\ UNCHANGED <<nonce, backing>>
  BY <1>0, <1>2, <1>3, TurnedAway DEF authVars
<1>4. CASE /\ nonce' = [nonce EXCEPT ![call[c].purse] = "used"]
           /\ backing' = [backing EXCEPT ![c] = [purse |-> call[c].purse, cost |-> 1]]
           /\ Goto(c, p)
  <2>1. PICK r \in CallRec : Moves(c, r) /\ r.pc = p
    BY <1>0, <1>4, Going
  <2>2. PICK n \in Nonces : n = call[c].purse
    BY <1>v
  <2>3. PICK x \in Charge : x = [purse |-> n, cost |-> 1]
    BY DEF Charge
  <2>4. x.purse = n /\ n \notin Sessions /\ n \notin Payments
    BY <2>3, PursesDiffer
  <2>5. /\ nonce' \in [Nonces -> {"none", "live", "used", "expired"}]
        /\ nonce'[n] = "used"
        /\ \A m \in Nonces : nonce[m] = "used" => nonce'[m] = "used"
    BY <1>0, <1>4, <2>2 DEF TypeOK
  <2>6. backing' = [backing EXCEPT ![c] = x]
    BY <1>4, <2>2, <2>3
  <2>7. /\ BudgetConserved' /\ ChargesAreReal'
        /\ backing' \in [Calls -> {None} \cup Charge]
        /\ backing'[c] # None
        /\ \A d \in Calls \ {c} : backing'[d] = backing[d]
    BY <1>2, <1>v, <2>4, <2>5, <2>6, OneCallCharge
  <2>8. Routed(r)
    BY <1>0, <1>1, <1>v, <2>1 DEF Routed, Moves, Served, ToolSteps
  <2>9. Covered(c, r)'
    BY <1>1, <1>v, <2>1, <2>7 DEF Covered, Moves, Served, ToolSteps
  <2>10. CallsAreRouted' /\ CallsAreCovered'
    BY <1>2, <2>1, <2>7, <2>8, <2>9, RoutingStep, CoveringStep DEF Moves, GatewayInv
  <2>11. KeysAreHeld' /\ ProofStaysUsable'
    <3>1. r.via # "x402" /\ call[c].pc \notin Ended
      BY <1>0, <1>v, <2>1 DEF Moves, Ended
    <3> QED BY <1>0, <1>2, <2>1, <3>1, KeysStep DEF Moves, GatewayInv
  <2>12. EndpointsAreKept' /\ QuotaOvershoot'
    <3>1. ~Keeps(call[c])
      BY <1>0 DEF Keeps
    <3> QED BY <1>1, <1>2, <2>1, <3>1, RowsKeep DEF Moves, GatewayInv
  <2>13. TypeOK'
    BY <1>0, <1>2, <2>1, <2>5, <2>7 DEF TypeOK, Moves, toolVars
  <2> QED BY <2>7, <2>10, <2>11, <2>12, <2>13 DEF GatewayInv
<1> QED BY <1>1, <1>3, <1>4 DEF Consumes

\* A budget of at least one unit is granted.
LEMMA BudgetIsGranted ==
    ASSUME NEW b \in Requests
    PROVE  EffectiveBudget(b) \in Nat /\ EffectiveBudget(b) > 0
<1>1. PICK n \in Nat : n = IF b = None THEN DefaultBudget ELSE b
  BY GatewayBounds
<1>2. PICK m \in Nat : m = Min({n, MaxBudget})
  BY GatewayBounds, LeastOfTwo
<1>3. EffectiveBudget(b) = Max({1, m})
  BY <1>1, <1>2 DEF EffectiveBudget
<1> QED BY <1>3, GreatestOfTwo

LEMMA OpenedIs ==
    ASSUME NEW b \in Requests, NEW t \in BOOLEAN
    PROVE  /\ Opened(b, t) \in SessionRec /\ Opened(b, t).key = "hash"
           /\ Opened(b, t).total > 0 /\ Opened(b, t).left = Opened(b, t).total
           /\ Opened(b, t).late = FALSE
BY BudgetIsGranted DEF Opened, SessionRec

\* A route opens or closes a session and answers.
LEMMA RouteStep ==
    ASSUME GatewayInv, NEW c \in Calls, At(c, "open") \/ At(c, "close"),
           NEW s \in Sessions, NEW y \in SessionRec, session' = [session EXCEPT ![s] = y],
           UNCHANGED <<claimed, spent, nonce, backing, rate, toolVars>>,
           session[s].total > 0 => y.total > 0,
           session[s].key = "ghost" => y.key = "ghost",
           y.key = "hash" => y.total > 0 /\ Balanced(s, backing, y),
           Goto(c, "reply")
    PROVE  GatewayInv'
<1>0. /\ TypeOK /\ call[c] # None /\ call[c] \in CallRec /\ Routed(call[c])
      /\ call[c].pc \in {"open", "close"} /\ Covered(c, call[c])
  BY CallIsRec DEF At, GatewayInv, CallsAreRouted, CallsAreCovered
<1>1. /\ call[c].via = "siwx" /\ backing[c] # None /\ call[c].pc \notin Ended
      /\ ~Keeps(call[c])
  BY <1>0 DEF Routed, Covered, Served, ToolSteps, Ended, Keeps
<1>2. PICK r \in CallRec : Moves(c, r) /\ r.pc = "reply"
  <2>1. "reply" \in Pcs
    BY DEF Pcs
  <2> QED BY <1>0, <2>1, Going
<1>3. call' = [call EXCEPT ![c] = r] /\ r.via = "siwx"
  BY <1>1, <1>2 DEF Moves
<1>4. /\ ChargesAreReal' /\ BudgetConserved' /\ session' \in [Sessions -> SessionRec]
      /\ \A u \in Sessions : session[u].key = "ghost" => session'[u].key = "ghost"
  BY SessionStep
<1>5. Routed(r)
  BY <1>0, <1>2 DEF Routed, Moves
<1>6. Covered(c, r)'
  BY <1>1, <1>2, <1>3 DEF Covered
<1>7. CallsAreRouted' /\ CallsAreCovered'
  BY <1>3, <1>4, <1>5, <1>6, RoutingStep, CoveringStep DEF GatewayInv
<1>8. KeysAreHeld' /\ ProofStaysUsable'
  BY <1>1, <1>2, <1>3, KeysStep DEF Moves, GatewayInv
<1>9. EndpointsAreKept' /\ QuotaOvershoot'
  BY <1>1, <1>2, <1>3, RowsKeep DEF GatewayInv
<1>10. TypeOK'
  BY <1>0, <1>3, <1>4 DEF TypeOK, toolVars
<1> QED BY <1>4, <1>7, <1>8, <1>9, <1>10 DEF GatewayInv

\* A route fails.
LEMMA RouteFails ==
    ASSUME GatewayInv, NEW c \in Calls, At(c, "open") \/ At(c, "close"),
           NEW e \in {"failed", "refused"}, End(c, e), session' = session,
           UNCHANGED <<claimed, spent, nonce, backing, rate, toolVars>>
    PROVE  GatewayInv'
<1>0. /\ TypeOK /\ call[c] # None /\ Routed(call[c]) /\ call[c].pc \in {"open", "close"}
  BY DEF At, GatewayInv, CallsAreRouted
<1>1. /\ call[c].via = "siwx" /\ call[c].pc \notin Ended /\ ~Keeps(call[c]) /\ e \in Ended
  BY <1>0 DEF Routed, Ended, Keeps
<1>2. PICK r \in CallRec : Moves(c, r) /\ Quiet(c, r) /\ r.pc = e
  BY <1>0, <1>1, EndIsQuiet
<1>3. UNCHANGED authVars /\ UNCHANGED toolVars /\ rate' \in RateRec
  BY <1>0 DEF authVars, TypeOK, RateRec
<1> QED BY <1>1, <1>2, <1>3, CalmStep DEF Calm

LEMMA OpenSessionKeeps ==
    ASSUME GatewayInv, NEW c \in Calls, OpenSession(c)
    PROVE  GatewayInv'
<1>0. /\ At(c, "open") /\ UNCHANGED <<claimed, spent, nonce, backing, rate, toolVars>>
      /\ TypeOK
  BY DEF OpenSession, GatewayInv
<1>1. CASE End(c, "failed") /\ UNCHANGED session
  BY <1>0, <1>1, RouteFails
<1>2. ASSUME NEW s \in Sessions, NEW b \in Requests, NEW t \in BOOLEAN,
             session[s] = NoSession, session' = [session EXCEPT ![s] = Opened(b, t)],
             Goto(c, "reply")
      PROVE  GatewayInv'
  <2>1. PICK y \in SessionRec : /\ y = Opened(b, t) /\ y.key = "hash" /\ y.total > 0
                                /\ y.left = y.total
    BY OpenedIs
  <2>2. session[s].total = 0 /\ session[s].key = "none"
    BY <1>2 DEF NoSession
  <2>3. Charged(backing, s) = 0
    <3>1. PICK a : a = backing
      OBVIOUS
    <3>2. \A d \in Calls : a[d] = None \/ a[d].purse # s
      BY <2>2, <3>1 DEF GatewayInv, ChargesAreReal
    <3> QED BY <3>1, <3>2, NothingCharged
  <2>4. Balanced(s, backing, y)
    BY <2>1, <2>3 DEF Balanced, SessionRec
  <2>5. session' = [session EXCEPT ![s] = y]
    BY <1>2, <2>1
  <2> QED BY <1>0, <1>2, <2>1, <2>2, <2>4, <2>5, RouteStep
<1> QED BY <1>1, <1>2 DEF OpenSession

\* A session that is closed, or expires for good.
Gone(x) == [x EXCEPT !.key = "none", !.left = 0]

LEMMA GoneIs ==
    ASSUME NEW x \in SessionRec
    PROVE  /\ Gone(x) \in SessionRec /\ Gone(x).key = "none" /\ Gone(x).total = x.total
           /\ Gone(x).late = x.late
BY DEF Gone, SessionRec

LEMMA CloseSessionKeeps ==
    ASSUME GatewayInv, NEW c \in Calls, CloseSession(c)
    PROVE  GatewayInv'
<1>0. /\ At(c, "close") /\ UNCHANGED <<claimed, spent, nonce, backing, rate, toolVars>>
      /\ TypeOK
  BY DEF CloseSession, GatewayInv
<1>1. CASE End(c, "refused") /\ UNCHANGED session
  BY <1>0, <1>1, RouteFails
<1>2. ASSUME NEW s \in Sessions, session[s].key = "hash",
             session' = [session EXCEPT ![s].key = "none", ![s].left = 0],
             Goto(c, "reply")
      PROVE  GatewayInv'
  <2>1. PICK x \in SessionRec : x = session[s]
    BY <1>0 DEF TypeOK
  <2>2. PICK y \in SessionRec : y = Gone(x) /\ y.key = "none" /\ y.total = x.total
    BY GoneIs
  <2>3. session' = [session EXCEPT ![s] = y]
    BY <1>0, <1>2, <2>1, <2>2 DEF Gone, TypeOK
  <2> QED BY <1>0, <1>2, <2>1, <2>2, <2>3, RouteStep
<1> QED BY <1>1, <1>2 DEF CloseSession

LEMMA SettleKeeps ==
    ASSUME GatewayInv, NEW c \in Calls, Settle(c)
    PROVE  GatewayInv'
<1>0. /\ TypeOK /\ call[c] # None /\ call[c] \in CallRec /\ Routed(call[c])
      /\ call[c].pc = "settle" /\ Covered(c, call[c])
  BY CallIsRec DEF Settle, At, GatewayInv, CallsAreRouted, CallsAreCovered
<1>v. /\ call[c].via = "x402" /\ call[c].purse \in Payments /\ backing[c] = None
      /\ call[c].tool \in Paid /\ LetIn(c) /\ call[c].pc \notin Ended
      /\ call[c].pc \in Busy
  BY <1>0 DEF Routed, Covered, Ended, LetIn, Served, Busy
<1>1. /\ session' = session /\ claimed' = claimed /\ nonce' = nonce /\ rate' = rate
      /\ UNCHANGED toolVars
  BY DEF Settle
<1>2. PICK q \in Payments : q = call[c].purse
  BY <1>v
<1>3. spent \subseteq spent' /\ spent' \subseteq Payments
  BY <1>0, <1>2 DEF Settle, TypeOK
<1>4. CASE UndoThen(c, "failed") /\ backing' = backing
  <2>1. "failed" \in Ended
    BY DEF Ended
  <2>2. PICK r \in CallRec : Moves(c, r) /\ r.then = "failed" /\ r.pc = "undo"
    BY <1>0, <1>v, <1>4, <2>1, Undoing DEF Undoes
  <2>3. Routed(r)
    BY <1>0, <1>v, <2>2, PriceIsNat DEF Routed, Moves, CallRec
  <2>4. Covered(c, r)'
    BY <1>v, <1>4, <2>2 DEF Covered, Moves
  <2>5. CallsAreRouted' /\ CallsAreCovered'
    BY <1>1, <1>3, <1>4, <2>2, <2>3, <2>4, RoutingStep, CoveringStep DEF Moves, GatewayInv
  <2>6. KeysAreHeld' /\ ProofStaysUsable'
    <3>1. r.pc \in Busy
      BY <2>2 DEF Busy
    <3> QED BY <1>0, <1>v, <1>1, <1>3, <2>2, <3>1, KeysStep DEF Moves, GatewayInv
  <2>7. EndpointsAreKept' /\ QuotaOvershoot'
    <3>1. Keeps(call[c]) => Keeps(r)
      BY <2>2 DEF Keeps, Moves
    <3> QED BY <1>1, <2>2, <3>1, RowsKeep DEF Moves, GatewayInv
  <2>8. ChargesAreReal'
    BY <1>1, <1>3, <1>4 DEF ChargesAreReal, GatewayInv
  <2>9. BudgetConserved'
    BY <1>1, <1>4, BudgetIs, BudgetIsNext DEF GatewayInv
  <2>10. TypeOK'
    BY <1>0, <1>1, <1>3, <1>4, <2>2 DEF TypeOK, Moves, toolVars
  <2> QED BY <2>5, <2>6, <2>7, <2>8, <2>9, <2>10 DEF GatewayInv
<1>5. CASE /\ spent' = spent \cup {call[c].purse}
           /\ backing' = [backing EXCEPT ![c] = [purse |-> call[c].purse, cost |-> 1]]
           /\ Goto(c, "reply")
  <2>1. PICK r \in CallRec : Moves(c, r) /\ r.pc = "reply"
    <3>1. "reply" \in Pcs
      BY DEF Pcs
    <3> QED BY <1>0, <1>5, <3>1, Going
  <2>2. PICK x \in Charge : x = [purse |-> q, cost |-> 1]
    BY DEF Charge
  <2>3. x.purse = q /\ q \notin Sessions /\ q \notin Nonces /\ q \in spent'
    BY <1>2, <1>5, <2>2, PursesDiffer
  <2>4. backing' = [backing EXCEPT ![c] = x]
    BY <1>2, <1>5, <2>2
  <2>5. \A m \in Nonces : nonce[m] = "used" => nonce'[m] = "used"
    BY <1>1
  <2>6. /\ BudgetConserved' /\ ChargesAreReal'
        /\ backing' \in [Calls -> {None} \cup Charge]
        /\ backing'[c] # None
        /\ \A d \in Calls \ {c} : backing'[d] = backing[d]
    BY <1>1, <1>3, <1>v, <2>3, <2>4, <2>5, OneCallCharge
  <2>7. Routed(r)
    BY <1>0, <2>1 DEF Routed, Moves
  <2>8. Covered(c, r)'
    BY <1>v, <1>2, <2>1, <2>3, <2>6 DEF Covered, Moves
  <2>9. CallsAreRouted' /\ CallsAreCovered'
    BY <1>1, <1>3, <2>1, <2>6, <2>7, <2>8, RoutingStep, CoveringStep DEF Moves, GatewayInv
  <2>10. KeysAreHeld' /\ ProofStaysUsable'
    <3>1. r.pc \in Busy
      BY <2>1 DEF Busy, Served
    <3> QED BY <1>0, <1>v, <1>1, <1>3, <2>1, <3>1, KeysStep DEF Moves, GatewayInv
  <2>11. EndpointsAreKept' /\ QuotaOvershoot'
    <3>1. Keeps(call[c]) => Keeps(r)
      BY <2>1 DEF Keeps, Moves
    <3> QED BY <1>1, <2>1, <3>1, RowsKeep DEF Moves, GatewayInv
  <2>12. TypeOK'
    BY <1>0, <1>1, <1>3, <2>1, <2>6 DEF TypeOK, Moves, toolVars
  <2> QED BY <2>6, <2>9, <2>10, <2>11, <2>12 DEF GatewayInv
<1> QED BY <1>4, <1>5 DEF Settle

\* The record that Refund leaves.
Refunded(x, n) == [x EXCEPT !.left = x.left + n,
                            !.key = IF x.key = "none" THEN "ghost" ELSE x.key]

LEMMA RefundedIs ==
    ASSUME NEW x \in SessionRec, NEW n \in Nat
    PROVE  /\ Refunded(x, n) \in SessionRec /\ Refunded(x, n).total = x.total
           /\ Refunded(x, n).left = x.left + n /\ Refunded(x, n).late = x.late
           /\ Refunded(x, n).key = IF x.key = "none" THEN "ghost" ELSE x.key
<1>1. PICK k \in {"none", "hash", "ghost"} : k = IF x.key = "none" THEN "ghost" ELSE x.key
  BY DEF SessionRec
<1>2. PICK m \in Nat : m = x.left + n
  BY DEF SessionRec
<1>3. Refunded(x, n) = [x EXCEPT !.left = m, !.key = k]
  BY <1>1, <1>2 DEF Refunded
<1> QED BY <1>1, <1>2, <1>3 DEF SessionRec

LEMMA UndoSessionKeeps ==
    ASSUME GatewayInv, NEW c \in Calls, At(c, "undo"), call[c].via = "session",
           Refund(call[c].purse, Price(call[c].tool)),
           backing' = [backing EXCEPT ![c] = None], End(c, call[c].then),
           UNCHANGED <<claimed, spent, nonce, rate, toolVars>>
    PROVE  GatewayInv'
<1>0. /\ TypeOK /\ call[c] # None /\ call[c] \in CallRec /\ Routed(call[c])
      /\ call[c].pc = "undo" /\ Covered(c, call[c])
  BY CallIsRec DEF At, GatewayInv, CallsAreRouted, CallsAreCovered
<1>1. PICK s \in Sessions : s = call[c].purse
  BY <1>0 DEF Routed
<1>2. PICK n \in Nat : n = Price(call[c].tool)
  BY <1>0, PriceIsNat DEF CallRec
<1>3. PICK x \in SessionRec : x = session[s]
  BY <1>0 DEF TypeOK
<1>4. PICK y \in SessionRec :
        /\ y = Refunded(x, n) /\ y.total = x.total /\ y.left = x.left + n
        /\ y.key = IF x.key = "none" THEN "ghost" ELSE x.key
  BY RefundedIs
<1>5. session' = [session EXCEPT ![s] = y]
  BY <1>0, <1>1, <1>2, <1>3, <1>4 DEF Refund, Refunded, TypeOK
<1>6. PICK r \in CallRec : Moves(c, r) /\ r.pc = call[c].then /\ r.pc \in Ended
  BY <1>0, Ending DEF CallRec
<1>7. /\ session' \in [Sessions -> SessionRec] /\ session'[s] = y
      /\ \A u \in Sessions : u # s => session'[u] = session[u]
  BY <1>0, <1>5 DEF TypeOK
<1>8. PICK b \in [Calls -> {None} \cup Charge] : b = backing
  BY <1>0 DEF TypeOK
<1>9. PICK e \in [Calls -> {None} \cup Charge] :
        e = backing' /\ e[c] = None /\ \A d \in Calls \ {c} : e[d] = b[d]
  BY <1>8
<1>10. PICK ch \in Charge : ch = b[c] /\ ch.purse = s /\ ch.cost = n
  <2>1. b[c] = [purse |-> s, cost |-> n]
    BY <1>0, <1>1, <1>2, <1>8 DEF Covered
  <2> QED BY <2>1 DEF Charge
<1>11. ASSUME NEW u
       PROVE  /\ Charged(e, u) \in Nat
              /\ Charged(b, u) = Charged(e, u) + IF ch.purse = u THEN ch.cost ELSE 0
  <2>1. e[c] = None /\ b[c] = ch /\ \A d \in Calls \ {c} : b[d] = e[d]
    BY <1>9, <1>10
  <2> QED BY <2>1, ChargeAdds
<1>12. \A u \in Sessions : Balanced(u, backing', session'[u])
  <2> SUFFICES ASSUME NEW u \in Sessions PROVE Balanced(u, e, session'[u])
    BY <1>9
  <2>1. Balanced(u, b, session[u])
    BY <1>8, BudgetIs DEF GatewayInv
  <2>2. CASE u = s
    <3>1. Charged(b, s) = Charged(e, s) + n /\ Charged(e, s) \in Nat
      BY <1>10, <1>11
    <3>2. x.key = "hash" => x.left + Charged(b, s) = x.total
      BY <1>3, <2>1, <2>2 DEF Balanced
    <3>3. x.left \in Nat /\ (y.key = "hash" => x.key = "hash")
      BY <1>4 DEF SessionRec
    <3>4. y.key = "hash" => y.left + Charged(e, s) = y.total
      BY <1>4, <3>1, <3>2, <3>3
    <3> QED BY <1>7, <2>2, <3>4 DEF Balanced
  <2>3. CASE u # s
    <3>1. Charged(e, u) = Charged(b, u)
      BY <1>10, <1>11, <2>3
    <3> QED BY <1>7, <2>1, <2>3, <3>1 DEF Balanced
  <2> QED BY <2>2, <2>3
<1>13. BudgetConserved'
  BY <1>12, BudgetIsNext
<1>14. \A u \in Sessions : /\ session'[u].total = session[u].total
                           /\ session'[u].key = "hash" => session[u].key = "hash"
                           /\ session[u].key = "ghost" => session'[u].key = "ghost"
  BY <1>3, <1>4, <1>7
<1>15. ChargesAreReal'
  <2>1. ASSUME NEW d \in Calls, backing'[d] # None
        PROVE  /\ backing'[d].purse \in Sessions => session[backing'[d].purse].total > 0
               /\ backing'[d].purse \in Payments => backing'[d].purse \in spent
               /\ backing'[d].purse \in Nonces => nonce[backing'[d].purse] = "used"
    <3>1. backing'[d] = backing[d]
      BY <1>8, <1>9, <2>1
    <3> QED BY <2>1, <3>1 DEF GatewayInv, ChargesAreReal
  <2> QED BY <1>14, <2>1 DEF GatewayInv, ChargesAreReal
<1>16. Routed(r)
  BY <1>0, <1>6 DEF Routed, Moves, Ended
<1>17. Covered(c, r)'
  BY <1>6 DEF Covered, Moves, Served, ToolSteps, Ended
<1>18. CallsAreRouted' /\ CallsAreCovered'
  <2>1. \A d \in Calls \ {c} : backing'[d] = backing[d]
    BY <1>8, <1>9
  <2> QED BY <1>6, <1>14, <1>16, <1>17, <2>1, RoutingStep, CoveringStep DEF Moves, GatewayInv
<1>19. KeysAreHeld' /\ ProofStaysUsable'
  <2>1. r.via # "x402" /\ call[c].pc \notin Ended
    BY <1>0, <1>6 DEF Moves, Ended
  <2> QED BY <1>0, <1>6, <2>1, KeysStep DEF Moves, GatewayInv
<1>20. EndpointsAreKept' /\ QuotaOvershoot'
  <2>1. Keeps(call[c]) => Keeps(r)
    BY <1>0, <1>6 DEF Keeps, Moves
  <2>2. r.pc \notin {"trigger_insert", "endpoint_insert"}
    BY <1>6 DEF Ended
  <2> QED BY <1>6, <2>1, <2>2, RowsKeep DEF Moves, GatewayInv
<1>21. TypeOK'
  BY <1>0, <1>6, <1>7, <1>9 DEF TypeOK, Moves, toolVars
<1> QED BY <1>13, <1>15, <1>18, <1>19, <1>20, <1>21 DEF GatewayInv

LEMMA UndoKeyKeeps ==
    ASSUME GatewayInv, NEW c \in Calls, At(c, "undo"), call[c].via = "x402",
           claimed' = claimed \ {Key(c)}, End(c, call[c].then),
           UNCHANGED <<session, backing, spent, nonce, rate, toolVars>>
    PROVE  GatewayInv'
<1>0. /\ TypeOK /\ call[c] # None /\ call[c] \in CallRec /\ Routed(call[c])
      /\ call[c].pc = "undo" /\ Covered(c, call[c])
  BY CallIsRec DEF At, GatewayInv, CallsAreRouted, CallsAreCovered
<1>1. PICK r \in CallRec : Moves(c, r) /\ r.pc = call[c].then /\ r.pc \in Ended
  BY <1>0, Ending DEF CallRec
<1>2. call'[c] = r /\ r # None /\ \A d \in Calls : d # c => call'[d] = call[d]
  BY <1>0, <1>1, NoneIsNoRecord DEF TypeOK, Moves
<1>3. Routed(r)
  BY <1>0, <1>1 DEF Routed, Moves, Ended
<1>4. Covered(c, r)'
  BY <1>1 DEF Covered, Moves, Served, ToolSteps, Ended
<1>5. CallsAreRouted' /\ CallsAreCovered'
  BY <1>1, <1>3, <1>4, RoutingStep, CoveringStep DEF Moves, GatewayInv
<1>6. EndpointsAreKept' /\ QuotaOvershoot'
  <2>1. Keeps(call[c]) => Keeps(r)
    BY <1>0, <1>1 DEF Keeps, Moves
  <2>2. r.pc \notin {"trigger_insert", "endpoint_insert"}
    BY <1>1 DEF Ended
  <2> QED BY <1>1, <2>1, <2>2, RowsKeep DEF Moves, GatewayInv
<1>7. ASSUME NEW k, NEW d \in Holding(k)' PROVE d # c /\ d \in Holding(k)
  <2>1. r.pc \notin {"identify", "rate", "settle", "undo", "reply"} \cup ToolSteps
    BY <1>1 DEF Ended, ToolSteps
  <2> QED BY <1>2, <2>1 DEF Holding, Key
<1>8. c \in Holding(Key(c))
  BY <1>0 DEF Holding
<1>9. Key(c) \in Payments \X Paid
  BY <1>0 DEF Key, Routed
<1>10. KeysAreHeld'
  <2> SUFFICES ASSUME NEW q \in Payments, NEW t \in Paid, NEW d \in Holding(<<q, t>>)',
                      NEW e \in Holding(<<q, t>>)'
               PROVE  <<q, t>> \in claimed' /\ d = e
    BY DEF KeysAreHeld
  <2>1. d # c /\ d \in Holding(<<q, t>>) /\ e \in Holding(<<q, t>>)
    BY <1>7
  <2>2. d = e /\ <<q, t>> \in claimed
    BY <2>1 DEF GatewayInv, KeysAreHeld
  <2>3. <<q, t>> # Key(c)
    <3> SUFFICES ASSUME <<q, t>> = Key(c) PROVE FALSE
      OBVIOUS
    <3>1. c \in Holding(<<q, t>>)
      BY <1>8
    <3> QED BY <2>1, <3>1 DEF GatewayInv, KeysAreHeld
  <2> QED BY <2>2, <2>3
<1>11. ProofStaysUsable'
  <2> SUFFICES ASSUME NEW k \in claimed'
               PROVE  \/ k[1] \in spent'
                      \/ Holding(k)' # {}
                      \/ \E d \in Calls : /\ call'[d] # None /\ Key(d)' = k
                                          /\ call'[d].pc \in {"failed", "lost"}
    BY DEF ProofStaysUsable
  <2>1. k \in claimed /\ k # Key(c)
    OBVIOUS
  <2>2. \/ k[1] \in spent
        \/ Holding(k) # {}
        \/ \E d \in Calls : /\ call[d] # None /\ Key(d) = k
                            /\ call[d].pc \in {"failed", "lost"}
    BY <2>1 DEF GatewayInv, ProofStaysUsable
  <2>3. CASE Holding(k) # {}
    <3>1. PICK d \in Calls : d \in Holding(k)
      BY <2>3 DEF Holding
    <3>2. d # c
      BY <2>1, <3>1 DEF Holding
    <3>3. d \in Holding(k)'
      BY <1>2, <3>1, <3>2 DEF Holding, Key
    <3> QED BY <3>3
  <2>4. CASE \E d \in Calls : /\ call[d] # None /\ Key(d) = k
                              /\ call[d].pc \in {"failed", "lost"}
    BY <1>0, <1>2, <2>4 DEF Key
  <2> QED BY <2>2, <2>3, <2>4
<1>12. TypeOK'
  BY <1>0, <1>1 DEF TypeOK, Moves, toolVars
<1>13. ChargesAreReal'
  BY DEF ChargesAreReal, GatewayInv
<1>14. BudgetConserved'
  BY BudgetIs, BudgetIsNext DEF GatewayInv
<1> QED BY <1>5, <1>6, <1>10, <1>11, <1>12, <1>13, <1>14 DEF GatewayInv

LEMMA UndoKeeps ==
    ASSUME GatewayInv, NEW c \in Calls, Undo(c)
    PROVE  GatewayInv'
<1>0. /\ At(c, "undo") /\ call[c] # None /\ call[c].pc = "undo" /\ TypeOK
      /\ spent' = spent /\ nonce' = nonce /\ rate' = rate /\ UNCHANGED toolVars
  BY DEF Undo, At, GatewayInv
<1>1. CASE /\ End(c, "failed")
           /\ UNCHANGED <<session, backing, claimed>>
  <2>1. "failed" \in Ended /\ call[c].pc \notin Ended
    BY <1>0 DEF Ended
  <2>2. PICK r \in CallRec : Moves(c, r) /\ Quiet(c, r) /\ r.pc = "failed"
    BY <1>0, <1>1, <2>1, EndIsQuiet
  <2>3. Keeps(call[c]) => Keeps(r)
    BY <1>0, <2>2 DEF Keeps, Moves
  <2>4. UNCHANGED authVars /\ rate' \in RateRec
    BY <1>0, <1>1 DEF authVars, TypeOK, RateRec
  <2> QED BY <1>0, <2>2, <2>3, <2>4, CalmStep DEF Calm
<1>2. CASE /\ call[c].via = "session"
           /\ Refund(call[c].purse, Price(call[c].tool))
           /\ backing' = [backing EXCEPT ![c] = None]
           /\ End(c, call[c].then)
           /\ UNCHANGED claimed
  BY <1>0, <1>2, UndoSessionKeeps
<1>3. CASE /\ call[c].via = "x402"
           /\ claimed' = claimed \ {Key(c)}
           /\ End(c, call[c].then)
           /\ UNCHANGED <<session, backing>>
  BY <1>0, <1>3, UndoKeyKeeps
<1> QED BY <1>1, <1>2, <1>3 DEF Undo

-----------------------------------------------------------------------------
(* Time, failure and the beginning *)

\* A session that changes without a call.
LEMMA AloneStep ==
    ASSUME GatewayInv, UNCHANGED call, UNCHANGED toolVars, backing' = backing,
           spent' = spent, claimed' \subseteq claimed,
           KeysAreHeld', CallsAreCovered', ChargesAreReal', BudgetConserved',
           session' \in [Sessions -> SessionRec],
           nonce' \in [Nonces -> {"none", "live", "used", "expired"}], rate' \in RateRec
    PROVE  GatewayInv'
<1>0. /\ TypeOK /\ endpoints' = endpoints /\ inactive' = inactive
      /\ triggers' = triggers
  BY DEF GatewayInv, toolVars
<1>1. TypeOK'
  BY <1>0 DEF TypeOK, RateRec
<1>2. CallsAreRouted'
  BY DEF GatewayInv, CallsAreRouted, Routed
<1>3. EndpointsAreKept'
  BY <1>0 DEF GatewayInv, EndpointsAreKept, Keeps
<1>4. ProofStaysUsable'
  <2>1. \A k : Holding(k)' = Holding(k) /\ \A c : Key(c)' = Key(c)
    BY DEF Holding, Key
  <2> QED BY <2>1 DEF GatewayInv, ProofStaysUsable
<1>5. QuotaOvershoot'
  <2>1. ActiveTriggers' = ActiveTriggers
    BY <1>0, ActiveIs, ActiveIsNext
  <2>2. \A p : Pending(p)' = Pending(p)
    BY DEF Pending, At
  <2> QED BY <1>0, <2>1, <2>2 DEF GatewayInv, QuotaOvershoot
<1> QED BY <1>1, <1>2, <1>3, <1>4, <1>5 DEF GatewayInv

LEMMA SameKeys ==
    ASSUME GatewayInv, UNCHANGED call, claimed' = claimed
    PROVE  KeysAreHeld'
<1>1. \A k : Holding(k)' = Holding(k)
  BY DEF Holding, Key
<1> QED BY <1>1 DEF GatewayInv, KeysAreHeld

LEMMA SessionExpiresKeeps ==
    ASSUME GatewayInv, NEW s \in Sessions, SessionExpires(s)
    PROVE  GatewayInv'
<1>0. /\ session[s].key = "hash" /\ TypeOK
      /\ UNCHANGED <<call, claimed, spent, nonce, backing, rate>> /\ UNCHANGED toolVars
  BY DEF SessionExpires, GatewayInv
<1>1. PICK x \in SessionRec : x = session[s]
  BY <1>0 DEF TypeOK
<1>2. PICK y \in SessionRec : /\ session' = [session EXCEPT ![s] = y]
                              /\ y.total = x.total
                              /\ y.key = "hash" => y.left = x.left
  <2>1. CASE x.late
    <3>1. Gone(x) \in SessionRec /\ Gone(x).key = "none" /\ Gone(x).total = x.total
      BY GoneIs
    <3>2. session' = [session EXCEPT ![s] = Gone(x)]
      BY <1>0, <1>1, <2>1 DEF SessionExpires, Gone, TypeOK
    <3> QED BY <3>1, <3>2
  <2>2. CASE ~x.late
    <3> DEFINE y == [x EXCEPT !.late = TRUE]
    <3>1. y \in SessionRec /\ y.total = x.total /\ y.left = x.left
      BY DEF SessionRec
    <3>2. session' = [session EXCEPT ![s] = y]
      BY <1>1, <2>2 DEF SessionExpires
    <3> QED BY <3>1, <3>2
  <2> QED BY <2>1, <2>2
<1>3. x.total > 0 /\ Balanced(s, backing, x)
  BY <1>0, <1>1, BudgetIs DEF GatewayInv, ChargesAreReal
<1>4. y.key = "hash" => y.total > 0 /\ Balanced(s, backing, y)
  BY <1>0, <1>1, <1>2, <1>3 DEF Balanced
<1>5. /\ ChargesAreReal' /\ BudgetConserved' /\ session' \in [Sessions -> SessionRec]
      /\ \A u \in Sessions : session[u].key = "ghost" => session'[u].key = "ghost"
  BY <1>0, <1>1, <1>2, <1>3, <1>4, SessionStep
<1>6. CallsAreCovered'
  <2> SUFFICES ASSUME NEW d \in Calls
               PROVE  IF call'[d] = None THEN backing'[d] = None ELSE Covered(d, call[d])'
    BY DEF CallsAreCovered
  <2>1. CASE call[d] = None
    BY <1>0, <2>1 DEF GatewayInv, CallsAreCovered
  <2>2. CASE call[d] # None
    <3>1. /\ Covered(d, call[d])
          /\ call[d].pc = "fetch" => call[d].via = "session" /\ call[d].purse \in Sessions
      BY <2>2 DEF GatewayInv, CallsAreCovered, CallsAreRouted, Routed
    <3> QED BY <1>0, <1>5, <2>2, <3>1 DEF Covered
  <2> QED BY <2>1, <2>2
<1>7. KeysAreHeld'
  BY <1>0, SameKeys
<1>8. nonce' \in [Nonces -> {"none", "live", "used", "expired"}] /\ rate' \in RateRec
  BY <1>0 DEF TypeOK, RateRec
<1> QED BY <1>0, <1>5, <1>6, <1>7, <1>8, AloneStep

LEMMA KeyExpiresKeeps ==
    ASSUME GatewayInv, NEW k \in claimed, KeyExpires(k)
    PROVE  GatewayInv'
<1>0. /\ UNCHANGED <<call, session, spent, nonce, backing, rate>> /\ UNCHANGED toolVars
      /\ claimed' = claimed \ {k} /\ TypeOK
  BY DEF KeyExpires, GatewayInv
<1>1. KeysAreHeld'
  <2> SUFFICES ASSUME NEW q \in Payments, NEW t \in Paid, NEW d \in Holding(<<q, t>>)',
                      NEW e \in Holding(<<q, t>>)'
               PROVE  <<q, t>> \in claimed' /\ d = e
    BY DEF KeysAreHeld
  <2>1. d \in Holding(<<q, t>>) /\ e \in Holding(<<q, t>>)
    BY <1>0 DEF Holding, Key
  <2>2. d \in Calls /\ Active(d) /\ Key(d) = <<q, t>>
    BY <2>1 DEF Holding, Active, Ended, ToolSteps
  <2>3. <<q, t>> # k
    BY <2>2 DEF KeyExpires
  <2> QED BY <1>0, <2>1, <2>3 DEF GatewayInv, KeysAreHeld
<1>2. CallsAreCovered' /\ ChargesAreReal'
  BY <1>0 DEF GatewayInv, CallsAreCovered, Covered, ChargesAreReal
<1>3. BudgetConserved'
  BY <1>0, BudgetIs, BudgetIsNext DEF GatewayInv
<1>4. /\ nonce' \in [Nonces -> {"none", "live", "used", "expired"}] /\ rate' \in RateRec
      /\ session' \in [Sessions -> SessionRec]
  BY <1>0 DEF TypeOK, RateRec
<1> QED BY <1>0, <1>1, <1>2, <1>3, <1>4, AloneStep

LEMMA NonceTurnsKeeps ==
    ASSUME GatewayInv, NEW n \in Nonces, NonceTurns(n)
    PROVE  GatewayInv'
<1>0. /\ UNCHANGED <<call, session, claimed, spent, backing, rate>> /\ UNCHANGED toolVars
      /\ TypeOK
  BY DEF NonceTurns, GatewayInv
<1>1. /\ nonce' \in [Nonces -> {"none", "live", "used", "expired"}]
      /\ \A m \in Nonces : nonce[m] = "used" => nonce'[m] = "used"
  BY <1>0 DEF NonceTurns, TypeOK
<1>2. CallsAreCovered'
  BY <1>0 DEF GatewayInv, CallsAreCovered, Covered
<1>3. ChargesAreReal'
  BY <1>0, <1>1 DEF GatewayInv, ChargesAreReal
<1>4. BudgetConserved'
  BY <1>0, BudgetIs, BudgetIsNext DEF GatewayInv
<1>5. KeysAreHeld'
  BY <1>0, SameKeys
<1>6. rate' \in RateRec /\ session' \in [Sessions -> SessionRec]
  BY <1>0 DEF TypeOK, RateRec
<1> QED BY <1>0, <1>1, <1>2, <1>3, <1>4, <1>5, <1>6, AloneStep

\* WindowEnds, and a step of another part of the system.
LEMMA RateAloneKeeps ==
    ASSUME GatewayInv, UNCHANGED <<call, authVars>>, UNCHANGED toolVars, rate' \in RateRec
    PROVE  GatewayInv'
<1>0. UNCHANGED <<call, session, claimed, spent, nonce, backing>> /\ TypeOK
  BY DEF authVars, GatewayInv
<1>2. CallsAreCovered' /\ ChargesAreReal'
  BY <1>0 DEF GatewayInv, CallsAreCovered, Covered, ChargesAreReal
<1>3. BudgetConserved'
  BY <1>0, BudgetIs, BudgetIsNext DEF GatewayInv
<1>4. KeysAreHeld'
  BY <1>0, SameKeys
<1>5. /\ nonce' \in [Nonces -> {"none", "live", "used", "expired"}]
      /\ session' \in [Sessions -> SessionRec]
  BY <1>0 DEF TypeOK
<1> QED BY <1>0, <1>2, <1>3, <1>4, <1>5, AloneStep

LEMMA CrashKeeps ==
    ASSUME GatewayInv, Crash
    PROVE  GatewayInv'
<1>0. /\ UNCHANGED <<session, claimed, spent, nonce, backing, rate>> /\ UNCHANGED toolVars
      /\ TypeOK
  BY DEF Crash, authVars, GatewayInv
<1>1. ASSUME NEW c \in Calls, ~Active(c) PROVE call'[c] = call[c]
  BY <1>1 DEF Crash
<1>2. ASSUME NEW c \in Calls, Active(c)
      PROVE  \E r \in CallRec : /\ call'[c] = r /\ r.pc = "lost"
                                /\ r.via = call[c].via /\ r.tool = call[c].tool
                                /\ r.purse = call[c].purse
  <2>1. PICK a \in CallRec : a = call[c]
    BY <1>0, <1>2, CallIsRec DEF Active
  <2> DEFINE r == [a EXCEPT !.pc = "lost", !.then = "lost", !.todo = 0]
  <2>2. 0 \in 0..(MaxSlugs + 1)
    BY GatewayBounds
  <2>3. r \in CallRec /\ r.pc = "lost" /\ r.via = a.via /\ r.tool = a.tool
        /\ r.purse = a.purse
    BY <2>2 DEF CallRec, Ended
  <2>4. call'[c] = r
    BY <1>2, <2>1 DEF Crash
  <2> QED BY <2>1, <2>3, <2>4
<1>3. call' \in [Calls -> {None} \cup CallRec]
  <2>1. call' = [c \in Calls |-> call'[c]]
    BY DEF Crash
  <2>2. \A c \in Calls : call'[c] \in {None} \cup CallRec
    BY <1>0, <1>1, <1>2 DEF TypeOK
  <2> QED BY <2>1, <2>2
<1>4. TypeOK'
  BY <1>0, <1>3 DEF TypeOK, toolVars
<1>5. CallsAreRouted'
  <2> SUFFICES ASSUME NEW c \in Calls, call'[c] # None PROVE Routed(call'[c])
    BY DEF CallsAreRouted, Routed
  <2>1. CASE Active(c)
    <3>1. Routed(call[c])
      BY <2>1 DEF GatewayInv, CallsAreRouted, Active
    <3> QED BY <1>2, <2>1, <3>1 DEF Routed
  <2>2. CASE ~Active(c)
    BY <1>1, <2>2 DEF GatewayInv, CallsAreRouted
  <2> QED BY <2>1, <2>2
<1>6. CallsAreCovered'
  <2> SUFFICES ASSUME NEW c \in Calls
               PROVE  IF call'[c] = None THEN backing'[c] = None ELSE Covered(c, call[c])'
    BY DEF CallsAreCovered
  <2>1. CASE Active(c)
    <3>1. call'[c] # None /\ call'[c].pc = "lost"
      BY <1>2, <2>1, NoneIsNoRecord
    <3> QED BY <3>1 DEF Covered, Served, ToolSteps, Ended
  <2>2. CASE ~Active(c)
    BY <1>0, <1>1, <2>2 DEF GatewayInv, CallsAreCovered, Covered
  <2> QED BY <2>1, <2>2
<1>7. EndpointsAreKept'
  <2> SUFFICES ASSUME NEW e \in endpoints PROVE call'[e] # None /\ Keeps(call'[e])
    BY <1>0 DEF EndpointsAreKept, Keeps, toolVars
  <2>1. e \in Calls /\ call[e] # None /\ Keeps(call[e])
    BY <1>0 DEF GatewayInv, EndpointsAreKept, TypeOK
  <2>2. CASE Active(e)
    BY <1>2, <2>1, <2>2, NoneIsNoRecord DEF Keeps
  <2>3. CASE ~Active(e)
    BY <1>1, <2>1, <2>3
  <2> QED BY <2>2, <2>3
<1>8. KeysAreHeld'
  <2>1. ASSUME NEW k, NEW d \in Holding(k)' PROVE FALSE
    <3>1. d \in Calls /\ call'[d] # None /\ call'[d].pc \notin Ended
      BY DEF Holding, Ended, ToolSteps
    <3>2. CASE Active(d)
      BY <1>2, <3>1, <3>2 DEF Ended
    <3>3. CASE ~Active(d)
      BY <1>1, <3>1, <3>3 DEF Active
    <3> QED BY <3>2, <3>3
  <2> QED BY <2>1 DEF KeysAreHeld
<1>9. ProofStaysUsable'
  <2> SUFFICES ASSUME NEW k \in claimed
               PROVE  \/ k[1] \in spent'
                      \/ \E d \in Calls : /\ call'[d] # None /\ Key(d)' = k
                                          /\ call'[d].pc \in {"failed", "lost"}
    BY <1>0 DEF ProofStaysUsable
  <2>1. \/ k[1] \in spent
        \/ Holding(k) # {}
        \/ \E d \in Calls : /\ call[d] # None /\ Key(d) = k
                            /\ call[d].pc \in {"failed", "lost"}
    BY DEF GatewayInv, ProofStaysUsable
  <2>2. CASE Holding(k) # {}
    <3>1. PICK d \in Calls : d \in Holding(k)
      BY <2>2 DEF Holding
    <3>2. Active(d) /\ Key(d) = k
      BY <3>1 DEF Holding, Active, Ended, ToolSteps
    <3>3. call'[d] # None /\ call'[d].pc = "lost" /\ Key(d)' = k
      BY <1>2, <3>2, NoneIsNoRecord DEF Key
    <3> QED BY <3>3
  <2>3. CASE \E d \in Calls : /\ call[d] # None /\ Key(d) = k
                              /\ call[d].pc \in {"failed", "lost"}
    <3>1. PICK d \in Calls : /\ call[d] # None /\ Key(d) = k
                             /\ call[d].pc \in {"failed", "lost"}
      BY <2>3
    <3>2. call'[d] = call[d]
      BY <1>1, <3>1 DEF Active, Ended
    <3>3. Key(d)' = k
      BY <3>1, <3>2 DEF Key
    <3> QED BY <3>1, <3>2, <3>3
  <2> QED BY <1>0, <2>1, <2>2, <2>3
<1>10. ChargesAreReal'
  BY <1>0 DEF GatewayInv, ChargesAreReal
<1>11. BudgetConserved'
  BY <1>0, BudgetIs, BudgetIsNext DEF GatewayInv
<1>12. QuotaOvershoot'
  <2>1. ASSUME NEW p \in ToolSteps
        PROVE  /\ Cardinality(Pending(p)) \in Nat /\ Cardinality(Pending(p)') \in Nat
               /\ Cardinality(Pending(p)') <= Cardinality(Pending(p))
    <3>0. PICK A, B : A = Pending(p) /\ B = Pending(p)'
      OBVIOUS
    <3>1. B \subseteq A
      <4>1. ASSUME NEW c \in Calls, call'[c] # None, call'[c].pc = p
            PROVE  call[c] # None /\ call[c].pc = p
        <5>1. p # "lost"
          BY DEF ToolSteps
        <5> QED BY <1>1, <1>2, <4>1, <5>1
      <4> QED BY <3>0, <4>1 DEF Pending, At
    <3>2. IsFiniteSet(A)
      BY <3>0, CallsAreFinite, FS_Subset DEF Pending
    <3> QED BY <3>0, <3>1, <3>2, FS_Subset, FS_CardinalityType
  <2>2. "trigger_insert" \in ToolSteps
    BY DEF ToolSteps
  <2>3. ActiveTriggers' = ActiveTriggers /\ ActiveTriggers \in Nat
    <3>1. PICK f \in [Calls -> Nat] : f = triggers
      BY <1>0 DEF TypeOK
    <3>2. SumOf(f, Calls) \in Nat
      BY CallsAreFinite, SumPicks
    <3>3. triggers' = triggers
      BY <1>0 DEF toolVars
    <3> QED BY <3>1, <3>2, <3>3, ActiveIs, ActiveIsNext
  <2>4. Cardinality(Calls) \in Nat
    BY CallsAreFinite, FS_CardinalityType
  <2> QED BY <2>1, <2>2, <2>3, <2>4, GatewayBounds DEF GatewayInv, QuotaOvershoot
<1> QED BY <1>4, <1>5, <1>6, <1>7, <1>8, <1>9, <1>10, <1>11, <1>12 DEF GatewayInv

-----------------------------------------------------------------------------
(* The invariant *)

LEMMA InitKeeps == ASSUME Init PROVE GatewayInv
<1>0. /\ \A c \in Calls : call[c] = None /\ backing[c] = None /\ triggers[c] = 0
      /\ claimed = {} /\ spent = {} /\ endpoints = {}
  BY DEF Init
<1>1. ASSUME NEW s \in Sessions
      PROVE  /\ session[s] \in SessionRec
             /\ session[s].key = "hash" =>
                  session[s].total > 0 /\ session[s].left = session[s].total
  <2>1. session[s] \in {NoSession} \cup {Opened(b, TRUE) : b \in Requests}
    BY DEF Init
  <2>2. CASE session[s] = NoSession
    BY <2>2 DEF NoSession, SessionRec
  <2>3. CASE \E b \in Requests : session[s] = Opened(b, TRUE)
    BY <2>3, OpenedIs
  <2> QED BY <2>1, <2>2, <2>3
<1>2. TypeOK
  <2>1. session \in [Sessions -> SessionRec]
    <3>1. session = [s \in Sessions |-> session[s]]
      BY DEF Init
    <3> QED BY <1>1, <3>1
  <2>2. rate \in [n : 0..RateLimit, ttl : BOOLEAN]
    BY GatewayBounds DEF Init
  <2> QED BY <2>1, <2>2 DEF Init, TypeOK
<1>3. CallsAreRouted /\ CallsAreCovered /\ EndpointsAreKept /\ ProofStaysUsable
  BY <1>0 DEF CallsAreRouted, CallsAreCovered, EndpointsAreKept, ProofStaysUsable
<1>4. ChargesAreReal
  BY <1>0, <1>1 DEF ChargesAreReal
<1>5. KeysAreHeld
  BY <1>0 DEF KeysAreHeld, Holding
<1>6. BudgetConserved
  <2>1. PICK b : b = backing
    OBVIOUS
  <2>2. ASSUME NEW s \in Sessions PROVE Balanced(s, backing, session[s])
    <3>1. Charged(b, s) = 0
      BY <1>0, <2>1, NothingCharged
    <3>2. session[s].left \in Nat
      BY <1>1 DEF SessionRec
    <3> QED BY <1>1, <2>1, <3>1, <3>2 DEF Balanced
  <2> QED BY <2>2, BudgetIs
<1>7. QuotaOvershoot
  <2>1. PICK f : f = triggers
    OBVIOUS
  <2>2. SumOf(f, Calls) = 0
    BY <1>0, <2>1, CallsAreFinite, SumOfZeros
  <2>3. ActiveTriggers = 0
    BY <2>1, <2>2, ActiveIs
  <2>4. Pending("trigger_insert") = {}
    BY <1>0 DEF Pending, At
  <2>5. Cardinality({}) = 0 /\ Cardinality(Calls) \in Nat
    BY CallsAreFinite, FS_EmptySet, FS_CardinalityType
  <2>6. Cardinality(Pending("trigger_insert")) = 0
    BY <2>4, <2>5, Zenon
  <2> QED BY <2>3, <2>5, <2>6, GatewayBounds DEF QuotaOvershoot
<1> QED BY <1>2, <1>3, <1>4, <1>5, <1>6, <1>7 DEF GatewayInv

\* The steps of one request.
LEMMA HandleKeeps ==
    ASSUME GatewayInv, NEW c \in Calls, Handle(c)
    PROVE  GatewayInv'
<1>1. CASE HandleSession(c)
  BY <1>1, DecrementKeeps, FetchKeeps, RateKeeps DEF HandleSession
<1>2. CASE HandleX402(c)
  BY <1>2, VerifyKeeps, ClaimKeeps, IdentifyKeeps, RateKeeps, SettleKeeps DEF HandleX402
<1>3. CASE HandleSiwx(c)
  BY <1>3, ConsumesKeeps, IdentifyKeeps, RateKeeps DEF HandleSiwx
<1>4. CASE Route(c)
  BY <1>4, ConsumesKeeps, OpenSessionKeeps, CloseSessionKeeps DEF Route
<1>5. CASE Tool(c)
  BY <1>5, EndpointQuotaKeeps, EndpointInsertKeeps, WireKeeps, TriggerQuotaKeeps,
     TriggerInsertKeeps, DeleteTriggerKeeps, ReadKeeps, SetActiveKeeps DEF Tool
<1> QED BY <1>1, <1>2, <1>3, <1>4, <1>5, BeginKeeps, UndoKeeps, ReplyKeeps DEF Handle

LEMMA NextKeeps ==
    ASSUME GatewayInv, [Next]_vars
    PROVE  GatewayInv'
<1>1. CASE WindowEnds
  <2>1. rate' \in RateRec
    BY <1>1, GatewayBounds DEF WindowEnds, RateRec
  <2> QED BY <1>1, <2>1, RateAloneKeeps DEF WindowEnds
<1>2. CASE UNCHANGED vars
  <2>1. rate' \in RateRec
    BY <1>2 DEF vars, GatewayInv, TypeOK, RateRec
  <2> QED BY <1>2, <2>1, RateAloneKeeps DEF vars
<1> QED BY <1>1, <1>2, HandleKeeps, SessionExpiresKeeps, KeyExpiresKeeps, NonceTurnsKeeps,
           CrashKeeps DEF Next

\* GatewayInv holds in every reachable state, for any number of calls, sessions,
\* payment proofs and nonces and for every failure: a call's step, its charge, its
\* dedup key and its endpoint row stay together.
THEOREM GatewayCorrect == Spec => []GatewayInv
<1>1. Init => GatewayInv
  BY InitKeeps
<1>2. GatewayInv /\ [Next]_vars => GatewayInv'
  BY NextKeeps
<1> QED BY <1>1, <1>2, PTL DEF Spec

\* The variables keep their types.
THEOREM GatewayTypes == Spec => []TypeOK
<1>1. GatewayInv => TypeOK
  BY DEF GatewayInv
<1> QED BY <1>1, GatewayCorrect, PTL

\* The Lua script and HINCRBY conserve the budget: while a session's hash exists, what
\* is left and what its calls were charged add up to what was granted.
THEOREM BudgetIsConserved == Spec => []BudgetConserved
<1>1. GatewayInv => BudgetConserved
  BY DEF GatewayInv
<1> QED BY <1>1, GatewayCorrect, PTL

\* check_trigger_quota, each followed by an insert of its own, is overrun by less than
\* the number of concurrent requests, also by calls of register_middleware, which add
\* several triggers each.
THEOREM QuotasAreBounded == Spec => []QuotaOvershoot
<1>1. GatewayInv => QuotaOvershoot
  BY DEF GatewayInv
<1> QED BY <1>1, GatewayCorrect, PTL

\* SET NX makes a payment proof exclusive: at most one call holds the dedup key of a
\* proof and a tool, and the key is there as long as the call is.
THEOREM ProofsAreExclusive == Spec => []ExclusiveProof
<1>1. GatewayInv => ExclusiveProof
  <2> SUFFICES ASSUME GatewayInv, NEW p \in Payments, NEW t \in Paid
               PROVE  /\ Cardinality(Holding(<<p, t>>)) <= 1
                      /\ Holding(<<p, t>>) # {} => <<p, t>> \in claimed
    BY Zenon DEF ExclusiveProof
  <2>1. PICK H : H = Holding(<<p, t>>)
    OBVIOUS
  <2>2. \A c \in H : <<p, t>> \in claimed /\ \A d \in H : c = d
    BY <2>1 DEF GatewayInv, KeysAreHeld
  <2>3. CASE H = {}
    BY <2>1, <2>3, FS_EmptySet
  <2>4. CASE H # {}
    <3>1. PICK c \in H : TRUE
      BY <2>4
    <3>2. H = {c}
      BY <2>2, <3>1
    <3>3. Cardinality({c}) = 1
      BY FS_Singleton
    <3> QED BY <2>1, <2>2, <3>1, <3>2, <3>3
  <2> QED BY <2>3, <2>4
<1> QED BY <1>1, GatewayCorrect, PTL

\* A proof that bought nothing is not burnt: its dedup key outlives the call only when
\* the proof was settled, or the process or a service failed.
THEOREM ProofsStayUsable == Spec => []ProofStaysUsable
<1>1. GatewayInv => ProofStaysUsable
  BY DEF GatewayInv
<1> QED BY <1>1, GatewayCorrect, PTL

\* No registration that answers with an error or refuses leaves its endpoint row.
THEOREM NoOrphanEndpoints == Spec => []NoOrphans
<1>1. GatewayInv => NoOrphans
  BY DEF GatewayInv, NoOrphans, EndpointsAreKept, Keeps
<1> QED BY <1>1, GatewayCorrect, PTL

-----------------------------------------------------------------------------
(* The gateway implements Purses *)

\* A call that is being undone will not have been answered.
Undone == \A c \in Calls : At(c, "undo") => call[c].then # "answered"

\* Call c goes on, and is neither answered nor will be by undoing it.
Goes(c) == \E r \in CallRec : /\ call' = [call EXCEPT ![c] = r] /\ r.pc # "answered"
                              /\ r.pc = "undo" => r.then # "answered"

LEMMA GoesOn ==
    ASSUME TypeOK, NEW c \in Calls, call[c] # None,
           \/ \E p \in Pcs \ {"answered", "undo"} : Goto(c, p)
           \/ \E e \in Ended \ {"answered"} : End(c, e) \/ UndoThen(c, e)
           \/ ReturnError(c)
           \/ Return(c)
    PROVE  Goes(c)
<1>1. CASE \E p \in Pcs \ {"answered", "undo"} : Goto(c, p)
  BY <1>1, Going DEF Goes, Moves
<1>2. CASE \E e \in Ended \ {"answered"} : End(c, e)
  BY <1>2, Ending DEF Goes, Moves
<1>3. CASE \E e \in Ended \ {"answered"} : UndoThen(c, e)
  <2>1. PICK e \in Ended \ {"answered"} : UndoThen(c, e)
    BY <1>3
  <2>2. PICK r \in CallRec : /\ Moves(c, r) /\ r.then = e
                             /\ r.pc = IF Undoes(call[c]) THEN "undo" ELSE e
    BY <2>1, Undoing
  <2> QED BY <2>2 DEF Goes, Moves
<1>4. CASE ReturnError(c)
  <2>1. PICK r \in CallRec : /\ Moves(c, r) /\ r.then = "errored"
                             /\ r.pc = IF call[c].via = "x402" THEN "undo" ELSE "errored"
    BY <1>4, Erring
  <2> QED BY <2>1 DEF Goes, Moves
<1>5. CASE Return(c)
  <2>1. PICK r \in CallRec : /\ Moves(c, r)
                             /\ r.pc = IF call[c].via = "x402" THEN "settle" ELSE "reply"
    BY <1>5, Returning
  <2> QED BY <2>1 DEF Goes, Moves
<1> QED BY <1>1, <1>2, <1>3, <1>4, <1>5

\* The ends and the steps that the handlers name.
LEMMA StepNames ==
    /\ {"refused", "left", "failed", "errored"} \subseteq Ended \ {"answered"}
    /\ {"fetch", "rate", "claim", "identify", "reply"} \cup ToolSteps
          \subseteq Pcs \ {"answered", "undo"}
BY DEF Ended, Pcs, ToolSteps

LEMMA HandleGoes ==
    ASSUME GatewayInv, Undone, NEW c \in Calls, Handle(c), ~Reply(c)
    PROVE  Goes(c) /\ ~At(c, "answered")
<1>0. TypeOK /\ (call[c] # None => call[c] \in CallRec /\ call[c].tool \in Tools)
  BY CallIsRec DEF GatewayInv, CallRec
<1>1. CASE Begin(c)
  <2>1. PICK t \in Tools, u \in Sessions \cup Payments \cup Nonces, k \in 0..MaxSlugs :
          call' = [call EXCEPT ![c] =
                [pc |-> "auth", tool |-> t, purse |-> u, then |-> "refused",
                 via |-> IF u \in Sessions THEN "session"
                         ELSE IF u \in Payments THEN "x402" ELSE "siwx",
                 todo |-> IF t = "register_middleware" THEN k ELSE 1]]
    BY <1>1 DEF Begin
  <2>2. PICK v \in {"session", "x402", "siwx"} :
          v = IF u \in Sessions THEN "session"
              ELSE IF u \in Payments THEN "x402" ELSE "siwx"
    OBVIOUS
  <2>3. PICK j \in 0..(MaxSlugs + 1) : j = IF t = "register_middleware" THEN k ELSE 1
    BY GatewayBounds
  <2> DEFINE r == [pc |-> "auth", tool |-> t, purse |-> u, then |-> "refused",
                   via |-> v, todo |-> j]
  <2>4. r \in CallRec /\ r.pc = "auth"
    BY DEF CallRec, Ended
  <2>5. call' = [call EXCEPT ![c] = r]
    BY <2>1, <2>2, <2>3
  <2> QED BY <1>1, <2>4, <2>5 DEF Begin, Goes, At
<1>2. CASE HandleSession(c)
  <2>1. call[c] # None /\ call[c].pc \in {"auth", "fetch", "rate"}
    BY <1>2 DEF HandleSession, Decrement, Fetch, RateSession, At
  <2>2. Enter(call[c].tool) \in ToolSteps
    BY <1>0, <2>1, EnterLeads
  <2>3. \/ \E p \in Pcs \ {"answered", "undo"} : Goto(c, p)
        \/ \E e \in Ended \ {"answered"} : End(c, e) \/ UndoThen(c, e)
    BY <1>2, <2>2, StepNames
       DEF HandleSession, Decrement, Fetch, RateSession, WithinLimit, FailOpen
  <2> QED BY <1>0, <2>1, <2>3, GoesOn DEF At
<1>3. CASE HandleX402(c)
  <2>1. call[c] # None /\ call[c].pc \in {"auth", "claim", "identify", "rate", "settle"}
    BY <1>3 DEF HandleX402, Verify, Claim, IdentifyPayer, RatePayer, Settle, At
  <2>2. Enter(call[c].tool) \in ToolSteps
    BY <1>0, <2>1, EnterLeads
  <2>3. \/ \E p \in Pcs \ {"answered", "undo"} : Goto(c, p)
        \/ \E e \in Ended \ {"answered"} : End(c, e) \/ UndoThen(c, e)
    BY <1>3, <2>2, StepNames
       DEF HandleX402, Verify, Claim, IdentifyPayer, RatePayer, Settle, WithinLimit, FailOpen
  <2> QED BY <1>0, <2>1, <2>3, GoesOn DEF At
<1>4. CASE HandleSiwx(c) \/ Route(c)
  <2>1. call[c] # None /\ call[c].pc \in {"auth", "identify", "rate", "open", "close"}
    BY <1>4 DEF HandleSiwx, VerifySiwe, IdentifyWallet, RateWallet, Route,
                RequireWalletAuth, OpenSession, CloseSession, At
  <2>2. Enter(call[c].tool) \in ToolSteps
    BY <1>0, <2>1, EnterLeads
  <2>3. \/ \E p \in Pcs \ {"answered", "undo"} : Goto(c, p)
        \/ \E e \in Ended \ {"answered"} : End(c, e) \/ UndoThen(c, e)
    BY <1>4, <2>2, StepNames
       DEF HandleSiwx, VerifySiwe, IdentifyWallet, RateWallet, Route, Consumes,
           RequireWalletAuth, OpenSession, CloseSession, WithinLimit, FailOpen
  <2> QED BY <1>0, <2>1, <2>3, GoesOn DEF At
<1>5. CASE Tool(c)
  <2>1. call[c] # None /\ call[c].pc \in ToolSteps
    BY <1>5 DEF Tool, EndpointQuota, EndpointInsert, Wire, TriggerQuota,
       MiddlewareTrigger, CreateTrigger, ActivateTemplate, DeleteTrigger, Read, SetActive,
       At, ToolSteps
  <2>2. LetIn(c)
    BY <2>1, AtTool DEF At
  <2>3. CASE /\ call[c].pc \in {"trigger_quota", "trigger_insert"} /\ call[c].todo > 1
             /\ \/ /\ call[c].pc = "trigger_quota"
                   /\ call' = [call EXCEPT ![c].todo = @ - 1]
                \/ call' = [call EXCEPT ![c].todo = @ - 1, ![c].pc = "trigger_quota"]
    <3>1. PICK r \in CallRec : Moves(c, r) /\ r.pc = "trigger_quota"
      BY <2>2, <2>3, NextTrigger
    <3> QED BY <2>1, <3>1 DEF Goes, Moves, At, ToolSteps
  <2>4. CASE \/ \E p \in Pcs \ {"answered", "undo"} : Goto(c, p)
             \/ \E e \in Ended \ {"answered"} : End(c, e) \/ UndoThen(c, e)
             \/ ReturnError(c)
             \/ Return(c)
    <3>1. Goes(c)
      BY <1>0, <2>1, <2>4, GoesOn
    <3> QED BY <2>1, <3>1 DEF At, ToolSteps
  <2>5. "endpoint_insert" \in ToolSteps /\ "wire" \in ToolSteps
        /\ "trigger_quota" \in ToolSteps /\ "trigger_insert" \in ToolSteps
    BY DEF ToolSteps
  <2>6. CASE \/ EndpointQuota(c) \/ EndpointInsert(c) \/ Wire(c) \/ Read(c)
             \/ DeleteTrigger(c) \/ SetActive(c)
    BY <2>4, <2>5, <2>6, StepNames DEF EndpointQuota, EndpointInsert, Wire, AfterEndpoint,
       Read, DeleteTrigger, SetActive, DbRaises, CleanupFails
  <2>7. CASE TriggerQuota(c)
    BY <2>3, <2>4, <2>5, <2>7, StepNames DEF TriggerQuota, DbRaises, CleanupFails, At
  <2>8. CASE MiddlewareTrigger(c) \/ CreateTrigger(c) \/ ActivateTemplate(c)
    BY <2>3, <2>4, <2>8, StepNames DEF MiddlewareTrigger, CreateTrigger, ActivateTemplate,
       Insert, DbRaises, At
  <2> QED BY <1>5, <2>6, <2>7, <2>8 DEF Tool
<1>6. CASE Undo(c)
  <2>1. call[c] # None /\ call[c].pc = "undo" /\ call[c].then \in Ended \ {"answered"}
    BY <1>0, <1>6 DEF Undo, At, Undone, CallRec
  <2>2. \E e \in Ended \ {"answered"} : End(c, e)
    BY <1>6, <2>1, StepNames DEF Undo
  <2> QED BY <1>0, <2>1, <2>2, GoesOn DEF At
<1> QED BY <1>1, <1>2, <1>3, <1>4, <1>5, <1>6 DEF Handle

\* A crash ends the calls that are under way, and no other.
LEMMA CrashEnds ==
    ASSUME TypeOK, Crash, NEW c \in Calls
    PROVE  IF Active(c) THEN call'[c].pc = "lost" ELSE call'[c] = call[c]
<1>1. CASE Active(c)
  <2>1. PICK a \in CallRec : a = call[c]
    BY <1>1, CallIsRec DEF Active
  <2> DEFINE r == [a EXCEPT !.pc = "lost", !.then = "lost", !.todo = 0]
  <2>2. r.pc = "lost"
    BY DEF CallRec
  <2>3. call'[c] = r
    BY <1>1, <2>1 DEF Crash
  <2> QED BY <1>1, <2>2, <2>3
<1>2. CASE ~Active(c)
  BY <1>2 DEF Crash
<1> QED BY <1>1, <1>2

LEMMA UndoneKeeps ==
    ASSUME GatewayInv, Undone, [Next]_vars
    PROVE  Undone'
<1>0. TypeOK
  BY DEF GatewayInv
<1>1. CASE UNCHANGED call
  BY <1>1 DEF Undone, At
<1>2. ASSUME NEW c \in Calls, Handle(c) PROVE Undone'
  <2>1. CASE Reply(c)
    <3>1. PICK r \in CallRec : call' = [call EXCEPT ![c] = r] /\ r.pc = "answered"
      BY <1>0, <2>1, Ending DEF Reply, At, Ended, Moves
    <3> QED BY <1>0, <3>1 DEF Undone, At, TypeOK
  <2>2. CASE ~Reply(c)
    <3>1. PICK r \in CallRec : /\ call' = [call EXCEPT ![c] = r]
                               /\ r.pc = "undo" => r.then # "answered"
      BY <1>2, <2>2, HandleGoes DEF Goes
    <3> QED BY <1>0, <3>1 DEF Undone, At, TypeOK
  <2> QED BY <2>1, <2>2
<1>3. CASE Crash
  BY <1>0, <1>3, CrashEnds DEF Undone, At, Active, Ended
<1> QED BY <1>1, <1>2, <1>3
    DEF Next, SessionExpires, KeyExpires, NonceTurns, WindowEnds, vars

\* What a purse covers is what BudgetConserved adds up.
LEMMA SpentIs == ASSUME NEW u PROVE P!Spent(u) = Charged(backing, u)
<1>1. PICK b : b = backing
  OBVIOUS
<1>2. CostSum(b, Mine(b, u)) = SumOf(Costs(b), Mine(b, u))
  <2>1. \A c \in Mine(b, u) : Costs(b)[c] = b[c].cost
    BY DEF Mine, Costs
  <2> QED BY <2>1, CostUnfolds
<1> QED BY <1>1, <1>2 DEF P!Spent, P!MapThenSumSet, P!MapThenFoldSet, Charged, CostSum,
           Mine, MapThenSumSet, MapThenFoldSet

LEMMA SamePurses ==
    ASSUME session' = session, nonce' = nonce
    PROVE  Limit' = Limit /\ Closed' = Closed
BY DEF Limit, Closed

LEMMA SameAnswers ==
    ASSUME TypeOK, NEW c \in Calls, Goes(c), ~At(c, "answered")
    PROVE  Answered' = Answered
BY DEF Goes, Answered, At, TypeOK

LEMMA LimitType == ASSUME TypeOK PROVE Limit \in [Sources -> Nat]
BY DEF Limit, TypeOK, SessionRec

\* What changes of session s is visible only in its limit and in whether it is closed.
LEMMA OneSession ==
    ASSUME TypeOK, NEW s \in Sessions, NEW y \in SessionRec,
           session' = [session EXCEPT ![s] = y], nonce' = nonce
    PROVE  /\ y.total = session[s].total => Limit' = Limit
           /\ Limit' = [Limit EXCEPT ![s] = y.total]
           /\ LET shut == y.total > 0 /\ (y.key # "hash" \/ y.late) IN
              /\ shut => Closed' = Closed \cup {s}
              /\ ~shut /\ s \notin Closed => Closed' = Closed
<1>1. PICK f \in [Sessions -> SessionRec] : f = session
  BY DEF TypeOK
<1>2. PICK g \in [Sessions -> SessionRec] : g = session' /\ g = [f EXCEPT ![s] = y]
  BY <1>1
<1>3. g[s] = y /\ \A u \in Sessions \ {s} : g[u] = f[u]
  BY <1>2
<1>4. s \in Sources
  BY DEF Sources
<1>5. \A u \in Sources : Limit'[u] = IF u = s THEN y.total ELSE Limit[u]
  BY <1>1, <1>2, <1>3 DEF Limit
<1>6. Limit = [u \in Sources |-> Limit[u]] /\ Limit' = [u \in Sources |-> Limit'[u]]
  BY DEF Limit
<1>7. Limit' = [Limit EXCEPT ![s] = y.total]
  BY <1>4, <1>5, <1>6
<1>8. y.total = session[s].total => Limit' = Limit
  <2>1. Limit[s] = session[s].total
    BY <1>4 DEF Limit
  <2> QED BY <1>5, <1>6, <2>1
<1>9. s \notin Nonces
  BY PursesDiffer
<1>10. /\ y.total > 0 /\ (y.key # "hash" \/ y.late) => Closed' = Closed \cup {s}
       /\ ~(y.total > 0 /\ (y.key # "hash" \/ y.late)) /\ s \notin Closed
             => Closed' = Closed
  BY <1>1, <1>2, <1>3, <1>9 DEF Closed
<1> QED BY <1>7, <1>8, <1>10

\* A charge that the open purse u covers is a step Back of Purses.
LEMMA Backs ==
    ASSUME TypeOK, NEW c \in Calls, backing[c] = None, NEW x \in Charge,
           backing' = [backing EXCEPT ![c] = x], x.purse \in Sources \ Closed,
           Charged(backing, x.purse) + x.cost <= Limit[x.purse],
           Limit' = Limit, Closed' = Closed, Answered' = Answered
    PROVE  P!PursesNext
<1>1. backing'[c] = x /\ x # None
  BY NoneIsNoRecord DEF TypeOK
<1>2. P!Spent(x.purse) = Charged(backing, x.purse)
  BY SpentIs
<1>3. P!Back(c)
  BY <1>1, <1>2 DEF P!Back
<1> QED BY <1>3 DEF P!PursesNext

\* A step on call c that neither charges nor answers is no step of Purses.
LEMMA Unseen ==
    ASSUME TypeOK, NEW c \in Calls, Goes(c), ~At(c, "answered"),
           session' = session, nonce' = nonce, backing' = backing
    PROVE  UNCHANGED P!purseVars
<1>1. Answered' = Answered
  BY SameAnswers
<1>2. Limit' = Limit /\ Closed' = Closed
  BY SamePurses
<1> QED BY <1>1, <1>2 DEF P!purseVars

LEMMA DecrementBacks ==
    ASSUME GatewayInv, NEW c \in Calls, Decrement(c), Goes(c), ~At(c, "answered")
    PROVE  P!PursesNext \/ UNCHANGED P!purseVars
<1>0. /\ TypeOK /\ call[c] # None /\ call[c] \in CallRec /\ Routed(call[c])
      /\ call[c].pc = "auth" /\ call[c].via = "session" /\ backing[c] = None
      /\ nonce' = nonce
  BY CallIsRec DEF Decrement, At, GatewayInv, CallsAreRouted, CallsAreCovered, Covered
<1>1. Answered' = Answered
  BY <1>0, SameAnswers
<1>2. CASE UNCHANGED <<session, backing>>
  BY <1>0, <1>2, Unseen
<1>3. CASE /\ Chargeable(call[c].purse, Price(call[c].tool))
           /\ session' = [session EXCEPT ![call[c].purse].left = @ - Price(call[c].tool)]
           /\ backing' = IF session[call[c].purse].key = "ghost" THEN backing
                         ELSE [backing EXCEPT ![c] =
                                 [purse |-> call[c].purse, cost |-> Price(call[c].tool)]]
  <2>1. PICK s \in Sessions : s = call[c].purse
    BY <1>0 DEF Routed
  <2>2. PICK n \in Nat : n = Price(call[c].tool)
    BY <1>0, PriceIsNat DEF CallRec
  <2>3. PICK x \in SessionRec : x = session[s]
    BY <1>0 DEF TypeOK
  <2>4. /\ x.key # "none" /\ ~(x.key = "hash" /\ x.late) /\ x.left >= n
        /\ x.left \in Nat /\ x.left - n \in Nat /\ x.total \in Nat
    BY <1>3, <2>1, <2>2, <2>3 DEF Chargeable, SessionRec
  <2> DEFINE y == [x EXCEPT !.left = x.left - n]
  <2>5. y \in SessionRec /\ y.key = x.key /\ y.total = x.total /\ y.late = x.late
    BY <2>4 DEF SessionRec
  <2>6. session' = [session EXCEPT ![s] = y]
    BY <1>3, <2>1, <2>2, <2>3
  <2> HIDE DEF y
  <2>7. Limit' = Limit /\ Closed' = Closed
    <3>1. Limit' = Limit
      BY <1>0, <2>3, <2>5, <2>6, OneSession
    <3>2. s \in Closed <=> x.total > 0 /\ (x.key # "hash" \/ x.late)
      BY <2>3, PursesDiffer DEF Closed
    <3>3. CASE s \in Closed
      <4>1. Closed' = Closed \cup {s}
        BY <1>0, <2>5, <2>6, <3>2, <3>3, OneSession
      <4> QED BY <3>1, <3>3, <4>1
    <3>4. CASE s \notin Closed
      BY <1>0, <2>5, <2>6, <3>1, <3>2, <3>4, OneSession
    <3> QED BY <3>3, <3>4
  <2>8. CASE x.key = "ghost"
    <3>1. backing' = backing
      BY <1>3, <2>1, <2>3, <2>8
    <3> QED BY <1>1, <2>7, <3>1 DEF P!purseVars
  <2>9. CASE x.key # "ghost"
    <3> DEFINE ch == [purse |-> s, cost |-> n]
    <3>1. x.key = "hash" /\ ~x.late
      BY <2>4, <2>9 DEF SessionRec
    <3>2. ch \in Charge /\ ch.purse = s /\ ch.cost = n
      BY DEF Charge
    <3>3. backing' = [backing EXCEPT ![c] = ch]
      BY <1>3, <2>1, <2>2, <2>3, <2>9
    <3>4. s \in Sources \ Closed
      BY <2>3, <3>1, PursesDiffer DEF Sources, Closed
    <3>5. Balanced(s, backing, session[s])
      BY BudgetIs DEF GatewayInv
    <3>6. Charged(backing, s) \in Nat
      <4>1. PICK b \in [Calls -> {None} \cup Charge] : b = backing
        BY <1>0 DEF TypeOK
      <4>2. IsFiniteSet(Mine(b, s)) /\ \A d \in Mine(b, s) : Costs(b)[d] \in Nat
        BY CallsAreFinite, FS_Subset DEF Mine, Costs, Charge
      <4>3. SumOf(Costs(b), Mine(b, s)) \in Nat
        BY <4>2, SumPicks
      <4> QED BY <4>1, <4>3 DEF Charged
    <3>7. Limit[s] = x.total
      BY <2>3, <3>4 DEF Limit
    <3>8. Charged(backing, s) + n <= Limit[s]
      BY <2>3, <2>4, <3>1, <3>5, <3>6, <3>7 DEF Balanced
    <3>9. Charged(backing, ch.purse) + ch.cost <= Limit[ch.purse]
          /\ ch.purse \in Sources \ Closed
      BY <3>2, <3>4, <3>8
    <3> HIDE DEF ch
    <3> QED BY <1>0, <1>1, <2>7, <3>2, <3>3, <3>9, Backs
  <2> QED BY <2>8, <2>9
<1> QED BY <1>2, <1>3 DEF Decrement

\* A proof that is settled, or a nonce that is consumed, covers its one call.
LEMMA OneCallBacks ==
    ASSUME GatewayInv, NEW c \in Calls, Goes(c), ~At(c, "answered"), backing[c] = None,
           NEW u \in Payments \cup Nonces,
           backing' = [backing EXCEPT ![c] = [purse |-> u, cost |-> 1]],
           \/ u \in Payments /\ u \notin spent
           \/ u \in Nonces /\ nonce[u] = "live",
           Limit' = Limit, Closed' = Closed
    PROVE  P!PursesNext
<1>0. TypeOK /\ Answered' = Answered
  BY SameAnswers DEF GatewayInv
<1> DEFINE ch == [purse |-> u, cost |-> 1]
<1>1. ch \in Charge /\ ch.purse = u /\ ch.cost = 1
  BY DEF Charge
<1>2. PICK b : b = backing
  OBVIOUS
<1>3. \A d \in Calls : b[d] = None \/ b[d].purse # u
  BY <1>2 DEF GatewayInv, ChargesAreReal
<1>4. Charged(b, u) = 0
  BY <1>3, NothingCharged
<1>5. u \in Sources \ Closed
  BY PursesDiffer DEF Sources, Closed
<1>6. Limit[u] = 1
  BY <1>5, PursesDiffer DEF Limit
<1>7. ch.purse \in Sources \ Closed /\ Charged(backing, ch.purse) + ch.cost <= Limit[ch.purse]
  BY <1>1, <1>2, <1>4, <1>5, <1>6
<1>8. backing' = [backing EXCEPT ![c] = ch]
  OBVIOUS
<1> HIDE DEF ch
<1> QED BY <1>0, <1>1, <1>7, <1>8, Backs

LEMMA SettleBacks ==
    ASSUME GatewayInv, NEW c \in Calls, Settle(c), Goes(c), ~At(c, "answered")
    PROVE  P!PursesNext \/ UNCHANGED P!purseVars
<1>0. /\ TypeOK /\ call[c] # None /\ call[c].pc = "settle" /\ Routed(call[c])
      /\ Covered(c, call[c]) /\ session' = session /\ nonce' = nonce
  BY DEF Settle, At, GatewayInv, CallsAreRouted, CallsAreCovered
<1>1. call[c].purse \in Payments /\ backing[c] = None
  BY <1>0 DEF Routed, Covered, Ended
<1>2. Limit' = Limit /\ Closed' = Closed
  BY <1>0, SamePurses
<1>3. CASE backing' = backing
  BY <1>0, <1>3, Unseen
<1>4. CASE /\ call[c].purse \notin spent
           /\ backing' = [backing EXCEPT ![c] = [purse |-> call[c].purse, cost |-> 1]]
  BY <1>1, <1>2, <1>4, OneCallBacks
<1> QED BY <1>3, <1>4 DEF Settle

LEMMA ConsumesBacks ==
    ASSUME GatewayInv, NEW c \in Calls, VerifySiwe(c) \/ RequireWalletAuth(c),
           Goes(c), ~At(c, "answered")
    PROVE  P!PursesNext \/ UNCHANGED P!purseVars
<1>0. /\ TypeOK /\ call[c] # None /\ call[c].pc = "auth" /\ Routed(call[c])
      /\ Covered(c, call[c]) /\ session' = session
      /\ call[c] \in CallRec
  BY CallIsRec DEF VerifySiwe, RequireWalletAuth, Consumes, At, GatewayInv, CallsAreRouted,
     CallsAreCovered
<1>1. PICK n \in Nonces : n = call[c].purse
  <2>1. call[c].via = "siwx"
    BY <1>0 DEF VerifySiwe, RequireWalletAuth, Routed, CallRec, Rest, Paid
  <2> QED BY <1>0, <2>1 DEF Routed
<1>2. backing[c] = None
  BY <1>0 DEF Covered
<1>3. CASE UNCHANGED <<nonce, backing>>
  BY <1>0, <1>3, Unseen
<1>4. CASE /\ nonce[n] = "live" /\ nonce' = [nonce EXCEPT ![n] = "used"]
           /\ backing' = [backing EXCEPT ![c] = [purse |-> n, cost |-> 1]]
  <2>1. /\ nonce'[n] = "used" /\ \A m \in Nonces \ {n} : nonce'[m] = nonce[m]
    BY <1>0, <1>4 DEF TypeOK
  <2>2. Limit' = Limit /\ Closed' = Closed
    BY <1>0, <1>4, <2>1 DEF Limit, Closed
  <2> QED BY <1>2, <1>4, <2>2, OneCallBacks
<1> QED BY <1>1, <1>3, <1>4 DEF VerifySiwe, RequireWalletAuth, Consumes

LEMMA OpenSessionOpens ==
    ASSUME GatewayInv, NEW c \in Calls, OpenSession(c), Goes(c), ~At(c, "answered")
    PROVE  P!PursesNext \/ UNCHANGED P!purseVars
<1>0. TypeOK /\ Answered' = Answered /\ nonce' = nonce /\ backing' = backing
  BY SameAnswers DEF GatewayInv, OpenSession
<1>1. CASE session' = session
  BY <1>0, <1>1, Unseen
<1>2. ASSUME NEW s \in Sessions, NEW b \in Requests, NEW t \in BOOLEAN,
             session[s] = NoSession, session' = [session EXCEPT ![s] = Opened(b, t)]
      PROVE  P!PursesNext
  <2>1. PICK y \in SessionRec : /\ y = Opened(b, t) /\ y.key = "hash" /\ y.total > 0
                                /\ y.late = FALSE
    BY OpenedIs
  <2>2. session' = [session EXCEPT ![s] = y]
    BY <1>2, <2>1
  <2>3. s \in Sources /\ Limit[s] = 0 /\ s \notin Closed
    BY <1>2, PursesDiffer DEF Sources, Limit, Closed, NoSession
  <2>4. Limit' = [Limit EXCEPT ![s] = y.total] /\ Closed' = Closed
    BY <1>0, <2>1, <2>2, <2>3, OneSession
  <2>5. Limit'[s] = y.total /\ y.total \in Nat
    BY <1>0, <2>3, <2>4, LimitType DEF SessionRec
  <2>6. P!Open(s)
    BY <1>0, <2>3, <2>4, <2>5 DEF P!Open
  <2> QED BY <2>3, <2>6 DEF P!PursesNext
<1> QED BY <1>1, <1>2 DEF OpenSession

\* Session s covers nothing any more.
LEMMA Closes ==
    ASSUME GatewayInv, NEW s \in Sessions, session[s].key = "hash", NEW y \in SessionRec,
           y.total = session[s].total, y.key # "hash" \/ y.late,
           session' = [session EXCEPT ![s] = y],
           nonce' = nonce, backing' = backing, Answered' = Answered
    PROVE  P!PursesNext
<1>1. TypeOK /\ session[s].total > 0 /\ s \in Sources
  BY DEF GatewayInv, ChargesAreReal, Sources
<1>2. Limit' = Limit /\ Closed' = Closed \cup {s}
  BY <1>1, OneSession
<1>3. P!Close(s)
  BY <1>2 DEF P!Close
<1> QED BY <1>1, <1>3 DEF P!PursesNext

LEMMA CloseSessionCloses ==
    ASSUME GatewayInv, NEW c \in Calls, CloseSession(c), Goes(c), ~At(c, "answered")
    PROVE  P!PursesNext \/ UNCHANGED P!purseVars
<1>0. TypeOK /\ Answered' = Answered /\ nonce' = nonce /\ backing' = backing
  BY SameAnswers DEF GatewayInv, CloseSession
<1>1. CASE session' = session
  BY <1>0, <1>1, Unseen
<1>2. ASSUME NEW s \in Sessions, session[s].key = "hash",
             session' = [session EXCEPT ![s].key = "none", ![s].left = 0]
      PROVE  P!PursesNext
  <2>1. PICK x \in SessionRec : x = session[s]
    BY <1>0 DEF TypeOK
  <2>2. PICK y \in SessionRec : y = Gone(x) /\ y.key = "none" /\ y.total = x.total
    BY GoneIs
  <2>3. session' = [session EXCEPT ![s] = y]
    BY <1>0, <1>2, <2>1, <2>2 DEF Gone, TypeOK
  <2> QED BY <1>0, <1>2, <2>1, <2>2, <2>3, Closes
<1> QED BY <1>1, <1>2 DEF CloseSession

LEMMA SessionExpiresCloses ==
    ASSUME GatewayInv, NEW s \in Sessions, SessionExpires(s)
    PROVE  P!PursesNext
<1>0. /\ TypeOK /\ nonce' = nonce /\ backing' = backing /\ call' = call
      /\ session[s].key = "hash"
  BY DEF GatewayInv, SessionExpires
<1>1. Answered' = Answered
  BY <1>0 DEF Answered, At
<1>2. PICK x \in SessionRec : x = session[s]
  BY <1>0 DEF TypeOK
<1>3. CASE x.late
  <2>1. session' = [session EXCEPT ![s].key = "none", ![s].left = 0]
    BY <1>2, <1>3 DEF SessionExpires
  <2>2. PICK y \in SessionRec : y = Gone(x) /\ y.key = "none" /\ y.total = x.total
    BY GoneIs
  <2>3. session' = [session EXCEPT ![s] = y]
    BY <1>0, <1>2, <2>1, <2>2 DEF Gone, TypeOK
  <2> QED BY <1>0, <1>1, <1>2, <2>2, <2>3, Closes
<1>4. CASE ~x.late
  <2> DEFINE y == [x EXCEPT !.late = TRUE]
  <2>1. y \in SessionRec /\ y.late = TRUE /\ y.total = x.total
    BY DEF SessionRec
  <2>2. session' = [session EXCEPT ![s] = y]
    BY <1>2, <1>4 DEF SessionExpires
  <2> HIDE DEF y
  <2> QED BY <1>0, <1>1, <1>2, <2>1, <2>2, Closes
<1> QED BY <1>3, <1>4

LEMMA NonceOpensOrCloses ==
    ASSUME GatewayInv, NEW n \in Nonces, NonceTurns(n)
    PROVE  P!PursesNext
<1>0. TypeOK /\ session' = session /\ backing' = backing /\ call' = call
  BY DEF GatewayInv, NonceTurns
<1>1. Answered' = Answered
  BY <1>0 DEF Answered, At
<1>2. n \in Sources /\ n \notin Sessions
  BY PursesDiffer DEF Sources
<1>3. Limit = [u \in Sources |-> Limit[u]] /\ Limit' = [u \in Sources |-> Limit'[u]]
  BY DEF Limit
<1>4. CASE nonce[n] = "none" /\ nonce' = [nonce EXCEPT ![n] = "live"]
  <2>1. nonce'[n] = "live" /\ \A m \in Nonces \ {n} : nonce'[m] = nonce[m]
    BY <1>0, <1>4 DEF TypeOK
  <2>2. /\ Limit[n] = 0 /\ Limit'[n] = 1
        /\ \A u \in Sources \ {n} : Limit'[u] = Limit[u]
    BY <1>0, <1>2, <1>4, <2>1 DEF Limit
  <2>3. Closed' = Closed
    BY <1>0, <1>4, <2>1 DEF Closed
  <2>4. Limit' = [Limit EXCEPT ![n] = Limit'[n]]
    BY <1>3, <2>2
  <2>5. P!Open(n)
    BY <1>0, <1>1, <2>2, <2>3, <2>4 DEF P!Open
  <2> QED BY <1>2, <2>5 DEF P!PursesNext
<1>5. CASE nonce[n] = "live" /\ nonce' = [nonce EXCEPT ![n] = "expired"]
  <2>1. nonce'[n] = "expired" /\ \A m \in Nonces \ {n} : nonce'[m] = nonce[m]
    BY <1>0, <1>5 DEF TypeOK
  <2>2. Limit' = Limit
    BY <1>0, <1>5, <2>1 DEF Limit
  <2>3. Closed' = Closed \cup {n}
    BY <1>0, <1>5, <2>1 DEF Closed
  <2>4. P!Close(n)
    BY <1>0, <1>1, <2>2, <2>3 DEF P!Close
  <2> QED BY <1>2, <2>4 DEF P!PursesNext
<1> QED BY <1>4, <1>5 DEF NonceTurns

LEMMA UndoReturns ==
    ASSUME GatewayInv, NEW c \in Calls, Undo(c), Goes(c), ~At(c, "answered")
    PROVE  P!PursesNext \/ UNCHANGED P!purseVars
<1>0. /\ TypeOK /\ Answered' = Answered /\ nonce' = nonce
      /\ call[c] # None /\ call[c] \in CallRec /\ Routed(call[c])
      /\ call[c].pc = "undo" /\ Covered(c, call[c])
  BY SameAnswers, CallIsRec DEF GatewayInv, Undo, At, CallsAreRouted, CallsAreCovered
<1>1. CASE UNCHANGED <<session, backing>>
  BY <1>0, <1>1, Unseen
<1>2. CASE /\ call[c].via = "session" /\ Refund(call[c].purse, Price(call[c].tool))
           /\ backing' = [backing EXCEPT ![c] = None]
  <2>1. PICK s \in Sessions : s = call[c].purse
    BY <1>0, <1>2 DEF Routed
  <2>2. PICK n \in Nat : n = Price(call[c].tool)
    BY <1>0, PriceIsNat DEF CallRec
  <2>3. PICK x \in SessionRec : x = session[s]
    BY <1>0 DEF TypeOK
  <2>4. PICK y \in SessionRec :
          /\ y = Refunded(x, n) /\ y.total = x.total /\ y.late = x.late
          /\ y.key = IF x.key = "none" THEN "ghost" ELSE x.key
    BY RefundedIs
  <2>5. session' = [session EXCEPT ![s] = y]
    BY <1>0, <1>2, <2>1, <2>2, <2>3, <2>4 DEF Refund, Refunded, TypeOK
  <2>6. Limit' = Limit
    BY <1>0, <2>3, <2>4, <2>5, OneSession
  <2>7. s \in Closed <=> x.total > 0 /\ (x.key # "hash" \/ x.late)
    BY <2>3, PursesDiffer DEF Closed
  <2>8. Closed' = Closed
    <3>1. CASE s \in Closed
      <4>1. Closed' = Closed \cup {s}
        BY <1>0, <2>4, <2>5, <2>7, <3>1, OneSession
      <4> QED BY <3>1, <4>1
    <3>2. CASE s \notin Closed
      BY <1>0, <2>4, <2>5, <2>7, <3>2, OneSession
    <3> QED BY <3>1, <3>2
  <2>9. c \notin Answered
    BY <1>0 DEF Answered, At
  <2>10. P!Return(c)
    BY <1>0, <1>2, <2>6, <2>8, <2>9 DEF P!Return
  <2> QED BY <2>10 DEF P!PursesNext
<1> QED BY <1>1, <1>2 DEF Undo

LEMMA ReplyAnswers ==
    ASSUME GatewayInv, NEW c \in Calls, Reply(c)
    PROVE  P!PursesNext
<1>0. /\ TypeOK /\ call[c] # None /\ call[c].pc = "reply" /\ call[c] \in CallRec
      /\ Covered(c, call[c])
      /\ session' = session /\ nonce' = nonce /\ backing' = backing
  BY CallIsRec DEF Reply, At, GatewayInv, CallsAreCovered, authVars
<1>1. PICK r \in CallRec : call' = [call EXCEPT ![c] = r] /\ r.pc = "answered"
  BY <1>0, Ending DEF Reply, Ended, Moves
<1>2. Answered' = Answered \cup {c} /\ c \notin Answered
  BY <1>0, <1>1, NoneIsNoRecord DEF Answered, At, TypeOK
<1>3. backing[c] # None
  <2>1. call[c].via \in {"session", "x402", "siwx"} /\ "reply" \in Served
    BY <1>0 DEF CallRec, Served
  <2>2. CASE call[c].via = "session"
    <3>1. backing[c] = [purse |-> call[c].purse, cost |-> Price(call[c].tool)]
      BY <1>0, <2>1, <2>2 DEF Covered
    <3>2. [purse |-> call[c].purse, cost |-> Price(call[c].tool)] \in Charge
      BY <1>0, PriceIsNat DEF CallRec, Charge
    <3> QED BY <3>1, <3>2, NoneIsNoRecord
  <2>3. CASE call[c].via # "session"
    BY <1>0, <2>1, <2>3 DEF Covered
  <2> QED BY <2>2, <2>3
<1>4. Limit' = Limit /\ Closed' = Closed
  BY <1>0, SamePurses
<1>5. P!Answer(c)
  BY <1>0, <1>2, <1>3, <1>4 DEF P!Answer
<1> QED BY <1>5 DEF P!PursesNext

\* Every step of a request is a step of Purses or is not seen there.
LEMMA HandleImplements ==
    ASSUME GatewayInv, Undone, NEW c \in Calls, Handle(c)
    PROVE  P!PursesNext \/ UNCHANGED P!purseVars
<1>1. CASE Reply(c)
  BY <1>1, ReplyAnswers
<1>2. CASE ~Reply(c)
  <2>0. TypeOK /\ Goes(c) /\ ~At(c, "answered")
    BY <1>2, HandleGoes DEF GatewayInv
  <2>1. CASE UNCHANGED authVars
    BY <2>0, <2>1, Unseen DEF authVars
  <2>2. CASE Begin(c) \/ Tool(c)
    BY <2>1, <2>2 DEF Begin, Tool, EndpointQuota, EndpointInsert, Wire, TriggerQuota,
       MiddlewareTrigger, CreateTrigger, ActivateTemplate, DeleteTrigger, Read, SetActive
  <2>3. CASE HandleSession(c)
    BY <2>0, <2>1, <2>3, DecrementBacks DEF HandleSession, Fetch, RateSession
  <2>4. CASE HandleX402(c)
    <3>1. CASE Claim(c)
      BY <2>0, <3>1, Unseen DEF Claim
    <3>2. CASE Settle(c)
      BY <2>0, <3>2, SettleBacks
    <3> QED BY <2>1, <2>4, <3>1, <3>2 DEF HandleX402, Verify, IdentifyPayer, RatePayer
  <2>5. CASE HandleSiwx(c)
    BY <2>0, <2>1, <2>5, ConsumesBacks DEF HandleSiwx, IdentifyWallet, RateWallet
  <2>6. CASE Route(c)
    BY <2>0, <2>6, ConsumesBacks, OpenSessionOpens, CloseSessionCloses DEF Route
  <2>7. CASE Undo(c)
    BY <2>0, <2>7, UndoReturns
  <2> QED BY <1>2, <2>2, <2>3, <2>4, <2>5, <2>6, <2>7 DEF Handle
<1> QED BY <1>1, <1>2

\* A step that moves no call to an answer and touches no purse.
LEMMA CrashIsUnseen ==
    ASSUME TypeOK, Crash
    PROVE  UNCHANGED P!purseVars
<1>1. session' = session /\ nonce' = nonce /\ backing' = backing
  BY DEF Crash, authVars
<1>2. Answered' = Answered
  <2>1. ASSUME NEW c \in Calls PROVE At(c, "answered")' <=> At(c, "answered")
    <3>1. CASE Active(c)
      <4>1. call'[c].pc = "lost"
        BY <3>1, CrashEnds
      <4> QED BY <3>1, <4>1 DEF At, Active, Ended
    <3>2. CASE ~Active(c)
      <4>1. call'[c] = call[c]
        BY <3>2, CrashEnds
      <4> QED BY <4>1 DEF At
    <3> QED BY <3>1, <3>2
  <2> QED BY <2>1 DEF Answered
<1> QED BY <1>1, <1>2, SamePurses DEF P!purseVars

LEMMA NextImplements ==
    ASSUME GatewayInv, Undone, [Next]_vars
    PROVE  [P!PursesNext]_P!purseVars
<1>1. CASE \E c \in Calls : Handle(c)
  BY <1>1, HandleImplements
<1>2. CASE \E s \in Sessions : SessionExpires(s)
  BY <1>2, SessionExpiresCloses
<1>3. CASE \E n \in Nonces : NonceTurns(n)
  BY <1>3, NonceOpensOrCloses
<1>4. CASE Crash
  BY <1>4, CrashIsUnseen DEF GatewayInv
<1>5. CASE UNCHANGED <<call, session, nonce, backing>>
  <2>1. Answered' = Answered
    BY <1>5 DEF Answered, At
  <2> QED BY <1>5, <2>1, SamePurses DEF P!purseVars
<1>6. CASE (\E k \in claimed : KeyExpires(k)) \/ WindowEnds \/ UNCHANGED vars
  BY <1>5, <1>6 DEF KeyExpires, WindowEnds, vars, authVars
<1> QED BY <1>1, <1>2, <1>3, <1>4, <1>6 DEF Next

LEMMA InitImplements ==
    ASSUME Init
    PROVE  P!PursesInit /\ Undone
<1>0. TypeOK
  BY InitKeeps DEF GatewayInv
<1>1. Limit \in [Sources -> Nat]
  BY <1>0, LimitType
<1>2. Answered = {} /\ Undone
  BY DEF Init, Answered, At, Undone
<1>3. Closed = {}
  <2>1. ASSUME NEW s \in Sessions
        PROVE  ~(session[s].total > 0 /\ (session[s].key # "hash" \/ session[s].late))
    <3>1. session[s] \in {NoSession} \cup {Opened(b, TRUE) : b \in Requests}
      BY DEF Init
    <3>2. CASE session[s] = NoSession
      BY <3>2 DEF NoSession
    <3>3. CASE \E b \in Requests : session[s] = Opened(b, TRUE)
      BY <3>3, OpenedIs
    <3> QED BY <3>1, <3>2, <3>3
  <2>2. \A n \in Nonces : nonce[n] # "expired"
    BY DEF Init
  <2> QED BY <2>1, <2>2 DEF Closed
<1> QED BY <1>1, <1>2, <1>3 DEF Init, P!PursesInit

\* The gateway implements Purses, for any number of calls, sessions, proofs and nonces:
\* whatever the tier, a result is returned only against an open purse that covers it,
\* and no purse ever covers more than its limit.  Decrement, Settle and the consumed nonce
\* are Back, a refund is Return, Reply is Answer.
THEOREM GatewayImplementsPurses == Spec => ServiceIsBacked
<1>1. Init => P!PursesInit /\ Undone
  BY InitImplements
<1>2. GatewayInv /\ Undone /\ [Next]_vars => Undone' /\ [P!PursesNext]_P!purseVars
  BY UndoneKeeps, NextImplements
<1> QED BY <1>1, <1>2, GatewayCorrect, PTL DEF Spec, ServiceIsBacked, P!PursesSpec

=============================================================================
