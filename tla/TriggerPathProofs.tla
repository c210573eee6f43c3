-------------------------- MODULE TriggerPathProofs --------------------------
(***************************************************************************)
(* The trigger path for every number of logs, triggers and tasks: a claim  *)
(* has one owner, an owner is told at most once, and what is said about    *)
(* the depth is true.                                                      *)
(***************************************************************************)
EXTENDS TriggerPath, TLAPS, FiniteSetTheorems

(* What the helpers return *)

LEMMA IdleIsTaskRec == Idle \in TaskRec
BY DEF Idle, TaskRec

\* A call that went past some of its pairs.
Rest(r, ts, a) ==
    /\ a \in TaskRec /\ a.pc \in {"idle", "dedup", "route"}
    /\ a.held = r.held \ ts
    /\ a.pc = "idle" => a.held = {}
    /\ a.pc # "idle" => a.log = r.log
    /\ a.id => r.id
    /\ a.confirmations # None => a.confirmations = r.confirmations /\ a.pc # "idle"

LEMMA AfterPairsIsRest ==
    ASSUME NEW r \in TaskRec, NEW ts
    PROVE  Rest(r, ts, AfterPairs(r, ts))
<1>1. CASE r.held \ ts # {}
  BY <1>1 DEF AfterPairs, Rest, TaskRec
<1>2. CASE r.held \ ts = {} /\ r.todo # {}
  BY <1>2 DEF AfterPairs, Rest, TaskRec, Idle
<1>3. CASE r.held \ ts = {} /\ r.todo = {}
  BY <1>3 DEF AfterPairs, Rest, TaskRec, Idle
<1> QED BY <1>1, <1>2, <1>3

\* A call that went past one of the pairs it has to claim, and holds what it is
\* said to hold.
Going(r, held, a) ==
    /\ a \in TaskRec /\ a.pc \in {"idle", "dedup", "enrich"}
    /\ a.held = held
    /\ a.pc = "idle" => a.held = {}
    /\ a.pc # "idle" => a.log = r.log
    /\ a.id => r.id
    /\ a.confirmations # None => a.confirmations = r.confirmations /\ a.pc # "idle"

LEMMA AfterDedupIsGoing ==
    ASSUME NEW r \in TaskRec, r.pc = "dedup", NEW t, NEW held \in SUBSET Triggers
    PROVE  Going(r, held, AfterDedup(r, t, held))
<1>1. CASE held # {} /\ (r.todo \ {t} = {} \/ ~unified)
  BY <1>1 DEF AfterDedup, Going, TaskRec
<1>2. CASE ~(held # {} /\ (r.todo \ {t} = {} \/ ~unified)) /\ r.todo \ {t} = {}
  BY <1>2 DEF AfterDedup, Going, TaskRec, Idle
<1>3. CASE ~(held # {} /\ (r.todo \ {t} = {} \/ ~unified)) /\ r.todo \ {t} # {}
  BY <1>3 DEF AfterDedup, Going, TaskRec
<1> QED BY <1>1, <1>2, <1>3

LEMMA RequiredIsPositive ==
    ASSUME NEW t \in Triggers PROVE Required(t) \in Nat \ {0}
BY TriggersHaveEndpoints, DepthsArePositive, PathBounds DEF Required, EndpointFor

\* What a call holds are pairs.
LEMMA HeldArePairs ==
    ASSUME TypeOK, NEW j \in Tasks, CallIsSound(task[j]), NEW t \in task[j].held
    PROVE  /\ <<task[j].log, t>> \in Pairs /\ Holds(j, <<task[j].log, t>>)
           /\ task[j].log \in Logs /\ t \in Triggers
<1>1. task[j] \in TaskRec
  BY DEF TypeOK
<1>2. t \in Triggers /\ task[j].pc # "idle"
  BY <1>1 DEF TaskRec, CallIsSound
<1> QED BY <1>2 DEF CallIsSound, Holds, Pairs

-----------------------------------------------------------------------------
(* Who holds a claim *)

Owned == ClaimsAreHeld /\ HeldIsOpen /\ StrandedIsOpen /\ HeldOnce

\* A task gains pairs that nobody had claimed, and lets go of pairs by deciding on
\* them or by losing sight of them.
Handover(k, G, L) ==
    /\ claims' = claims \cup G /\ G \cap claims = {} /\ stranded' \subseteq Pairs
    /\ \A p \in L : /\ Holds(k, p) \/ p \in G
                    /\ Ended(p)' /\ (p \in stranded' => outcome'[p] = None)
    /\ \A p \in Pairs \ L : /\ outcome'[p] = outcome[p]
                            /\ p \in stranded' <=> p \in stranded
    /\ \A p \in Pairs : Holds(k, p)' <=> (Holds(k, p) \/ p \in G) /\ p \notin L

LEMMA OwnedStep ==
    ASSUME Owned, NEW k \in Tasks, NEW G \in SUBSET Pairs, NEW L \in SUBSET Pairs,
           Handover(k, G, L), \A j \in Tasks \ {k} : task'[j] = task[j]
    PROVE  Owned'
<1>1. \A j \in Tasks \ {k}, p \in Pairs : Holds(j, p)' <=> Holds(j, p)
  BY DEF Holds
<1>e. \A p \in Pairs \ L : Ended(p)' <=> Ended(p)
  BY DEF Handover, Ended
<1>2. ClaimsAreHeld'
  <2> SUFFICES ASSUME NEW p \in Pairs
               PROVE  p \in claims' <=> (Ended(p)' \/ \E j \in Tasks : Holds(j, p)')
    BY DEF ClaimsAreHeld
  <2>1. p \in claims <=> (Ended(p) \/ \E j \in Tasks : Holds(j, p))
    BY DEF Owned, ClaimsAreHeld
  <2>2. CASE p \in L
    BY <2>1, <2>2 DEF Handover
  <2>3. CASE p \notin L
    <3>2. Holds(k, p)' <=> Holds(k, p) \/ p \in G
      BY <2>3 DEF Handover
    <3>3. (\E j \in Tasks : Holds(j, p)') <=> p \in G \/ \E j \in Tasks : Holds(j, p)
      BY <1>1, <3>2
    <3> QED BY <1>e, <2>1, <2>3, <3>3 DEF Handover
  <2> QED BY <2>2, <2>3
<1>3. HeldIsOpen'
  <2> SUFFICES ASSUME NEW p \in Pairs, NEW j \in Tasks, Holds(j, p)'
               PROVE  ~Ended(p)'
    BY DEF HeldIsOpen
  <2>1. CASE j = k
    <3>1. p \notin L /\ (Holds(k, p) \/ p \in G)
      BY <2>1 DEF Handover
    <3>2. p \in G => ~Ended(p)
      BY DEF Handover, Owned, ClaimsAreHeld
    <3> QED BY <1>e, <3>1, <3>2 DEF Handover, Owned, HeldIsOpen
  <2>2. CASE j # k
    <3>1. Holds(j, p) /\ p \in claims
      BY <1>1, <2>2 DEF Owned, ClaimsAreHeld
    <3>2. p \notin G /\ ~Holds(k, p)
      BY <2>2, <3>1 DEF Owned, HeldOnce, Handover
    <3> QED BY <1>e, <3>1, <3>2 DEF Handover, Owned, HeldIsOpen
  <2> QED BY <2>1, <2>2
<1>4. HeldOnce'
  <2>1. ASSUME NEW p \in Pairs, NEW j \in Tasks \ {k}, Holds(j, p)' PROVE ~Holds(k, p)'
    <3>1. Holds(j, p) /\ p \in claims
      BY <1>1, <2>1 DEF Owned, ClaimsAreHeld
    <3>2. p \notin G /\ ~Holds(k, p)
      BY <3>1 DEF Owned, HeldOnce, Handover
    <3> QED BY <3>2 DEF Handover
  <2>2. \A p \in Pairs, i, j \in Tasks \ {k} : Holds(i, p)' /\ Holds(j, p)' => i = j
    BY <1>1 DEF Owned, HeldOnce
  <2> QED BY <2>1, <2>2 DEF HeldOnce
<1>5. StrandedIsOpen'
  BY DEF Handover, Owned, StrandedIsOpen
<1> QED BY <1>2, <1>3, <1>4, <1>5 DEF Owned

-----------------------------------------------------------------------------
(* A step of one task *)

Calls == \A j \in Tasks : CallIsSound(task[j]) /\ DepthIsSound(task[j])

LEMMA TaskStep ==
    ASSUME TypeOK, PathInv, NEW k \in Tasks, NEW a \in TaskRec,
           NEW G \in SUBSET Pairs, NEW L \in SUBSET Pairs,
           task' = [task EXCEPT ![k] = a], UNCHANGED <<unified, head>>,
           Handover(k, G, L),
           \A p \in Pairs : sent'[p] # sent[p] => Holds(k, p),
           CallIsSound(a)', DepthIsSound(a)'
    PROVE  Owned' /\ Calls' /\ UnclaimedIsUntold'
<1>1. task'[k] = a /\ \A j \in Tasks \ {k} : task'[j] = task[j]
  BY DEF TypeOK
<1>2. Owned'
  BY <1>1, OwnedStep DEF PathInv, Owned
<1>3. ASSUME NEW j \in Tasks \ {k} PROVE CallIsSound(task[j])' /\ DepthIsSound(task[j])'
  <2>1. CallIsSound(task[j]) /\ DepthIsSound(task[j])
    BY DEF PathInv
  <2>2. \A t \in task[j].held : sent'[<<task[j].log, t>>] = sent[<<task[j].log, t>>]
    <3> SUFFICES ASSUME NEW t \in task[j].held
                 PROVE  sent'[<<task[j].log, t>>] = sent[<<task[j].log, t>>]
      OBVIOUS
    <3>1. <<task[j].log, t>> \in Pairs /\ Holds(j, <<task[j].log, t>>)
      BY <2>1, HeldArePairs
    <3>2. ~Holds(k, <<task[j].log, t>>)
      BY <3>1 DEF PathInv, HeldOnce
    <3> QED BY <3>1, <3>2
  <2>3. CallIsSound(task[j])'
    BY <1>1, <2>1, <2>2 DEF CallIsSound
  <2>4. DepthIsSound(task[j])'
    BY <1>1, <2>1 DEF DepthIsSound, Required
  <2> QED BY <2>3, <2>4
<1>4. CallIsSound(task[k])' /\ DepthIsSound(task[k])'
  BY <1>1 DEF CallIsSound, DepthIsSound
<1>5. UnclaimedIsUntold'
  <2> SUFFICES ASSUME NEW p \in Pairs, p \notin claims' PROVE sent'[p] = <<>>
    BY DEF UnclaimedIsUntold
  <2>1. p \notin claims
    BY DEF Handover
  <2>2. ~Holds(k, p)
    BY <2>1 DEF PathInv, ClaimsAreHeld
  <2> QED BY <2>1, <2>2 DEF PathInv, UnclaimedIsUntold
<1> QED BY <1>2, <1>3, <1>4, <1>5 DEF Calls

\* A step that says nothing and writes no row leaves the rest of PathInv alone.
LEMMA SilentStep ==
    ASSUME TypeOK, PathInv, UNCHANGED <<sent, deliveries, head>>
    PROVE  ToldAtMostOnce' /\ SaidIsDeep'
BY DEF PathInv, ToldAtMostOnce, SaidIsDeep

-----------------------------------------------------------------------------
(* Steps that end some of the pairs *)

\* How a settled pair leaves its task; a is what the call becomes.
LEMMA SettleHandover ==
    ASSUME TypeOK, PathInv, NEW k \in Tasks, NEW a \in TaskRec, NEW ts \in SUBSET Triggers,
           NEW how \in Outcomes, task[k].pc # "idle", ts \subseteq task[k].held,
           task' = [task EXCEPT ![k] = a], UNCHANGED <<claims, stranded>>, Settle(k, ts, how),
           a.held = task[k].held \ ts, a.pc # "idle" => a.log = task[k].log,
           a.pc = "idle" => a.held = {}
    PROVE  \E L \in SUBSET Pairs : Handover(k, {}, L)
<1> DEFINE L == {p \in Pairs : p[1] = task[k].log /\ p[2] \in ts}
<1>1. task'[k] = a
  BY DEF TypeOK
<1>2. ASSUME NEW p \in L
      PROVE  Holds(k, p) /\ Ended(p)' /\ p \notin stranded'
  <2>1. Holds(k, p) /\ outcome'[p] # None
    BY NoneIsNoValue DEF Settle, Holds
  <2>2. p \notin stranded
    BY <2>1 DEF PathInv, HeldIsOpen, Ended
  <2> QED BY <2>1, <2>2 DEF Ended
<1>3. \A p \in Pairs \ L : outcome'[p] = outcome[p]
  BY DEF Settle
<1>s. stranded' = stranded /\ stranded \subseteq Pairs
  BY DEF TypeOK
<1>4. ASSUME NEW p \in Pairs PROVE Holds(k, p)' <=> Holds(k, p) /\ p \notin L
  <2>1. CASE a.pc = "idle"
    BY <1>1, <2>1 DEF Holds
  <2>2. CASE a.pc # "idle"
    BY <1>1, <2>2 DEF Holds
  <2> QED BY <2>1, <2>2
<1>5. L \in SUBSET Pairs
  OBVIOUS
<1> HIDE DEF L
<1>6. Handover(k, {}, L)
  BY <1>2, <1>3, <1>4, <1>s DEF Handover
<1>7. PICK M \in SUBSET Pairs : M = L
  BY <1>5
<1> QED BY <1>6, <1>7

LEMMA SettledOutcome ==
    ASSUME TypeOK, NEW k, NEW ts, NEW how \in Outcomes, Settle(k, ts, how)
    PROVE  outcome' \in [Pairs -> Outcomes \cup {None}]
BY DEF TypeOK, Settle

LEMMA EnrichKeeps ==
    ASSUME TypeOK, PathInv, NEW k \in Tasks, Enrich(k)
    PROVE  TypeOK' /\ PathInv'
<1>r. task[k] \in TaskRec /\ task[k].pc = "enrich" /\ CallIsSound(task[k])
  BY DEF TypeOK, Enrich, PathInv
<1>l. PICK l \in Logs : l = task[k].log
  BY <1>r DEF CallIsSound
<1>1. PICK conf \in {None} \cup {Confirmations(LogOf[l].block, h) : h \in 0..head},
           known \in BOOLEAN, ts \in SUBSET Triggers :
        /\ IF unified THEN conf = None => May("rpc") ELSE conf = None
        /\ ts \subseteq task[k].held
        /\ Settle(k, ts, "reputation")
        /\ task' = [task EXCEPT ![k] =
              AfterPairs([task[k] EXCEPT !.confirmations = conf, !.known = known], ts)]
  <2>1. \A known : {t \in task[k].held : TriggerOf[t].threshold > Reputation(l, known)}
          \in SUBSET Triggers
    BY <1>r DEF TaskRec
  <2> QED BY <1>l, <2>1 DEF Enrich
<1>2. PICK r \in TaskRec : r = [task[k] EXCEPT !.confirmations = conf, !.known = known]
  <2>1. conf \in Nat \cup {None}
    BY LogsHaveBlocks DEF TypeOK, Confirmations
  <2> QED BY <1>r, <2>1 DEF TaskRec
<1>3. r.pc = "enrich" /\ r.log = l /\ r.held = task[k].held /\ r.id = task[k].id
      /\ r.confirmations = conf
  BY <1>r, <1>l, <1>2 DEF TaskRec
<1>4. PICK a \in TaskRec : a = AfterPairs(r, ts)
  BY AfterPairsIsRest DEF Rest
<1>5. Rest(r, ts, a)
  BY AfterPairsIsRest, <1>4
<1>6. task' = [task EXCEPT ![k] = a]
  BY <1>1, <1>2, <1>4
<1>u. UNCHANGED <<unified, head, active, claims, sent, events, deliveries, stranded>>
  BY DEF Enrich
<1>7. PICK L \in SUBSET Pairs : Handover(k, {}, L)
  BY <1>r, <1>l, <1>1, <1>3, <1>5, <1>6, <1>u, SettleHandover DEF Rest, Outcomes
<1>8. CallIsSound(a)'
  BY <1>r, <1>l, <1>3, <1>5, <1>u DEF CallIsSound, Rest
<1>9. DepthIsSound(a)'
  <2> SUFFICES ASSUME a.confirmations # None
               PROVE  /\ unified /\ a.pc \notin {"idle", "send", "record"}
                      /\ a.confirmations > 0 => a.confirmations <= head - LogOf[a.log].block
    BY <1>u DEF DepthIsSound
  <2>1. a.confirmations = conf /\ a.log = l /\ a.pc \notin {"idle", "send", "record"}
    BY <1>3, <1>5 DEF Rest
  <2>2. PICK h \in 0..head : conf = Confirmations(LogOf[l].block, h)
    BY <2>1, <1>1
  <2>3. conf > 0 => conf <= head - LogOf[l].block
    BY <2>2, LogsHaveBlocks DEF Confirmations, TypeOK
  <2>4. unified
    BY <2>1, <1>1 DEF TypeOK
  <2> QED BY <2>1, <2>3, <2>4
<1>10. Owned' /\ Calls' /\ UnclaimedIsUntold'
  BY <1>6, <1>7, <1>8, <1>9, <1>u, TaskStep
<1>11. PathInv'
  BY <1>10, <1>u, SilentStep DEF PathInv, Owned, Calls
<1>12. TypeOK'
  BY <1>1, <1>6, <1>u, SettledOutcome DEF TypeOK, Outcomes
<1> QED BY <1>11, <1>12

LEMMA VerdictIsOutcome ==
    ASSUME NEW r, NEW t PROVE Verdict(r, t) \in Outcomes \cup {"go"}
BY DEF Verdict, Outcomes

LEMMA DropKeeps ==
    ASSUME TypeOK, PathInv, NEW k \in Tasks, NEW t \in Triggers, Drop(k, t)
    PROVE  TypeOK' /\ PathInv'
<1>r. task[k] \in TaskRec /\ task[k].pc = "route" /\ CallIsSound(task[k])
      /\ DepthIsSound(task[k]) /\ t \in task[k].held
  BY DEF TypeOK, Drop, PathInv
<1>1. PICK how \in Outcomes : Settle(k, {t}, how)
  BY VerdictIsOutcome DEF Drop, Outcomes
<1>4. PICK a \in TaskRec : a = AfterPairs(task[k], {t})
  BY <1>r, AfterPairsIsRest DEF Rest
<1>5. Rest(task[k], {t}, a)
  BY <1>r, AfterPairsIsRest, <1>4
<1>6. task' = [task EXCEPT ![k] = a]
  BY <1>4 DEF Drop
<1>u. UNCHANGED <<unified, head, active, claims, sent, events, deliveries, stranded>>
  BY DEF Drop
<1>7. PICK L \in SUBSET Pairs : Handover(k, {}, L)
  BY <1>r, <1>1, <1>5, <1>6, <1>u, SettleHandover DEF Rest
<1>8. CallIsSound(a)'
  BY <1>r, <1>5, <1>u DEF CallIsSound, Rest
<1>9. DepthIsSound(a)'
  BY <1>r, <1>5, <1>u DEF DepthIsSound, Rest
<1>10. Owned' /\ Calls' /\ UnclaimedIsUntold'
  BY <1>6, <1>7, <1>8, <1>9, <1>u, TaskStep
<1>11. PathInv'
  BY <1>10, <1>u, SilentStep DEF PathInv, Owned, Calls
<1>12. TypeOK'
  BY <1>1, <1>6, <1>u, SettledOutcome DEF TypeOK
<1> QED BY <1>11, <1>12

-----------------------------------------------------------------------------
(* Claims, and steps that keep what is held *)

\* A call that goes on to claim, having gained the pairs of G except those of L,
\* which it does not know of.
LEMMA DedupKeeps ==
    ASSUME TypeOK, PathInv, NEW k \in Tasks, NEW t \in Triggers,
           NEW held \in SUBSET Triggers, NEW G \in SUBSET Pairs, NEW L \in SUBSET Pairs, L \subseteq G,
           task[k].pc = "dedup",
           task' = [task EXCEPT ![k] = AfterDedup(task[k], t, held)],
           claims' = claims \cup G, G \cap claims = {}, stranded' = stranded \cup L,
           \A u \in Triggers :
             u \in held <=> u \in task[k].held \/ <<task[k].log, u>> \in G \ L,
           \A p \in G : p[1] = task[k].log,
           UNCHANGED <<unified, head, active, sent, events, deliveries, outcome>>
    PROVE  TypeOK' /\ PathInv'
<1>r. task[k] \in TaskRec /\ CallIsSound(task[k]) /\ DepthIsSound(task[k])
      /\ task[k].log \in Logs
  BY DEF TypeOK, PathInv, CallIsSound
<1>1. PICK a \in TaskRec : a = AfterDedup(task[k], t, held)
  BY <1>r, AfterDedupIsGoing DEF Going
<1>2. Going(task[k], held, a)
  BY <1>r, <1>1, AfterDedupIsGoing
<1>3. task' = [task EXCEPT ![k] = a] /\ task'[k] = a
  BY <1>1 DEF TypeOK
<1>n. \A p \in G : ~Ended(p) /\ ~Holds(k, p)
  BY DEF PathInv, ClaimsAreHeld
<1>4. ASSUME NEW p \in Pairs
      PROVE  Holds(k, p)' <=> (Holds(k, p) \/ p \in G) /\ p \notin L
  <2>1. PICK l \in Logs, u \in Triggers : p = <<l, u>>
    BY DEF Pairs
  <2>2. (Holds(k, p) \/ p \in G) /\ p \notin L <=> l = task[k].log /\ u \in held
    BY <1>n, <2>1 DEF Holds
  <2>3. CASE a.pc = "idle"
    BY <1>2, <1>3, <2>1, <2>2, <2>3 DEF Going, Holds
  <2>4. CASE a.pc # "idle"
    BY <1>2, <1>3, <2>1, <2>2, <2>4 DEF Going, Holds
  <2> QED BY <2>3, <2>4
<1>5. Handover(k, G, L)
  <2>1. stranded' \subseteq Pairs
    BY DEF TypeOK
  <2>2. \A p \in L : p \in G /\ Ended(p)' /\ outcome'[p] = None
    BY <1>n DEF Ended
  <2> QED BY <1>4, <2>1, <2>2 DEF Handover
<1>6. CallIsSound(a)'
  <2>1. \A u \in held : sent[<<task[k].log, u>>] = <<>>
    <3> SUFFICES ASSUME NEW u \in held PROVE sent[<<task[k].log, u>>] = <<>>
      OBVIOUS
    <3>1. CASE u \in task[k].held
      BY <1>r, <3>1 DEF CallIsSound
    <3>2. CASE <<task[k].log, u>> \in G
      BY <3>2 DEF PathInv, UnclaimedIsUntold
    <3> QED BY <3>1, <3>2
  <2> QED BY <1>r, <1>2, <2>1 DEF CallIsSound, Going
<1>7. DepthIsSound(a)'
  BY <1>r, <1>2 DEF DepthIsSound, Going
<1>8. Owned' /\ Calls' /\ UnclaimedIsUntold'
  BY <1>3, <1>5, <1>6, <1>7, TaskStep
<1>9. PathInv'
  BY <1>8, SilentStep DEF PathInv, Owned, Calls
<1>10. TypeOK'
  <2>1. claims' \subseteq Pairs /\ stranded' \subseteq claims'
    BY DEF TypeOK
  <2> QED BY <1>3, <2>1 DEF TypeOK
<1> QED BY <1>9, <1>10

LEMMA ClaimKeeps ==
    ASSUME TypeOK, PathInv, NEW k \in Tasks, NEW t \in Triggers,
           Claim(k, t) \/ ClaimFails(k, t)
    PROVE  TypeOK' /\ PathInv'
<1>r. task[k] \in TaskRec /\ task[k].pc = "dedup" /\ task[k].log \in Logs
      /\ task[k].held \in SUBSET Triggers
  BY DEF TypeOK, PathInv, Claim, ClaimFails, CallIsSound, TaskRec
<1>g. {<<task[k].log, t>>} \in SUBSET Pairs
  BY <1>r DEF Pairs
<1> DEFINE After(held, G, L) ==
        /\ L \subseteq G
        /\ task' = [task EXCEPT ![k] = AfterDedup(task[k], t, held)]
        /\ claims' = claims \cup G /\ G \cap claims = {} /\ stranded' = stranded \cup L
        /\ \A u \in Triggers :
             u \in held <=> u \in task[k].held \/ <<task[k].log, u>> \in G \ L
        /\ \A p \in G : p[1] = task[k].log
<1>1. PICK held \in SUBSET Triggers, G, L \in SUBSET Pairs : After(held, G, L)
  <2>1. CASE Claim(k, t) /\ IsNew(task[k].log, t)
    <3>1. PICK held \in SUBSET Triggers, G, L \in SUBSET Pairs :
             held = task[k].held \cup {t} /\ G = {<<task[k].log, t>>} /\ L = {}
      BY <1>r, <1>g
    <3>2. After(held, G, L)
      BY <2>1, <3>1 DEF Claim, IsNew
    <3> HIDE DEF After
    <3> QED BY <3>2
  <2>2. CASE (Claim(k, t) /\ ~IsNew(task[k].log, t))
             \/ (ClaimFails(k, t) /\ UNCHANGED <<claims, stranded>>)
    <3>1. PICK held \in SUBSET Triggers, G, L \in SUBSET Pairs :
             held = task[k].held /\ G = {} /\ L = {}
      BY <1>r
    <3>2. task' = [task EXCEPT ![k] = AfterDedup(task[k], t, held)]
      BY <2>2, <3>1 DEF Claim, ClaimFails
    <3>3. claims' = claims \cup G /\ stranded' = stranded \cup L
      BY <2>2, <3>1 DEF Claim, ClaimFails, IsNew
    <3>4. After(held, G, L)
      BY <3>1, <3>2, <3>3
    <3> HIDE DEF After
    <3> QED BY <3>4
  <2>3. CASE ClaimFails(k, t) /\ ~UNCHANGED <<claims, stranded>>
    <3>1. PICK held \in SUBSET Triggers, G, L \in SUBSET Pairs :
             held = task[k].held /\ G = {<<task[k].log, t>>} /\ L = G
      BY <1>r, <1>g
    <3>2. After(held, G, L)
      BY <2>3, <3>1 DEF ClaimFails, IsNew
    <3> HIDE DEF After
    <3> QED BY <3>2
  <2> QED BY <2>1, <2>2, <2>3
<1>2. UNCHANGED <<unified, head, active, sent, events, deliveries, outcome>>
  BY DEF Claim, ClaimFails
<1> QED BY <1>r, <1>1, <1>2, DedupKeeps

\* Nothing changes hands.
LEMMA SameHands ==
    ASSUME TypeOK, NEW k \in Tasks, NEW a \in TaskRec,
           task' = [task EXCEPT ![k] = a], UNCHANGED <<claims, outcome, stranded>>,
           a.held = task[k].held, a.held # {} => a.log = task[k].log
    PROVE  Handover(k, {}, {})
<1>1. task'[k] = a /\ stranded \subseteq Pairs
  BY DEF TypeOK
<1> QED BY <1>1 DEF Handover, Holds

LEMMA StartKeeps ==
    ASSUME TypeOK, PathInv, NEW k \in Tasks, NEW l \in Logs, Start(k, l)
    PROVE  TypeOK' /\ PathInv'
<1>r. task[k] \in TaskRec /\ task[k].pc = "idle" /\ task[k].held = {}
  BY DEF TypeOK, PathInv, Start, CallIsSound
<1>1. PICK a \in TaskRec : a = [Idle EXCEPT !.pc = "dedup", !.log = l, !.todo = Wanted(l)]
  BY DEF Idle, TaskRec, Wanted
<1>2. /\ a.held = {} /\ a.pc = "dedup" /\ a.log = l /\ ~a.id
      /\ a.confirmations = None
  BY <1>1 DEF Idle
<1>3. task' = [task EXCEPT ![k] = a]
  BY <1>1 DEF Start
<1>u. UNCHANGED <<unified, head, active, claims, sent, events, deliveries, outcome, stranded>>
  BY DEF Start
<1>4. Handover(k, {}, {})
  BY <1>r, <1>2, <1>3, <1>u, SameHands
<1>5. CallIsSound(a)' /\ DepthIsSound(a)'
  BY <1>2 DEF CallIsSound, DepthIsSound
<1>6. Owned' /\ Calls' /\ UnclaimedIsUntold'
  BY <1>3, <1>4, <1>5, <1>u, TaskStep
<1>7. PathInv'
  BY <1>6, <1>u, SilentStep DEF PathInv, Owned, Calls
<1>8. TypeOK'
  BY <1>3, <1>u DEF TypeOK
<1> QED BY <1>7, <1>8

LEMMA GoKeeps ==
    ASSUME TypeOK, PathInv, NEW k \in Tasks, NEW t \in Triggers, Go(k, t)
    PROVE  TypeOK' /\ PathInv'
<1>r. task[k] \in TaskRec /\ task[k].pc = "route" /\ CallIsSound(task[k])
      /\ DepthIsSound(task[k]) /\ t \in task[k].held
  BY DEF TypeOK, Go, PathInv
<1>1. PICK a \in TaskRec : a = [task[k] EXCEPT !.pc = "send", !.cur = t]
  BY <1>r DEF TaskRec
<1>2. /\ a.held = task[k].held /\ a.pc = "send" /\ a.log = task[k].log /\ a.cur = t
      /\ a.id = task[k].id /\ a.confirmations = task[k].confirmations
  BY <1>r, <1>1 DEF TaskRec
<1>3. task' = [task EXCEPT ![k] = a]
  BY <1>1 DEF Go, TypeOK
<1>u. UNCHANGED <<unified, head, active, claims, sent, events, deliveries, outcome, stranded>>
  BY DEF Go
<1>4. Handover(k, {}, {})
  BY <1>r, <1>2, <1>3, <1>u, SameHands
<1>5. CallIsSound(a)'
  BY <1>r, <1>2, <1>u DEF CallIsSound
<1>d. unified => DeepEnough(task[k].confirmations, t)
  BY DEF Go, Verdict
<1>6. DepthIsSound(a)'
  BY <1>r, <1>2, <1>u, <1>d DEF DepthIsSound, DeepEnough, Required
<1>7. Owned' /\ Calls' /\ UnclaimedIsUntold'
  BY <1>3, <1>4, <1>5, <1>6, <1>u, TaskStep
<1>8. PathInv'
  BY <1>7, <1>u, SilentStep DEF PathInv, Owned, Calls
<1>9. TypeOK'
  BY <1>3, <1>u DEF TypeOK
<1> QED BY <1>8, <1>9

-----------------------------------------------------------------------------
(* Webhooks, rows, and the end of a call *)

\* The first word about a pair, from a task that is about to send.
LEMMA SayKeeps ==
    ASSUME TypeOK, PathInv, NEW k \in Tasks, task[k].pc = "send", Say(task[k]),
           UNCHANGED <<head, deliveries>>
    PROVE  /\ sent' \in [Pairs -> Seq(Said)]
           /\ \A p \in Pairs : sent'[p] # sent[p] => Holds(k, p)
           /\ sent'[<<task[k].log, task[k].cur>>] # <<>>
           /\ \A t \in Triggers : t # task[k].cur =>
                sent'[<<task[k].log, t>>] = sent[<<task[k].log, t>>]
           /\ ToldAtMostOnce' /\ SaidIsDeep'
<1>r. task[k] \in TaskRec /\ CallIsSound(task[k]) /\ DepthIsSound(task[k])
      /\ task[k].cur \in task[k].held
  BY DEF TypeOK, PathInv, CallIsSound
<1>l. PICK l \in Logs, c \in Triggers : l = task[k].log /\ c = task[k].cur
  BY <1>r, HeldArePairs
<1>p. PICK q \in Pairs : q = <<l, c>>
  BY DEF Pairs
<1>1. Holds(k, q)
  BY <1>r, <1>l, <1>p DEF Holds
<1>2. sent[q] = <<>>
  BY <1>r, <1>l, <1>p DEF CallIsSound
<1>3. PICK s \in Said : s = Payload(task[k])
  <2>1. Payload(task[k]).safe \in BOOLEAN
    BY DEF Payload
  <2>2. task[k].confirmations \in Nat \cup {None}
    BY <1>r DEF TaskRec
  <2>3. PICK b \in BOOLEAN : b = Payload(task[k]).safe
    BY <2>1
  <2>4. Payload(task[k]) = [safe |-> b, confirmations |-> task[k].confirmations]
    BY <2>3 DEF Payload
  <2> QED BY <2>2, <2>4 DEF Said
<1>4. sent' = [sent EXCEPT ![q] = <<s>>]
  <2>1. Append(<<>>, s) = <<s>>
    OBVIOUS
  <2> QED BY <1>2, <1>3, <1>l, <1>p, <2>1 DEF Say
<1>5. sent' \in [Pairs -> Seq(Said)]
  BY <1>4 DEF TypeOK
<1>6. sent'[q] = <<s>> /\ \A p \in Pairs : p # q => sent'[p] = sent[p]
  BY <1>4 DEF TypeOK
<1>n. Len(<<s>>) = 1 /\ <<s>> # <<>>
  OBVIOUS
<1>7. \A p \in Pairs : sent'[p] # sent[p] => Holds(k, p)
  BY <1>1, <1>6
<1>8. \A t \in Triggers : t # c => sent'[<<l, t>>] = sent[<<l, t>>]
  BY <1>6, <1>p DEF Pairs
<1>9. ToldAtMostOnce'
  <2>1. \A p \in Pairs : Len(sent'[p]) <= 1
    <3> SUFFICES ASSUME NEW p \in Pairs PROVE Len(sent'[p]) <= 1
      OBVIOUS
    <3>1. CASE p = q
      BY <3>1, <1>6, <1>n
    <3>2. CASE p # q
      BY <3>2, <1>6 DEF PathInv, ToldAtMostOnce
    <3> QED BY <3>1, <3>2
  <2>2. \A p \in deliveries' : sent'[p] # <<>>
    BY <1>6 DEF PathInv, ToldAtMostOnce, TypeOK
  <2> QED BY <2>1, <2>2 DEF ToldAtMostOnce
<1>10. SaidIsDeep'
  <2>1. /\ s.confirmations # None =>
             s.confirmations >= Required(c) /\ s.confirmations > 0
             /\ s.confirmations <= head - LogOf[l].block
        /\ s.safe => s.confirmations # None /\ s.confirmations >= ChainDepth
    <3>1. s.confirmations = task[k].confirmations
      BY <1>3 DEF Payload
    <3>2. s.confirmations \in Nat \cup {None} /\ Required(c) \in Nat \ {0}
      BY RequiredIsPositive DEF Said
    <3>3. s.confirmations # None =>
             /\ s.confirmations >= Required(c)
             /\ s.confirmations > 0 => s.confirmations <= head - LogOf[l].block
      BY <3>1, <1>r, <1>l DEF DepthIsSound
    <3>4. s.confirmations # None => s.confirmations > 0
      BY <3>2, <3>3
    <3>5. s.safe => s.confirmations # None /\ s.confirmations >= ChainDepth
      BY <1>3 DEF Payload
    <3> QED BY <3>3, <3>4, <3>5
  <2>2. /\ s.confirmations # None => head - LogOf[l].block >= Required(c)
        /\ s.safe => head - LogOf[l].block >= ChainDepth
    <3>1. s.confirmations \in Nat \cup {None} /\ Required(c) \in Nat
          /\ LogOf[l].block \in Nat /\ head \in Nat /\ ChainDepth \in Nat
      BY RequiredIsPositive, LogsHaveBlocks, PathBounds DEF Said, TypeOK
    <3> QED BY <2>1, <3>1, NoneIsNoValue
  <2> SUFFICES ASSUME NEW p \in Pairs, NEW i \in DOMAIN sent'[p]
               PROVE  /\ sent'[p][i].confirmations # None =>
                            head - LogOf[p[1]].block >= Required(p[2])
                      /\ sent'[p][i].safe => head - LogOf[p[1]].block >= ChainDepth
    BY DEF SaidIsDeep, Required
  <2>3. CASE p = q
    <3>1. sent'[p][i] = s
      BY <1>6, <2>3
    <3> QED BY <3>1, <2>2, <2>3, <1>p
  <2>4. CASE p # q
    BY <1>6, <2>4 DEF PathInv, SaidIsDeep
  <2> QED BY <2>3, <2>4
<1>11. sent'[<<task[k].log, task[k].cur>>] # <<>>
  BY <1>6, <1>n, <1>l, <1>p
<1>12. \A t \in Triggers : t # task[k].cur =>
         sent'[<<task[k].log, t>>] = sent[<<task[k].log, t>>]
  BY <1>8, <1>l
<1> QED BY <1>5, <1>7, <1>9, <1>10, <1>11, <1>12

\* The call returned or was given up: the rows are next.
LEMMA SendKeeps ==
    ASSUME TypeOK, PathInv, NEW k \in Tasks, Send(k) \/ SendNot(k)
    PROVE  TypeOK' /\ PathInv'
<1>r. task[k] \in TaskRec /\ task[k].pc = "send" /\ CallIsSound(task[k])
      /\ DepthIsSound(task[k]) /\ task[k].cur \in task[k].held
  BY DEF TypeOK, Send, SendNot, PathInv, CallIsSound
<1>l. task[k].log \in Logs /\ task[k].held \subseteq Triggers
  BY <1>r DEF CallIsSound, TaskRec
<1>u. UNCHANGED <<unified, head, active, claims, events, deliveries, outcome, stranded>>
  BY DEF Send, SendNot
<1>1. PICK a \in TaskRec :
        /\ task' = [task EXCEPT ![k] = a]
        /\ a.held = task[k].held /\ a.pc = "record" /\ a.log = task[k].log
        /\ a.cur = task[k].cur /\ a.confirmations = task[k].confirmations
        /\ a.id => Say(task[k])
  <2>1. CASE Send(k)
    <3>1. PICK b \in BOOLEAN : task' = [task EXCEPT ![k].pc = "record", ![k].id = b]
      BY <2>1 DEF Send
    <3>2. PICK a \in TaskRec : a = [task[k] EXCEPT !.pc = "record", !.id = b]
      BY <1>r DEF TaskRec
    <3>3. task' = [task EXCEPT ![k] = a]
      BY <3>1, <3>2 DEF TypeOK
    <3> QED BY <1>r, <2>1, <3>2, <3>3 DEF TaskRec, Send
  <2>2. CASE SendNot(k)
    <3>1. task' = [task EXCEPT ![k].pc = "record"]
      BY <2>2 DEF SendNot
    <3>2. PICK a \in TaskRec : a = [task[k] EXCEPT !.pc = "record"]
      BY <1>r DEF TaskRec
    <3>3. task' = [task EXCEPT ![k] = a]
      BY <3>1, <3>2 DEF TypeOK
    <3>4. ~task[k].id
      BY <1>r DEF CallIsSound
    <3> QED BY <1>r, <3>2, <3>3, <3>4 DEF TaskRec
  <2> QED BY <2>1, <2>2
<1>2. Handover(k, {}, {})
  BY <1>r, <1>1, <1>u, SameHands
<1>3. DepthIsSound(a)'
  BY <1>r, <1>1, <1>u DEF DepthIsSound, Required
<1>4. CASE Say(task[k])
  <2>1. /\ sent' \in [Pairs -> Seq(Said)]
        /\ \A p \in Pairs : sent'[p] # sent[p] => Holds(k, p)
        /\ sent'[<<task[k].log, task[k].cur>>] # <<>>
        /\ \A t \in Triggers : t # task[k].cur =>
             sent'[<<task[k].log, t>>] = sent[<<task[k].log, t>>]
        /\ ToldAtMostOnce' /\ SaidIsDeep'
    BY <1>r, <1>4, <1>u, SayKeeps
  <2>2. CallIsSound(a)'
    BY <1>r, <1>l, <1>1, <2>1 DEF CallIsSound
  <2>3. Owned' /\ Calls' /\ UnclaimedIsUntold'
    BY <1>1, <1>2, <1>3, <1>u, <2>1, <2>2, TaskStep
  <2>4. PathInv'
    BY <2>1, <2>3 DEF PathInv, Owned, Calls
  <2>5. TypeOK'
    BY <1>1, <1>u, <2>1 DEF TypeOK
  <2> QED BY <2>4, <2>5
<1>5. CASE UNCHANGED sent /\ ~a.id
  <2>1. CallIsSound(a)'
    BY <1>r, <1>l, <1>1, <1>5 DEF CallIsSound
  <2>2. Owned' /\ Calls' /\ UnclaimedIsUntold'
    BY <1>1, <1>2, <1>3, <1>5, <1>u, <2>1, TaskStep
  <2>3. PathInv'
    BY <1>5, <1>u, <2>2, SilentStep DEF PathInv, Owned, Calls
  <2>4. TypeOK'
    BY <1>1, <1>5, <1>u DEF TypeOK
  <2> QED BY <2>3, <2>4
<1> QED BY <1>1, <1>4, <1>5 DEF Send, SendNot

LEMMA RecordKeeps ==
    ASSUME TypeOK, PathInv, NEW k \in Tasks, Record(k)
    PROVE  TypeOK' /\ PathInv'
<1>r. task[k] \in TaskRec /\ task[k].pc = "record" /\ CallIsSound(task[k])
      /\ DepthIsSound(task[k]) /\ task[k].cur \in task[k].held
  BY DEF TypeOK, Record, PathInv, CallIsSound
<1>l. PICK l \in Logs, c \in Triggers : l = task[k].log /\ c = task[k].cur
  BY <1>r, HeldArePairs
<1>u. UNCHANGED <<unified, head, active, claims, sent, stranded>>
  BY DEF Record
<1>p. <<l, c>> \in Pairs /\ <<l, c>> \in claims
  <2>1. <<l, c>> \in Pairs /\ Holds(k, <<l, c>>)
    BY <1>r, <1>l, HeldArePairs
  <2> QED BY <2>1 DEF PathInv, ClaimsAreHeld
<1>1. /\ events' \subseteq claims /\ deliveries' \subseteq claims
      /\ \A p \in deliveries' : p \in deliveries \/ (p = <<l, c>> /\ task[k].id)
  BY <1>l, <1>p DEF Record, TypeOK
<1>2. PICK r \in TaskRec : r = [task[k] EXCEPT !.id = FALSE]
  BY <1>r DEF TaskRec
<1>3. /\ r.pc = "record" /\ r.log = l /\ r.held = task[k].held /\ ~r.id
      /\ r.confirmations = task[k].confirmations
  BY <1>r, <1>l, <1>2 DEF TaskRec
<1>4. PICK a \in TaskRec : a = AfterPairs(r, {c})
  BY AfterPairsIsRest DEF Rest
<1>5. Rest(r, {c}, a)
  BY AfterPairsIsRest, <1>4
<1>6. task' = [task EXCEPT ![k] = a] /\ Settle(k, {c}, "processed")
  BY <1>l, <1>2, <1>4 DEF Record
<1>7. PICK L \in SUBSET Pairs : Handover(k, {}, L)
  BY <1>r, <1>l, <1>3, <1>5, <1>6, <1>u, SettleHandover DEF Rest, Outcomes
<1>8. CallIsSound(a)'
  BY <1>r, <1>l, <1>3, <1>5, <1>u DEF CallIsSound, Rest
<1>9. DepthIsSound(a)'
  BY <1>r, <1>l, <1>3, <1>5, <1>u DEF DepthIsSound, Rest
<1>10. Owned' /\ Calls' /\ UnclaimedIsUntold'
  BY <1>6, <1>7, <1>8, <1>9, <1>u, TaskStep
<1>11. ToldAtMostOnce'
  BY <1>1, <1>r, <1>l, <1>u DEF PathInv, ToldAtMostOnce, CallIsSound
<1>12. SaidIsDeep'
  BY <1>u DEF PathInv, SaidIsDeep
<1>13. TypeOK'
  BY <1>1, <1>6, <1>u, SettledOutcome DEF TypeOK, Outcomes
<1> QED BY <1>10, <1>11, <1>12, <1>13 DEF PathInv, Owned, Calls

LEMMA CutKeeps ==
    ASSUME TypeOK, PathInv, NEW k \in Tasks, Cut(k)
    PROVE  TypeOK' /\ PathInv'
<1>r. task[k] \in TaskRec /\ task[k].pc # "idle" /\ CallIsSound(task[k])
  BY DEF TypeOK, Cut, PathInv
<1>l. PICK l \in Logs : l = task[k].log
  BY <1>r DEF CallIsSound
<1>u. UNCHANGED <<unified, head, active, deliveries, outcome>>
  BY DEF Cut
<1>1. PICK late \in SUBSET Triggers :
        /\ \A t \in late : IsNew(l, t)
        /\ claims' = claims \cup {<<l, t>> : t \in late}
        /\ stranded' = stranded \cup {<<l, t>> : t \in task[k].held \cup late}
  <2>1. PICK late \in {{}} \cup {{t} : t \in {u \in task[k].todo :
                                   task[k].pc = "dedup" /\ IsNew(task[k].log, u)}} :
           /\ claims' = claims \cup {<<task[k].log, t>> : t \in late}
           /\ stranded' = stranded \cup {<<task[k].log, t>> : t \in task[k].held \cup late}
    BY DEF Cut
  <2>2. late \in SUBSET Triggers /\ \A t \in late : IsNew(task[k].log, t)
    BY <1>r, <2>1 DEF TaskRec
  <2> QED BY <1>l, <2>1, <2>2
<1>h. task[k].held \subseteq Triggers
  BY <1>r DEF TaskRec
<1>2. PICK G \in SUBSET Pairs : G = {<<l, t>> : t \in late}
  <2>1. {<<l, t>> : t \in late} \in SUBSET Pairs
    BY DEF Pairs
  <2> QED BY <2>1
<1>3. PICK L \in SUBSET Pairs :
        L = {p \in Pairs : p[1] = l /\ p[2] \in task[k].held \cup late}
  OBVIOUS
<1>4. task' = [task EXCEPT ![k] = Idle] /\ task'[k] = Idle
  BY DEF Cut, TypeOK
<1>5. Handover(k, G, L)
  <2>1. claims' = claims \cup G /\ G \cap claims = {}
    BY <1>1, <1>2 DEF IsNew
  <2>2. ASSUME NEW p \in Pairs
        PROVE  /\ Holds(k, p) \/ p \in G <=> p \in L
               /\ ~Holds(k, p)'
    <3>1. PICK m \in Logs, t \in Triggers : p = <<m, t>>
      BY DEF Pairs
    <3>2. Holds(k, p) <=> m = l /\ t \in task[k].held
      BY <1>l, <3>1 DEF Holds
    <3>3. p \in G <=> m = l /\ t \in late
      BY <1>2, <3>1
    <3>4. p \in L <=> m = l /\ (t \in task[k].held \/ t \in late)
      BY <1>3, <3>1
    <3>5. ~Holds(k, p)'
      BY <1>4 DEF Holds, Idle
    <3> QED BY <3>2, <3>3, <3>4, <3>5
  <2>3. stranded' = stranded \cup L
    BY <1>1, <1>3, <1>h DEF Pairs
  <2>4. stranded \subseteq Pairs /\ stranded' \subseteq Pairs
    BY <2>3 DEF TypeOK
  <2>5. \A p \in Pairs : Holds(k, p) \/ p \in G => outcome[p] = None
    BY <2>1 DEF PathInv, HeldIsOpen, ClaimsAreHeld, Ended
  <2>6. \A p \in L : Ended(p)' /\ outcome'[p] = None
    BY <1>u, <2>2, <2>3, <2>5 DEF Ended
  <2> QED BY <1>u, <2>1, <2>2, <2>3, <2>4, <2>6 DEF Handover
<1>6. /\ sent' \in [Pairs -> Seq(Said)]
      /\ \A p \in Pairs : sent'[p] # sent[p] => Holds(k, p)
      /\ ToldAtMostOnce' /\ SaidIsDeep'
  <2>1. CASE UNCHANGED sent
    BY <2>1, <1>u, SilentStep DEF TypeOK
  <2>2. CASE task[k].pc = "send" /\ Say(task[k])
    BY <2>2, <1>u, SayKeeps
  <2> QED BY <2>1, <2>2 DEF Cut
<1>7. events' \subseteq claims
  <2>1. CASE UNCHANGED events
    BY <2>1 DEF TypeOK
  <2>2. CASE task[k].pc = "record" /\ events' = events \cup {<<task[k].log, task[k].cur>>}
    <3>1. task[k].cur \in task[k].held
      BY <1>r, <2>2 DEF CallIsSound
    <3>2. <<task[k].log, task[k].cur>> \in Pairs /\ Holds(k, <<task[k].log, task[k].cur>>)
      BY <1>r, <3>1, HeldArePairs
    <3>3. <<task[k].log, task[k].cur>> \in claims
      BY <3>2 DEF PathInv, ClaimsAreHeld
    <3> QED BY <2>2, <3>3 DEF TypeOK
  <2> QED BY <2>1, <2>2 DEF Cut
<1>8. CallIsSound(Idle)' /\ DepthIsSound(Idle)'
  BY DEF CallIsSound, DepthIsSound, Idle
<1>9. Owned' /\ Calls' /\ UnclaimedIsUntold'
  BY <1>4, <1>5, <1>6, <1>8, <1>u, IdleIsTaskRec, TaskStep
<1>10. stranded' \subseteq claims'
  <2>1. ASSUME NEW t \in task[k].held PROVE <<l, t>> \in claims
    BY <1>r, <1>l, HeldArePairs DEF PathInv, ClaimsAreHeld
  <2> QED BY <1>1, <2>1 DEF TypeOK
<1>11. TypeOK'
  BY <1>1, <1>2, <1>4, <1>6, <1>7, <1>10, <1>u, IdleIsTaskRec DEF TypeOK
<1> QED BY <1>6, <1>9, <1>11 DEF PathInv, Owned, Calls

-----------------------------------------------------------------------------
(* The theorems *)

LEMMA GrowKeeps ==
    ASSUME TypeOK, PathInv, Grow
    PROVE  TypeOK' /\ PathInv'
<1>u. /\ head' = head + 1 /\ head \in Nat /\ head' \in 0..MaxHead
      /\ UNCHANGED <<unified, active, claims, task, sent, events, deliveries, outcome, stranded>>
  BY PathBounds DEF Grow, TypeOK
<1>1. TypeOK'
  BY <1>u DEF TypeOK
<1>2. Owned' /\ UnclaimedIsUntold' /\ ToldAtMostOnce'
  BY <1>u DEF PathInv, Owned, ClaimsAreHeld, HeldIsOpen, StrandedIsOpen, Ended, HeldOnce, Holds,
              UnclaimedIsUntold, ToldAtMostOnce
<1>3. SaidIsDeep'
  <2> SUFFICES ASSUME NEW p \in Pairs, NEW i \in DOMAIN sent[p]
               PROVE  /\ sent[p][i].confirmations # None =>
                            head' - LogOf[p[1]].block >= Required(p[2])
                      /\ sent[p][i].safe => head' - LogOf[p[1]].block >= ChainDepth
    BY <1>u DEF SaidIsDeep, Required
  <2>1. LogOf[p[1]].block \in Nat /\ Required(p[2]) \in Nat /\ ChainDepth \in Nat
    BY LogsHaveBlocks, RequiredIsPositive, PathBounds DEF Pairs
  <2>2. /\ sent[p][i].confirmations # None =>
             head - LogOf[p[1]].block >= Required(p[2])
        /\ sent[p][i].safe => head - LogOf[p[1]].block >= ChainDepth
    BY DEF PathInv, SaidIsDeep
  <2> QED BY <1>u, <2>1, <2>2
<1>4. Calls'
  <2> SUFFICES ASSUME NEW j \in Tasks
               PROVE  CallIsSound(task[j])' /\ DepthIsSound(task[j])'
    BY DEF Calls
  <2>1. CallIsSound(task[j]) /\ DepthIsSound(task[j]) /\ task[j] \in TaskRec
    BY DEF PathInv, TypeOK
  <2>2. CallIsSound(task[j])'
    BY <2>1, <1>u DEF CallIsSound
  <2>3. task[j].pc # "idle" => LogOf[task[j].log].block \in Nat
    BY <2>1, LogsHaveBlocks DEF CallIsSound
  <2>4. task[j].confirmations # None => task[j].confirmations \in Nat
    BY <2>1 DEF TaskRec
  <2>5. DepthIsSound(task[j])'
    BY <2>1, <2>3, <2>4, <1>u DEF DepthIsSound, Required
  <2> QED BY <2>2, <2>5
<1> QED BY <1>1, <1>2, <1>3, <1>4 DEF PathInv, Owned, Calls

LEMMA FrameKeeps ==
    ASSUME TypeOK, PathInv, active' \subseteq Endpoints,
           UNCHANGED <<unified, head, claims, task, sent, events, deliveries, outcome, stranded>>
    PROVE  TypeOK' /\ PathInv'
<1>1. TypeOK'
  BY DEF TypeOK
<1>2. Owned' /\ UnclaimedIsUntold' /\ ToldAtMostOnce'
  BY DEF PathInv, Owned, ClaimsAreHeld, HeldIsOpen, StrandedIsOpen, Ended, HeldOnce, Holds,
         UnclaimedIsUntold, ToldAtMostOnce
<1>3. SaidIsDeep'
  BY DEF PathInv, SaidIsDeep
<1>4. Calls'
  <2> SUFFICES ASSUME NEW j \in Tasks
               PROVE  CallIsSound(task[j])' /\ DepthIsSound(task[j])'
    BY DEF Calls
  <2>1. CallIsSound(task[j]) /\ DepthIsSound(task[j])
    BY DEF PathInv
  <2> QED BY <2>1 DEF CallIsSound, DepthIsSound, Required
<1> QED BY <1>1, <1>2, <1>3, <1>4 DEF PathInv, Owned, Calls

LEMMA PathNext ==
    ASSUME TypeOK, PathInv, [Next]_vars
    PROVE  TypeOK' /\ PathInv'
<1>1. CASE Grow
  BY <1>1, GrowKeeps
<1>2. CASE \E e \in Endpoints : SwitchEndpoint(e)
  BY <1>2, FrameKeeps DEF SwitchEndpoint, TypeOK
<1>3. ASSUME NEW k \in Tasks, Step(k) PROVE TypeOK' /\ PathInv'
  BY <1>3, EnrichKeeps, SendKeeps, RecordKeeps, ClaimKeeps, DropKeeps, GoKeeps DEF Step
<1>4. ASSUME NEW k \in Tasks, Cut(k) PROVE TypeOK' /\ PathInv'
  BY <1>4, CutKeeps
<1>5. ASSUME NEW k \in Tasks, NEW l \in Logs, Start(k, l) PROVE TypeOK' /\ PathInv'
  BY <1>5, StartKeeps
<1>6. CASE UNCHANGED vars
  BY <1>6, FrameKeeps DEF vars, TypeOK
<1> QED BY <1>1, <1>2, <1>3, <1>4, <1>5, <1>6 DEF Next

LEMMA PathInit ==
    ASSUME Init PROVE TypeOK /\ PathInv
<1>1. TypeOK
  <2>1. head \in 0..MaxHead
    BY PathBounds DEF Init
  <2>2. <<>> \in Seq(Said)
    OBVIOUS
  <2> QED BY <2>1, <2>2, IdleIsTaskRec DEF Init, TypeOK
<1>2. \A k \in Tasks : task[k] = Idle /\ CallIsSound(Idle) /\ DepthIsSound(Idle)
  BY DEF Init, Idle, CallIsSound, DepthIsSound
<1>3. \A k \in Tasks, p \in Pairs : ~Holds(k, p)
  BY <1>2 DEF Holds, Idle
<1>4. ClaimsAreHeld /\ HeldIsOpen /\ StrandedIsOpen /\ HeldOnce
  BY <1>3 DEF Init, ClaimsAreHeld, HeldIsOpen, StrandedIsOpen, Ended, HeldOnce
<1>5. UnclaimedIsUntold /\ ToldAtMostOnce /\ SaidIsDeep
  <2>1. Len(<<>>) = 0 /\ DOMAIN <<>> = {}
    OBVIOUS
  <2> QED BY <2>1 DEF Init, UnclaimedIsUntold, ToldAtMostOnce, SaidIsDeep
<1> QED BY <1>1, <1>2, <1>4, <1>5 DEF PathInv

\* The calls of process_event, their claims and what they have said stay as PathInv
\* describes them, in either path and through every failure.
THEOREM PathCorrect == Spec => [](TypeOK /\ PathInv)
<1>1. Init => TypeOK /\ PathInv
  BY PathInit
<1>2. TypeOK /\ PathInv /\ [Next]_vars => (TypeOK /\ PathInv)'
  BY PathNext
<1> QED BY <1>1, <1>2, PTL DEF Spec

\* Two calls of process_event never own a claim of record_nonce together, and a
\* claim that no call owns was decided on, or is stranded: its call was cut off or
\* never learned that the nonce had been inserted.
THEOREM OneOwner == Spec => []ClaimHasOneOwner
<1>1. ASSUME TypeOK, PathInv PROVE ClaimHasOneOwner
  <2> SUFFICES ASSUME NEW p \in Pairs
               PROVE  LET owners == {k \in Tasks : Holds(k, p)} IN
                      /\ p \in claims <=> (owners # {} \/ Ended(p))
                      /\ owners # {} => ~Ended(p) /\ Cardinality(owners) = 1
                      /\ p \in stranded => outcome[p] = None
    BY DEF ClaimHasOneOwner
  <2> DEFINE owners == {k \in Tasks : Holds(k, p)}
  <2>1. p \in claims <=> (owners # {} \/ Ended(p))
    BY <1>1 DEF PathInv, ClaimsAreHeld
  <2>2. ASSUME owners # {} PROVE ~Ended(p) /\ Cardinality(owners) = 1
    <3>1. PICK k \in Tasks : Holds(k, p)
      BY <2>2
    <3>2. owners = {k}
      BY <1>1, <3>1 DEF PathInv, HeldOnce
    <3>3. Cardinality({k}) = 1
      BY FS_Singleton
    <3> QED BY <1>1, <3>1, <3>2, <3>3 DEF PathInv, HeldIsOpen
  <2>3. p \in stranded => outcome[p] = None
    BY <1>1 DEF PathInv, StrandedIsOpen
  <2> QED BY <2>1, <2>2, <2>3
<1> QED BY <1>1, PathCorrect, PTL

\* However often a log is delivered, and whichever instances get it, an owner hears
\* at most once of a pair, and a delivery row is about something that was sent.
THEOREM AtMostOnce == Spec => []ToldAtMostOnce
<1>1. PathInv => ToldAtMostOnce
  BY DEF PathInv
<1> QED BY <1>1, PathCorrect, PTL

\* A finality block that the unified loop sends, from a head it read earlier and
\* from a node that may lag, never claims more depth than the chain has by then.
THEOREM SaidIsTrue == Spec => []SaidIsDeep
<1>1. PathInv => SaidIsDeep
  BY DEF PathInv
<1> QED BY <1>1, PathCorrect, PTL

\* The rows of the path are about claimed pairs, and every call is well formed.
THEOREM PathTypes == Spec => []TypeOK
BY PathCorrect, PTL

-----------------------------------------------------------------------------
(* An ended pair *)

\* Once a pair was decided on or is stranded, nothing is said about it, no row is
\* written for it and it stays what it is, whoever is given the log again.
EndedIsClosed ==
    \A p \in Pairs : Ended(p) =>
        /\ outcome'[p] = outcome[p] /\ sent'[p] = sent[p]
        /\ p \in claims'
        /\ p \in events' <=> p \in events
        /\ p \in deliveries' <=> p \in deliveries

\* Nobody holds a pair that has ended, and its nonce stays taken.
LEMMA EndedIsLetGo ==
    ASSUME PathInv, NEW p \in Pairs, Ended(p)
    PROVE  p \in claims /\ \A k \in Tasks : ~Holds(k, p)
BY DEF PathInv, ClaimsAreHeld, HeldIsOpen

\* A step that ends, speaks of and writes rows for only what its task holds.
LEMMA ClosedStep ==
    ASSUME PathInv, NEW k \in Tasks, claims \subseteq claims',
           \A p \in Pairs : \/ Holds(k, p) \/ p \notin claims
                            \/ outcome'[p] = outcome[p] /\ sent'[p] = sent[p]
                               /\ (p \in events' <=> p \in events)
                               /\ (p \in deliveries' <=> p \in deliveries)
    PROVE  EndedIsClosed
<1> SUFFICES ASSUME NEW p \in Pairs, Ended(p)
             PROVE  /\ outcome'[p] = outcome[p] /\ sent'[p] = sent[p]
                    /\ p \in claims'
                    /\ p \in events' <=> p \in events
                    /\ p \in deliveries' <=> p \in deliveries
  BY DEF EndedIsClosed
<1>1. p \in claims /\ ~Holds(k, p)
  BY EndedIsLetGo
<1> QED BY <1>1

\* The pair that a call speaks of is one that it holds.
LEMMA CurrentIsHeld ==
    ASSUME PathInv, NEW k \in Tasks, task[k].pc \in {"send", "record"},
           NEW p \in Pairs, p = <<task[k].log, task[k].cur>>
    PROVE  Holds(k, p)
BY DEF PathInv, CallIsSound, Holds

\* The end of a pair is final: a log that is delivered again, a task that was
\* overtaken or a late answer changes nothing about it, and nothing takes up a pair
\* that is stranded.
THEOREM EndIsFinal == Spec => [][EndedIsClosed]_vars
<1>1. ASSUME TypeOK, PathInv, Next PROVE EndedIsClosed
  <2> USE <1>1
  <2> DEFINE Same == UNCHANGED <<outcome, sent, events, deliveries>> /\ claims \subseteq claims'
             Quiet == UNCHANGED <<claims, sent, events, deliveries>>
  <2>1. ASSUME Same PROVE EndedIsClosed
    BY <2>1, EndedIsLetGo DEF EndedIsClosed
  <2>2. ASSUME NEW k \in Tasks, NEW ts, NEW how, ts \subseteq task[k].held,
               Settle(k, ts, how), Quiet
        PROVE  EndedIsClosed
    <3>1. \A p \in Pairs : Holds(k, p) \/ outcome'[p] = outcome[p]
      BY <2>2 DEF Settle, Holds
    <3> QED BY <2>2, <3>1, ClosedStep
  <2>3. ASSUME NEW k \in Tasks, Enrich(k) PROVE EndedIsClosed
    <3>1. PICK ts : ts \subseteq task[k].held /\ Settle(k, ts, "reputation")
      BY <2>3 DEF Enrich
    <3>2. Quiet
      BY <2>3 DEF Enrich
    <3> QED BY <2>2, <3>1, <3>2
  <2>4. ASSUME NEW k \in Tasks, NEW t \in Triggers, Drop(k, t) PROVE EndedIsClosed
    <3>1. PICK how : Settle(k, {t}, how)
      BY <2>4 DEF Drop
    <3>2. Quiet /\ {t} \subseteq task[k].held
      BY <2>4 DEF Drop
    <3> QED BY <2>2, <3>1, <3>2
  <2>5. ASSUME NEW k \in Tasks, Send(k) \/ SendNot(k) PROVE EndedIsClosed
    <3>1. /\ UNCHANGED <<claims, events, deliveries, outcome, stranded>> /\ task[k].pc = "send"
          /\ sent' = sent \/ Say(task[k])
      BY <2>5 DEF Send, SendNot
    <3>2. \A p \in Pairs : Holds(k, p) \/ sent'[p] = sent[p]
      BY <3>1, CurrentIsHeld DEF Say, TypeOK
    <3> QED BY <3>1, <3>2, ClosedStep
  <2>6. ASSUME NEW k \in Tasks, Record(k) PROVE EndedIsClosed
    <3>1. /\ UNCHANGED <<claims, sent>> /\ task[k].pc = "record"
          /\ Settle(k, {task[k].cur}, "processed")
          /\ events \subseteq events' /\ events' \subseteq events \cup {<<task[k].log, task[k].cur>>}
          /\ deliveries \subseteq deliveries'
          /\ deliveries' \subseteq deliveries \cup {<<task[k].log, task[k].cur>>}
      BY <2>6 DEF Record
    <3>2. \A p \in Pairs : \/ Holds(k, p)
                           \/ /\ p \in events' <=> p \in events
                              /\ p \in deliveries' <=> p \in deliveries
      BY <3>1, CurrentIsHeld
    <3>3. task[k].cur \in task[k].held
      BY <3>1 DEF PathInv, CallIsSound
    <3>4. \A p \in Pairs : Holds(k, p) \/ outcome'[p] = outcome[p]
      BY <3>1, <3>3 DEF Settle, Holds
    <3> QED BY <3>1, <3>2, <3>4, ClosedStep
  <2>7. ASSUME NEW k \in Tasks, Cut(k) PROVE EndedIsClosed
    <3>1. claims \subseteq claims' /\ outcome' = outcome
      BY <2>7 DEF Cut
    <3>2. /\ sent' = sent \/ (task[k].pc = "send" /\ Say(task[k]))
          /\ \/ events' = events
             \/ task[k].pc = "record" /\ events' = events \cup {<<task[k].log, task[k].cur>>}
          /\ deliveries' = deliveries
      BY <2>7 DEF Cut
    <3>4. \A p \in Pairs : Holds(k, p) \/ sent'[p] = sent[p]
      BY <3>2, CurrentIsHeld DEF Say, TypeOK
    <3>5. \A p \in Pairs : Holds(k, p) \/ (p \in events' <=> p \in events)
      BY <3>2, CurrentIsHeld
    <3> QED BY <3>1, <3>2, <3>4, <3>5, ClosedStep
  <2>8. ASSUME NEW k \in Tasks, NEW t \in Triggers,
               Claim(k, t) \/ ClaimFails(k, t) \/ Go(k, t)
        PROVE  Same
    BY <2>8 DEF Claim, ClaimFails, Go
  <2>9. ASSUME \/ Grow \/ \E e \in Endpoints : SwitchEndpoint(e)
               \/ \E k \in Tasks, l \in Logs : Start(k, l)
        PROVE  Same
    BY <2>9 DEF Grow, SwitchEndpoint, Start
  <2> QED BY <2>1, <2>3, <2>4, <2>5, <2>6, <2>7, <2>8, <2>9 DEF Next, Step
<1> QED BY <1>1, PathCorrect, PTL DEF Spec

-----------------------------------------------------------------------------
(* A call that has begun can go on *)

\* A call has a pair to claim while it claims, and holds one from then on until it has
\* decided on all of them.
GoesOn(r) ==
    /\ r.pc = "dedup" => r.todo # {}
    /\ r.pc \in {"enrich", "route", "send", "record"} => r.held # {}

CallsGoOn == \A k \in Tasks : GoesOn(task[k])

\* What the helpers make of a call goes on.
LEMMA HelpersGoOn ==
    /\ GoesOn(Idle)
    /\ \A r \in TaskRec : \A ts : GoesOn(AfterPairs(r, ts))
    /\ \A r \in TaskRec : \A t, held : r.pc = "dedup" => GoesOn(AfterDedup(r, t, held))
<1>1. GoesOn(Idle)
  BY DEF Idle, GoesOn
<1>2. ASSUME NEW r \in TaskRec, NEW ts PROVE GoesOn(AfterPairs(r, ts))
  <2>1. CASE r.held \ ts # {}
    BY <2>1 DEF AfterPairs, GoesOn, TaskRec
  <2>2. CASE r.held \ ts = {} /\ r.todo # {}
    BY <2>2 DEF AfterPairs, GoesOn, TaskRec, Idle
  <2>3. CASE r.held \ ts = {} /\ r.todo = {}
    BY <1>1, <2>3 DEF AfterPairs
  <2> QED BY <2>1, <2>2, <2>3
<1>3. ASSUME NEW r \in TaskRec, NEW t, NEW held, r.pc = "dedup"
      PROVE  GoesOn(AfterDedup(r, t, held))
  <2>1. CASE held # {} /\ (r.todo \ {t} = {} \/ ~unified)
    BY <2>1 DEF AfterDedup, GoesOn, TaskRec
  <2>2. CASE ~(held # {} /\ (r.todo \ {t} = {} \/ ~unified)) /\ r.todo \ {t} = {}
    BY <1>1, <2>2 DEF AfterDedup
  <2>3. CASE ~(held # {} /\ (r.todo \ {t} = {} \/ ~unified)) /\ r.todo \ {t} # {}
    BY <1>3, <2>3 DEF AfterDedup, GoesOn, TaskRec
  <2> QED BY <2>1, <2>2, <2>3
<1> QED BY <1>1, <1>2, <1>3

\* One task moves to a call that goes on.
LEMMA OneGoesOn ==
    ASSUME TypeOK, CallsGoOn, NEW k \in Tasks, NEW a,
           task' = [task EXCEPT ![k] = a], GoesOn(a)
    PROVE  CallsGoOn'
BY DEF TypeOK, CallsGoOn, GoesOn

\* The safety part of ClaimsAreSettled: no call of process_event is left with a claim
\* and nothing to do for it, in either path and whatever failed before.
THEOREM CallsNeverStick == Spec => []CallsGoOn
<1>1. Init => CallsGoOn
  BY HelpersGoOn DEF Init, CallsGoOn
<1>2. ASSUME TypeOK, PathInv, CallsGoOn, [Next]_vars PROVE CallsGoOn'
  <2> USE <1>2
  <2>1. ASSUME task' = task PROVE CallsGoOn'
    BY <2>1 DEF CallsGoOn
  <2>2. ASSUME \/ UNCHANGED vars \/ Grow \/ \E e \in Endpoints : SwitchEndpoint(e)
        PROVE  task' = task
    BY <2>2 DEF vars, Grow, SwitchEndpoint
  <2>3. ASSUME NEW k \in Tasks PROVE task[k] \in TaskRec /\ GoesOn(task[k])
    BY DEF TypeOK, CallsGoOn
  <2>4. ASSUME NEW k \in Tasks, NEW l \in Logs, Start(k, l) PROVE CallsGoOn'
    <3>1. PICK ts : ts = Wanted(l)
      OBVIOUS
    <3>2. PICK a : a = [Idle EXCEPT !.pc = "dedup", !.log = l, !.todo = ts]
      OBVIOUS
    <3>3. ts # {} /\ task' = [task EXCEPT ![k] = a]
      BY <2>4, <3>1, <3>2 DEF Start
    <3>4. GoesOn(a)
      BY <3>2, <3>3 DEF GoesOn, Idle
    <3> QED BY <3>3, <3>4, OneGoesOn
  <2>5. ASSUME NEW k \in Tasks, NEW t \in Triggers, Claim(k, t) \/ ClaimFails(k, t)
        PROVE  CallsGoOn'
    <3>1. task[k].pc = "dedup"
      BY <2>5 DEF Claim, ClaimFails
    <3>2. PICK held : task' = [task EXCEPT ![k] = AfterDedup(task[k], t, held)]
      BY <2>5 DEF Claim, ClaimFails
    <3>3. PICK a : a = AfterDedup(task[k], t, held)
      OBVIOUS
    <3>4. GoesOn(a)
      BY <2>3, <3>1, <3>3, HelpersGoOn
    <3> QED BY <3>2, <3>3, <3>4, OneGoesOn
  <2>6. ASSUME NEW k \in Tasks, NEW r \in TaskRec, NEW ts,
               task' = [task EXCEPT ![k] = AfterPairs(r, ts)]
        PROVE  CallsGoOn'
    <3>1. PICK a : a = AfterPairs(r, ts)
      OBVIOUS
    <3>2. GoesOn(a)
      BY <3>1, HelpersGoOn
    <3> QED BY <2>6, <3>1, <3>2, OneGoesOn
  <2>7. ASSUME NEW k \in Tasks, NEW t \in Triggers, Drop(k, t) PROVE CallsGoOn'
    BY <2>3, <2>6, <2>7 DEF Drop
  <2>8. ASSUME NEW k \in Tasks, Record(k) PROVE CallsGoOn'
    <3>1. PICK r : r = [task[k] EXCEPT !.id = FALSE]
      OBVIOUS
    <3>2. r \in TaskRec
      BY <2>3, <3>1 DEF TaskRec
    <3>3. task' = [task EXCEPT ![k] = AfterPairs(r, {task[k].cur})]
      BY <2>8, <3>1 DEF Record
    <3> QED BY <2>6, <3>2, <3>3
  <2>9. ASSUME NEW k \in Tasks, Enrich(k) PROVE CallsGoOn'
    <3>1. PICK l \in Logs : l = task[k].log
      BY <2>9 DEF PathInv, CallIsSound, Enrich
    <3>2. PICK conf \in {None} \cup {Confirmations(LogOf[l].block, h) : h \in 0..head},
               known \in BOOLEAN :
            \E ts : task' = [task EXCEPT ![k] =
              AfterPairs([task[k] EXCEPT !.confirmations = conf, !.known = known], ts)]
      BY <2>9, <3>1 DEF Enrich
    <3>3. conf \in Nat \cup {None}
      <4>1. LogOf[l].block \in Nat /\ head \in Nat
        BY LogsHaveBlocks, PathBounds DEF TypeOK
      <4> QED BY <4>1 DEF Confirmations
    <3>4. PICK r : r = [task[k] EXCEPT !.confirmations = conf, !.known = known]
      OBVIOUS
    <3>5. r \in TaskRec
      BY <2>3, <3>3, <3>4 DEF TaskRec
    <3> QED BY <2>6, <3>2, <3>4, <3>5
  <2>10. ASSUME NEW k \in Tasks,
               \/ Send(k) \/ SendNot(k) \/ \E t \in Triggers : Go(k, t)
         PROVE  CallsGoOn'
    <3>1. PICK a : a = task'[k]
      OBVIOUS
    <3>2. a.pc \in {"send", "record"} /\ a.held = task[k].held /\ task[k].held # {}
      BY <2>3, <2>10, <3>1 DEF Send, SendNot, Go, TypeOK, TaskRec, GoesOn
    <3>3. \A j \in Tasks \ {k} : task'[j] = task[j]
      BY <2>10 DEF Send, SendNot, Go, TypeOK
    <3> QED BY <3>1, <3>2, <3>3 DEF CallsGoOn, GoesOn
  <2>11. ASSUME NEW k \in Tasks, Cut(k) PROVE CallsGoOn'
    BY <2>11, OneGoesOn, HelpersGoOn DEF Cut
  <2> QED BY <2>1, <2>2, <2>4, <2>5, <2>7, <2>8, <2>9, <2>10, <2>11 DEF Next, Step
<1> QED BY <1>1, <1>2, PathCorrect, PTL DEF Spec
==============================================================================
