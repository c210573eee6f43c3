---------------------------- MODULE MCTriggerPath ----------------------------
(* Small instances of the trigger path. *)
EXTENDS TriggerPath, TLC

CONSTANTS l1, t1, t2, e1, e2

\* A payment of 5 by an agent of reputation 2, in block 1.
MCLogOf == l1 :>
    [topic |-> 1, chain |-> 1, contract |-> 1, shape |-> 1, block |-> 1,
     fields |-> [value |-> 5], amount |-> 5, token |-> 1, sender |-> 1,
     identity |-> [class |-> 1, reputation |-> 2]]

AnyTrigger == [topic |-> 1, chains |-> {}, contract |-> None, shape |-> 1,
    filters |-> <<>>, requirePayment |-> FALSE, token |-> None, minAmount |-> None,
    threshold |-> 0, endpoint |-> e1]

\* The first trigger is for paying logs of some value, the second asks for reputation.
MCTriggerOf ==
    t1 :> [AnyTrigger EXCEPT !.filters = <<[field |-> "value", op |-> "between", value |-> <<1, 5>>],
                                           [field |-> "value", op |-> "neq", value |-> 4]>>,
                             !.requirePayment = TRUE, !.minAmount = 5] @@
    t2 :> [AnyTrigger EXCEPT !.chains = {1}, !.contract = 1, !.threshold = 1, !.endpoint = e2]

NoPolicies == [minAmount |-> None, maxAmount |-> None, blocked |-> {}, allowed |-> {},
               class |-> None, minReputation |-> None]

\* Webhooks at the chain's depth, and notifications of one confirmation for
\* agents that are known.
MCEndpointOf ==
    e1 :> [mode |-> "execute", wired |-> TRUE, chains |-> {}, depth |-> None,
           policies |-> [NoPolicies EXCEPT !.maxAmount = 5, !.blocked = {2}]] @@
    e2 :> [mode |-> "notify", wired |-> TRUE, chains |-> {1}, depth |-> 1,
           policies |-> [NoPolicies EXCEPT !.class = 1, !.minReputation = 2]]
=============================================================================
