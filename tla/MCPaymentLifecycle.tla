------------------------ MODULE MCPaymentLifecycle ------------------------
EXTENDS PaymentLifecycle, TLC

CONSTANTS ep1, ep2

\* One endpoint follows the chain's depth, the other asks for its own.
DefaultDepths == [ep \in Endpoints |-> NoOverride]
ShallowDepth == [ep \in Endpoints |-> IF ep = ep2 THEN 1 ELSE NoOverride]

\* Events, tasks and pollers are interchangeable.
Symmetry == Permutations(EventIds) \cup Permutations(Tasks) \cup Permutations(Pollers)
=============================================================================
