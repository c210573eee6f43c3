------------------------------- MODULE Purses -------------------------------
(***************************************************************************)
(* What the gateway promises about payment, whatever the tier: a tool      *)
(* result is only returned against a purse that covers it.  A purse is a   *)
(* session budget, an x402 payment proof or a SIWE nonce; the last two     *)
(* cover one call.                                                         *)
(***************************************************************************)
EXTENDS Naturals, FiniteSetsExt

CONSTANTS Calls, Sources, None

VARIABLES
    limit,      \* what each purse can cover; 0: not opened yet
    closed,     \* purses that cover nothing new
    backing,    \* the purse that covers a call, and with how much
    answered    \* calls whose result was returned

purseVars == <<limit, closed, backing, answered>>

\* What purse u covers at the moment.
Spent(u) ==
    LET mine == {c \in Calls : backing[c] # None /\ backing[c].purse = u}
    IN  MapThenSumSet(LAMBDA c : backing[c].cost, mine)

PursesInit ==
    /\ limit \in [Sources -> Nat]
    /\ closed = {}
    /\ backing = [c \in Calls |-> None]
    /\ answered = {}

Open(u) ==
    /\ limit[u] = 0
    /\ limit'[u] \in Nat
    /\ limit' = [limit EXCEPT ![u] = limit'[u]]
    /\ UNCHANGED <<closed, backing, answered>>

Close(u) ==
    /\ closed' = closed \cup {u}
    /\ UNCHANGED <<limit, backing, answered>>

\* Call c is covered: the purse is open and what it covers stays within its limit.
Back(c) ==
    /\ backing[c] = None
    /\ backing'[c] # None
    /\ backing' = [backing EXCEPT ![c] = backing'[c]]
    /\ backing'[c].purse \in Sources \ closed
    /\ Spent(backing'[c].purse) + backing'[c].cost <= limit[backing'[c].purse]
    /\ UNCHANGED <<limit, closed, answered>>

\* A call that gets no result gives its cover back.
Return(c) ==
    /\ c \notin answered
    /\ backing' = [backing EXCEPT ![c] = None]
    /\ UNCHANGED <<limit, closed, answered>>

Answer(c) ==
    /\ c \notin answered
    /\ backing[c] # None
    /\ answered' = answered \cup {c}
    /\ UNCHANGED <<limit, closed, backing>>

PursesNext ==
    \/ \E u \in Sources : Open(u) \/ Close(u)
    \/ \E c \in Calls : Back(c) \/ Return(c) \/ Answer(c)

PursesSpec == PursesInit /\ [][PursesNext]_purseVars
=============================================================================
