------------------------------- MODULE Chain -------------------------------
(***************************************************************************)
(* One EVM chain as TripWire sees it through JSON-RPC and Goldsky: a head  *)
(* that advances, blocks that a reorg may replace, and the transfer logs   *)
(* that have ever been included.  External to the repository: modelled     *)
(* from get_block_number, get_block_hash and the raw logs the decoder      *)
(* reads.  A block is its number and a version, which plays its hash: the  *)
(* version of block n is the number of reorgs that have replaced it.       *)
(***************************************************************************)
EXTENDS Integers

CONSTANTS
    Auths,      \* authorizations that may be settled on chain
    ReorgDepth, \* a block with this many confirmations is never replaced
    MaxHead,    \* bound on the height of the chain
    MaxLand,    \* bound on the height at which a transfer is included
    MaxForks    \* bound on the number of reorgs

ASSUME ReorgDepthType == ReorgDepth \in Nat
ASSUME ChainBounds == MaxHead \in Nat \ {0} /\ MaxLand \in Nat /\ MaxForks \in Nat

Blocks == 1..MaxHead
Hashes == 0..MaxForks
NoHash == -1    \* get_block_hash returned None, or a row with no onchain tx

Log == [auth : Auths, block : Blocks, hash : Hashes]

VARIABLES
    head,       \* eth_blockNumber
    canon,      \* canon[n]: the hash eth_getBlockByNumber(n) returns
    logs        \* every log ever included, on the canonical chain or off it

chainVars == <<head, canon, logs>>

ChainTypeOK ==
    /\ head \in Blocks
    /\ canon \in [Blocks -> Hashes]
    /\ logs \subseteq Log

ChainInit ==
    /\ head = 1
    /\ canon = [n \in Blocks |-> 0]
    /\ logs = {}

IsCanonical(block, hash) == block \in Blocks /\ canon[block] = hash

\* max(0, current_block - block_number)
Confirmations(h, block) == IF h >= block THEN h - block ELSE 0

Mine ==
    /\ head < MaxHead
    /\ head' = head + 1
    /\ UNCHANGED <<canon, logs>>

\* The head block includes the transfer that settles a.  The token contract
\* lets an authorization be used once, so at most one canonical log exists;
\* a transfer that a reorg dropped may be included again.
Land(a) ==
    /\ head <= MaxLand
    /\ \A m \in logs : m.auth = a => ~IsCanonical(m.block, m.hash)
    /\ logs' = logs \cup {[auth |-> a, block |-> head, hash |-> canon[head]]}
    /\ UNCHANGED <<head, canon>>

\* Blocks n..head are replaced, none of them as deep as ReorgDepth.
Reorg(n) ==
    /\ n <= head
    /\ head - n < ReorgDepth
    /\ \A m \in Blocks : canon[m] < MaxForks
    /\ canon' = [m \in Blocks |-> IF m >= n THEN canon[m] + 1 ELSE canon[m]]
    /\ UNCHANGED <<head, logs>>

ChainNext ==
    \/ Mine
    \/ \E a \in Auths : Land(a)
    \/ \E n \in Blocks : Reorg(n)
=============================================================================
