----------------------------- MODULE MCGateway -----------------------------
(* Small instances of the gateway. *)
EXTENDS McpGateway, TLC

\* Calls are interchangeable.
Symmetry == Permutations(Calls)
=============================================================================
