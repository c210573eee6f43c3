------------------------- MODULE ExecutionMetadata -------------------------
(***************************************************************************)
(* What a webhook says about finality: the confirmation threshold of an    *)
(* endpoint, the dispatch-time gate, and the execution block derived from  *)
(* the event type and the finality data.                                   *)
(***************************************************************************)
EXTENDS Integers

CONSTANTS
    Endpoints,      \* registered endpoints that match the transfer
    Required,       \* FINALITY_DEPTHS of the chain
    DepthOverride   \* policies.finality_depth per endpoint, or NoOverride

NoOverride == 0     \* finality_depth is 1..64 when set

ASSUME OverrideType == DepthOverride \in [Endpoints -> Nat]

NoConf == -1        \* finality is None: the RPC failed, or no onchain tx yet

\* resolve_endpoint_depth, with None replaced by the chain default.
RequiredFor(ep) ==
    IF DepthOverride[ep] = NoOverride THEN Required ELSE DepthOverride[ep]

\* Mutant: the block itself counts as a confirmation.
ChainFinalizedEarly(conf) == conf + 1 >= Required

\* check_finality_generic: is_finalized is against the chain default.
ChainFinalized(conf) == conf >= Required

\* Step 6b of _dispatch_for_transfer: endpoints are deferred only when the
\* confirmation count is known.
ReadyEndpoints(approved, conf) ==
    IF conf = NoConf
    THEN approved
    ELSE {ep \in approved : conf >= RequiredFor(ep)}

\* build_finality_data recomputes is_finalized against the endpoint's depth.
EndpointFinalized(ep, conf) == conf # NoConf /\ conf >= RequiredFor(ep)

WebhookTypes == {"payment.pre_confirmed", "payment.pending",
                 "payment.confirmed", "payment.finalized",
                 "payment.reorged", "payment.failed"}

\* derive_execution_metadata
ExecutionState(type, isFinalized) ==
    CASE type = "payment.pre_confirmed" -> "provisional"
      [] type \in {"payment.reorged", "payment.failed"} -> "reorged"
      [] type = "payment.finalized" -> "finalized"
      [] OTHER -> IF isFinalized THEN "finalized" ELSE "confirmed"

SafeToExecute(type, isFinalized) ==
    ExecutionState(type, isFinalized) = "finalized"
=============================================================================
