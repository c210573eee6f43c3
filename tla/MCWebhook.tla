----------------------------- MODULE MCWebhook -----------------------------
(* Small instances of webhook delivery. *)
EXTENDS WebhookDelivery, TLC
CONSTANT t1
TwoTargets == t1 :> 2
ThreeTargets == t1 :> 3
=============================================================================
