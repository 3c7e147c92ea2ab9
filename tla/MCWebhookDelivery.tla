-------------------------- MODULE MCWebhookDelivery --------------------------
(* Small instances of WebhookDelivery: two pushes and a release that brings  *)
(* the commit of the first one back.                                         *)
EXTENDS WebhookDelivery

CONSTANTS old, new, manual

CommitDef == [d \in Delivery |-> IF d = manual THEN old ELSE d]
AtDef == [d \in Delivery |-> IF d = old THEN 1 ELSE 2]
=============================================================================
