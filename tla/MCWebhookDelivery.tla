------------------------- MODULE MCWebhookDelivery --------------------------
(* WebhookDelivery on small instances. *)
EXTENDS WebhookDelivery, TLC

(* The events do not affect one another but through the bounds. *)
Symmetry == Permutations(Events)
=============================================================================
