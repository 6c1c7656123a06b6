-------------------------- MODULE MCWebhookDelivery --------------------------
(* The instances of the webhook deliveries for TLC. *)
EXTENDS WebhookDelivery, TLC

\* The ids of rows and the workers are interchangeable.
Symmetry == Permutations(Deliveries) \cup Permutations(Workers)

=============================================================================
