--------------------------- MODULE MCWebhookAccess ---------------------------
(* Instances of WebhookAccess for TLC. *)
EXTENDS WebhookAccess

=============================================================================
