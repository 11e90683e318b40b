----------------------------- MODULE WebhookMC -----------------------------
(* Small instances of Webhook.                                             *)
EXTENDS Webhook, TLC
=============================================================================
