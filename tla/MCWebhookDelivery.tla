------------------------- MODULE MCWebhookDelivery -------------------------
(* A small project for TLC: see the .cfg files for the sets and bounds.      *)
EXTENDS WebhookDelivery

\* Waits of one and two ticks; the third attempt repeats the last one.
BackoffValue == <<1, 2>>
=============================================================================
