-------------------------- MODULE MCPaymentWebhook --------------------------
(* Values for the constants of PaymentWebhook. *)
EXTENDS PaymentWebhook, TLC

CONSTANTS general, o1, o2

MCQuota == general :> 1

MCProviders == {"mock", "stripe"}
=============================================================================
