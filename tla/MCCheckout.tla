----------------------------- MODULE MCCheckout -----------------------------
(* Values for the constants of Checkout. *)
EXTENDS Checkout, TLC

CONSTANTS vip, general, o1, o2

(* One scarce type and one that two orders can share. *)
MCQuota == vip :> 1 @@ general :> 2

MCProviders == {"mock", "stripe"}
=============================================================================
