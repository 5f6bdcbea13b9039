---------------------------- MODULE MCCheckoutTx ----------------------------
(* Values for the constants of CheckoutTx. *)
EXTENDS CheckoutTx, TLC

CONSTANTS vip, general, o1, o2, w1, w2

MCQuota == vip :> 2 @@ general :> 1

MCIdOf == general :> 1 @@ vip :> 2 @@ o1 :> 3 @@ o2 :> 4
=============================================================================
