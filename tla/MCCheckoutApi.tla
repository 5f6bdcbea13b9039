---------------------------- MODULE MCCheckoutApi ----------------------------
(* Values for the constants of CheckoutApi. *)
EXTENDS CheckoutApi, TLC

CONSTANTS general, o1, o2, q1, q2

(* Orders has an identifier for every reserve id, so that a reserve that     *)
(* finds stock finds an unused one, as it does in the code.                 *)
MCQuota == general :> Cardinality(Orders)
=============================================================================
