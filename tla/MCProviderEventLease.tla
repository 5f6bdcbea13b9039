------------------------ MODULE MCProviderEventLease ------------------------
(* Values for the constants of ProviderEventLease. *)
EXTENDS ProviderEventLease, TLC

CONSTANTS w1, w2, w3

MCSymmetry == Permutations({w1, w2, w3})
=============================================================================
