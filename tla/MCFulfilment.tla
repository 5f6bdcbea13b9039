---------------------------- MODULE MCFulfilment ----------------------------
(* Values for the constants of Fulfilment. *)
EXTENDS Fulfilment, TLC

CONSTANTS t1, t2, q1, q2, q3

(* Tickets and requests are interchangeable. *)
MCSymmetry == Permutations({t1, t2}) \cup Permutations({q1, q2, q3})
=============================================================================
