--------------------------- MODULE MCOrganization ---------------------------
(* Values for the constants of Organization. *)
EXTENDS Organization, TLC

CONSTANTS m1, m2, m3, i1, i2, q1, q2

(* Rows of either table and requests are interchangeable. *)
MCSymmetry ==
  Permutations({m1, m2, m3}) \cup Permutations({i1, i2}) \cup Permutations({q1, q2})
=============================================================================
