--------------------------- MODULE MCVenueLayouts ---------------------------
(* Values for the constants of VenueLayouts: two organizers, one of them    *)
(* with an event, and a layout of one zone and one seat next to one that is *)
(* not valid.                                                               *)
EXTENDS VenueLayouts, TLC

CONSTANTS a, b, ea, ta, z, s, v, t, n1, n2, q1, q2

MCOrganizerOf == ea :> a

MCEventOf == ta :> ea

SeatIn(zone) == s :> [zone |-> zone, active |-> TRUE]

MCLayouts == {[zones |-> z :> 2, seats |-> SeatIn(z)],
              [zones |-> << >>, seats |-> SeatIn(z)]}

MCSymmetry == Permutations({n1, n2}) \cup Permutations({q1, q2})
=============================================================================
