------------------------------- MODULE Carts -------------------------------
(***************************************************************************)
(* Quantities per ticket type, and how many units a set of orders adds up  *)
(* to. A sum over orders is the cardinality of a set of numbered units, so *)
(* that facts about it follow from the library's theorems on finite sets.  *)
(***************************************************************************)
EXTENDS Naturals, FiniteSets

CONSTANTS
  TicketTypes,  \* rows of TicketType of one event
  Orders,       \* identifiers an Order row can have
  MaxQty        \* bound: units of one ticket type in one order

ASSUME CartsAssumption ==
  /\ IsFiniteSet(Orders)
  /\ MaxQty \in Nat

(* An order's items, summed per ticket type. *)
Quantities == [TicketTypes -> 0..MaxQty]

NoUnits == [t \in TicketTypes |-> 0]

Carts == Quantities \ {NoUnits}

(* The numbered units of type t in the carts q of the orders S. *)
Units(q, S, t) == {u \in Orders \X (1..MaxQty) : u[1] \in S /\ u[2] <= q[u[1]][t]}

UnitCount(q, S, t) == Cardinality(Units(q, S, t))
=============================================================================
