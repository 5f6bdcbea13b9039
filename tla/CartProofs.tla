----------------------------- MODULE CartProofs -----------------------------
(***************************************************************************)
(* Counting the units of a set of orders. The sums of Checkout, of its     *)
(* transactions and of TicketStock all rest on these facts.                *)
(***************************************************************************)
EXTENDS Carts, FiniteSetTheorems, TLAPS

(* The units of any set of orders are finitely many. *)
LEMMA UnitsFinite ==
  ASSUME NEW q, NEW S, NEW t
  PROVE  IsFiniteSet(Units(q, S, t)) /\ UnitCount(q, S, t) \in Nat
<1>1. IsFiniteSet(1..MaxQty)
  BY CartsAssumption, FS_Interval
<1>2. IsFiniteSet(Orders \X (1..MaxQty))
  BY <1>1, CartsAssumption, FS_Product
<1>3. IsFiniteSet(Units(q, S, t))
  BY <1>2, FS_Subset DEF Units
<1>4. QED
  BY <1>3, FS_CardinalityType DEF UnitCount

(* Counting is additive over disjoint sets of orders. *)
LEMMA UnitsOfUnion ==
  ASSUME NEW q, NEW S, NEW R, S \cap R = {}, NEW t
  PROVE  UnitCount(q, S \cup R, t) = UnitCount(q, S, t) + UnitCount(q, R, t)
<1>1. Units(q, S \cup R, t) = Units(q, S, t) \cup Units(q, R, t)
  BY DEF Units
<1>2. Units(q, S, t) \cap Units(q, R, t) = {}
  BY DEF Units
<1>3. Cardinality(Units(q, S, t) \cup Units(q, R, t)) =
        Cardinality(Units(q, S, t)) + Cardinality(Units(q, R, t)) - Cardinality({})
  BY <1>2, UnitsFinite, FS_Union
<1>4. Cardinality({}) = 0
  BY FS_EmptySet
<1>5. UnitCount(q, S, t) \in Nat /\ UnitCount(q, R, t) \in Nat
  BY UnitsFinite
<1>6. QED
  BY <1>1, <1>3, <1>4, <1>5 DEF UnitCount

(* One order counts for what is in its cart. *)
LEMMA UnitsOfOne ==
  ASSUME NEW q, NEW o \in Orders, NEW t, q[o][t] \in 0..MaxQty
  PROVE  UnitCount(q, {o}, t) = q[o][t]
<1> DEFINE n == q[o][t]
<1>1. n \in Nat
  BY CartsAssumption
<1>2. Units(q, {o}, t) = {o} \X (1..n)
  BY CartsAssumption DEF Units
<1> HIDE DEF n
<1>3. IsFiniteSet({o}) /\ Cardinality({o}) = 1
  BY FS_Singleton
<1>4. IsFiniteSet(1..n) /\ Cardinality(1..n) = IF 1 > n THEN 0 ELSE n - 1 + 1
  BY <1>1, FS_Interval
<1>5. Cardinality({o} \X (1..n)) = 1 * Cardinality(1..n)
  BY <1>3, <1>4, FS_Product
<1>6. Cardinality(1..n) = n
  BY <1>1, <1>4
<1>7. 1 * Cardinality(1..n) = n
  BY <1>1, <1>6
<1>8. UnitCount(q, {o}, t) = n
  BY <1>2, <1>5, <1>7, Zenon DEF UnitCount
<1>9. QED
  BY <1>8 DEF n

(* Only the carts of the orders counted matter. *)
LEMMA UnitsAgree ==
  ASSUME NEW q, NEW r, NEW S, NEW t, \A o \in S : q[o][t] = r[o][t]
  PROVE  UnitCount(q, S, t) = UnitCount(r, S, t)
<1>1. Units(q, S, t) = Units(r, S, t)
  BY DEF Units
<1>2. QED
  BY <1>1 DEF UnitCount

(* Nothing is counted for no order. *)
LEMMA UnitsOfNone ==
  ASSUME NEW q, NEW t
  PROVE  UnitCount(q, {}, t) = 0
BY FS_EmptySet DEF UnitCount, Units
=============================================================================
