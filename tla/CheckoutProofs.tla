--------------------------- MODULE CheckoutProofs ---------------------------
(***************************************************************************)
(* Theorems about Checkout, for any number of orders, ticket types and     *)
(* payments and for clocks of any range: first its stock, then the rows a  *)
(* payment leaves behind.                                                  *)
(***************************************************************************)
EXTENDS Checkout, CartProofs

-----------------------------------------------------------------------------
(* Types. *)

(* The clock readings a handler may use are times. *)
LEMMA RecentIsTime ==
  ASSUME TypeOK, NEW n \in Recent
  PROVE  n \in Nat /\ n <= now
BY DEF TypeOK, Recent

(* The parts a transaction is made of keep the types of what they write. *)
LEMMA PartsKeepTypes ==
  ASSUME TypeOK, NEW o \in Orders
  PROVE  /\ \A types \in SUBSET EventTypes :
              Emit(o, types) => emitted' \in [Orders -> SUBSET EventTypes]
         /\ \A S \in SUBSET Orders : RestoreStock(S) => remaining' \in [TicketTypes -> Nat]
         /\ \A S \in SUBSET Orders, r \in HoldStates :
              ReleaseHolds(S, r) => hold' \in [Orders -> HoldStates]
         /\ \A p \in PaymentIds :
              MaterializePayment(o, p) => payment' \in [PaymentIds -> Orders \cup {NoOrder}]
         /\ \A s \in OrderStatus :
              status' = [status EXCEPT ![o] = s] => status' \in [Orders -> OrderStatus]
<1>1. ASSUME NEW types \in SUBSET EventTypes, Emit(o, types)
      PROVE  emitted' \in [Orders -> SUBSET EventTypes]
  BY <1>1 DEF TypeOK, Emit
<1>2. ASSUME NEW S \in SUBSET Orders, RestoreStock(S)
      PROVE  remaining' \in [TicketTypes -> Nat]
  <2>1. \A t \in TicketTypes : remaining[t] \in Nat /\ UnitCount(cart, S, t) \in Nat
    BY UnitsFinite DEF TypeOK
  <2>2. QED
    BY <1>2, <2>1 DEF RestoreStock
<1>3. ASSUME NEW S \in SUBSET Orders, NEW r \in HoldStates, ReleaseHolds(S, r)
      PROVE  hold' \in [Orders -> HoldStates]
  BY <1>3 DEF TypeOK, ReleaseHolds
<1>4. ASSUME NEW p \in PaymentIds, MaterializePayment(o, p)
      PROVE  payment' \in [PaymentIds -> Orders \cup {NoOrder}]
  BY <1>4 DEF TypeOK, MaterializePayment
<1>5. ASSUME NEW s \in OrderStatus, status' = [status EXCEPT ![o] = s]
      PROVE  status' \in [Orders -> OrderStatus]
  BY <1>5 DEF TypeOK
<1>6. QED
  BY <1>1, <1>2, <1>3, <1>4, <1>5

(* A payment in time keeps the types. *)
LEMMA MarkPaidKeepsTypes ==
  ASSUME TypeOK, NEW o \in Orders, NEW p \in PaymentIds, NEW r \in HoldStates,
         MarkPaid(o, p, r)
  PROVE  /\ status' \in [Orders -> OrderStatus]
         /\ tickets' \in [Orders -> Quantities]
         /\ payment' \in [PaymentIds -> Orders \cup {NoOrder}]
         /\ hold' \in [Orders -> HoldStates]
         /\ emitted' \in [Orders -> SUBSET EventTypes]
<1>1. status' \in [Orders -> OrderStatus]
  BY PartsKeepTypes DEF MarkPaid, OrderStatus
<1>2. IssuedTickets(o) \in Quantities
  BY DEF IssuedTickets, TypeOK
<1>3. tickets' \in [Orders -> Quantities]
  BY <1>2 DEF MarkPaid, TypeOK
<1>4. payment' \in [PaymentIds -> Orders \cup {NoOrder}]
  BY PartsKeepTypes DEF MarkPaid
<1>5. hold' \in [Orders -> HoldStates]
  BY PartsKeepTypes DEF MarkPaid
<1>6. {"ORDER_PAID"} \cup (IF tickets[o] = NoUnits THEN {"TICKETS_ISSUED"} ELSE {}) \in SUBSET EventTypes
  BY DEF EventTypes
<1>7. emitted' \in [Orders -> SUBSET EventTypes]
  BY <1>6, PartsKeepTypes DEF MarkPaid
<1>8. QED
  BY <1>1, <1>3, <1>4, <1>5, <1>7

(* Every step of the checkout keeps the types: above all, no decrement      *)
(* takes TicketType.remaining below zero, so its CHECK never fires.         *)
LEMMA StepKeepsTypes == TypeOK /\ [Next]_vars => TypeOK'
<1> SUFFICES ASSUME TypeOK, [Next]_vars
             PROVE  TypeOK'
  OBVIOUS
<1>1. ASSUME NEW o \in Orders, NEW c \in Carts, Reserve(o, c)
      PROVE  TypeOK'
  <2>1. remaining' \in [TicketTypes -> Nat]
    <3>1. \A t \in TicketTypes : c[t] \in Nat /\ remaining[t] \in Nat /\ c[t] <= remaining[t]
      BY <1>1, CartsAssumption DEF Reserve, EnoughStock, TypeOK, Carts, Quantities
    <3>2. QED
      BY <1>1, <3>1 DEF Reserve
  <2>2. reservedUntil' \in [Orders -> Nat]
    BY <1>1, RecentIsTime, CheckoutAssumption DEF Reserve, TypeOK
  <2>3. status' \in [Orders -> OrderStatus]
    BY <1>1, PartsKeepTypes DEF Reserve, OrderStatus
  <2>4. cart' \in [Orders -> Quantities]
    BY <1>1 DEF Reserve, TypeOK, Carts
  <2>5. hold' \in [Orders -> HoldStates]
    BY <1>1 DEF Reserve, TypeOK, HoldStates
  <2>6. emitted' \in [Orders -> SUBSET EventTypes]
    BY <1>1, PartsKeepTypes DEF Reserve, EventTypes
  <2>7. QED
    BY <1>1, <2>1, <2>2, <2>3, <2>4, <2>5, <2>6 DEF Reserve, TypeOK
<1>2. ASSUME NEW o \in Orders, NEW ref \in Refs, Confirm(o, ref)
      PROVE  TypeOK'
  <2>1. <<Mock, ref>> \in PaymentIds
    BY CheckoutAssumption DEF PaymentIds
  <2>2. QED
    BY <1>2, <2>1, MarkPaidKeepsTypes DEF Confirm, TypeOK, HoldStates
<1>3. ASSUME NEW o \in Orders, NEW p \in PaymentIds, ApplyPaid(o, p)
      PROVE  TypeOK'
  BY <1>3, MarkPaidKeepsTypes DEF ApplyPaid, TypeOK, HoldStates
<1>4. ASSUME NEW o \in Orders, NEW p \in PaymentIds, ApplyPaidLate(o, p)
      PROVE  TypeOK'
  <2>1. remaining' \in [TicketTypes -> Nat]
    BY <1>4, PartsKeepTypes DEF ApplyPaidLate, Unreleased
  <2>2. hold' \in [Orders -> HoldStates]
    BY <1>4, PartsKeepTypes DEF ApplyPaidLate, HoldStates
  <2>3. status' \in [Orders -> OrderStatus]
    BY <1>4, PartsKeepTypes DEF ApplyPaidLate, OrderStatus
  <2>4. payment' \in [PaymentIds -> Orders \cup {NoOrder}]
    BY <1>4, PartsKeepTypes DEF ApplyPaidLate
  <2>5. lateCase' \in [PaymentIds -> [order : Orders \cup {NoOrder}, inventoryReleased : BOOLEAN]]
    <3> DEFINE released == Unreleased({o}) # {}
               row == [order |-> o, inventoryReleased |-> released]
    <3>1. released \in BOOLEAN
      OBVIOUS
    <3>2. EnsureLateCase(o, p, released)
      BY <1>4 DEF ApplyPaidLate
    <3> HIDE DEF released
    <3>3. row \in [order : Orders \cup {NoOrder}, inventoryReleased : BOOLEAN]
      BY <3>1
    <3>4. lateCase' = lateCase \/ lateCase' = [lateCase EXCEPT ![p] = row]
      BY <3>2 DEF EnsureLateCase
    <3>5. QED
      BY <3>3, <3>4 DEF TypeOK
  <2>6. emitted' \in [Orders -> SUBSET EventTypes]
    BY <1>4, PartsKeepTypes DEF ApplyPaidLate, EnsureLateCase, EventTypes
  <2>7. QED
    BY <1>4, <2>1, <2>2, <2>3, <2>4, <2>5, <2>6 DEF ApplyPaidLate, TypeOK
<1>5. ASSUME NEW o \in Orders, ApplyFailed(o)
      PROVE  TypeOK'
  <2>1. emitted' \in [Orders -> SUBSET EventTypes]
    BY <1>5, PartsKeepTypes DEF ApplyFailed, EventTypes
  <2>2. QED
    BY <1>5, <2>1 DEF ApplyFailed, TypeOK, OrderStatus
<1>6. ASSUME NEW o \in Orders, ApplyRefunded(o)
      PROVE  TypeOK'
  <2>1. emitted' \in [Orders -> SUBSET EventTypes]
    BY <1>6, PartsKeepTypes DEF ApplyRefunded, EventTypes
  <2>2. QED
    BY <1>6, <2>1 DEF ApplyRefunded, TypeOK, OrderStatus
<1>7. ASSUME NEW jobNow \in Recent, ReleaseExpired(jobNow)
      PROVE  TypeOK'
  <2>1. PICK o \in Orders : TRUE
    BY <1>7 DEF ReleaseExpired, OverdueOrders
  <2>2. remaining' \in [TicketTypes -> Nat]
    BY <1>7, <2>1, PartsKeepTypes DEF ReleaseExpired, Unreleased, OverdueOrders
  <2>3. hold' \in [Orders -> HoldStates]
    BY <1>7, <2>1, PartsKeepTypes DEF ReleaseExpired, HoldStates, OverdueOrders
  <2>4. QED
    BY <1>7, <2>2, <2>3 DEF ReleaseExpired, TypeOK, OrderStatus, EventTypes
<1>8. CASE Tick
  BY <1>8 DEF Tick, TypeOK
<1>9. CASE UNCHANGED vars
  BY <1>9 DEF vars, TypeOK
<1>10. QED
  BY <1>1, <1>2, <1>3, <1>4, <1>5, <1>6, <1>7, <1>8, <1>9 DEF Next, ReleaseJob

(* Type correctness of the checkout, remaining >= 0 included. *)
THEOREM TypeCorrect == Spec => []TypeOK
<1>1. Init => TypeOK
  BY CheckoutAssumption, CartsAssumption
     DEF Init, TypeOK, OrderStatus, HoldStates, Quantities, NoUnits, NoCase
<1>2. QED
  BY <1>1, StepKeepsTypes, PTL DEF Spec

-----------------------------------------------------------------------------
(* Where the units are. *)

(* The status of an order keeps telling where its units are. *)
LEMMA StepKeepsHoldMatchesStatus ==
  TypeOK /\ HoldMatchesStatus /\ [Next]_vars => HoldMatchesStatus'
<1> SUFFICES ASSUME TypeOK, HoldMatchesStatus, [Next]_vars
             PROVE  HoldMatchesStatus'
  OBVIOUS
<1> USE DEF TypeOK, HoldMatchesStatus, IsLate
<1>1. ASSUME NEW o \in Orders, NEW c \in Carts, Reserve(o, c)
      PROVE  HoldMatchesStatus'
  BY <1>1 DEF Reserve
<1>2. ASSUME NEW o \in Orders, NEW ref \in Refs, Confirm(o, ref)
      PROVE  HoldMatchesStatus'
  BY <1>2 DEF Confirm, MarkPaid, ReleaseHolds, Unreleased
<1>3. ASSUME NEW o \in Orders, NEW p \in PaymentIds, ApplyPaid(o, p)
      PROVE  HoldMatchesStatus'
  <2>1. status[o] = "reserved"
    BY <1>3 DEF ApplyPaid, Open, Terminal, OrderStatus
  <2>2. QED
    BY <1>3, <2>1 DEF ApplyPaid, MarkPaid, ReleaseHolds, Unreleased
<1>4. ASSUME NEW o \in Orders, NEW p \in PaymentIds, ApplyPaidLate(o, p)
      PROVE  HoldMatchesStatus'
  <2>1. status[o] \in {"reserved", "expired"}
    BY <1>4 DEF ApplyPaidLate, Open, Terminal, OrderStatus
  <2>2. QED
    BY <1>4, <2>1 DEF ApplyPaidLate, ReleaseHolds, Unreleased
<1>5. ASSUME NEW o \in Orders, ApplyFailed(o)
      PROVE  HoldMatchesStatus'
  <2>1. status[o] \in {"reserved", "expired"}
    BY <1>5 DEF ApplyFailed, Open, Terminal, OrderStatus
  <2>2. QED
    BY <1>5, <2>1 DEF ApplyFailed
<1>6. ASSUME NEW o \in Orders, ApplyRefunded(o)
      PROVE  HoldMatchesStatus'
  <2>1. status[o] \in {"reserved", "expired"}
    BY <1>6 DEF ApplyRefunded, Open, Terminal, OrderStatus
  <2>2. QED
    BY <1>6, <2>1 DEF ApplyRefunded
<1>7. ASSUME NEW jobNow \in Recent, ReleaseExpired(jobNow)
      PROVE  HoldMatchesStatus'
  <2>1. jobNow \in Nat /\ jobNow <= now
    BY RecentIsTime
  <2>2. QED
    BY <1>7, <2>1 DEF ReleaseExpired, OverdueOrders, ReleaseHolds, Unreleased
<1>8. CASE Tick
  BY <1>8 DEF Tick
<1>9. CASE UNCHANGED vars
  BY <1>9 DEF vars
<1>10. QED
  BY <1>1, <1>2, <1>3, <1>4, <1>5, <1>6, <1>7, <1>8, <1>9 DEF Next, ReleaseJob

(* Giving back what a set of orders still holds moves units, it makes none. *)
LEMMA ReturnConserves ==
  ASSUME TypeOK, StockConserved,
         NEW S \in SUBSET Orders,
         NEW r \in {"expired_ttl", "expired_payment_compensation"},
         RestoreStock(Unreleased(S)), ReleaseHolds(S, r), cart' = cart
  PROVE  StockConserved'
<1> SUFFICES ASSUME NEW t \in TicketTypes
             PROVE  remaining'[t] + UnitCount(cart', HoldingStock', t) = Quota[t]
  BY DEF StockConserved
<1>1. HoldingStock = HoldingStock' \cup Unreleased(S)
  BY DEF HoldingStock, Unreleased, ReleaseHolds, TypeOK
<1>2. HoldingStock' \cap Unreleased(S) = {}
  BY DEF HoldingStock, Unreleased, ReleaseHolds, TypeOK
<1>3. UnitCount(cart, HoldingStock, t) =
        UnitCount(cart, HoldingStock', t) + UnitCount(cart, Unreleased(S), t)
  BY <1>1, <1>2, UnitsOfUnion
<1>4. remaining'[t] = remaining[t] + UnitCount(cart, Unreleased(S), t)
  BY DEF RestoreStock
<1>5. /\ UnitCount(cart, HoldingStock', t) \in Nat
      /\ UnitCount(cart, Unreleased(S), t) \in Nat
      /\ remaining[t] \in Nat
  BY UnitsFinite DEF TypeOK
<1>6. remaining[t] + UnitCount(cart, HoldingStock, t) = Quota[t]
  BY DEF StockConserved
<1>7. remaining'[t] + UnitCount(cart, HoldingStock', t) = Quota[t]
  BY <1>3, <1>4, <1>5, <1>6
<1>8. QED
  BY <1>7

(* A step that moves no order in or out of those that hold stock, and       *)
(* touches neither counters nor carts, changes no sum.                      *)
LEMMA SameHoldersConserve ==
  ASSUME StockConserved, HoldingStock' = HoldingStock, cart' = cart, remaining' = remaining
  PROVE  StockConserved'
BY DEF StockConserved

(* No step makes or loses units. *)
LEMMA StepConservesStock ==
  TypeOK /\ HoldMatchesStatus /\ StockConserved /\ [Next]_vars => StockConserved'
<1> SUFFICES ASSUME TypeOK, HoldMatchesStatus, StockConserved, [Next]_vars
             PROVE  StockConserved'
  OBVIOUS
<1>1. ASSUME NEW o \in Orders, NEW c \in Carts, Reserve(o, c)
      PROVE  StockConserved'
  <2> SUFFICES ASSUME NEW t \in TicketTypes
               PROVE  remaining'[t] + UnitCount(cart', HoldingStock', t) = Quota[t]
    BY DEF StockConserved
  <2>1. hold[o] = "none" /\ HoldingStock \cap {o} = {} /\ HoldingStock' = HoldingStock \cup {o}
    BY <1>1 DEF Reserve, HoldMatchesStatus, HoldingStock, TypeOK
  <2>2. cart'[o][t] = c[t] /\ c[t] \in 0..MaxQty
    BY <1>1 DEF Reserve, TypeOK, Carts, Quantities
  <2>3. UnitCount(cart', HoldingStock', t) = UnitCount(cart', HoldingStock, t) + c[t]
    <3>1. UnitCount(cart', {o}, t) = c[t]
      BY <2>2, UnitsOfOne
    <3>2. UnitCount(cart', HoldingStock \cup {o}, t) =
            UnitCount(cart', HoldingStock, t) + UnitCount(cart', {o}, t)
      BY <2>1, UnitsOfUnion
    <3>3. QED
      BY <2>1, <3>1, <3>2
  <2>4. UnitCount(cart', HoldingStock, t) = UnitCount(cart, HoldingStock, t)
    <3>1. \A x \in HoldingStock : cart'[x][t] = cart[x][t]
      BY <1>1, <2>1 DEF Reserve, TypeOK, HoldingStock
    <3>2. QED
      BY <3>1, UnitsAgree
  <2>5. remaining'[t] = remaining[t] - c[t]
    BY <1>1 DEF Reserve
  <2>6. remaining[t] \in Nat /\ c[t] \in Nat /\ UnitCount(cart, HoldingStock, t) \in Nat
    BY <2>2, CartsAssumption, UnitsFinite DEF TypeOK
  <2>7. remaining[t] + UnitCount(cart, HoldingStock, t) = Quota[t]
    BY DEF StockConserved
  <2>8. remaining'[t] + UnitCount(cart', HoldingStock', t) = Quota[t]
    BY <2>3, <2>4, <2>5, <2>6, <2>7
  <2>9. QED
    BY <2>8
<1>2. ASSUME NEW o \in Orders, NEW ref \in Refs, Confirm(o, ref)
      PROVE  StockConserved'
  <2>1. HoldingStock' = HoldingStock
    BY <1>2 DEF Confirm, MarkPaid, ReleaseHolds, Unreleased, HoldingStock, TypeOK
  <2>2. QED
    BY <1>2, <2>1, SameHoldersConserve DEF Confirm
<1>3. ASSUME NEW o \in Orders, NEW p \in PaymentIds, ApplyPaid(o, p)
      PROVE  StockConserved'
  <2>1. HoldingStock' = HoldingStock
    BY <1>3 DEF ApplyPaid, MarkPaid, ReleaseHolds, Unreleased, HoldingStock, TypeOK
  <2>2. QED
    BY <1>3, <2>1, SameHoldersConserve DEF ApplyPaid
<1>4. ASSUME NEW o \in Orders, NEW p \in PaymentIds, ApplyPaidLate(o, p)
      PROVE  StockConserved'
  BY <1>4, ReturnConserves DEF ApplyPaidLate
<1>5. ASSUME NEW o \in Orders, ApplyFailed(o) \/ ApplyRefunded(o)
      PROVE  StockConserved'
  BY <1>5, SameHoldersConserve DEF ApplyFailed, ApplyRefunded, HoldingStock
<1>6. ASSUME NEW jobNow \in Recent, ReleaseExpired(jobNow)
      PROVE  StockConserved'
  BY <1>6, ReturnConserves DEF ReleaseExpired, OverdueOrders
<1>7. CASE Tick
  BY <1>7, SameHoldersConserve DEF Tick, HoldingStock
<1>8. CASE UNCHANGED vars
  BY <1>8, SameHoldersConserve DEF vars, HoldingStock
<1>9. QED
  BY <1>1, <1>2, <1>3, <1>4, <1>5, <1>6, <1>7, <1>8 DEF Next, ReleaseJob

(* The inductive invariant behind the stock theorems. StockConserved alone  *)
(* is not inductive: a reserve must not reuse an order that holds units.    *)
StockInv == TypeOK /\ HoldMatchesStatus /\ StockConserved

LEMMA StockStarts == Init => StockInv
<1> SUFFICES ASSUME Init
             PROVE  StockInv
  OBVIOUS
<1>1. TypeOK
  BY CheckoutAssumption, CartsAssumption
     DEF Init, TypeOK, OrderStatus, HoldStates, Quantities, NoUnits, NoCase
<1>2. HoldMatchesStatus
  BY DEF Init, HoldMatchesStatus
<1>3. HoldingStock = {}
  BY DEF Init, HoldingStock
<1>4. \A t \in TicketTypes : Quota[t] \in Nat /\ Quota[t] + 0 = Quota[t]
  BY CheckoutAssumption
<1>5. StockConserved
  BY <1>3, <1>4, UnitsOfNone DEF Init, StockConserved
<1>6. QED
  BY <1>1, <1>2, <1>5 DEF StockInv

LEMMA StepKeepsStock == StockInv /\ [Next]_vars => StockInv'
BY StepKeepsTypes, StepKeepsHoldMatchesStatus, StepConservesStock DEF StockInv

(* Every reachable state has the inductive invariant. *)
THEOREM StockInvariant == Spec => []StockInv
BY StockStarts, StepKeepsStock, PTL DEF Spec

(* remaining plus what orders hold or bought is the quota, for every type.  *)
THEOREM StockIsConserved == Spec => []StockConserved
BY StockInvariant, PTL DEF StockInv

(* The status of an order always tells where its units are. *)
THEOREM StatusTellsHold == Spec => []HoldMatchesStatus
BY StockInvariant, PTL DEF StockInv

-----------------------------------------------------------------------------
(* Tickets. *)

(* Tickets are only ever written together with the status paid. *)
LEMMA StepKeepsTicketsExact ==
  TypeOK /\ HoldMatchesStatus /\ TicketsExact /\ [Next]_vars => TicketsExact'
<1> SUFFICES ASSUME TypeOK, HoldMatchesStatus, TicketsExact, [Next]_vars
             PROVE  TicketsExact'
  OBVIOUS
<1>1. ASSUME NEW o \in Orders, NEW c \in Carts, Reserve(o, c)
      PROVE  TicketsExact'
  BY <1>1 DEF Reserve, TicketsExact, TypeOK
<1>2. ASSUME NEW o \in Orders, NEW p \in PaymentIds, NEW r \in HoldStates,
             status[o] # "paid", MarkPaid(o, p, r), cart' = cart
      PROVE  TicketsExact'
  <2>1. tickets[o] = NoUnits
    BY <1>2 DEF TicketsExact
  <2>2. IssuedTickets(o) = cart[o]
    BY <2>1 DEF IssuedTickets
  <2>3. QED
    BY <1>2, <2>2 DEF MarkPaid, TicketsExact, TypeOK
<1>3. ASSUME NEW o \in Orders, NEW ref \in Refs, Confirm(o, ref)
      PROVE  TicketsExact'
  <2>1. <<Mock, ref>> \in PaymentIds
    BY CheckoutAssumption DEF PaymentIds
  <2>2. QED
    BY <1>2, <1>3, <2>1 DEF Confirm, HoldStates
<1>4. ASSUME NEW o \in Orders, NEW p \in PaymentIds, ApplyPaid(o, p)
      PROVE  TicketsExact'
  BY <1>2, <1>4 DEF ApplyPaid, Open, Terminal, HoldStates
<1>5. ASSUME NEW o \in Orders, NEW p \in PaymentIds, ApplyPaidLate(o, p)
      PROVE  TicketsExact'
  BY <1>5 DEF ApplyPaidLate, Open, Terminal, TicketsExact, TypeOK
<1>6. ASSUME NEW o \in Orders, ApplyFailed(o) \/ ApplyRefunded(o)
      PROVE  TicketsExact'
  BY <1>6 DEF ApplyFailed, ApplyRefunded, Open, Terminal, TicketsExact, TypeOK
<1>7. ASSUME NEW jobNow \in Recent, ReleaseExpired(jobNow)
      PROVE  TicketsExact'
  BY <1>7 DEF ReleaseExpired, OverdueOrders, TicketsExact, TypeOK
<1>8. CASE Tick
  BY <1>8 DEF Tick, TicketsExact
<1>9. CASE UNCHANGED vars
  BY <1>9 DEF vars, TicketsExact
<1>10. QED
  BY <1>1, <1>3, <1>4, <1>5, <1>6, <1>7, <1>8, <1>9 DEF Next, ReleaseJob

(* A paid order has one ticket per unit it bought, any other order none. *)
THEOREM TicketsAreExact == Spec => []TicketsExact
<1>1. Init => TicketsExact
  BY DEF Init, TicketsExact
<1>2. StockInv /\ TicketsExact /\ [Next]_vars => TicketsExact'
  BY StepKeepsTicketsExact DEF StockInv
<1>3. QED
  BY <1>1, <1>2, StockInvariant, PTL DEF Spec

(* Conserved stock and exact tickets leave no room for overselling: the     *)
(* tickets are units of paid orders, and those are among the holders.       *)
LEMMA ConservedMeansNoOversell ==
  StockInv /\ TicketsExact => NoOversell
<1> SUFFICES ASSUME StockInv, TicketsExact, NEW t \in TicketTypes
             PROVE  UnitCount(tickets, Orders, t) + UnitCount(cart, Unreleased(Orders), t)
                      <= Quota[t]
  BY DEF NoOversell
<1> DEFINE paid == {o \in Orders : status[o] = "paid"}
           rest == HoldingStock \ (paid \cup Unreleased(Orders))
<1>1. UnitCount(tickets, Orders, t) = UnitCount(cart, paid, t)
  <2>1. ASSUME NEW o \in Orders, NEW k \in 1..MaxQty
        PROVE  k <= tickets[o][t] <=> (o \in paid /\ k <= cart[o][t])
    <3>1. CASE o \in paid
      BY <3>1 DEF TicketsExact
    <3>2. CASE o \notin paid
      <4>1. tickets[o][t] = 0
        BY <3>2 DEF TicketsExact, NoUnits
      <4>2. QED
        BY <3>2, <4>1, CartsAssumption
    <3>3. QED
      BY <3>1, <3>2
  <2>2. Units(tickets, Orders, t) = Units(cart, paid, t)
    BY <2>1 DEF Units
  <2>3. QED
    BY <2>2 DEF UnitCount
<1>2. paid \cap Unreleased(Orders) = {} /\ paid \cup Unreleased(Orders) \subseteq HoldingStock
  BY DEF StockInv, HoldMatchesStatus, Unreleased, HoldingStock
<1>3. /\ HoldingStock = (paid \cup Unreleased(Orders)) \cup rest
      /\ (paid \cup Unreleased(Orders)) \cap rest = {}
  BY <1>2
<1> HIDE DEF paid, rest
<1>4. UnitCount(cart, HoldingStock, t) =
        UnitCount(cart, paid \cup Unreleased(Orders), t) + UnitCount(cart, rest, t)
  BY <1>3, UnitsOfUnion
<1>5. UnitCount(cart, paid \cup Unreleased(Orders), t) =
        UnitCount(cart, paid, t) + UnitCount(cart, Unreleased(Orders), t)
  BY <1>2, UnitsOfUnion
<1>6. /\ UnitCount(cart, rest, t) \in Nat
      /\ UnitCount(cart, paid, t) \in Nat
      /\ UnitCount(cart, Unreleased(Orders), t) \in Nat
  BY UnitsFinite
<1>7. remaining[t] \in Nat /\ Quota[t] \in Nat
  BY CheckoutAssumption DEF StockInv, TypeOK
<1>8. remaining[t] + UnitCount(cart, HoldingStock, t) = Quota[t]
  BY DEF StockInv, StockConserved
<1>9. UnitCount(cart, paid, t) + UnitCount(cart, Unreleased(Orders), t) <= Quota[t]
  BY <1>4, <1>5, <1>6, <1>7, <1>8
<1>10. QED
  BY <1>1, <1>9

(* No ticket type is ever oversold, however requests, webhooks, late        *)
(* payments and runs of the release job interleave.                         *)
THEOREM NeverOversold == Spec => []NoOversell
BY StockInvariant, TicketsAreExact, ConservedMeansNoOversell, PTL

(* An order is paid only while its units are still its own. *)
THEOREM PaidOnlyWhileHeld == Spec => PaidWhileHeld
<1> DEFINE Held == \A o \in Orders : status'[o] = "paid" /\ status[o] # "paid" =>
                     hold[o] = "unreleased" /\ reservedUntil[o] >= now
<1>1. StockInv /\ [Next]_vars => [Held]_vars
  <2> SUFFICES ASSUME StockInv, Next, NEW o \in Orders,
                      status'[o] = "paid", status[o] # "paid"
               PROVE  hold[o] = "unreleased" /\ reservedUntil[o] >= now
    OBVIOUS
  <2> USE DEF StockInv, TypeOK, HoldMatchesStatus
  <2>1. CASE \E q \in Orders, ref \in Refs : Confirm(q, ref)
    <3>1. PICK q \in Orders, ref \in Refs : Confirm(q, ref)
      BY <2>1
    <3>2. q = o
      BY <3>1 DEF Confirm, MarkPaid
    <3>3. QED
      BY <3>1, <3>2 DEF Confirm, IsLate
  <2>2. CASE \E q \in Orders, p \in PaymentIds : ApplyPaid(q, p)
    <3>1. PICK q \in Orders, p \in PaymentIds : ApplyPaid(q, p)
      BY <2>2
    <3>2. q = o
      BY <3>1 DEF ApplyPaid, MarkPaid
    <3>3. status[o] \in {"reserved", "expired"} /\ ~IsLate(o)
      BY <3>1, <3>2 DEF ApplyPaid, Open, Terminal, OrderStatus
    <3>4. QED
      BY <3>3 DEF IsLate
  <2>3. CASE \E q \in Orders, c \in Carts : Reserve(q, c)
    BY <2>3 DEF Reserve
  <2>4. CASE \E q \in Orders, p \in PaymentIds : ApplyPaidLate(q, p)
    BY <2>4 DEF ApplyPaidLate
  <2>5. CASE \E q \in Orders : ApplyFailed(q) \/ ApplyRefunded(q)
    BY <2>5 DEF ApplyFailed, ApplyRefunded
  <2>6. CASE ReleaseJob
    BY <2>6 DEF ReleaseJob, ReleaseExpired
  <2>7. CASE Tick
    BY <2>7 DEF Tick
  <2>8. QED
    BY <2>1, <2>2, <2>3, <2>4, <2>5, <2>6, <2>7 DEF Next
<1>2. QED
  BY <1>1, StockInvariant, PTL DEF Spec, PaidWhileHeld

(***************************************************************************)
(* What each part of a transaction does to the order's claim on the stock. *)
(***************************************************************************)

(* A reservation takes its units. *)
LEMMA ReserveTakes ==
  ASSUME StockInv, NEW o \in Orders, NEW c \in Carts, Reserve(o, c)
  PROVE  Stock!Take(o, c)
<1> USE DEF StockInv, TypeOK
<1> DEFINE claims == [q \in Orders |-> Claim(q)]
<1>1. hold[o] = "none" /\ hold' = [hold EXCEPT ![o] = "unreleased"]
  BY DEF Reserve, HoldMatchesStatus
<1>2. claims[o] = "free"
  BY <1>1 DEF Claim
<1>3. claims' = [claims EXCEPT ![o] = "held"]
  BY <1>1 DEF Claim
<1>4. QED
  BY <1>2, <1>3 DEF Stock!Take, Reserve, EnoughStock

(* A payment in time, by confirm or by a webhook, keeps them for good. *)
LEMMA PaidSells ==
  ASSUME StockInv, NEW o \in Orders, NEW p \in PaymentIds,
         NEW reason \in {"consumed_by_payment", "unexplained"},
         MarkPaid(o, p, reason), hold[o] = "unreleased", UNCHANGED <<remaining, cart>>
  PROVE  Stock!Sell(o)
<1> USE DEF StockInv, TypeOK
<1> DEFINE claims == [q \in Orders |-> Claim(q)]
<1>1. hold' = [hold EXCEPT ![o] = reason]
  BY DEF MarkPaid, ReleaseHolds, Unreleased
<1>2. claims[o] = "held"
  BY DEF Claim
<1>3. claims' = [claims EXCEPT ![o] = "sold"]
  BY <1>1 DEF Claim
<1>4. QED
  BY <1>2, <1>3 DEF Stock!Sell

(* A late payment and the job return what is still held, whole. *)
LEMMA ReleaseReturns ==
  ASSUME StockInv, NEW S \in SUBSET Orders,
         NEW reason \in {"expired_ttl", "expired_payment_compensation"},
         RestoreStock(Unreleased(S)), ReleaseHolds(S, reason), UNCHANGED cart
  PROVE  Stock!Return(Unreleased(S))
<1> USE DEF StockInv, TypeOK
<1> DEFINE claims == [q \in Orders |-> Claim(q)]
<1>1. \A o \in Unreleased(S) : claims[o] = "held"
  BY DEF Unreleased, Claim
<1>2. claims' = [o \in Orders |-> IF o \in Unreleased(S) THEN "returned" ELSE claims[o]]
  BY DEF ReleaseHolds, Claim
<1>3. remaining' = [t \in TicketTypes |->
                      remaining[t] + Stock!UnitCount(cart, Unreleased(S), t)]
  <2>1. ASSUME NEW t \in TicketTypes
        PROVE  Stock!UnitCount(cart, Unreleased(S), t) = UnitCount(cart, Unreleased(S), t)
    BY DEF UnitCount, Units, Stock!UnitCount, Stock!Units, Cardinality, Stock!Cardinality
  <2>2. QED
    BY <2>1 DEF RestoreStock
<1>4. QED
  BY <1>1, <1>2, <1>3 DEF Stock!Return

(* Each step of the purchase is a step of the stock contract. *)
LEMMA StepIsStockStep ==
  ASSUME StockInv, [Next]_vars
  PROVE  [Stock!Next]_(Stock!stockVars)
<1> USE DEF StockInv, TypeOK
<1>1. ASSUME UNCHANGED <<remaining, cart, hold>>
      PROVE  UNCHANGED Stock!stockVars
  BY <1>1 DEF Stock!stockVars, Claim
<1>2. CASE \E o \in Orders, c \in Carts : Reserve(o, c)
  BY <1>2, ReserveTakes DEF Stock!Next, Stock!Carts, Stock!Quantities, Stock!NoUnits, Carts, Quantities, NoUnits
<1>3. CASE \E o \in Orders, ref \in Refs : Confirm(o, ref)
  <2>1. PICK o \in Orders, ref \in Refs : Confirm(o, ref)
    BY <1>3
  <2>2. <<Mock, ref>> \in PaymentIds
    BY CheckoutAssumption DEF PaymentIds
  <2>3. hold[o] = "unreleased"
    BY <2>1 DEF Confirm, HoldMatchesStatus
  <2>4. Stock!Sell(o)
    BY <2>1, <2>2, <2>3, PaidSells DEF Confirm
  <2>5. QED
    BY <2>4 DEF Stock!Next
<1>4. CASE \E o \in Orders, p \in PaymentIds : ApplyPaid(o, p)
  <2>1. PICK o \in Orders, p \in PaymentIds : ApplyPaid(o, p)
    BY <1>4
  <2>2. hold[o] = "unreleased"
    BY <2>1 DEF ApplyPaid, Open, Terminal, OrderStatus, HoldMatchesStatus
  <2>3. Stock!Sell(o)
    BY <2>1, <2>2, PaidSells DEF ApplyPaid
  <2>4. QED
    BY <2>3 DEF Stock!Next
<1>5. CASE \E o \in Orders, p \in PaymentIds : ApplyPaidLate(o, p)
  <2>1. PICK o \in Orders, p \in PaymentIds : ApplyPaidLate(o, p)
    BY <1>5
  <2>2. Stock!Return(Unreleased({o}))
    BY <2>1, ReleaseReturns DEF ApplyPaidLate
  <2>3. Unreleased({o}) \in SUBSET Orders
    BY DEF Unreleased
  <2>4. QED
    BY <2>2, <2>3 DEF Stock!Next
<1>6. CASE \E o \in Orders : ApplyFailed(o) \/ ApplyRefunded(o)
  BY <1>6, <1>1 DEF ApplyFailed, ApplyRefunded
<1>7. CASE ReleaseJob
  <2>1. PICK jobNow \in Recent : ReleaseExpired(jobNow)
    BY <1>7 DEF ReleaseJob
  <2>2. OverdueOrders(jobNow) \in SUBSET Orders
    BY DEF OverdueOrders
  <2>3. Stock!Return(Unreleased(OverdueOrders(jobNow)))
    BY <2>1, <2>2, ReleaseReturns DEF ReleaseExpired
  <2>4. Unreleased(OverdueOrders(jobNow)) \in SUBSET Orders
    BY <2>2 DEF Unreleased
  <2>5. QED
    BY <2>3, <2>4 DEF Stock!Next
<1>8. CASE Tick
  BY <1>8, <1>1 DEF Tick
<1>9. CASE UNCHANGED vars
  BY <1>9, <1>1 DEF vars
<1>10. QED
  BY <1>2, <1>3, <1>4, <1>5, <1>6, <1>7, <1>8, <1>9 DEF Next

(* The four transactions of the code implement the stock contract.         *)
THEOREM CheckoutImplementsStock == Spec => ImplementsTicketStock
<1>1. Init => Stock!Init
  BY DEF Init, Stock!Init, Claim, Stock!NoUnits, NoUnits
<1>2. StockInv /\ [Next]_vars => [Stock!Next]_(Stock!stockVars)
  BY StepIsStockStep
<1>3. QED
  BY <1>1, <1>2, StockInvariant, PTL DEF Spec, ImplementsTicketStock, Stock!Spec

-----------------------------------------------------------------------------
(* An order's status and its units together. *)

(* OrderSteps speaks of the stock as TicketStock does. *)
LEMMA SameStock ==
  /\ Life!Carts = Carts
  /\ \A o \in Orders, c \in Carts : Stock!Take(o, c) => Life!Take(o, c)
  /\ \A o \in Orders : Stock!Sell(o) => Life!Sell(o)
  /\ \A S \in SUBSET Orders : Stock!Return(S) => Life!Return(S)
<1>1. Life!Carts = Carts
  BY DEF Life!Carts, Life!Quantities, Life!NoUnits, Carts, Quantities, NoUnits
<1>2. \A o \in Orders, c \in Carts : Stock!Take(o, c) => Life!Take(o, c)
  BY DEF Stock!Take, Life!Take
<1>3. \A o \in Orders : Stock!Sell(o) => Life!Sell(o)
  BY DEF Stock!Sell, Life!Sell
<1>4. \A S \in SUBSET Orders : Stock!Return(S) => Life!Return(S)
  <2>1. \A x, S, t : Stock!UnitCount(x, S, t) = Life!UnitCount(x, S, t)
    BY DEF Life!UnitCount, Life!Units, Stock!UnitCount, Stock!Units, Cardinality,
           Stock!Cardinality, Life!Cardinality
  <2>2. QED
    BY <2>1 DEF Stock!Return, Life!Return
<1>5. QED
  BY <1>1, <1>2, <1>3, <1>4

(* Each transaction is one of the changes that OrderSteps lists, but for a  *)
(* webhook that reports a failure for an expired order: it changes neither  *)
(* the status nor the stock.                                                *)
LEMMA StepIsOrderStep ==
  ASSUME StockInv, [Next]_vars
  PROVE  [Life!StepsNext]_(Life!stepVars)
<1> USE DEF StockInv, TypeOK
<1>1. ASSUME UNCHANGED <<remaining, cart, hold>>
      PROVE  UNCHANGED Life!stockVars
  BY <1>1 DEF Life!stockVars, Claim
<1>2. CASE \E o \in Orders, c \in Carts : Reserve(o, c)
  <2>1. PICK o \in Orders, c \in Carts : Reserve(o, c)
    BY <1>2
  <2>2. Life!Take(o, c) /\ c \in Life!Carts
    BY <2>1, ReserveTakes, SameStock
  <2>3. Life!Reserve(o, c)
    BY <2>1, <2>2 DEF Reserve, Life!Reserve, Life!Becomes
  <2>4. QED
    BY <2>2, <2>3 DEF Life!StepsNext
<1>3. ASSUME NEW o \in Orders, NEW p \in PaymentIds,
             NEW reason \in {"consumed_by_payment", "unexplained"},
             MarkPaid(o, p, reason), status[o] = "reserved", UNCHANGED <<remaining, cart>>
      PROVE  Life!StepsNext
  <2>1. hold[o] = "unreleased"
    BY <1>3 DEF HoldMatchesStatus
  <2>2. Life!Sell(o)
    BY <1>3, <2>1, PaidSells, SameStock
  <2>3. Life!PayInTime(o)
    BY <1>3, <2>2 DEF MarkPaid, Life!PayInTime, Life!Becomes
  <2>4. QED
    BY <2>3 DEF Life!StepsNext
<1>4. CASE \E o \in Orders, ref \in Refs : Confirm(o, ref)
  <2>1. PICK o \in Orders, ref \in Refs : Confirm(o, ref)
    BY <1>4
  <2>2. <<Mock, ref>> \in PaymentIds
    BY CheckoutAssumption DEF PaymentIds
  <2>3. QED
    BY <2>1, <2>2, <1>3 DEF Confirm
<1>5. CASE \E o \in Orders, p \in PaymentIds : ApplyPaid(o, p)
  <2>1. PICK o \in Orders, p \in PaymentIds : ApplyPaid(o, p)
    BY <1>5
  <2>2. status[o] = "reserved"
    BY <2>1 DEF ApplyPaid, Open, Terminal, OrderStatus, HoldMatchesStatus
  <2>3. QED
    BY <2>1, <2>2, <1>3 DEF ApplyPaid
<1>6. CASE \E o \in Orders, p \in PaymentIds : ApplyPaidLate(o, p)
  <2>1. PICK o \in Orders, p \in PaymentIds : ApplyPaidLate(o, p)
    BY <1>6
  <2>2. status[o] \in {"reserved", "expired"}
    BY <2>1 DEF ApplyPaidLate, Open, Terminal, OrderStatus
  <2>3. Unreleased({o}) = {q \in {o} : Claim(q) = "held"}
    BY DEF Unreleased, Claim
  <2>4. Life!Return(Unreleased({o}))
    <3>1. Unreleased({o}) \in SUBSET Orders
      BY DEF Unreleased
    <3>2. QED
      BY <2>1, <3>1, ReleaseReturns, SameStock DEF ApplyPaidLate
  <2>5. {q \in {o} : Claim(q) = "held"} = {q \in {o} : [r \in Orders |-> Claim(r)][q] = "held"}
    OBVIOUS
  <2>6. Life!PayLate(o)
    BY <2>1, <2>2, <2>3, <2>4, <2>5 DEF ApplyPaidLate, Life!PayLate, Life!Becomes
  <2>7. QED
    BY <2>6 DEF Life!StepsNext
<1>7. CASE \E o \in Orders : ApplyFailed(o)
  <2>1. PICK o \in Orders : ApplyFailed(o)
    BY <1>7
  <2>2. UNCHANGED Life!stockVars
    BY <2>1, <1>1 DEF ApplyFailed
  <2>3. CASE status[o] = "reserved"
    <3>1. Life!FailPayment(o)
      BY <2>1, <2>2, <2>3 DEF ApplyFailed, Life!FailPayment, Life!Becomes
    <3>2. QED
      BY <3>1 DEF Life!StepsNext
  <2>4. CASE status[o] # "reserved"
    <3>1. status' = status
      BY <2>1, <2>4 DEF ApplyFailed
    <3>2. QED
      BY <2>2, <3>1 DEF Life!stepVars
  <2>5. QED
    BY <2>3, <2>4
<1>8. CASE \E o \in Orders : ApplyRefunded(o)
  <2>1. PICK o \in Orders : ApplyRefunded(o)
    BY <1>8
  <2>2. status[o] \in {"reserved", "expired"}
    BY <2>1 DEF ApplyRefunded, Open, Terminal, OrderStatus
  <2>3. UNCHANGED Life!stockVars
    BY <2>1, <1>1 DEF ApplyRefunded
  <2>4. Life!Refund(o)
    BY <2>1, <2>2, <2>3 DEF ApplyRefunded, Life!Refund, Life!Becomes
  <2>5. QED
    BY <2>4 DEF Life!StepsNext
<1>9. CASE ReleaseJob
  <2>1. PICK jobNow \in Recent : ReleaseExpired(jobNow)
    BY <1>9 DEF ReleaseJob
  <2> DEFINE S == OverdueOrders(jobNow)
  <2>2. S \in SUBSET Orders /\ \A o \in S : status[o] = "reserved"
    BY DEF OverdueOrders
  <2>3. Unreleased(S) = S
    BY <2>2 DEF Unreleased, HoldMatchesStatus
  <2>4. Life!Return(S)
    BY <2>1, <2>2, <2>3, ReleaseReturns, SameStock DEF ReleaseExpired
  <2>5. Life!Expire(S)
    BY <2>1, <2>2, <2>4 DEF ReleaseExpired, Life!Expire
  <2>6. QED
    BY <2>2, <2>5 DEF Life!StepsNext
<1>10. CASE Tick
  BY <1>10, <1>1 DEF Tick, Life!stepVars
<1>11. CASE UNCHANGED vars
  BY <1>11, <1>1 DEF vars, Life!stepVars
<1>12. QED
  BY <1>2, <1>4, <1>5, <1>6, <1>7, <1>8, <1>9, <1>10, <1>11 DEF Next

(* Status and stock change together, in the steps that OrderSteps lists: no *)
(* mixture of confirm, webhooks and job takes a settled order further.      *)
THEOREM CheckoutImplementsSteps == Spec => ImplementsOrderSteps
<1>1. Init => Life!StepsInit
  BY DEF Init, Life!StepsInit, Life!Init, Claim, Life!NoUnits, NoUnits
<1>2. StockInv /\ [Next]_vars => [Life!StepsNext]_(Life!stepVars)
  BY StepIsOrderStep
<1>3. QED
  BY <1>1, <1>2, StockInvariant, PTL DEF Spec, ImplementsOrderSteps, Life!StepsSpec

(***************************************************************************)
(* The rows a payment leaves behind: Payment, LatePaymentCase and          *)
(* DomainEvent agree with what happened to the order. What follows rests   *)
(* on StockInvariant, which ties an order's status to its hold.            *)
(***************************************************************************)

-----------------------------------------------------------------------------
(* What the transactions do to one order's status and hold. *)

(* Only a reservation that stands is paid in time. *)
LEMMA InTimeIsHeld ==
  ASSUME StockInv, NEW o \in Orders, ~IsLate(o), Open(o)
  PROVE  status[o] = "reserved" /\ hold[o] = "unreleased"
BY DEF StockInv, TypeOK, HoldMatchesStatus, Open, Terminal, OrderStatus

(* A late payment finds the units still held, or already returned.          *)
LEMMA LateIsHeldOrReturned ==
  ASSUME StockInv, NEW o \in Orders, Open(o)
  PROVE  hold[o] \in {"unreleased", "expired_ttl"}
BY DEF StockInv, TypeOK, HoldMatchesStatus, Open, Terminal, OrderStatus

(* What it does to the hold: released with its own reason, or left alone.   *)
LEMMA LateReleases ==
  ASSUME StockInv, NEW o \in Orders, NEW p \in PaymentIds, ApplyPaidLate(o, p)
  PROVE  /\ hold[o] \in {"unreleased", "expired_ttl"}
         /\ hold' = [hold EXCEPT ![o] = IF hold[o] = "unreleased"
                                        THEN "expired_payment_compensation" ELSE @]
         /\ Unreleased({o}) # {} <=> hold[o] = "unreleased"
<1>1. hold[o] \in {"unreleased", "expired_ttl"}
  BY LateIsHeldOrReturned DEF ApplyPaidLate
<1>2. ReleaseHolds({o}, "expired_payment_compensation") /\ hold \in [Orders -> HoldStates]
  BY DEF ApplyPaidLate, StockInv, TypeOK
<1>3. QED
  BY <1>1, <1>2 DEF ReleaseHolds, Unreleased

-----------------------------------------------------------------------------
(* Domain events. *)

AuditInv == StockInv /\ TicketsExact /\ AuditMatchesStatus

(* A payment in time writes both events of a paid order. *)
LEMMA MarkPaidKeepsAudit ==
  ASSUME AuditInv, NEW o \in Orders, NEW p \in PaymentIds,
         NEW reason \in {"consumed_by_payment", "unexplained"},
         status[o] = "reserved", hold[o] = "unreleased", MarkPaid(o, p, reason)
  PROVE  AuditMatchesStatus'
<1> USE DEF AuditInv, StockInv, TypeOK
<1>1. tickets[o] = NoUnits
  BY DEF TicketsExact
<1>2. emitted' = [emitted EXCEPT ![o] = @ \cup {"ORDER_PAID", "TICKETS_ISSUED"}]
  BY <1>1 DEF MarkPaid, Emit
<1>3. hold' = [hold EXCEPT ![o] = reason] /\ status' = [status EXCEPT ![o] = "paid"]
  BY DEF MarkPaid, ReleaseHolds, Unreleased
<1>4. QED
  BY <1>2, <1>3 DEF AuditMatchesStatus

(* A transaction writes an order's events together with the status or the   *)
(* hold they report.                                                        *)
LEMMA StepKeepsAudit == AuditInv /\ [Next]_vars => AuditMatchesStatus'
<1> SUFFICES ASSUME AuditInv, [Next]_vars
             PROVE  AuditMatchesStatus'
  OBVIOUS
<1> USE DEF AuditInv, StockInv, TypeOK
<1>1. ASSUME NEW o \in Orders, NEW c \in Carts, Reserve(o, c)
      PROVE  AuditMatchesStatus'
  BY <1>1 DEF Reserve, Emit, HoldMatchesStatus, AuditMatchesStatus
<1>2. ASSUME NEW o \in Orders, NEW ref \in Refs, Confirm(o, ref)
      PROVE  AuditMatchesStatus'
  <2>1. <<Mock, ref>> \in PaymentIds
    BY CheckoutAssumption DEF PaymentIds
  <2>2. hold[o] = "unreleased"
    BY <1>2 DEF Confirm, HoldMatchesStatus
  <2>3. QED
    BY <1>2, <2>1, <2>2, MarkPaidKeepsAudit DEF Confirm
<1>3. ASSUME NEW o \in Orders, NEW p \in PaymentIds, ApplyPaid(o, p)
      PROVE  AuditMatchesStatus'
  <2>1. status[o] = "reserved" /\ hold[o] = "unreleased"
    BY <1>3, InTimeIsHeld DEF ApplyPaid
  <2>2. QED
    BY <1>3, <2>1, MarkPaidKeepsAudit DEF ApplyPaid
<1>4. ASSUME NEW o \in Orders, NEW p \in PaymentIds, ApplyPaidLate(o, p)
      PROVE  AuditMatchesStatus'
  <2>1. status[o] \notin {"paid", "paid_no_stock"} /\ Open(o)
    BY <1>4 DEF ApplyPaidLate, Open, Terminal
  <2>2. /\ status' = [status EXCEPT ![o] = "paid_no_stock"]
        /\ \E h \in {hold[o], "expired_payment_compensation"} : hold' = [hold EXCEPT ![o] = h]
        /\ hold'[o] = "expired_ttl" <=> hold[o] = "expired_ttl"
    <3>1. /\ hold[o] \in {"unreleased", "expired_ttl"}
          /\ hold' = [hold EXCEPT ![o] = IF hold[o] = "unreleased"
                                         THEN "expired_payment_compensation" ELSE @]
      BY <1>4, LateReleases
    <3>2. status' = [status EXCEPT ![o] = "paid_no_stock"]
      BY <1>4 DEF ApplyPaidLate
    <3>3. QED
      BY <3>1, <3>2
  <2>3. \E types \in {{"PAYMENT_MARKED_NO_STOCK"},
                      {"LATE_PAYMENT_CASE_CREATED", "PAYMENT_MARKED_NO_STOCK"}} :
          emitted' = [emitted EXCEPT ![o] = @ \cup types]
    BY <1>4 DEF ApplyPaidLate, EnsureLateCase, Emit
  <2>4. QED
    BY <2>1, <2>2, <2>3 DEF AuditMatchesStatus
<1>5. ASSUME NEW o \in Orders, ApplyFailed(o)
      PROVE  AuditMatchesStatus'
  BY <1>5 DEF ApplyFailed, Open, Terminal, Emit, AuditMatchesStatus
<1>6. ASSUME NEW o \in Orders, ApplyRefunded(o)
      PROVE  AuditMatchesStatus'
  BY <1>6 DEF ApplyRefunded, Open, Terminal, Emit, AuditMatchesStatus
<1>7. ASSUME NEW jobNow \in Recent, ReleaseExpired(jobNow)
      PROVE  AuditMatchesStatus'
  <2>1. \A o \in OverdueOrders(jobNow) : status[o] = "reserved" /\ hold[o] = "unreleased"
    BY DEF OverdueOrders, HoldMatchesStatus
  <2>2. Unreleased(OverdueOrders(jobNow)) = OverdueOrders(jobNow)
    BY <2>1 DEF Unreleased
  <2>3. QED
    BY <1>7, <2>1, <2>2 DEF ReleaseExpired, ReleaseHolds, AuditMatchesStatus
<1>8. CASE Tick
  BY <1>8 DEF Tick, AuditMatchesStatus
<1>9. CASE UNCHANGED vars
  BY <1>9 DEF vars, AuditMatchesStatus
<1>10. QED
  BY <1>1, <1>2, <1>3, <1>4, <1>5, <1>6, <1>7, <1>8, <1>9 DEF Next, ReleaseJob

(* The DomainEvent rows say what happened to the order. *)
THEOREM AuditIsTrue == Spec => []AuditMatchesStatus
<1>1. Init => AuditMatchesStatus
  BY DEF Init, AuditMatchesStatus
<1>2. StockInv /\ TicketsExact /\ AuditMatchesStatus /\ [Next]_vars => AuditMatchesStatus'
  BY StepKeepsAudit DEF AuditInv
<1>3. QED
  BY <1>1, <1>2, StockInvariant, TicketsAreExact, PTL DEF Spec

(* So no open order has one of the events the unique indexes allow once:    *)
(* the violation that emitDomainEvent swallows, and which would abort the   *)
(* transaction around it, never comes up.                                   *)
THEOREM OnceOnlyEventsAreNew ==
  Spec => [](\A o \in Orders : status[o] = "reserved" =>
               emitted[o] \cap OncePerOrder = {})
<1>1. StockInv /\ AuditMatchesStatus =>
        \A o \in Orders : status[o] = "reserved" => emitted[o] \cap OncePerOrder = {}
  BY DEF StockInv, HoldMatchesStatus, AuditMatchesStatus, OncePerOrder
<1>2. QED
  BY <1>1, StockInvariant, AuditIsTrue, PTL

-----------------------------------------------------------------------------
(* What no transaction of Checkout undoes. *)

LEMMA StatusesStay ==
  ASSUME TypeOK, [Next]_vars, NEW o \in Orders
  PROVE  /\ status[o] # "none" => status'[o] # "none"
         /\ status[o] \in Terminal => status'[o] = status[o]
<1> USE DEF TypeOK, Terminal
<1>1. ASSUME NEW p \in Orders, NEW c \in Carts, Reserve(p, c)
      PROVE  status' = [status EXCEPT ![p] = "reserved"] /\ status[p] = "none"
  BY <1>1 DEF Reserve
<1>2. ASSUME NEW p \in Orders, NEW ref \in Refs, Confirm(p, ref)
      PROVE  status' = [status EXCEPT ![p] = "paid"] /\ status[p] = "reserved"
  BY <1>2 DEF Confirm, MarkPaid
<1>3. ASSUME NEW p \in Orders, NEW q \in PaymentIds, ApplyPaid(p, q) \/ ApplyPaidLate(p, q)
      PROVE  /\ status' = [status EXCEPT ![p] = "paid"] \/ status' = [status EXCEPT ![p] = "paid_no_stock"]
             /\ status[p] \notin Terminal
  BY <1>3 DEF ApplyPaid, MarkPaid, ApplyPaidLate, Open
<1>4. ASSUME NEW p \in Orders, ApplyFailed(p) \/ ApplyRefunded(p)
      PROVE  /\ status[p] \notin Terminal /\ status[p] # "none"
             /\ \/ status' = [status EXCEPT ![p] = IF @ = "reserved" THEN "failed" ELSE @]
                \/ status' = [status EXCEPT ![p] = "refunded"]
  BY <1>4 DEF ApplyFailed, ApplyRefunded, Open
<1>5. ASSUME NEW jobNow \in Recent, ReleaseExpired(jobNow)
      PROVE  /\ status'[o] \in {status[o], "expired"}
             /\ status[o] # "reserved" => status'[o] = status[o]
  BY <1>5 DEF ReleaseExpired, OverdueOrders
<1>6. CASE Tick \/ UNCHANGED vars
  BY <1>6 DEF Tick, vars
<1>7. QED
  BY <1>1, <1>2, <1>3, <1>4, <1>5, <1>6 DEF Next, ReleaseJob

(* A Payment row stays with its order; only confirm and the paid webhooks   *)
(* write one, the former for the mock provider.                             *)
LEMMA PaymentsStay ==
  ASSUME TypeOK, [Next]_vars, NEW p \in PaymentIds
  PROVE  payment[p] # NoOrder => payment'[p] = payment[p]
<1> USE DEF TypeOK
<1>1. ASSUME NEW o \in Orders, NEW q \in PaymentIds, MaterializePayment(o, q)
      PROVE  payment[p] # NoOrder => payment'[p] = payment[p]
  BY <1>1 DEF MaterializePayment
<1>2. ASSUME NEW o \in Orders, NEW ref \in Refs, Confirm(o, ref)
      PROVE  payment[p] # NoOrder => payment'[p] = payment[p]
  <2>1. <<Mock, ref>> \in PaymentIds
    BY CheckoutAssumption DEF PaymentIds
  <2>2. MaterializePayment(o, <<Mock, ref>>)
    BY <1>2 DEF Confirm, MarkPaid
  <2>3. QED
    BY <1>1, <2>1, <2>2
<1>3. ASSUME NEW o \in Orders, NEW q \in PaymentIds, ApplyPaid(o, q) \/ ApplyPaidLate(o, q)
      PROVE  payment[p] # NoOrder => payment'[p] = payment[p]
  BY <1>1, <1>3 DEF ApplyPaid, MarkPaid, ApplyPaidLate
<1>4. ASSUME NEW o \in Orders,
             (\E c \in Carts : Reserve(o, c)) \/ ApplyFailed(o) \/ ApplyRefunded(o)
      PROVE  payment' = payment
  BY <1>4 DEF Reserve, ApplyFailed, ApplyRefunded
<1>5. CASE ReleaseJob \/ Tick \/ UNCHANGED vars
  BY <1>5 DEF ReleaseJob, ReleaseExpired, Tick, vars
<1>6. QED
  BY <1>2, <1>3, <1>4, <1>5 DEF Next

-----------------------------------------------------------------------------
(* Payments. *)

Charged == {"paid", "paid_no_stock"}

(* Every Payment row belongs to a charged order, every charged order has    *)
(* one, and no order has two.                                               *)
ChargedOnce ==
  /\ \A p \in PaymentIds : payment[p] # NoOrder => status[payment[p]] \in Charged
  /\ \A p, q \in PaymentIds : payment[p] # NoOrder /\ payment[p] = payment[q] => p = q
  /\ \A o \in Orders : status[o] \in Charged => \E p \in PaymentIds : payment[p] = o

(* The two transactions that record money do so for an order without any.   *)
LEMMA ChargeKeepsChargedOnce ==
  ASSUME TypeOK, ChargedOnce, NEW o \in Orders, NEW p \in PaymentIds,
         status[o] \notin Charged, MaterializePayment(o, p),
         NEW s \in Charged, status' = [status EXCEPT ![o] = s]
  PROVE  ChargedOnce'
<1> USE DEF TypeOK
<1>1. o # NoOrder
  BY CheckoutAssumption
<1>2. \A q \in PaymentIds : payment[q] # o
  BY <1>1 DEF ChargedOnce
<1>3. payment' = [payment EXCEPT ![p] = o]
  BY DEF MaterializePayment
<1>4. \A q \in PaymentIds : payment'[q] # NoOrder => status'[payment'[q]] \in Charged
  BY <1>2, <1>3 DEF ChargedOnce
<1>5. ASSUME NEW q \in PaymentIds, NEW r \in PaymentIds,
             payment'[q] # NoOrder, payment'[q] = payment'[r]
      PROVE  q = r
  BY <1>2, <1>3, <1>5 DEF ChargedOnce
<1>6. \A q \in PaymentIds : payment[q] # NoOrder => payment'[q] = payment[q]
  BY <1>2, <1>3 DEF MaterializePayment
<1>7. ASSUME NEW x \in Orders, status'[x] \in Charged
      PROVE  \E q \in PaymentIds : payment'[q] = x
  <2>1. CASE x = o
    BY <2>1, <1>3
  <2>2. CASE x # o
    <3>1. PICK q \in PaymentIds : payment[q] = x
      BY <2>2, <1>7 DEF ChargedOnce
    <3>2. payment'[q] = x
      BY <3>1, <1>6, CheckoutAssumption
    <3>3. QED
      BY <3>2
  <2>3. QED
    BY <2>1, <2>2
<1>8. QED
  BY <1>4, <1>5, <1>7 DEF ChargedOnce

(* The other transactions neither charge an order nor forget a charge.      *)
LEMMA NoChargeKeepsChargedOnce ==
  ASSUME TypeOK, ChargedOnce, payment' = payment,
         \A o \in Orders : status'[o] \in Charged <=> status[o] \in Charged
  PROVE  ChargedOnce'
BY DEF ChargedOnce, TypeOK

LEMMA StepKeepsChargedOnce == StockInv /\ ChargedOnce /\ [Next]_vars => ChargedOnce'
<1> SUFFICES ASSUME StockInv, ChargedOnce, [Next]_vars
             PROVE  ChargedOnce'
  OBVIOUS
<1>0. TypeOK
  BY DEF StockInv
<1>1. ASSUME NEW o \in Orders, NEW c \in Carts, Reserve(o, c)
      PROVE  ChargedOnce'
  <2>1. payment' = payment /\ status' = [status EXCEPT ![o] = "reserved"] /\ status[o] = "none"
    BY <1>1 DEF Reserve
  <2>2. QED
    BY <1>0, <2>1, NoChargeKeepsChargedOnce DEF TypeOK, Charged
<1>2. ASSUME NEW o \in Orders, NEW ref \in Refs, Confirm(o, ref)
      PROVE  ChargedOnce'
  <2>1. <<Mock, ref>> \in PaymentIds
    BY CheckoutAssumption DEF PaymentIds
  <2>2. MaterializePayment(o, <<Mock, ref>>) /\ status' = [status EXCEPT ![o] = "paid"]
    BY <1>2 DEF Confirm, MarkPaid
  <2>3. status[o] \notin Charged
    BY <1>2 DEF Confirm, Charged
  <2>4. QED
    BY <1>0, <2>1, <2>2, <2>3, ChargeKeepsChargedOnce DEF Charged
<1>3. ASSUME NEW o \in Orders, NEW p \in PaymentIds, ApplyPaid(o, p) \/ ApplyPaidLate(o, p)
      PROVE  ChargedOnce'
  <2>1. MaterializePayment(o, p) /\ \E s \in Charged : status' = [status EXCEPT ![o] = s]
    BY <1>3 DEF ApplyPaid, MarkPaid, ApplyPaidLate, Charged
  <2>2. status[o] \notin Charged
    BY <1>3 DEF ApplyPaid, ApplyPaidLate, Open, Terminal, Charged
  <2>3. QED
    BY <1>0, <2>1, <2>2, ChargeKeepsChargedOnce
<1>4. ASSUME NEW o \in Orders, ApplyFailed(o) \/ ApplyRefunded(o)
      PROVE  ChargedOnce'
  <2>1. /\ payment' = payment
        /\ \E s \in {status[o], "failed", "refunded"} : status' = [status EXCEPT ![o] = s]
        /\ status[o] \notin Charged
    BY <1>4 DEF ApplyFailed, ApplyRefunded, Open, Terminal, Charged
  <2>2. QED
    BY <1>0, <2>1, NoChargeKeepsChargedOnce DEF TypeOK, Charged
<1>5. ASSUME NEW jobNow \in Recent, ReleaseExpired(jobNow)
      PROVE  ChargedOnce'
  <2>1. /\ payment' = payment
        /\ status' = [o \in Orders |-> IF o \in OverdueOrders(jobNow) THEN "expired" ELSE status[o]]
        /\ \A o \in OverdueOrders(jobNow) : status[o] = "reserved"
    BY <1>5 DEF ReleaseExpired, OverdueOrders
  <2>2. QED
    BY <1>0, <2>1, NoChargeKeepsChargedOnce DEF Charged
<1>6. CASE Tick \/ UNCHANGED vars
  BY <1>0, <1>6, NoChargeKeepsChargedOnce DEF Tick, vars
<1>7. QED
  BY <1>1, <1>2, <1>3, <1>4, <1>5, <1>6 DEF Next, ReleaseJob

LEMMA ChargedOnceHolds == Spec => []ChargedOnce
<1>1. Init => ChargedOnce
  BY CheckoutAssumption DEF Init, ChargedOnce, Charged
<1>2. QED
  BY <1>1, StepKeepsChargedOnce, StockInvariant, PTL DEF Spec

(* Money that reached the Payment table is accounted for, and no order is   *)
(* charged twice.                                                           *)
THEOREM MoneyIsAccounted == Spec => []PaymentsAccounted
<1>1. TypeOK /\ ChargedOnce => PaymentsAccounted
  <2> SUFFICES ASSUME TypeOK, ChargedOnce, NEW o \in Orders
               PROVE  Cardinality({p \in PaymentIds : payment[p] = o}) =
                        IF status[o] \in {"paid", "paid_no_stock"} THEN 1 ELSE 0
    BY DEF PaymentsAccounted
  <2> DEFINE own == {p \in PaymentIds : payment[p] = o}
  <2>1. CASE status[o] \in Charged
    <3>1. PICK p \in PaymentIds : payment[p] = o
      BY <2>1 DEF ChargedOnce
    <3>2. own = {p}
      BY <3>1, CheckoutAssumption DEF ChargedOnce
    <3>3. QED
      BY <2>1, <3>2, FS_Singleton DEF Charged
  <2>2. CASE status[o] \notin Charged
    <3>1. own = {}
      BY <2>2, CheckoutAssumption DEF ChargedOnce
    <3>2. QED
      BY <2>2, <3>1, FS_EmptySet DEF Charged
  <2>3. QED
    BY <2>1, <2>2
<1>2. QED
  BY <1>1, ChargedOnceHolds, TypeCorrect, PTL

-----------------------------------------------------------------------------
(* Late payments. *)

(* LateCaseExact does not say that a case names an order at all; that is    *)
(* what makes a new payment's case new.                                     *)
CaseInv ==
  /\ LateCaseExact
  /\ \A p \in PaymentIds : lateCase[p] # NoCase => lateCase[p].order \in Orders

(* A payment of an open order has no case yet. *)
LEMMA NewPaymentNewCase ==
  ASSUME TypeOK, CaseInv, NEW o \in Orders, NEW p \in PaymentIds,
         status[o] # "paid_no_stock", MaterializePayment(o, p)
  PROVE  lateCase[p] = NoCase
<1> SUFFICES ASSUME lateCase[p] # NoCase
             PROVE  FALSE
  OBVIOUS
<1>1. payment[p] \in Orders /\ status[payment[p]] = "paid_no_stock"
  BY DEF CaseInv, LateCaseExact
<1>2. payment[p] = o
  BY <1>1, CheckoutAssumption DEF MaterializePayment
<1>3. QED
  BY <1>1, <1>2

(* Cases stay exact as long as their orders, holds and payments stand. *)
LEMMA StandingCases ==
  ASSUME TypeOK, CaseInv, lateCase' = lateCase,
         \A p \in PaymentIds : payment[p] # NoOrder => payment'[p] = payment[p],
         \A o \in Orders : /\ status'[o] = "paid_no_stock" <=> status[o] = "paid_no_stock"
                           /\ status[o] = "paid_no_stock" => hold'[o] = hold[o]
  PROVE  CaseInv'
<1>1. ASSUME NEW o \in Orders, status'[o] = "paid_no_stock"
      PROVE  \E p \in PaymentIds :
               /\ payment'[p] = o
               /\ lateCase'[p] = [order |-> o,
                                  inventoryReleased |-> hold'[o] = "expired_payment_compensation"]
  <2>1. status[o] = "paid_no_stock" /\ hold'[o] = hold[o]
    BY <1>1
  <2>2. PICK p \in PaymentIds :
          /\ payment[p] = o
          /\ lateCase[p] = [order |-> o,
                            inventoryReleased |-> hold[o] = "expired_payment_compensation"]
    BY <2>1 DEF CaseInv, LateCaseExact
  <2>3. payment'[p] = o
    BY <2>2, CheckoutAssumption
  <2>4. QED
    BY <2>1, <2>2, <2>3
<1>2. ASSUME NEW p \in PaymentIds, lateCase'[p] # NoCase
      PROVE  /\ lateCase'[p].order \in Orders
             /\ payment'[p] = lateCase'[p].order
             /\ status'[payment'[p]] = "paid_no_stock"
  <2>1. /\ lateCase[p].order \in Orders
        /\ payment[p] = lateCase[p].order
        /\ status[payment[p]] = "paid_no_stock"
    BY <1>2 DEF CaseInv, LateCaseExact
  <2>2. QED
    BY <2>1, CheckoutAssumption
<1>3. QED
  BY <1>1, <1>2 DEF CaseInv, LateCaseExact

(* A late payment opens the case of its order, and of no other. *)
LEMMA LatePaymentKeepsCases ==
  ASSUME StockInv, CaseInv, NEW o \in Orders, NEW p \in PaymentIds, ApplyPaidLate(o, p)
  PROVE  CaseInv'
<1> DEFINE released == hold[o] = "unreleased"
           case == [order |-> o, inventoryReleased |-> released]
<1>1. /\ status[o] # "paid_no_stock"
      /\ status' = [status EXCEPT ![o] = "paid_no_stock"]
      /\ payment' = [payment EXCEPT ![p] = o]
      /\ payment[p] \in {NoOrder, o}
  BY DEF ApplyPaidLate, Open, Terminal, MaterializePayment
<1>2. lateCase[p] = NoCase
  BY <1>1, NewPaymentNewCase DEF StockInv, ApplyPaidLate
<1>3. lateCase' = [lateCase EXCEPT ![p] = case]
  <2>1. Unreleased({o}) # {} <=> released
    BY LateReleases
  <2>2. lateCase' = [lateCase EXCEPT ![p] = [order |-> o,
                                            inventoryReleased |-> Unreleased({o}) # {}]]
    BY <1>2 DEF ApplyPaidLate, EnsureLateCase
  <2>3. (Unreleased({o}) # {}) = released
    BY <2>1
  <2>4. QED
    BY <2>2, <2>3
<1>4. /\ hold' = [hold EXCEPT ![o] = IF released THEN "expired_payment_compensation" ELSE @]
      /\ hold[o] \in {"unreleased", "expired_ttl"}
  BY LateReleases
<1>5. (hold'[o] = "expired_payment_compensation") = released
  BY <1>4 DEF StockInv, TypeOK
<1>6. ASSUME NEW q \in PaymentIds, q # p
      PROVE  payment'[q] = payment[q] /\ lateCase'[q] = lateCase[q]
  BY <1>1, <1>3, <1>6 DEF StockInv, TypeOK
<1>7. payment'[p] = o /\ lateCase'[p] = case
  BY <1>1, <1>3 DEF StockInv, TypeOK
<1>8. ASSUME NEW x \in Orders, status'[x] = "paid_no_stock"
      PROVE  \E q \in PaymentIds :
               /\ payment'[q] = x
               /\ lateCase'[q] = [order |-> x,
                                  inventoryReleased |-> hold'[x] = "expired_payment_compensation"]
  <2>1. CASE x = o
    <3>1. lateCase'[p] = [order |-> x,
                          inventoryReleased |-> hold'[x] = "expired_payment_compensation"]
      BY <2>1, <1>5, <1>7
    <3>2. QED
      BY <2>1, <1>7, <3>1
  <2>2. CASE x # o
    <3>1. status[x] = "paid_no_stock" /\ hold'[x] = hold[x]
      BY <2>2, <1>1, <1>4, <1>8 DEF StockInv, TypeOK
    <3>2. PICK q \in PaymentIds :
            /\ payment[q] = x
            /\ lateCase[q] = [order |-> x,
                              inventoryReleased |-> hold[x] = "expired_payment_compensation"]
      BY <3>1 DEF CaseInv, LateCaseExact
    <3>3. q # p
      BY <2>2, <3>2, <1>1, CheckoutAssumption
    <3>4. QED
      BY <3>1, <3>2, <3>3, <1>6
  <2>3. QED
    BY <2>1, <2>2
<1>9. ASSUME NEW q \in PaymentIds, lateCase'[q] # NoCase
      PROVE  /\ lateCase'[q].order \in Orders
             /\ payment'[q] = lateCase'[q].order
             /\ status'[payment'[q]] = "paid_no_stock"
  <2>1. CASE q = p
    BY <2>1, <1>1, <1>7 DEF StockInv, TypeOK
  <2>2. CASE q # p
    <3>1. /\ lateCase[q].order \in Orders
          /\ payment[q] = lateCase[q].order
          /\ status[payment[q]] = "paid_no_stock"
      BY <2>2, <1>6, <1>9 DEF CaseInv, LateCaseExact
    <3>2. QED
      BY <2>2, <3>1, <1>1, <1>6 DEF StockInv, TypeOK
  <2>3. QED
    BY <2>1, <2>2
<1>10. QED
  BY <1>8, <1>9 DEF CaseInv, LateCaseExact

LEMMA StepKeepsCases == StockInv /\ CaseInv /\ [Next]_vars => CaseInv'
<1> SUFFICES ASSUME StockInv, CaseInv, [Next]_vars
             PROVE  CaseInv'
  OBVIOUS
<1>0. TypeOK
  BY DEF StockInv
<1>1. ASSUME NEW o \in Orders, NEW p \in PaymentIds, NEW reason \in HoldStates,
             status[o] = "reserved", MarkPaid(o, p, reason), lateCase' = lateCase
      PROVE  CaseInv'
  <2>1. \A q \in PaymentIds : payment[q] # NoOrder => payment'[q] = payment[q]
    BY <1>0, <1>1 DEF MarkPaid, MaterializePayment, TypeOK
  <2>2. \A x \in Orders : /\ status'[x] = "paid_no_stock" <=> status[x] = "paid_no_stock"
                          /\ status[x] = "paid_no_stock" => hold'[x] = hold[x]
    BY <1>0, <1>1 DEF MarkPaid, ReleaseHolds, Unreleased, TypeOK
  <2>3. QED
    BY <1>0, <1>1, <2>1, <2>2, StandingCases
<1>2. ASSUME NEW o \in Orders, NEW c \in Carts, Reserve(o, c)
      PROVE  CaseInv'
  <2>1. /\ lateCase' = lateCase /\ payment' = payment /\ status[o] = "none"
        /\ status' = [status EXCEPT ![o] = "reserved"]
        /\ hold' = [hold EXCEPT ![o] = "unreleased"]
    BY <1>2 DEF Reserve
  <2>2. QED
    BY <1>0, <2>1, StandingCases DEF TypeOK
<1>3. ASSUME NEW o \in Orders, NEW ref \in Refs, Confirm(o, ref)
      PROVE  CaseInv'
  <2>1. <<Mock, ref>> \in PaymentIds
    BY CheckoutAssumption DEF PaymentIds
  <2>2. QED
    BY <1>1, <1>3, <2>1 DEF Confirm, HoldStates
<1>4. ASSUME NEW o \in Orders, NEW p \in PaymentIds, ApplyPaid(o, p)
      PROVE  CaseInv'
  <2>1. status[o] = "reserved"
    BY <1>4, InTimeIsHeld DEF ApplyPaid
  <2>2. QED
    BY <1>1, <1>4, <2>1 DEF ApplyPaid, HoldStates
<1>5. ASSUME NEW o \in Orders, NEW p \in PaymentIds, ApplyPaidLate(o, p)
      PROVE  CaseInv'
  BY <1>5, LatePaymentKeepsCases
<1>6. ASSUME NEW o \in Orders, ApplyFailed(o) \/ ApplyRefunded(o)
      PROVE  CaseInv'
  <2>1. /\ lateCase' = lateCase /\ payment' = payment /\ hold' = hold
        /\ \E s \in {status[o], "failed", "refunded"} : status' = [status EXCEPT ![o] = s]
        /\ status[o] # "paid_no_stock"
    BY <1>6 DEF ApplyFailed, ApplyRefunded, Open, Terminal
  <2>2. QED
    BY <1>0, <2>1, StandingCases DEF TypeOK
<1>7. ASSUME NEW jobNow \in Recent, ReleaseExpired(jobNow)
      PROVE  CaseInv'
  <2>1. lateCase' = lateCase /\ payment' = payment
    BY <1>7 DEF ReleaseExpired
  <2>2. \A x \in OverdueOrders(jobNow) : status[x] = "reserved"
    BY DEF OverdueOrders
  <2>3. \A x \in Orders : /\ status'[x] = "paid_no_stock" <=> status[x] = "paid_no_stock"
                          /\ status[x] = "paid_no_stock" => hold'[x] = hold[x]
    BY <1>7, <2>2 DEF ReleaseExpired, ReleaseHolds, Unreleased
  <2>4. QED
    BY <1>0, <2>1, <2>3, StandingCases
<1>8. CASE Tick \/ UNCHANGED vars
  BY <1>0, <1>8, StandingCases DEF Tick, vars
<1>9. QED
  BY <1>2, <1>3, <1>4, <1>5, <1>6, <1>7, <1>8 DEF Next, ReleaseJob

(* A late payment opens one case, which says truly who returned the stock. *)
THEOREM LateCasesAreExact == Spec => []LateCaseExact
<1>1. Init => CaseInv
  BY DEF Init, CaseInv, LateCaseExact
<1>2. CaseInv => LateCaseExact
  BY DEF CaseInv
<1>3. QED
  BY <1>1, <1>2, StepKeepsCases, StockInvariant, PTL DEF Spec
=============================================================================
