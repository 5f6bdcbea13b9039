------------------------------ MODULE Checkout ------------------------------
(***************************************************************************)
(* The rows a purchase touches - TicketType, Order, InventoryReservation,  *)
(* Payment, LatePaymentCase, Ticket, DomainEvent - and the transactions    *)
(* that write them: reserve, confirm, the application of a payment         *)
(* webhook, and the release of expired reservations.                       *)
(*                                                                         *)
(* A transaction is one step. Each of them locks the Order row before it   *)
(* reads it and holds the lock until it commits, and a TicketType row is   *)
(* only ever changed by an increment or a guarded decrement. A transaction *)
(* that fails rolls back and changes nothing, so only what commits is a    *)
(* step. Idempotency keys and PaymentEvent rows belong to the request that *)
(* runs the transaction, not to the purchase, and are not state here.      *)
(*                                                                         *)
(* Two facts fix the abstraction of the rows. Every write to the           *)
(* reservations of an order hits all its unreleased ones, so one hold per  *)
(* order stands for them. The limit maxPerOrder is tested for each line of *)
(* a request and a type may appear on several lines, so it bounds nothing  *)
(* about the order's total, which is what stock depends on.                *)
(***************************************************************************)
EXTENDS Carts

CONSTANTS
  Quota,           \* TicketType.quota
  Providers, Refs, \* payment providers and their payment references
  Mock,            \* the provider that /checkout/confirm pays with
  NoOrder,         \* a reference no order has
  ReservationTTL,  \* how long a reservation lasts (10 minutes in the code)
  HandlerLag,      \* bound: a handler's clock reading is at most this old
  Horizon          \* bound: the clock stops here

ASSUME CheckoutAssumption ==
  /\ Quota \in [TicketTypes -> Nat]
  /\ Mock \in Providers
  /\ NoOrder \notin Orders
  /\ ReservationTTL \in Nat /\ HandlerLag \in Nat /\ Horizon \in Nat

VARIABLES
  now,            \* the clock
  remaining,      \* TicketType.remaining
  status,         \* Order.status, "none" before the row exists
  reservedUntil,  \* Order.reservedUntil and its reservations' expiresAt
  cart,           \* Order.items
  hold,           \* the order's reservations: unreleased, or why released
  tickets,        \* tickets issued to the order, per type
  payment,        \* the order of the Payment row (provider, providerRef)
  lateCase,       \* the LatePaymentCase row (provider, providerPaymentId)
  emitted         \* types of the order's DomainEvent rows

vars == <<now, remaining, status, reservedUntil, cart, hold, tickets, payment,
          lateCase, emitted>>

OrderStatus == {"none", "reserved", "expired", "paid", "failed", "refunded", "paid_no_stock"}

(* "unreleased" is releasedAt = NULL; the others are releaseReason values,  *)
(* "unexplained" the NULL that a payment through the webhook leaves.        *)
HoldStates == {"none", "unreleased", "consumed_by_payment", "unexplained",
               "expired_ttl", "expired_payment_compensation"}

EventTypes == {"ORDER_RESERVED", "ORDER_PAID", "TICKETS_ISSUED", "ORDER_EXPIRED",
               "LATE_PAYMENT_CASE_CREATED", "PAYMENT_MARKED_NO_STOCK",
               "PAYMENT_MARKED_FAILED", "PAYMENT_MARKED_REFUNDED"}

PaymentIds == Providers \X Refs

NoCase == [order |-> NoOrder, inventoryReleased |-> FALSE]

TypeOK ==
  /\ now \in Nat
  /\ remaining \in [TicketTypes -> Nat]
  /\ status \in [Orders -> OrderStatus]
  /\ reservedUntil \in [Orders -> Nat]
  /\ cart \in [Orders -> Quantities]
  /\ hold \in [Orders -> HoldStates]
  /\ tickets \in [Orders -> Quantities]
  /\ payment \in [PaymentIds -> Orders \cup {NoOrder}]
  /\ lateCase \in [PaymentIds -> [order : Orders \cup {NoOrder}, inventoryReleased : BOOLEAN]]
  /\ emitted \in [Orders -> SUBSET EventTypes]

Init ==
  /\ now = 0
  /\ remaining = Quota
  /\ status = [o \in Orders |-> "none"]
  /\ reservedUntil = [o \in Orders |-> 0]
  /\ cart = [o \in Orders |-> NoUnits]
  /\ hold = [o \in Orders |-> "none"]
  /\ tickets = [o \in Orders |-> NoUnits]
  /\ payment = [p \in PaymentIds |-> NoOrder]
  /\ lateCase = [p \in PaymentIds |-> NoCase]
  /\ emitted = [o \in Orders |-> {}]

-----------------------------------------------------------------------------
(* Parts of the transactions. *)

(* What `new Date()` can have returned to a handler that writes now. *)
Recent == {n \in 0..now : now <= n + HandlerLag}

(* Mutant of EnoughStock: the guarded decrement loses its guard. *)
UncheckedStock(c) == TRUE

EnoughStock(c) == \A t \in TicketTypes : c[t] <= remaining[t]

Terminal == {"paid", "failed", "refunded", "paid_no_stock"}

Open(o) == status[o] # "none" /\ status[o] \notin Terminal

(* Mutants of IsLate: no deadline test, and a deadline with a grace period. *)
NeverLate(o) == FALSE
LateAfterGrace(o) == reservedUntil[o] + 1 < now

IsLate(o) == reservedUntil[o] < now

(* Mutants of OverdueOrders: the status is not read again under the lock,   *)
(* and the comparison of the deadline is swapped.                           *)
OverdueWhateverStatus(jobNow) == {o \in Orders : status[o] # "none" /\ reservedUntil[o] < jobNow}
NotYetOverdue(jobNow) == {o \in Orders : status[o] = "reserved" /\ reservedUntil[o] > jobNow}

OverdueOrders(jobNow) == {o \in Orders : status[o] = "reserved" /\ reservedUntil[o] < jobNow}

(* Mutant of Unreleased: the filter releasedAt = null is dropped. *)
AllReservations(S) == S

Unreleased(S) == {o \in S : hold[o] = "unreleased"}

RestoreStock(S) ==
  remaining' = [t \in TicketTypes |-> remaining[t] + UnitCount(cart, S, t)]

ReleaseHolds(S, reason) ==
  hold' = [o \in Orders |-> IF o \in Unreleased(S) THEN reason ELSE hold[o]]

(* The unique index admits one DomainEvent of these types per order; a     *)
(* second insert fails, and with it the transaction.                        *)
OncePerOrder == {"ORDER_PAID", "TICKETS_ISSUED", "ORDER_EXPIRED"}

Emit(o, types) ==
  /\ emitted[o] \cap types \cap OncePerOrder = {}
  /\ emitted' = [emitted EXCEPT ![o] = @ \cup types]

(* Mutant of MaterializePayment: an existing row is taken whatever its order. *)
MaterializeAnyway(o, p) == payment' = [payment EXCEPT ![p] = o]

(* materializePayment: one Payment row per reference, never of another order. *)
MaterializePayment(o, p) ==
  /\ payment[p] \in {NoOrder, o}
  /\ payment' = [payment EXCEPT ![p] = o]

(* Mutant of IssuedTickets: one ticket per order item instead of per unit. *)
OneTicketPerItem(o) == [t \in TicketTypes |-> IF cart[o][t] = 0 THEN 0 ELSE 1]

IssuedTickets(o) == IF tickets[o] = NoUnits THEN cart[o] ELSE tickets[o]

(* The writes confirm and the webhook share when a payment is in time. *)
MarkPaid(o, p, reason) ==
  /\ MaterializePayment(o, p)
  /\ status' = [status EXCEPT ![o] = "paid"]
  /\ tickets' = [tickets EXCEPT ![o] = IssuedTickets(o)]
  /\ Emit(o, {"ORDER_PAID"} \cup IF tickets[o] = NoUnits THEN {"TICKETS_ISSUED"} ELSE {})
  /\ ReleaseHolds({o}, reason)

-----------------------------------------------------------------------------
(* The transactions. *)

(* POST /checkout/reserve. The deadline is computed when the request       *)
(* arrives, before the transaction waits for the rows' locks.               *)
Reserve(o, c) ==
  /\ status[o] = "none"
  /\ EnoughStock(c)
  /\ remaining' = [t \in TicketTypes |-> remaining[t] - c[t]]
  /\ status' = [status EXCEPT ![o] = "reserved"]
  /\ \E started \in Recent :
       reservedUntil' = [reservedUntil EXCEPT ![o] = started + ReservationTTL]
  /\ cart' = [cart EXCEPT ![o] = c]
  /\ hold' = [hold EXCEPT ![o] = "unreleased"]
  /\ Emit(o, {"ORDER_RESERVED"})
  /\ UNCHANGED <<now, tickets, payment, lateCase>>

(* POST /checkout/confirm on a reserved order. On a paid one it writes no   *)
(* row of this module, in any other status it is refused.                   *)
Confirm(o, ref) ==
  /\ status[o] = "reserved"
  /\ ~IsLate(o)
  /\ payment[<<Mock, ref>>] = NoOrder
  /\ MarkPaid(o, <<Mock, ref>>, "consumed_by_payment")
  /\ UNCHANGED <<now, remaining, reservedUntil, cart, lateCase>>

(* A payment webhook of type paid that finds the reservation in time. *)
ApplyPaid(o, p) ==
  /\ Open(o)
  /\ ~IsLate(o)
  /\ MarkPaid(o, p, "unexplained")
  /\ UNCHANGED <<now, remaining, reservedUntil, cart, lateCase>>

(* Mutant of EnsureLateCase: a case only when this payment gave stock back. *)
CaseOnlyIfReleased(o, p, released) ==
  /\ lateCase' = IF released
                 THEN [lateCase EXCEPT ![p] = [order |-> o, inventoryReleased |-> TRUE]]
                 ELSE lateCase
  /\ Emit(o, {"PAYMENT_MARKED_NO_STOCK"})

(* ensureLatePaymentCase: the row and its event, unless the payment has one. *)
EnsureLateCase(o, p, released) ==
  IF lateCase[p] # NoCase
  THEN /\ UNCHANGED lateCase
       /\ Emit(o, {"PAYMENT_MARKED_NO_STOCK"})
  ELSE /\ lateCase' = [lateCase EXCEPT ![p] = [order |-> o, inventoryReleased |-> released]]
       /\ Emit(o, {"LATE_PAYMENT_CASE_CREATED", "PAYMENT_MARKED_NO_STOCK"})

(* The same webhook after the deadline: the money is recorded, what the     *)
(* order still holds goes back, and a case is opened for a person to settle. *)
ApplyPaidLate(o, p) ==
  /\ Open(o)
  /\ IsLate(o)
  /\ MaterializePayment(o, p)
  /\ RestoreStock(Unreleased({o}))
  /\ ReleaseHolds({o}, "expired_payment_compensation")
  /\ status' = [status EXCEPT ![o] = "paid_no_stock"]
  /\ EnsureLateCase(o, p, Unreleased({o}) # {})
  /\ UNCHANGED <<now, reservedUntil, cart, tickets>>

(* Mutant of ApplyFailed: the reservations are released, the stock is not restored. *)
FailAndForgetStock(o) ==
  /\ Open(o)
  /\ status' = [status EXCEPT ![o] = IF @ = "reserved" THEN "failed" ELSE @]
  /\ ReleaseHolds({o}, "expired_ttl")
  /\ Emit(o, {"PAYMENT_MARKED_FAILED"})
  /\ UNCHANGED <<now, remaining, reservedUntil, cart, tickets, payment, lateCase>>

(* A webhook of type failed: an expired order keeps its status, and the     *)
(* event row is written all the same. The reservations are not touched.     *)
ApplyFailed(o) ==
  /\ Open(o)
  /\ status' = [status EXCEPT ![o] = IF @ = "reserved" THEN "failed" ELSE @]
  /\ Emit(o, {"PAYMENT_MARKED_FAILED"})
  /\ UNCHANGED <<now, remaining, reservedUntil, cart, hold, tickets, payment, lateCase>>

(* A webhook of type refunded. The reservations are not touched. *)
ApplyRefunded(o) ==
  /\ Open(o)
  /\ status' = [status EXCEPT ![o] = "refunded"]
  /\ Emit(o, {"PAYMENT_MARKED_REFUNDED"})
  /\ UNCHANGED <<now, remaining, reservedUntil, cart, hold, tickets, payment, lateCase>>

(* releaseExpiredReservations: one transaction for every order that was    *)
(* overdue when the job read its clock and is still reserved.               *)
ReleaseExpired(jobNow) ==
  LET overdue == OverdueOrders(jobNow)
  IN  /\ overdue # {}
      /\ \A o \in overdue : "ORDER_EXPIRED" \notin emitted[o]
      /\ status' = [o \in Orders |-> IF o \in overdue THEN "expired" ELSE status[o]]
      /\ RestoreStock(Unreleased(overdue))
      /\ ReleaseHolds(overdue, "expired_ttl")
      /\ emitted' = [o \in Orders |->
                       IF o \in overdue THEN emitted[o] \cup {"ORDER_EXPIRED"} ELSE emitted[o]]
      /\ UNCHANGED <<now, reservedUntil, cart, tickets, payment, lateCase>>

Tick ==
  /\ now < Horizon
  /\ now' = now + 1
  /\ UNCHANGED <<remaining, status, reservedUntil, cart, hold, tickets, payment,
                 lateCase, emitted>>

ReleaseJob == \E jobNow \in Recent : ReleaseExpired(jobNow)

Next ==
  \/ \E o \in Orders :
       \/ \E c \in Carts : Reserve(o, c)
       \/ \E ref \in Refs : Confirm(o, ref)
       \/ \E p \in PaymentIds : ApplyPaid(o, p) \/ ApplyPaidLate(o, p)
       \/ ApplyFailed(o)
       \/ ApplyRefunded(o)
  \/ ReleaseJob
  \/ Tick

Spec == Init /\ [][Next]_vars

(* Time passes, and the release job runs again and again with the current  *)
(* time. No request has to come.                                            *)
FairSpec == Spec /\ WF_vars(Tick) /\ WF_vars(ReleaseExpired(now))
-----------------------------------------------------------------------------
(* Properties. *)

HoldingStock == {o \in Orders : hold[o] \in {"unreleased", "consumed_by_payment", "unexplained"}}

(* Every unit of the quota is either still for sale or with exactly one     *)
(* order, reserved or paid for: no rollback, expiry, late payment or job    *)
(* overlap counts a unit twice or forgets it (remaining of TicketType).     *)
StockConserved ==
  \A t \in TicketTypes : remaining[t] + UnitCount(cart, HoldingStock, t) = Quota[t]

(* The status tells where the order's units are: a reserved order still     *)
(* holds them, a paid one keeps them, an expired one has returned them and  *)
(* its deadline is over, which is what makes a late payment recognisable.   *)
HoldMatchesStatus ==
  \A o \in Orders :
    /\ status[o] = "none" => hold[o] = "none"
    /\ status[o] \in {"reserved", "failed"} => hold[o] = "unreleased"
    /\ status[o] = "expired" => hold[o] = "expired_ttl" /\ IsLate(o)
    /\ status[o] = "paid" => hold[o] \in {"consumed_by_payment", "unexplained"}
    /\ status[o] = "refunded" => hold[o] \in {"unreleased", "expired_ttl"}
    /\ status[o] = "paid_no_stock" => hold[o] \in {"expired_ttl", "expired_payment_compensation"}

(* What loadtests/verify-no-oversell.sql measures after a load: the tickets *)
(* handed out and the units reservations still hold fit the quota.          *)
NoOversell ==
  \A t \in TicketTypes :
    UnitCount(tickets, Orders, t) + UnitCount(cart, Unreleased(Orders), t) <= Quota[t]

(* loadtests/verify-ticket-issuance-consistency.sql: a paid order has one   *)
(* ticket per unit of its items, and no other order has any.                *)
TicketsExact ==
  \A o \in Orders : tickets[o] = IF status[o] = "paid" THEN cart[o] ELSE NoUnits

(* Money that reached the Payment table is accounted for: its order was     *)
(* paid or is up for late-payment review, and each such order was charged   *)
(* once, whichever of confirm and the webhooks came first.                  *)
PaymentsAccounted ==
  \A o \in Orders :
    Cardinality({p \in PaymentIds : payment[p] = o}) =
      IF status[o] \in {"paid", "paid_no_stock"} THEN 1 ELSE 0

(* A late payment opens exactly one case, with the payment's own reference, *)
(* that says truly whether this payment or the job before it gave the       *)
(* stock back; and no case is opened for anything else.                     *)
LateCaseExact ==
  /\ \A o \in Orders : status[o] = "paid_no_stock" =>
       \E p \in PaymentIds :
         /\ payment[p] = o
         /\ lateCase[p] = [order |-> o,
                           inventoryReleased |-> hold[o] = "expired_payment_compensation"]
  /\ \A p \in PaymentIds : lateCase[p] # NoCase =>
       /\ payment[p] = lateCase[p].order
       /\ status[payment[p]] = "paid_no_stock"

(* The event rows tell what happened, so an order still open has none of    *)
(* the once-only types: a second insert would abort its transaction.        *)
AuditMatchesStatus ==
  \A o \in Orders :
    /\ "ORDER_PAID" \in emitted[o] <=> status[o] = "paid"
    /\ "TICKETS_ISSUED" \in emitted[o] <=> status[o] = "paid"
    /\ "ORDER_EXPIRED" \in emitted[o] <=> hold[o] = "expired_ttl"
    /\ "PAYMENT_MARKED_NO_STOCK" \in emitted[o] <=> status[o] = "paid_no_stock"

(* An order becomes paid only while its reservation stands: never after the *)
(* deadline, and never with units that went back on sale.                   *)
PaidWhileHeld ==
  [][\A o \in Orders : status'[o] = "paid" /\ status[o] # "paid" =>
        hold[o] = "unreleased" /\ reservedUntil[o] >= now]_vars

(* How the order's rows read as a claim on the stock. *)
Claim(o) ==
  CASE hold[o] = "none" -> "free"
    [] hold[o] = "unreleased" -> "held"
    [] hold[o] \in {"consumed_by_payment", "unexplained"} -> "sold"
    [] OTHER -> "returned"

Stock == INSTANCE TicketStock WITH
  available <- remaining, amount <- cart, claim <- [o \in Orders |-> Claim(o)]

(* The transactions treat the stock as TicketStock prescribes: taken whole, *)
(* then either sold for good or returned whole, once.                       *)
ImplementsTicketStock == Stock!Spec

Life == INSTANCE OrderSteps WITH
  available <- remaining, amount <- cart, claim <- [o \in Orders |-> Claim(o)]

(* An order's status and its units change together, as OrderSteps lists,    *)
(* and what is settled stays settled, however the transactions mix.         *)
ImplementsOrderSteps == Life!StepsSpec

(* With the job running, no order stays reserved past its deadline: it is   *)
(* paid, refused or expired (docs/adr/0003-stock-reservas.md).              *)
ReservationSettles ==
  \A o \in Orders :
    (status[o] = "reserved" /\ reservedUntil[o] < Horizon) ~> (status[o] # "reserved")

(* Migration 0011: remaining = quota - active_reservations - paid_tickets,  *)
(* restored at TTL release. Stated for the moments when the job has caught  *)
(* up, with the migration's reading of an active reservation (not released, *)
(* not past its deadline), the instant of the deadline itself given to it.  *)
RemainingReconciles ==
  OverdueOrders(now) = {} =>
    \A t \in TicketTypes :
      LET active == {o \in Unreleased(Orders) : reservedUntil[o] >= now}
          paid   == {o \in Orders : status[o] = "paid"}
      IN  remaining[t] = Quota[t] - UnitCount(cart, active, t) - UnitCount(cart, paid, t)
=============================================================================
