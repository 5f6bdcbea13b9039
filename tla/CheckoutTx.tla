----------------------------- MODULE CheckoutTx -----------------------------
(***************************************************************************)
(* The transactions of Checkout again, row lock by row lock. A transaction *)
(* asks for its locks one at a time, waits for those that others hold,     *)
(* reads each row once it has it, and lets the others see what it wrote    *)
(* only when it commits, which also frees its locks. It may fail at any    *)
(* point and then leaves nothing behind.                                   *)
(*                                                                         *)
(* This is where Checkout's one-step transactions are justified, and where *)
(* transactions can deadlock: PostgreSQL then aborts one of them. Payments,*)
(* cases and events hang on the Order row and are left out, and with them  *)
(* waits for a unique index. Such a wait is for a transaction that is past *)
(* its locks, but for one: a payment's, for another that inserted the same *)
(* reference and goes on to lock ticket types. Who waits there holds only  *)
(* the row of its order, which among those that hold locks already only    *)
(* the job asks for: a cycle through such a wait has the job in it.        *)
(***************************************************************************)
EXTENDS Carts, Integers

CONSTANTS
  Quota,      \* TicketType.quota
  IdOf,       \* the id of each row: all that matters of ids is which is smaller
  Workers     \* transactions open at once

ASSUME TxAssumption ==
  /\ Quota \in [TicketTypes -> Nat]
  /\ TicketTypes \cap Orders = {}
  /\ IdOf \in [TicketTypes \cup Orders -> Nat]
  /\ \A k, l \in TicketTypes \cup Orders : IdOf[k] = IdOf[l] => k = l
  /\ IsFiniteSet(Workers)

VARIABLES
  remaining,  \* TicketType.remaining, as committed
  status,     \* Order.status, as committed
  claim,      \* what the order's reservations say of its units, as committed
  cart,       \* Order.items
  overdue,    \* orders whose reservedUntil has passed
  tx          \* the transaction each worker has open

vars == <<remaining, status, claim, cart, overdue, tx>>

OrderStatus == {"none", "reserved", "expired", "paid", "failed", "refunded", "paid_no_stock"}

Claims == {"free", "held", "sold", "returned"}

(* "update" is FOR UPDATE, "keyShare" the FOR KEY SHARE that an insert      *)
(* takes on the row it refers to.                                           *)
Locks == [row : TicketTypes \cup Orders, mode : {"update", "keyShare"}]

NoLock == [mode |-> "none"]

Payments == {"confirm", "paid", "failed", "refunded"}

Kinds == {"reserve", "job"} \cup Payments

Idle == [kind |-> "idle"]

(* order: the one it is at; todo: the locks it does not have yet; next: the *)
(* one of them it asks for; read: the status it found in each order;        *)
(* writes: the status it gave it; change: what it added to remaining.       *)
Transactions ==
  [kind : Kinds, order : Orders, cart : Quantities,
   next : Locks \cup {NoLock}, todo : SUBSET Locks, locks : SUBSET Locks,
   read : [Orders -> OrderStatus \cup {"unread"}],
   writes : [Orders -> OrderStatus \cup {"unwritten"}],
   change : [TicketTypes -> Int]]

TxTypeOK ==
  /\ remaining \in [TicketTypes -> Nat]
  /\ status \in [Orders -> OrderStatus]
  /\ claim \in [Orders -> Claims]
  /\ cart \in [Orders -> Quantities]
  /\ overdue \subseteq Orders
  /\ tx \in [Workers -> {Idle} \cup Transactions]

TxInit ==
  /\ remaining = Quota
  /\ status = [o \in Orders |-> "none"]
  /\ claim = [o \in Orders |-> "free"]
  /\ cart = [o \in Orders |-> NoUnits]
  /\ overdue = {}
  /\ tx = [w \in Workers |-> Idle]

-----------------------------------------------------------------------------
(* Locks. *)

Active(w) == tx[w] # Idle

Waiting(w) == Active(w) /\ tx[w].todo # {}

Conflict(k, l) == k.row = l.row /\ ~(k.mode = "keyShare" /\ l.mode = "keyShare")

WaitsFor(v, w) ==
  /\ v # w /\ Waiting(v) /\ Active(w)
  /\ \E l \in tx[w].locks : Conflict(tx[v].next, l)

(* Each of these transactions waits for another of them. *)
Deadlocked(S) == S # {} /\ \A v \in S : \E w \in S : WaitsFor(v, w)

(* Mutant of ForUpdate: a weaker lock, that others can have as well. *)
ForKeyShare(row) == [row |-> row, mode |-> "keyShare"]

ForUpdate(row) == [row |-> row, mode |-> "update"]

KeyShare(row) == [row |-> row, mode |-> "keyShare"]

TypesIn(c) == {t \in TicketTypes : c[t] > 0}

(* SELECT ... FOR UPDATE on each type of a cart. *)
TypeLocks(c) == {ForUpdate(t) : t \in TypesIn(c)}

(* What inserting the tickets takes, one by one. *)
TicketLocks(c) == {KeyShare(t) : t \in TypesIn(c)}

(* The rows of a table are locked in ascending order of their ids, and the  *)
(* types of an order before the next order; the items that tickets are      *)
(* inserted for are read in no particular order.                            *)
Before(k, l) ==
  \/ k.row \in TicketTypes /\ l.row \in Orders
  \/ /\ k.row \in TicketTypes <=> l.row \in TicketTypes
     /\ k.mode = "update" /\ l.mode = "update"
     /\ IdOf[k.row] < IdOf[l.row]

(* Mutant of Firsts: the items are not sorted. *)
Unsorted(locks) == locks

Firsts(locks) == {l \in locks : \A k \in locks : ~Before(k, l)}

(* The transaction as it asks for the first of these locks, if any are left. *)
Asking(transaction, locks) ==
  {[transaction EXCEPT !.todo = locks, !.next = l] :
     l \in IF locks = {} THEN {NoLock} ELSE Firsts(locks)}

-----------------------------------------------------------------------------
(* Transactions begin. *)

Open(kind, o, c) ==
  [kind |-> kind, order |-> o, cart |-> c, next |-> NoLock, todo |-> {}, locks |-> {},
   read |-> [p \in Orders |-> "unread"],
   writes |-> [p \in Orders |-> "unwritten"],
   change |-> NoUnits]

Proceed(w, transaction) ==
  /\ tx' = [tx EXCEPT ![w] = transaction]
  /\ UNCHANGED <<remaining, status, claim, cart, overdue>>

Begin(w, transaction, locks) ==
  /\ tx[w] = Idle
  /\ \E begun \in Asking(transaction, locks) : Proceed(w, begun)

BeginReserve(w, o, c) ==
  /\ status[o] = "none"
  /\ \A v \in Workers : Active(v) => tx[v].order # o
  /\ Begin(w, Open("reserve", o, c), TypeLocks(c))

(* Confirm and the three webhooks: the order's row first. *)
BeginPayment(w, kind, o) ==
  /\ status[o] # "none"
  /\ Begin(w, Open(kind, o, cart[o]), {ForUpdate(o)})

OverdueOrders == {o \in Orders : status[o] = "reserved" /\ o \in overdue}

(* The release job, if it gets the advisory lock and any order is overdue.  *)
BeginJob(w) ==
  /\ \A v \in Workers : Active(v) => tx[v].kind # "job"
  /\ \E o \in OverdueOrders :
       Begin(w, Open("job", o, NoUnits), {ForUpdate(p) : p \in OverdueOrders})

-----------------------------------------------------------------------------
(* A lock is granted, and the transaction goes on to the next one. *)

Rollback(w) == Proceed(w, Idle)

(* Its transaction after it got the lock it waited for. *)
Holding(w) == [tx[w] EXCEPT !.locks = @ \cup {tx[w].next}]

(* It did this, and asks for these locks and those that it had yet to get.  *)
GoOn(w, transaction, locks) ==
  \E after \in Asking(transaction, locks \cup (tx[w].todo \ {tx[w].next})) : Proceed(w, after)

AddUnits(w, t, n) == GoOn(w, [Holding(w) EXCEPT !.change[t] = @ + n], {})

(* Mutant of TakeUnits: the guard of the decrement is lost. *)
TakeAnyway(w, t) == AddUnits(w, t, -tx[w].cart[t])

(* The decrement, under its guard, or "Sin stock". *)
TakeUnits(w, t) ==
  IF tx[w].cart[t] <= remaining[t] THEN AddUnits(w, t, -tx[w].cart[t]) ELSE Rollback(w)

(* A type's row: units are taken, or returned, or referred to by a ticket. *)
GrantType(w, t) ==
  CASE tx[w].kind = "reserve" -> TakeUnits(w, t)
    [] tx[w].kind # "reserve" /\ tx[w].next.mode = "update" -> AddUnits(w, t, tx[w].cart[t])
    [] OTHER -> GoOn(w, Holding(w), {})

Reading(w, o) == [Holding(w) EXCEPT !.read[o] = status[o]]

(* It read the order, gave it a status, and has these locks to get next. *)
Settle(w, o, new, locks) ==
  GoOn(w, [Reading(w, o) EXCEPT !.order = o, !.cart = cart[o], !.writes[o] = new], locks)

Leave(w, o) == GoOn(w, Reading(w, o), {})

PaidInTime(w, o) == Settle(w, o, "paid", TicketLocks(cart[o]))

GrantToConfirm(w, o) ==
  CASE status[o] = "paid" -> Leave(w, o)
    [] status[o] = "reserved" /\ o \notin overdue -> PaidInTime(w, o)
    [] OTHER -> Rollback(w)

Terminal == {"paid", "failed", "refunded", "paid_no_stock"}

LatePayment(w, o) ==
  Settle(w, o, "paid_no_stock", IF claim[o] = "held" THEN TypeLocks(cart[o]) ELSE {})

GrantToWebhook(w, o) ==
  CASE status[o] \in Terminal -> Leave(w, o)
    [] status[o] \notin Terminal /\ tx[w].kind = "paid" ->
         IF o \in overdue THEN LatePayment(w, o) ELSE PaidInTime(w, o)
    [] status[o] = "reserved" /\ tx[w].kind = "failed" -> Settle(w, o, "failed", {})
    [] status[o] = "expired" /\ tx[w].kind = "failed" -> Leave(w, o)
    [] OTHER -> Settle(w, o, "refunded", {})

(* Mutant of GrantToJob: the order is not read again under its lock. *)
ExpireAsListed(w, o) == Settle(w, o, "expired", TypeLocks(cart[o]))

(* The job reads the order again, and returns its units type by type before *)
(* it goes on to the next order.                                            *)
GrantToJob(w, o) ==
  IF status[o] = "reserved"
  THEN Settle(w, o, "expired", TypeLocks(cart[o]))
  ELSE Leave(w, o)

GrantOrder(w, o) ==
  CASE tx[w].kind = "job" -> GrantToJob(w, o)
    [] tx[w].kind = "confirm" -> GrantToConfirm(w, o)
    [] OTHER -> GrantToWebhook(w, o)

Grant(w) ==
  /\ Waiting(w)
  /\ \A v \in Workers : ~WaitsFor(w, v)
  /\ LET row == tx[w].next.row
     IN  IF row \in TicketTypes THEN GrantType(w, row) ELSE GrantOrder(w, row)

-----------------------------------------------------------------------------
(* Transactions end. *)

ClaimAfter(o, new) ==
  CASE new = "reserved" -> "held"
    [] new = "paid" -> "sold"
    [] new \in {"expired", "paid_no_stock"} -> "returned"
    [] OTHER -> claim[o]

Writes(w) == IF tx[w].kind = "reserve"
             THEN [tx[w].writes EXCEPT ![tx[w].order] = "reserved"]
             ELSE tx[w].writes

Install(w) ==
  /\ tx' = [tx EXCEPT ![w] = Idle]
  /\ remaining' = [t \in TicketTypes |-> remaining[t] + tx[w].change[t]]
  /\ status' = [o \in Orders |-> IF Writes(w)[o] = "unwritten" THEN status[o] ELSE Writes(w)[o]]
  /\ claim' = [o \in Orders |-> ClaimAfter(o, Writes(w)[o])]
  /\ cart' = [cart EXCEPT ![tx[w].order] = IF tx[w].kind = "reserve" THEN tx[w].cart ELSE @]
  /\ UNCHANGED overdue

(* Mutant of Commit: one that found the order settled returns too soon.     *)
CommitIfWritten(w) ==
  /\ Active(w) /\ tx[w].todo = {}
  /\ \E o \in Orders : Writes(w)[o] # "unwritten"
  /\ Install(w)

Commit(w) ==
  /\ Active(w) /\ tx[w].todo = {}
  /\ Install(w)

(* The process dies, the connection is lost, or Prisma's five seconds for   *)
(* an interactive transaction are over.                                     *)
Fail(w) == Active(w) /\ Rollback(w)

(* PostgreSQL's deadlock detector aborts a transaction of the cycle. *)
BreakDeadlock ==
  \E S \in SUBSET Workers :
    /\ Deadlocked(S)
    /\ \A U \in SUBSET S : Deadlocked(U) => U = S
    /\ \E w \in S : Rollback(w)

DeadlinePasses(o) ==
  /\ status[o] # "none"
  /\ o \notin overdue
  /\ overdue' = overdue \cup {o}
  /\ UNCHANGED <<remaining, status, claim, cart, tx>>

TxNext ==
  \/ \E w \in Workers :
       \/ \E o \in Orders, c \in Carts : BeginReserve(w, o, c)
       \/ \E o \in Orders, kind \in Payments : BeginPayment(w, kind, o)
       \/ BeginJob(w)
       \/ Grant(w)
       \/ Commit(w)
       \/ Fail(w)
  \/ BreakDeadlock
  \/ \E o \in Orders : DeadlinePasses(o)

TxSpec == TxInit /\ [][TxNext]_vars

(* PostgreSQL grants a lock to those who wait for it in turn, so that none  *)
(* of them waits for ever for one that is freed again and again.            *)
TxFairSpec ==
  /\ TxSpec
  /\ WF_vars(BreakDeadlock)
  /\ \A w \in Workers : SF_vars(Grant(w)) /\ WF_vars(Commit(w))

-----------------------------------------------------------------------------
(* Properties. *)

(* What a transaction read and decided on is still so when it commits: the  *)
(* status of every order it locked, and the units it found free. This is    *)
(* what lets Checkout take each transaction for a single step.              *)
ReadingsHold ==
  \A w \in Workers : Active(w) =>
    /\ \A o \in Orders : tx[w].read[o] # "unread" => tx[w].read[o] = status[o]
    /\ \A t \in TicketTypes : remaining[t] + tx[w].change[t] >= 0

InsertsTickets(w) == \E l \in tx[w].locks \cup tx[w].todo : l.mode = "keyShare"

(* "Ordenar items por ticketTypeId para evitar deadlocks" (server.ts:762):  *)
(* it does for reserves and late payments among themselves. A deadlock      *)
(* always involves the release job, which locks the types of one order      *)
(* after those of another, or a payment that is inserting tickets.          *)
DeadlocksNeedTheJobOrTickets ==
  \A S \in SUBSET Workers :
    Deadlocked(S) => \E w \in S : tx[w].kind = "job" \/ InsertsTickets(w)

Stock == INSTANCE TicketStock WITH available <- remaining, amount <- cart

(* Statement by statement, the transactions still treat the stock as        *)
(* TicketStock prescribes: a cart is taken whole if it is there, and then   *)
(* sold for good or returned whole, once.                                   *)
TxImplementsTicketStock == Stock!Spec

Life == INSTANCE OrderSteps WITH available <- remaining, amount <- cart

(* A transaction that commits does so as if it had run at that moment, all  *)
(* at once: what it decided long before, on what it read lock by lock, is   *)
(* one of the steps that Checkout's transactions are as well.               *)
TxImplementsOrderSteps == Life!StepsSpec

(* No transaction waits for ever: if it does not get its locks it is the    *)
(* victim of a deadlock.                                                    *)
TransactionsEnd == \A w \in Workers : Active(w) ~> ~Active(w)
=============================================================================
