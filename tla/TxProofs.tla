------------------------------ MODULE TxProofs ------------------------------
(***************************************************************************)
(* Theorems about CheckoutTx, for any number of orders, ticket types and   *)
(* transactions open at once.                                              *)
(***************************************************************************)
EXTENDS CheckoutTx, CartProofs

-----------------------------------------------------------------------------
(* The inductive invariant. *)

(* Where an order's units are, by the status it is in; and an order is not  *)
(* expired before its deadline.                                             *)
ClaimsMatch ==
  \A o \in Orders :
    /\ status[o] = "none" => claim[o] = "free"
    /\ status[o] = "reserved" => claim[o] = "held"
    /\ status[o] = "paid" => claim[o] = "sold"
    /\ status[o] \in {"expired", "paid_no_stock"} => claim[o] = "returned"
    /\ status[o] = "expired" => o \in overdue
    /\ status[o] \in {"failed", "refunded"} => claim[o] \in {"held", "returned"}

(* It asks for one of the first locks it does not have. *)
Queued(x) == x.next \in IF x.todo = {} THEN {NoLock} ELSE Firsts(x.todo)

(* Orders are locked for update, once, and only those that exist; by the    *)
(* job, only those that are overdue.                                        *)
LocksOrders(x) ==
  /\ \A l \in x.locks \cup x.todo : l.row \in Orders =>
       /\ status[l.row] # "none" /\ l.mode = "update"
       /\ x.kind = "job" => l.row \in overdue
  /\ \A o \in Orders : ForUpdate(o) \in x.todo => x.read[o] = "unread"

(* A reservation takes its cart type by type, for an order that is new. *)
Reserves(x) ==
  x.kind = "reserve" =>
    /\ x.cart \in Carts
    /\ status[x.order] = "none"
    /\ \A o \in Orders : x.read[o] = "unread"
    /\ x.locks \cup x.todo = TypeLocks(x.cart)
    /\ \A t \in TicketTypes : x.change[t] = IF ForUpdate(t) \in x.todo THEN 0 ELSE -x.cart[t]

(* What was read of an order is still so, for the order is locked. *)
ReadsAreLocked(x) ==
  \A o \in Orders : x.read[o] # "unread" => ForUpdate(o) \in x.locks /\ x.read[o] = status[o]

Decisions ==
  {<<"reserved", "paid">>, <<"reserved", "failed">>, <<"reserved", "expired">>}
    \cup ({"reserved", "expired"} \X {"paid_no_stock", "refunded"})

(* A status is given on the strength of the one that was read. *)
WritesFollowReads(x) ==
  \A o \in Orders : x.writes[o] # "unwritten" =>
    /\ <<x.read[o], x.writes[o]>> \in Decisions
    /\ IF x.kind = "job" THEN x.writes[o] = "expired" ELSE o = x.order /\ x.writes[o] # "expired"

(* The orders whose units it gives back. *)
Returns(x) ==
  {o \in Orders : x.writes[o] \in {"expired", "paid_no_stock"} /\ claim[o] = "held"}

(* It has given them all back, but those of the types it has yet to lock. *)
ReturnsAll(x) ==
  x.kind # "reserve" => \A t \in TicketTypes :
    /\ x.change[t] >= 0
    /\ x.change[t] + (IF ForUpdate(t) \in x.todo THEN x.cart[t] ELSE 0) =
         UnitCount(cart, Returns(x), t)

(* It only changes types it has locked, and takes no unit that is not there.*)
ChangesAreLocked(x) ==
  \A t \in TicketTypes :
    /\ x.change[t] # 0 => ForUpdate(t) \in x.locks
    /\ remaining[t] + x.change[t] >= 0

(* Orders come before ticket types, and these in the order of their ids. *)
Rank(row) == IF row \in TicketTypes THEN 1 + IdOf[row] ELSE 0

(* But for the job, a transaction has locked what comes first.              *)
InOrder(x) ==
  x.kind # "job" =>
    /\ \A l \in x.locks, p \in x.todo :
         l.mode = "update" /\ p.mode = "update" => Rank(l.row) < Rank(p.row)
    /\ \A p \in x.todo : p.row \in Orders => x.todo = {p} /\ x.locks = {}

Sound(x) ==
  /\ Queued(x) /\ LocksOrders(x) /\ Reserves(x) /\ ReadsAreLocked(x)
  /\ WritesFollowReads(x) /\ ReturnsAll(x) /\ ChangesAreLocked(x) /\ InOrder(x)

(* Two transactions have no conflicting locks, and reserve no same order.   *)
Apart(x, y) ==
  /\ \A k \in x.locks, l \in y.locks : ~Conflict(k, l)
  /\ x.kind = "reserve" /\ y.kind = "reserve" => x.order # y.order

TxInv ==
  /\ TxTypeOK
  /\ ClaimsMatch
  /\ \A w \in Workers : Active(w) => Sound(tx[w])
  /\ \A v, w \in Workers : v # w /\ Active(v) /\ Active(w) => Apart(tx[v], tx[w])

-----------------------------------------------------------------------------
(* Transactions as records. *)

LEMMA ActiveIsTransaction ==
  ASSUME TxTypeOK, NEW w \in Workers
  PROVE  Active(w) <=> tx[w] \in Transactions
<1>1. Idle \notin Transactions
  BY DEF Idle, Transactions
<1>2. QED
  BY <1>1 DEF TxTypeOK, Active

(* Asking for locks changes nothing but what it still has to lock. *)
LEMMA AskingFields ==
  ASSUME NEW y \in Transactions, NEW locks \in SUBSET Locks, NEW x \in Asking(y, locks)
  PROVE  /\ x \in Transactions /\ x.todo = locks /\ Queued(x)
         /\ x.kind = y.kind /\ x.order = y.order /\ x.cart = y.cart /\ x.locks = y.locks
         /\ x.read = y.read /\ x.writes = y.writes /\ x.change = y.change
<1>1. PICK l \in (IF locks = {} THEN {NoLock} ELSE Firsts(locks)) :
        x = [y EXCEPT !.todo = locks, !.next = l]
  BY DEF Asking
<1>2. l \in Locks \cup {NoLock}
  BY <1>1 DEF Firsts
<1>3. x \in Transactions /\ x.todo = locks /\ x.next = l
  BY <1>1, <1>2 DEF Transactions
<1>4. QED
  BY <1>1, <1>3 DEF Transactions, Queued

LEMMA ApartIsSymmetric ==
  ASSUME NEW x, NEW y, Apart(x, y)
  PROVE  Apart(y, x)
BY DEF Apart, Conflict

(* One worker's transaction moves on or ends, and nothing is committed. *)
LEMMA OneTransactionMoves ==
  ASSUME TxInv, NEW w \in Workers, NEW x \in {Idle} \cup Transactions, Proceed(w, x),
         x # Idle => Sound(x) /\ \A v \in Workers \ {w} : Active(v) => Apart(x, tx[v])
  PROVE  TxInv'
<1>1. /\ tx' \in [Workers -> {Idle} \cup Transactions]
      /\ tx'[w] = x /\ \A v \in Workers \ {w} : tx'[v] = tx[v]
  BY DEF Proceed, TxInv, TxTypeOK
<1>2. UNCHANGED <<remaining, status, claim, cart, overdue>>
  BY DEF Proceed
<1>3. TxTypeOK'
  BY <1>1, <1>2 DEF TxInv, TxTypeOK
<1>4. ClaimsMatch'
  BY <1>2 DEF TxInv, ClaimsMatch
<1>5. ASSUME NEW v \in Workers, Active(v)'
      PROVE  Sound(tx[v])'
  <2>1. Sound(tx'[v])
    BY <1>1, <1>5 DEF TxInv, Active
  <2>2. QED
    BY ONLY <2>1, <1>2
       DEF Sound, Queued, LocksOrders, Reserves, ReadsAreLocked, WritesFollowReads, Returns,
           ReturnsAll, ChangesAreLocked, InOrder
<1>6. ASSUME NEW u \in Workers, NEW v \in Workers, u # v, Active(u)', Active(v)'
      PROVE  Apart(tx[u], tx[v])'
  <2>1. Apart(tx'[u], tx'[v])
    BY <1>1, <1>6, ApartIsSymmetric DEF TxInv, Active
  <2>2. QED
    BY <2>1 DEF Apart
<1>7. QED
  BY <1>3, <1>4, <1>5, <1>6 DEF TxInv

-----------------------------------------------------------------------------
(* Transactions begin. *)

(* A transaction that has done nothing yet. *)
Fresh(x) ==
  /\ x.locks = {}
  /\ x.read = [o \in Orders |-> "unread"] /\ x.writes = [o \in Orders |-> "unwritten"]
  /\ x.change = NoUnits

LEMMA OpenIsFresh ==
  ASSUME NEW kind \in Kinds, NEW o \in Orders, NEW c \in Quantities,
         NEW locks \in SUBSET Locks, NEW x \in Asking(Open(kind, o, c), locks)
  PROVE  /\ x \in Transactions /\ Fresh(x) /\ Queued(x)
         /\ x.kind = kind /\ x.order = o /\ x.cart = c /\ x.todo = locks
<1>1. Open(kind, o, c) \in Transactions
  BY DEF Open, Transactions, NoUnits
<1>2. Open(kind, o, c).kind = kind /\ Open(kind, o, c).order = o /\ Open(kind, o, c).cart = c
  BY DEF Open
<1>3. Fresh(Open(kind, o, c))
  BY DEF Open, Fresh
<1>4. QED
  BY <1>1, <1>2, <1>3, AskingFields DEF Fresh

(* With nothing done, only what it will lock has to be right. *)
LEMMA FreshIsSound ==
  ASSUME TxInv, NEW x \in Transactions, Fresh(x), Queued(x), LocksOrders(x), Reserves(x),
         x.kind # "reserve" => \A l \in x.todo : l.row \in Orders,
         x.kind \notin {"reserve", "job"} => \E l \in Locks : x.todo = {l}
  PROVE  Sound(x)
<1>1. ReadsAreLocked(x) /\ WritesFollowReads(x)
  BY DEF Fresh, ReadsAreLocked, WritesFollowReads
<1>2. ChangesAreLocked(x)
  BY DEF Fresh, ChangesAreLocked, NoUnits, TxInv, TxTypeOK
<1>3. ReturnsAll(x)
  <2>1. Returns(x) = {}
    BY DEF Fresh, Returns
  <2>2. \A t \in TicketTypes : x.kind # "reserve" => ForUpdate(t) \notin x.todo
    BY TxAssumption DEF ForUpdate
  <2>3. \A t \in TicketTypes : UnitCount(cart, {}, t) = 0
    BY UnitsOfNone
  <2>4. QED
    BY <2>1, <2>2, <2>3 DEF ReturnsAll, Fresh, NoUnits
<1>4. InOrder(x)
  <2>1. CASE x.kind = "reserve"
    <3>1. x.todo = TypeLocks(x.cart)
      BY <2>1 DEF Reserves, Fresh
    <3>2. \A p \in x.todo : p.row \notin Orders
      BY <3>1, TxAssumption DEF TypeLocks, TypesIn, ForUpdate
    <3>3. QED
      BY <3>2 DEF InOrder, Fresh
  <2>2. CASE x.kind # "reserve"
    BY <2>2 DEF InOrder, Fresh
  <2>3. QED
    BY <2>1, <2>2
<1>5. QED
  BY <1>1, <1>2, <1>3, <1>4 DEF Sound

LEMMA TypeLocksAreLocks ==
  ASSUME NEW c \in Quantities
  PROVE  /\ TypeLocks(c) \in SUBSET Locks /\ TicketLocks(c) \in SUBSET Locks
         /\ \A l \in TypeLocks(c) : l.row \in TicketTypes /\ l.row \notin Orders
         /\ \A l \in TicketLocks(c) : l.row \in TicketTypes /\ l.row \notin Orders
                                      /\ l.mode = "keyShare"
         /\ \A t \in TicketTypes : ForUpdate(t) \in TypeLocks(c) <=> c[t] > 0
         /\ \A t \in TicketTypes : ForUpdate(t) \notin TicketLocks(c)
<1> USE DEF ForUpdate, KeyShare
<1>1. \A t \in TypesIn(c) : t \in TicketTypes /\ t \notin Orders /\ c[t] > 0
  BY TxAssumption DEF TypesIn
<1>2. \A t \in TypesIn(c) : ForUpdate(t) \in Locks /\ KeyShare(t) \in Locks
  BY <1>1 DEF Locks
<1>3. \A l \in TypeLocks(c) : \E t \in TypesIn(c) : l = ForUpdate(t) /\ l.row = t
  BY DEF TypeLocks
<1>4. \A l \in TicketLocks(c) : \E t \in TypesIn(c) : l = KeyShare(t) /\ l.row = t /\ l.mode = "keyShare"
  BY DEF TicketLocks
<1>5. \A t \in TicketTypes : ForUpdate(t) \in TypeLocks(c) <=> c[t] > 0
  <2>1. \A t \in TicketTypes : c[t] > 0 => ForUpdate(t) \in TypeLocks(c)
    BY DEF TypeLocks, TypesIn
  <2>2. \A t \in TicketTypes : ForUpdate(t) \in TypeLocks(c) => c[t] > 0
    BY <1>3 DEF TypesIn
  <2>3. QED
    BY <2>1, <2>2
<1>6. \A t \in TicketTypes : ForUpdate(t) \notin TicketLocks(c)
  BY <1>4
<1>7. TypeLocks(c) \in SUBSET Locks /\ TicketLocks(c) \in SUBSET Locks
  BY <1>2, <1>3, <1>4
<1>8. QED
  BY <1>1, <1>3, <1>4, <1>5, <1>6, <1>7

LEMMA BeginReserveKeeps ==
  ASSUME TxInv, NEW w \in Workers, NEW o \in Orders, NEW c \in Carts, BeginReserve(w, o, c)
  PROVE  TxInv'
<1>1. c \in Quantities
  BY DEF Carts
<1>2. PICK x \in Asking(Open("reserve", o, c), TypeLocks(c)) : Proceed(w, x)
  BY DEF BeginReserve, Begin
<1>3. /\ x \in Transactions /\ Fresh(x) /\ Queued(x)
      /\ x.kind = "reserve" /\ x.order = o /\ x.cart = c /\ x.todo = TypeLocks(c)
  BY <1>1, <1>2, TypeLocksAreLocks, OpenIsFresh DEF Kinds
<1>4. LocksOrders(x)
  BY <1>1, <1>3, TypeLocksAreLocks DEF LocksOrders, Fresh
<1>5. Reserves(x)
  <2>1. status[o] = "none"
    BY DEF BeginReserve
  <2>2. \A t \in TicketTypes : c[t] \in Nat
    BY <1>1, CartsAssumption DEF Quantities
  <2>3. \A t \in TicketTypes : x.change[t] = IF ForUpdate(t) \in x.todo THEN 0 ELSE -c[t]
    BY <1>1, <1>3, <2>2, TypeLocksAreLocks DEF Fresh, NoUnits
  <2>4. QED
    BY <1>3, <2>1, <2>3 DEF Reserves, Fresh
<1>6. Sound(x)
  BY <1>3, <1>4, <1>5, FreshIsSound
<1>7. \A v \in Workers : Active(v) => Apart(x, tx[v])
  BY <1>3 DEF BeginReserve, Apart, Fresh
<1>8. QED
  BY <1>2, <1>3, <1>6, <1>7, OneTransactionMoves

(* Confirm, the webhooks and the job begin with rows of Order that exist.   *)
LEMMA BeginWithOrdersKeeps ==
  ASSUME TxInv, NEW w \in Workers, NEW kind \in Kinds \ {"reserve"}, NEW o \in Orders,
         NEW c \in Quantities, NEW S \in SUBSET {p \in Orders : status[p] # "none"},
         IF kind = "job" THEN S \subseteq overdue ELSE S = {o},
         Begin(w, Open(kind, o, c), {ForUpdate(p) : p \in S})
  PROVE  TxInv'
<1> DEFINE locks == {ForUpdate(p) : p \in S}
<1>1. PICK x \in Asking(Open(kind, o, c), locks) : Proceed(w, x)
  BY DEF Begin
<1>2. locks \in SUBSET Locks /\ \A l \in locks : \E p \in S : l = ForUpdate(p) /\ l.row = p
  BY DEF ForUpdate, Locks
<1>3. kind # "job" => locks = {ForUpdate(o)} /\ ForUpdate(o) \in Locks
  BY DEF ForUpdate, Locks
<1> HIDE DEF locks
<1>4. /\ x \in Transactions /\ Fresh(x) /\ Queued(x)
      /\ x.kind = kind /\ x.order = o /\ x.cart = c /\ x.todo = locks
  BY <1>1, <1>2, OpenIsFresh
<1>5. LocksOrders(x)
  BY <1>2, <1>4 DEF LocksOrders, Fresh, ForUpdate
<1>6. Reserves(x)
  BY <1>4 DEF Reserves
<1>7. Sound(x)
  BY <1>2, <1>3, <1>4, <1>5, <1>6, FreshIsSound
<1>8. \A v \in Workers : Active(v) => Apart(x, tx[v])
  BY <1>4 DEF Apart, Fresh
<1>9. QED
  BY <1>1, <1>4, <1>7, <1>8, OneTransactionMoves

LEMMA BeginPaymentKeeps ==
  ASSUME TxInv, NEW w \in Workers, NEW kind \in Payments, NEW o \in Orders,
         BeginPayment(w, kind, o)
  PROVE  TxInv'
<1>1. kind \in Kinds \ {"reserve"} /\ kind # "job" /\ cart[o] \in Quantities
  BY DEF Kinds, Payments, TxInv, TxTypeOK
<1>2. {ForUpdate(p) : p \in {o}} = {ForUpdate(o)}
  OBVIOUS
<1>3. status[o] # "none" /\ Begin(w, Open(kind, o, cart[o]), {ForUpdate(p) : p \in {o}})
  BY <1>2, Zenon DEF BeginPayment
<1>4. {o} \in SUBSET {p \in Orders : status[p] # "none"}
  BY <1>3
<1>5. QED
  BY <1>1, <1>3, <1>4, BeginWithOrdersKeeps

LEMMA BeginJobKeeps ==
  ASSUME TxInv, NEW w \in Workers, BeginJob(w)
  PROVE  TxInv'
<1>1. OverdueOrders \in SUBSET {p \in Orders : status[p] # "none"} /\ OverdueOrders \subseteq overdue
  BY DEF OverdueOrders
<1>2. PICK o \in OverdueOrders :
        Begin(w, Open("job", o, NoUnits), {ForUpdate(p) : p \in OverdueOrders})
  BY DEF BeginJob
<1>3. o \in Orders /\ NoUnits \in Quantities /\ "job" \in Kinds \ {"reserve"}
  BY <1>1, CartsAssumption DEF NoUnits, Quantities, Kinds
<1>4. QED
  BY <1>1, <1>2, <1>3, BeginWithOrdersKeeps

-----------------------------------------------------------------------------
(* A lock is granted. *)

Granted(w) == Waiting(w) /\ \A v \in Workers : ~WaitsFor(w, v)

(* x is y as it asks for these locks. *)
Continues(x, y, locks) ==
  /\ x \in Transactions /\ x.todo = locks /\ Queued(x)
  /\ x.kind = y.kind /\ x.order = y.order /\ x.cart = y.cart /\ x.locks = y.locks
  /\ x.read = y.read /\ x.writes = y.writes /\ x.change = y.change

LEMMA WaitingFacts ==
  ASSUME TxInv, NEW w \in Workers, Waiting(w)
  PROVE  /\ tx[w] \in Transactions /\ Sound(tx[w])
         /\ tx[w].next \in tx[w].todo /\ tx[w].next \in Firsts(tx[w].todo)
         /\ tx[w].next \in Locks
<1>1. tx[w] \in Transactions /\ Sound(tx[w])
  BY ActiveIsTransaction DEF TxInv, Waiting
<1>2. tx[w].next \in Firsts(tx[w].todo)
  BY <1>1 DEF Sound, Queued, Waiting
<1>3. tx[w].todo \in SUBSET Locks
  BY <1>1 DEF Transactions
<1>4. QED
  BY <1>1, <1>2, <1>3 DEF Firsts

LEMMA HoldingFields ==
  ASSUME TxInv, NEW w \in Workers, Waiting(w)
  PROVE  /\ Holding(w) \in Transactions
         /\ Holding(w).locks = tx[w].locks \cup {tx[w].next}
         /\ Holding(w).kind = tx[w].kind /\ Holding(w).order = tx[w].order
         /\ Holding(w).cart = tx[w].cart /\ Holding(w).read = tx[w].read
         /\ Holding(w).writes = tx[w].writes /\ Holding(w).change = tx[w].change
BY WaitingFacts DEF Holding, Transactions

(* Who was granted a lock has it for itself. *)
LEMMA GrantedIsApart ==
  ASSUME TxInv, NEW w \in Workers, Granted(w), NEW x \in Transactions,
         x.locks = tx[w].locks \cup {tx[w].next}, x.kind = tx[w].kind,
         x.kind = "reserve" => x.order = tx[w].order,
         NEW v \in Workers \ {w}, Active(v)
  PROVE  Apart(x, tx[v])
<1>1. \A l \in tx[v].locks : ~Conflict(tx[w].next, l)
  BY DEF Granted, WaitsFor
<1>2. Apart(tx[w], tx[v])
  BY DEF Granted, Waiting, TxInv
<1>3. QED
  BY <1>1, <1>2 DEF Apart

LEMMA GoOnKeeps ==
  ASSUME TxInv, NEW w \in Workers, Granted(w), NEW y \in Transactions, NEW locks \in SUBSET Locks,
         y.locks = tx[w].locks \cup {tx[w].next}, y.kind = tx[w].kind,
         y.kind = "reserve" => y.order = tx[w].order,
         GoOn(w, y, locks),
         \A x : Continues(x, y, locks \cup (tx[w].todo \ {tx[w].next})) => Sound(x)
  PROVE  TxInv'
<1> DEFINE left == locks \cup (tx[w].todo \ {tx[w].next})
<1>1. PICK x \in Asking(y, left) : Proceed(w, x)
  BY DEF GoOn
<1>2. left \in SUBSET Locks
  BY WaitingFacts DEF Granted, Transactions
<1> HIDE DEF left
<1>3. Continues(x, y, left)
  BY <1>1, <1>2, AskingFields DEF Continues
<1>4. Sound(x) /\ x \in Transactions
  BY <1>3 DEF Continues, left
<1>5. \A v \in Workers \ {w} : Active(v) => Apart(x, tx[v])
  BY <1>3, <1>4, GrantedIsApart DEF Continues
<1>6. QED
  BY <1>1, <1>4, <1>5, OneTransactionMoves

(* The transaction goes on in order. *)
LEMMA StillInOrder ==
  ASSUME TxInv, NEW w \in Workers, Waiting(w), NEW x \in Transactions, NEW locks \in SUBSET Locks,
         locks # {} => tx[w].next.row \in Orders,
         \A l \in locks : l.row \in TicketTypes /\ l.row \notin Orders,
         x.kind = tx[w].kind, x.locks = tx[w].locks \cup {tx[w].next},
         x.todo = locks \cup (tx[w].todo \ {tx[w].next})
  PROVE  InOrder(x)
<1> DEFINE z == tx[w]
           next == z.next
<1>1. /\ z \in Transactions /\ next \in z.todo /\ next \in Firsts(z.todo) /\ next \in Locks
      /\ z.todo \in SUBSET Locks /\ z.locks \in SUBSET Locks /\ InOrder(z)
  BY WaitingFacts DEF Sound, Transactions
<1>2. SUFFICES ASSUME x.kind # "job"
               PROVE  /\ \A l \in x.locks, p \in x.todo :
                           l.mode = "update" /\ p.mode = "update" => Rank(l.row) < Rank(p.row)
                      /\ \A p \in x.todo : p.row \in Orders => x.todo = {p} /\ x.locks = {}
  BY DEF InOrder
<1>3. /\ \A l \in z.locks, p \in z.todo :
           l.mode = "update" /\ p.mode = "update" => Rank(l.row) < Rank(p.row)
      /\ \A p \in z.todo : p.row \in Orders => z.todo = {p} /\ z.locks = {}
  BY <1>1, <1>2 DEF InOrder
<1> HIDE DEF z, next
<1>4. ASSUME NEW p \in x.todo, p.row \in Orders
      PROVE  FALSE
  <2>1. p \in z.todo /\ p # next
    BY <1>4 DEF z, next
  <2>2. z.todo = {p}
    BY <1>3, <1>4, <2>1
  <2>3. QED
    BY <1>1, <2>1, <2>2
<1>5. ASSUME NEW l \in x.locks, NEW p \in x.todo, l.mode = "update", p.mode = "update"
      PROVE  Rank(l.row) < Rank(p.row)
  <2>1. l \in Locks /\ p \in Locks /\ (l \in z.locks \/ l = next) /\ (p \in locks \/ (p \in z.todo /\ p # next))
    BY <1>1 DEF z, next
  <2>2. p.row \in TicketTypes /\ Rank(p.row) = 1 + IdOf[p.row] /\ IdOf[p.row] \in Nat
    BY <1>4, <2>1, TxAssumption DEF Locks, Rank
  <2>3. CASE l.row \notin TicketTypes
    BY <2>2, <2>3 DEF Rank
  <2>4. CASE p \in locks
    <3>1. next.row \in Orders
      BY <2>4 DEF z, next
    <3>2. z.locks = {}
      BY <1>1, <1>3, <3>1
    <3>3. l = next /\ l.row \notin TicketTypes
      BY <2>1, <3>1, <3>2, TxAssumption
    <3>4. QED
      BY <2>3, <3>3
  <2>5. CASE l \in z.locks /\ p \in z.todo
    BY <1>3, <1>5, <2>5
  <2>6. CASE l = next /\ p \in z.todo /\ p # next /\ l.row \in TicketTypes
    <3>1. ~(IdOf[p.row] < IdOf[l.row])
      BY <1>1, <1>5, <2>2, <2>6 DEF Firsts, Before
    <3>2. p.row # l.row
      BY <1>5, <2>1, <2>6 DEF Locks
    <3>3. IdOf[p.row] # IdOf[l.row] /\ IdOf[l.row] \in Nat
      BY <2>2, <2>6, <3>2, TxAssumption
    <3>4. QED
      BY <2>2, <2>6, <3>1, <3>3 DEF Rank
  <2>7. QED
    BY <2>1, <2>3, <2>4, <2>5, <2>6
<1>6. QED
  BY <1>4, <1>5

LEMMA RollbackKeeps ==
  ASSUME TxInv, NEW w \in Workers, Rollback(w)
  PROVE  TxInv'
BY OneTransactionMoves DEF Rollback

(* With a type's row locked, a number of units is added to its change.      *)
LEMMA AddFields ==
  ASSUME TxInv, NEW w \in Workers, Waiting(w), NEW t \in TicketTypes, NEW n \in Int
  PROVE  LET y == [Holding(w) EXCEPT !.change[t] = @ + n]
         IN  /\ y \in Transactions
             /\ y.locks = tx[w].locks \cup {tx[w].next}
             /\ y.kind = tx[w].kind /\ y.order = tx[w].order /\ y.cart = tx[w].cart
             /\ y.read = tx[w].read /\ y.writes = tx[w].writes
             /\ y.change = [tx[w].change EXCEPT ![t] = @ + n]
<1>1. tx[w].change \in [TicketTypes -> Int]
  BY WaitingFacts DEF Transactions
<1>2. [tx[w].change EXCEPT ![t] = @ + n] \in [TicketTypes -> Int]
  BY <1>1
<1>3. QED
  BY <1>2, HoldingFields DEF Transactions

(* What a transaction that holds one more lock and goes on without new ones *)
(* knows of the rows of Order stays as it was.                              *)
LEMMA OrdersAsBefore ==
  ASSUME TxInv, NEW w \in Workers, Waiting(w), NEW x \in Transactions,
         x.kind = tx[w].kind, x.order = tx[w].order,
         x.locks = tx[w].locks \cup {tx[w].next}, x.todo = tx[w].todo \ {tx[w].next},
         x.read = tx[w].read, x.writes = tx[w].writes
  PROVE  LocksOrders(x) /\ ReadsAreLocked(x) /\ WritesFollowReads(x) /\ InOrder(x)
<1>1. /\ tx[w].next \in tx[w].todo
      /\ LocksOrders(tx[w]) /\ ReadsAreLocked(tx[w]) /\ WritesFollowReads(tx[w])
  BY WaitingFacts DEF Sound
<1>2. LocksOrders(x)
  BY <1>1 DEF LocksOrders
<1>3. ReadsAreLocked(x) /\ WritesFollowReads(x)
  BY <1>1 DEF ReadsAreLocked, WritesFollowReads
<1>4. InOrder(x)
  <2> DEFINE locks == {}
  <2>1. locks \in SUBSET Locks /\ x.todo = locks \cup (tx[w].todo \ {tx[w].next})
    OBVIOUS
  <2>2. locks = {}
    OBVIOUS
  <2> HIDE DEF locks
  <2>3. QED
    BY <2>1, <2>2, StillInOrder
<1>5. QED
  BY <1>2, <1>3, <1>4

(* A reservation locks only the types in its cart. *)
LEMMA ReserveAsksForTypes ==
  ASSUME TxInv, NEW w \in Workers, Waiting(w), tx[w].kind = "reserve"
  PROVE  /\ tx[w].cart \in Quantities
         /\ \A l \in tx[w].locks \cup tx[w].todo :
              l.row \in TicketTypes /\ l.row \notin Orders /\ l = ForUpdate(l.row)
<1>1. tx[w].cart \in Quantities /\ tx[w].locks \cup tx[w].todo = TypeLocks(tx[w].cart)
  BY WaitingFacts DEF Sound, Reserves, Transactions
<1>2. \A l \in TypeLocks(tx[w].cart) : l = ForUpdate(l.row)
  BY DEF TypeLocks, ForUpdate
<1>3. QED
  BY <1>1, <1>2, TypeLocksAreLocks

LEMMA TakeKeeps ==
  ASSUME TxInv, NEW w \in Workers, Granted(w), NEW t \in TicketTypes,
         tx[w].next.row = t, tx[w].kind = "reserve", TakeUnits(w, t)
  PROVE  TxInv'
<1> DEFINE z == tx[w]
           n == -z.cart[t]
           y == [Holding(w) EXCEPT !.change[t] = @ + n]
<1>1. /\ z \in Transactions /\ Waiting(w) /\ z.next \in z.todo
      /\ Sound(z) /\ z.next = ForUpdate(t) /\ z.cart \in Quantities
  BY WaitingFacts, ReserveAsksForTypes DEF Granted
<1>2. n \in Int /\ \A s \in TicketTypes : z.cart[s] \in Nat
  BY <1>1, CartsAssumption DEF Quantities
<1>3. CASE ~(z.cart[t] <= remaining[t])
  <2>1. Rollback(w)
    BY <1>3 DEF TakeUnits
  <2>2. QED
    BY <2>1, RollbackKeeps
<1>4. CASE z.cart[t] <= remaining[t]
  <2>1. GoOn(w, y, {})
    BY <1>4 DEF TakeUnits, AddUnits
  <2>2. /\ y \in Transactions
        /\ y.locks = z.locks \cup {z.next} /\ y.kind = z.kind /\ y.order = z.order
        /\ y.cart = z.cart /\ y.read = z.read /\ y.writes = z.writes
        /\ y.change = [z.change EXCEPT ![t] = @ + n]
    <3> HIDE DEF n
    <3>1. QED
      BY <1>1, <1>2, AddFields
  <2> HIDE DEF y, n
  <2>3. ASSUME NEW x, Continues(x, y, {} \cup (z.todo \ {z.next}))
        PROVE  Sound(x)
    <3>1. /\ x \in Transactions /\ x.todo = z.todo \ {z.next} /\ Queued(x)
          /\ x.kind = "reserve" /\ x.order = z.order /\ x.cart = z.cart
          /\ x.locks = z.locks \cup {z.next} /\ x.read = z.read /\ x.writes = z.writes
          /\ x.change = [z.change EXCEPT ![t] = @ + n]
      BY <2>2, <2>3 DEF Continues
    <3>2. LocksOrders(x) /\ ReadsAreLocked(x) /\ WritesFollowReads(x) /\ InOrder(x)
      BY <1>1, <3>1, OrdersAsBefore
    <3>3. Reserves(z) /\ ChangesAreLocked(z) /\ z.change \in [TicketTypes -> Int]
      BY <1>1 DEF Sound, Transactions
    <3>4. \A s \in TicketTypes : s # t => (ForUpdate(s) \in x.todo <=> ForUpdate(s) \in z.todo)
      <4>1. \A s \in TicketTypes : s # t => ForUpdate(s) # ForUpdate(t)
        BY DEF ForUpdate
      <4>2. QED
        BY <1>1, <3>1, <4>1
    <3>5. z.change[t] = 0 /\ ForUpdate(t) \notin x.todo
      BY <1>1, <3>1, <3>3 DEF Reserves
    <3>6. \A s \in TicketTypes :
            x.change[s] = IF ForUpdate(s) \in x.todo THEN 0 ELSE -x.cart[s]
      <4>1. x.change[t] = n /\ \A s \in TicketTypes : s # t => x.change[s] = z.change[s]
        BY <3>1, <3>3, <3>5, <1>2
      <4>2. x.change[t] = -x.cart[t]
        BY <3>1, <4>1 DEF n
      <4>3. \A s \in TicketTypes :
              z.change[s] = IF ForUpdate(s) \in z.todo THEN 0 ELSE -z.cart[s]
        BY <3>3 DEF Reserves
      <4>4. QED
        BY <3>1, <3>4, <3>5, <4>1, <4>2, <4>3
    <3>7. x.locks \cup x.todo = z.locks \cup z.todo
      BY <1>1, <3>1
    <3>8. Reserves(x)
      BY <3>1, <3>3, <3>6, <3>7 DEF Reserves
    <3>9. ChangesAreLocked(x)
      <4>1. remaining[t] \in Nat /\ remaining[t] + x.change[t] >= 0 /\ ForUpdate(t) \in x.locks
        BY <1>1, <1>2, <1>4, <3>1, <3>3, <3>5 DEF n, TxInv, TxTypeOK
      <4>2. QED
        BY <3>1, <3>3, <4>1 DEF ChangesAreLocked
    <3>10. ReturnsAll(x)
      BY <3>1 DEF ReturnsAll
    <3>11. QED
      BY <3>1, <3>2, <3>8, <3>9, <3>10 DEF Sound
  <2>4. QED
    BY <1>1, <2>1, <2>2, <2>3, GoOnKeeps
<1>5. QED
  BY <1>3, <1>4

(* A type's row is locked to give units back to it. *)
LEMMA GiveBackKeeps ==
  ASSUME TxInv, NEW w \in Workers, Granted(w), NEW t \in TicketTypes,
         tx[w].next.row = t, tx[w].next.mode = "update", tx[w].kind # "reserve",
         AddUnits(w, t, tx[w].cart[t])
  PROVE  TxInv'
<1> DEFINE z == tx[w]
           n == z.cart[t]
           y == [Holding(w) EXCEPT !.change[t] = @ + n]
<1>1. z \in Transactions /\ Waiting(w) /\ z.next \in z.todo /\ Sound(z) /\ z.next \in Locks
  BY WaitingFacts DEF Granted
<1>2. z.next = ForUpdate(t)
  BY <1>1 DEF Locks, ForUpdate
<1>3. z.cart \in Quantities
  BY <1>1 DEF Transactions
<1>4. n \in Nat
  BY <1>3, CartsAssumption DEF Quantities
<1>5. GoOn(w, y, {})
  BY DEF AddUnits
<1> HIDE DEF n
<1>6. /\ y \in Transactions
      /\ y.locks = z.locks \cup {z.next} /\ y.kind = z.kind /\ y.order = z.order
      /\ y.cart = z.cart /\ y.read = z.read /\ y.writes = z.writes
      /\ y.change = [z.change EXCEPT ![t] = @ + n]
  BY <1>1, <1>4, AddFields
<1> HIDE DEF y
<1>7. ASSUME NEW x, Continues(x, y, {} \cup (z.todo \ {z.next}))
      PROVE  Sound(x)
  <2>1. /\ x \in Transactions /\ x.todo = z.todo \ {z.next} /\ Queued(x)
        /\ x.kind = z.kind /\ x.order = z.order /\ x.cart = z.cart
        /\ x.locks = z.locks \cup {z.next} /\ x.read = z.read /\ x.writes = z.writes
        /\ x.change = [z.change EXCEPT ![t] = @ + n]
    BY <1>6, <1>7 DEF Continues
  <2>2. LocksOrders(x) /\ ReadsAreLocked(x) /\ WritesFollowReads(x) /\ InOrder(x)
    BY <1>1, <2>1, OrdersAsBefore
  <2>3. Reserves(x)
    BY <2>1 DEF Reserves
  <2>4. ReturnsAll(z) /\ ChangesAreLocked(z) /\ z.change \in [TicketTypes -> Int]
    BY <1>1 DEF Sound, Transactions
  <2>5. \A s \in TicketTypes : s # t => (ForUpdate(s) \in x.todo <=> ForUpdate(s) \in z.todo)
    <3>1. \A s \in TicketTypes : s # t => ForUpdate(s) # ForUpdate(t)
      BY DEF ForUpdate
    <3>2. QED
      BY <1>2, <2>1, <3>1
  <2>6. ForUpdate(t) \in z.todo /\ ForUpdate(t) \notin x.todo
    BY <1>1, <1>2, <2>1
  <2>7. x.change[t] = z.change[t] + n /\ \A s \in TicketTypes : s # t => x.change[s] = z.change[s]
    BY <2>1, <2>4
  <2>8. Returns(x) = Returns(z)
    BY <2>1 DEF Returns
  <2>9. ReturnsAll(x)
    <3>1. \A s \in TicketTypes :
            /\ z.change[s] \in Int /\ z.change[s] >= 0
            /\ z.change[s] + (IF ForUpdate(s) \in z.todo THEN z.cart[s] ELSE 0) =
                 UnitCount(cart, Returns(z), s)
      BY <2>4 DEF ReturnsAll
    <3>2. /\ x.change[t] >= 0
          /\ x.change[t] + (IF ForUpdate(t) \in x.todo THEN x.cart[t] ELSE 0) =
               UnitCount(cart, Returns(x), t)
      <4>1. z.change[t] \in Int /\ z.change[t] >= 0 /\ z.change[t] + n = UnitCount(cart, Returns(z), t)
        BY <2>6, <3>1 DEF n
      <4>2. x.change[t] \in Int /\ x.change[t] >= 0 /\ x.change[t] + 0 = UnitCount(cart, Returns(x), t)
        BY <1>4, <2>7, <2>8, <4>1
      <4>3. QED
        BY <2>6, <4>2
    <3>3. ASSUME NEW s \in TicketTypes, s # t
          PROVE  /\ x.change[s] >= 0
                 /\ x.change[s] + (IF ForUpdate(s) \in x.todo THEN x.cart[s] ELSE 0) =
                      UnitCount(cart, Returns(x), s)
      BY <2>1, <2>5, <2>7, <2>8, <3>1, <3>3
    <3>4. QED
      BY <3>2, <3>3 DEF ReturnsAll
  <2>10. ChangesAreLocked(x)
    <3>1. \A s \in TicketTypes : remaining[s] \in Nat /\ x.change[s] \in Int /\ x.change[s] >= 0
      BY <2>1, <2>9 DEF ReturnsAll, Transactions, TxInv, TxTypeOK
    <3>2. \A s \in TicketTypes : x.change[s] # 0 => ForUpdate(s) \in x.locks
      BY <1>2, <2>1, <2>4, <2>7 DEF ChangesAreLocked
    <3>3. QED
      BY <3>1, <3>2 DEF ChangesAreLocked
  <2>11. QED
    BY <2>1, <2>2, <2>3, <2>9, <2>10 DEF Sound
<1>8. QED
  BY <1>1, <1>5, <1>6, <1>7, GoOnKeeps

(* What it knows of ticket types stays as it was, if the lock it got was    *)
(* not one to change a type.                                                *)
LEMMA TypesAsBefore ==
  ASSUME TxInv, NEW w \in Workers, Waiting(w), NEW x \in Transactions,
         \A t \in TicketTypes : tx[w].next # ForUpdate(t),
         x.kind = tx[w].kind, x.kind # "reserve", x.cart = tx[w].cart,
         x.locks = tx[w].locks \cup {tx[w].next}, x.todo = tx[w].todo \ {tx[w].next},
         x.writes = tx[w].writes, x.change = tx[w].change
  PROVE  Reserves(x) /\ ReturnsAll(x) /\ ChangesAreLocked(x)
<1>1. ReturnsAll(tx[w]) /\ ChangesAreLocked(tx[w])
  BY WaitingFacts DEF Sound
<1>2. \A t \in TicketTypes : ForUpdate(t) \in x.todo <=> ForUpdate(t) \in tx[w].todo
  OBVIOUS
<1>3. Returns(x) = Returns(tx[w])
  BY DEF Returns
<1>4. ReturnsAll(x)
  BY <1>1, <1>2, <1>3 DEF ReturnsAll
<1>5. ChangesAreLocked(x)
  BY <1>1 DEF ChangesAreLocked
<1>6. QED
  BY <1>4, <1>5 DEF Reserves

(* Inserting a ticket refers to its type's row. *)
LEMMA InsertKeeps ==
  ASSUME TxInv, NEW w \in Workers, Granted(w),
         tx[w].next.mode # "update", tx[w].kind # "reserve", GoOn(w, Holding(w), {})
  PROVE  TxInv'
<1> DEFINE z == tx[w]
           y == Holding(w)
<1>1. Waiting(w) /\ \A t \in TicketTypes : z.next # ForUpdate(t)
  BY DEF Granted, ForUpdate
<1>2. /\ y \in Transactions /\ y.locks = z.locks \cup {z.next} /\ y.kind = z.kind
      /\ y.order = z.order /\ y.cart = z.cart /\ y.read = z.read
      /\ y.writes = z.writes /\ y.change = z.change
  BY <1>1, HoldingFields
<1> HIDE DEF y
<1>3. ASSUME NEW x, Continues(x, y, {} \cup (z.todo \ {z.next}))
      PROVE  Sound(x)
  <2>1. /\ x \in Transactions /\ x.todo = z.todo \ {z.next} /\ Queued(x)
        /\ x.kind = z.kind /\ x.order = z.order /\ x.cart = z.cart
        /\ x.locks = z.locks \cup {z.next} /\ x.read = z.read /\ x.writes = z.writes
        /\ x.change = z.change
    BY <1>2, <1>3 DEF Continues
  <2>2. LocksOrders(x) /\ ReadsAreLocked(x) /\ WritesFollowReads(x) /\ InOrder(x)
    BY <1>1, <2>1, OrdersAsBefore
  <2>3. Reserves(x) /\ ReturnsAll(x) /\ ChangesAreLocked(x)
    BY <1>1, <2>1, TypesAsBefore
  <2>4. QED
    BY <2>1, <2>2, <2>3 DEF Sound
<1>4. QED
  BY <1>2, <1>3, GoOnKeeps DEF y

(* An order's row is locked: nothing was read of it or decided on it, and   *)
(* no type is left to lock.                                                 *)
LEMMA OrderGranted ==
  ASSUME TxInv, NEW w \in Workers, Granted(w), NEW o \in Orders, tx[w].next.row = o
  PROVE  /\ tx[w].next = ForUpdate(o) /\ o \notin TicketTypes
         /\ tx[w].kind # "reserve" /\ status[o] # "none"
         /\ tx[w].read[o] = "unread" /\ tx[w].writes[o] = "unwritten"
         /\ \A l \in tx[w].todo : l.row \notin TicketTypes
         /\ tx[w].kind # "job" => \A p \in Orders : tx[w].writes[p] = "unwritten"
<1> DEFINE z == tx[w]
<1>1. z \in Transactions /\ Sound(z) /\ z.next \in z.todo /\ z.next \in Locks
      /\ z.next \in Firsts(z.todo) /\ Waiting(w)
  BY WaitingFacts DEF Granted
<1>2. o \notin TicketTypes
  BY TxAssumption
<1>3. status[o] # "none" /\ z.next.mode = "update"
  BY <1>1 DEF Sound, LocksOrders
<1>4. z.next = ForUpdate(o)
  BY <1>1, <1>3 DEF Locks, ForUpdate
<1>5. z.kind # "reserve"
  BY <1>1, <1>2, ReserveAsksForTypes
<1>6. z.read[o] = "unread"
  BY <1>1, <1>4 DEF Sound, LocksOrders
<1>7. \A p \in Orders : z.writes[p] # "unwritten" => z.read[p] # "unread" /\ ForUpdate(p) \in z.locks
  BY <1>1 DEF Sound, WritesFollowReads, ReadsAreLocked, Decisions
<1>8. z.writes[o] = "unwritten"
  BY <1>6, <1>7
<1>9. \A l \in z.todo : l.row \notin TicketTypes
  BY <1>1 DEF Firsts, Before
<1>10. z.kind # "job" => \A p \in Orders : z.writes[p] = "unwritten"
  <2>1. z.kind # "job" => z.locks = {}
    BY <1>1 DEF Sound, InOrder
  <2>2. QED
    BY <1>7, <2>1
<1>11. QED
  BY <1>2, <1>3, <1>4, <1>5, <1>6, <1>8, <1>9, <1>10

LEMMA ReadingFields ==
  ASSUME TxInv, NEW w \in Workers, Waiting(w), NEW o \in Orders
  PROVE  /\ Reading(w, o) \in Transactions
         /\ Reading(w, o).locks = tx[w].locks \cup {tx[w].next}
         /\ Reading(w, o).kind = tx[w].kind /\ Reading(w, o).order = tx[w].order
         /\ Reading(w, o).cart = tx[w].cart /\ Reading(w, o).writes = tx[w].writes
         /\ Reading(w, o).change = tx[w].change
         /\ Reading(w, o).read = [tx[w].read EXCEPT ![o] = status[o]]
<1>1. status[o] \in OrderStatus
  BY DEF TxInv, TxTypeOK
<1>2. tx[w].read \in [Orders -> OrderStatus \cup {"unread"}]
  BY WaitingFacts DEF Transactions
<1>3. [tx[w].read EXCEPT ![o] = status[o]] \in [Orders -> OrderStatus \cup {"unread"}]
  BY <1>1, <1>2
<1>4. QED
  BY <1>3, HoldingFields DEF Reading, Transactions

(* It has read an order under its lock. *)
LEMMA ReadingIsTrue ==
  ASSUME TxInv, NEW w \in Workers, Granted(w), NEW o \in Orders, tx[w].next.row = o,
         NEW x \in Transactions, NEW locks \in SUBSET Locks,
         \A l \in locks : l.row \in TicketTypes /\ l.row \notin Orders,
         x.kind = tx[w].kind, x.locks = tx[w].locks \cup {tx[w].next},
         x.todo = locks \cup (tx[w].todo \ {tx[w].next}),
         x.read = [tx[w].read EXCEPT ![o] = status[o]]
  PROVE  LocksOrders(x) /\ ReadsAreLocked(x) /\ InOrder(x)
<1>1. /\ tx[w] \in Transactions /\ Waiting(w) /\ tx[w].next \in tx[w].todo
      /\ LocksOrders(tx[w]) /\ ReadsAreLocked(tx[w])
  BY WaitingFacts DEF Sound, Granted
<1>2. tx[w].next = ForUpdate(o) /\ \A p \in Orders : p # o => ForUpdate(p) # ForUpdate(o)
  BY OrderGranted DEF ForUpdate
<1>3. x.read[o] = status[o] /\ \A p \in Orders : p # o => x.read[p] = tx[w].read[p]
  BY <1>1 DEF Transactions
<1>4. LocksOrders(x)
  <2>1. \A l \in x.locks \cup x.todo : l.row \in Orders => l \in tx[w].locks \cup tx[w].todo
    BY <1>1
  <2>2. \A p \in Orders : ForUpdate(p) \in x.todo => p # o /\ ForUpdate(p) \in tx[w].todo
    <3>1. \A p \in Orders : ForUpdate(p) \notin locks
      BY DEF ForUpdate
    <3>2. QED
      BY <1>2, <3>1
  <2>3. QED
    BY <1>1, <1>3, <2>1, <2>2 DEF LocksOrders
<1>5. ReadsAreLocked(x)
  BY <1>1, <1>2, <1>3 DEF ReadsAreLocked
<1>6. InOrder(x)
  BY <1>1, StillInOrder
<1>7. QED
  BY <1>4, <1>5, <1>6

(* It finds nothing to do with the order. *)
LEMMA LeaveKeeps ==
  ASSUME TxInv, NEW w \in Workers, Granted(w), NEW o \in Orders, tx[w].next.row = o,
         Leave(w, o)
  PROVE  TxInv'
<1> DEFINE z == tx[w]
           y == Reading(w, o)
<1>1. z \in Transactions /\ Waiting(w) /\ Sound(z)
  BY WaitingFacts DEF Granted
<1>2. /\ y \in Transactions /\ y.locks = z.locks \cup {z.next} /\ y.kind = z.kind
      /\ y.order = z.order /\ y.cart = z.cart /\ y.writes = z.writes /\ y.change = z.change
      /\ y.read = [z.read EXCEPT ![o] = status[o]]
  BY <1>1, ReadingFields
<1>3. GoOn(w, y, {})
  BY DEF Leave
<1> HIDE DEF y
<1>4. ASSUME NEW x, Continues(x, y, {} \cup (z.todo \ {z.next}))
      PROVE  Sound(x)
  <2>1. /\ x \in Transactions /\ x.todo = {} \cup (z.todo \ {z.next}) /\ Queued(x)
        /\ x.kind = z.kind /\ x.order = z.order /\ x.cart = z.cart
        /\ x.locks = z.locks \cup {z.next} /\ x.writes = z.writes /\ x.change = z.change
        /\ x.read = [z.read EXCEPT ![o] = status[o]]
    BY <1>2, <1>4 DEF Continues
  <2>2. LocksOrders(x) /\ ReadsAreLocked(x) /\ InOrder(x)
    <3> DEFINE locks == {}
    <3>1. locks \in SUBSET Locks /\ \A l \in locks : l.row \in TicketTypes /\ l.row \notin Orders
      OBVIOUS
    <3>2. x.todo = locks \cup (z.todo \ {z.next})
      BY <2>1
    <3> HIDE DEF locks
    <3>3. QED
      BY <2>1, <3>1, <3>2, ReadingIsTrue
  <2>3. \A t \in TicketTypes : z.next # ForUpdate(t)
    <3>1. o \notin TicketTypes
      BY TxAssumption
    <3>2. QED
      BY <3>1 DEF ForUpdate
  <2>4. x.kind # "reserve"
    BY <2>1, OrderGranted
  <2>5. Reserves(x) /\ ReturnsAll(x) /\ ChangesAreLocked(x)
    BY <1>1, <2>1, <2>3, <2>4, TypesAsBefore
  <2>6. WritesFollowReads(x)
    <3>1. z.writes[o] = "unwritten" /\ WritesFollowReads(z)
      BY <1>1, OrderGranted DEF Sound
    <3>2. \A p \in Orders : p # o => x.read[p] = z.read[p]
      BY <1>1, <2>1 DEF Transactions
    <3>3. QED
      BY <2>1, <3>1, <3>2 DEF WritesFollowReads
  <2>7. QED
    BY <2>1, <2>2, <2>5, <2>6 DEF Sound
<1>5. QED
  BY <1>2, <1>3, <1>4, GoOnKeeps

(* It decides on the order; if it gives units back, the types are next.     *)
LEMMA SettleKeeps ==
  ASSUME TxInv, NEW w \in Workers, Granted(w), NEW o \in Orders, tx[w].next.row = o,
         NEW new \in OrderStatus, NEW locks,
         <<status[o], new>> \in Decisions, tx[w].kind = "job" <=> new = "expired",
         IF new \in {"expired", "paid_no_stock"} /\ claim[o] = "held"
         THEN locks = TypeLocks(cart[o]) ELSE locks \in {{}, TicketLocks(cart[o])},
         Settle(w, o, new, locks)
  PROVE  TxInv'
<1> DEFINE z == tx[w]
           reading == Reading(w, o)
           y == [reading EXCEPT !.order = o, !.cart = cart[o], !.writes[o] = new]
           giving == new \in {"expired", "paid_no_stock"} /\ claim[o] = "held"
<1>1. z \in Transactions /\ Waiting(w) /\ Sound(z)
  BY WaitingFacts DEF Granted
<1>2. cart \in [Orders -> Quantities] /\ cart[o] \in Quantities
  BY DEF TxInv, TxTypeOK
<1>3. /\ locks \in SUBSET Locks
      /\ \A l \in locks : l.row \in TicketTypes /\ l.row \notin Orders
      /\ \A t \in TicketTypes : ForUpdate(t) \in locks <=> giving /\ cart[o][t] > 0
  BY <1>2, TypeLocksAreLocks
<1>4. /\ y \in Transactions /\ y.locks = z.locks \cup {z.next} /\ y.kind = z.kind
      /\ y.order = o /\ y.cart = cart[o] /\ y.change = z.change
      /\ y.writes = [z.writes EXCEPT ![o] = new]
      /\ y.read = [z.read EXCEPT ![o] = status[o]]
  <2>1. /\ reading \in Transactions /\ reading.locks = z.locks \cup {z.next}
        /\ reading.kind = z.kind /\ reading.writes = z.writes /\ reading.change = z.change
        /\ reading.read = [z.read EXCEPT ![o] = status[o]]
    BY <1>1, ReadingFields
  <2> HIDE DEF reading
  <2>2. reading.writes \in [Orders -> OrderStatus \cup {"unwritten"}]
    BY <2>1 DEF Transactions
  <2>3. [reading.writes EXCEPT ![o] = new] \in [Orders -> OrderStatus \cup {"unwritten"}]
    BY <2>2
  <2>4. QED
    BY <1>2, <2>1, <2>3 DEF Transactions
<1>5. GoOn(w, y, locks)
  BY DEF Settle
<1>6. /\ z.kind # "reserve" /\ z.writes[o] = "unwritten"
      /\ \A l \in z.todo : l.row \notin TicketTypes
      /\ z.kind # "job" => \A p \in Orders : z.writes[p] = "unwritten"
  BY OrderGranted
<1> HIDE DEF y, giving
<1>7. ASSUME NEW x, Continues(x, y, locks \cup (z.todo \ {z.next}))
      PROVE  Sound(x)
  <2>1. /\ x \in Transactions /\ x.todo = locks \cup (z.todo \ {z.next}) /\ Queued(x)
        /\ x.kind = z.kind /\ x.order = o /\ x.cart = cart[o]
        /\ x.locks = z.locks \cup {z.next} /\ x.change = z.change
        /\ x.writes = [z.writes EXCEPT ![o] = new]
        /\ x.read = [z.read EXCEPT ![o] = status[o]]
    BY <1>4, <1>7 DEF Continues
  <2>2. LocksOrders(x) /\ ReadsAreLocked(x) /\ InOrder(x)
    BY <1>3, <2>1, ReadingIsTrue
  <2>3. Reserves(x)
    BY <1>6, <2>1 DEF Reserves
  <2>4. /\ x.read[o] = status[o] /\ x.writes[o] = new
        /\ \A p \in Orders : p # o => x.read[p] = z.read[p] /\ x.writes[p] = z.writes[p]
    BY <1>1, <2>1 DEF Transactions
  <2>5. WritesFollowReads(x)
    BY <1>1, <1>6, <2>1, <2>4 DEF Sound, WritesFollowReads
  <2>6. ReturnsAll(z) /\ ChangesAreLocked(z) /\ z.change \in [TicketTypes -> Int]
    BY <1>1 DEF Sound, Transactions
  <2>7. ChangesAreLocked(x)
    BY <2>1, <2>6 DEF ChangesAreLocked
  <2>8. \A t \in TicketTypes :
          /\ ForUpdate(t) \notin z.todo
          /\ ForUpdate(t) \in x.todo <=> giving /\ cart[o][t] > 0
    <3>1. \A t \in TicketTypes : ForUpdate(t) \notin z.todo
      BY <1>6 DEF ForUpdate
    <3>2. QED
      BY <1>3, <2>1, <3>1
  <2>9. Returns(x) = Returns(z) \cup (IF giving THEN {o} ELSE {})
    BY <1>6, <2>4 DEF Returns, giving
  <2>10. ReturnsAll(x)
    <3> SUFFICES ASSUME NEW t \in TicketTypes
                 PROVE  /\ x.change[t] >= 0
                        /\ x.change[t] + (IF ForUpdate(t) \in x.todo THEN x.cart[t] ELSE 0) =
                             UnitCount(cart, Returns(x), t)
      BY DEF ReturnsAll
    <3>1. /\ z.change[t] \in Int /\ z.change[t] >= 0
          /\ z.change[t] + 0 = UnitCount(cart, Returns(z), t)
      BY <1>6, <2>6, <2>8 DEF ReturnsAll
    <3>2. z.change[t] = UnitCount(cart, Returns(z), t) /\ x.change[t] = z.change[t]
      BY <2>1, <3>1
    <3>3. CASE ~giving
      BY <2>8, <2>9, <3>1, <3>2, <3>3
    <3>4. CASE giving
      <4>1. o \in Orders /\ cart[o][t] \in 0..MaxQty /\ cart[o][t] \in Nat
        BY <1>2, CartsAssumption DEF Quantities
      <4>2. o \notin Returns(z)
        BY <1>6 DEF Returns
      <4>3. UnitCount(cart, Returns(z) \cup {o}, t) =
              UnitCount(cart, Returns(z), t) + UnitCount(cart, {o}, t)
        BY <4>2, UnitsOfUnion
      <4>4. UnitCount(cart, {o}, t) = cart[o][t]
        BY ONLY <4>1, UnitsOfOne
      <4>5. (IF ForUpdate(t) \in x.todo THEN x.cart[t] ELSE 0) = cart[o][t]
        BY <2>1, <2>8, <3>4, <4>1
      <4>6. QED
        BY <2>9, <3>1, <3>2, <3>4, <4>1, <4>3, <4>4, <4>5
    <3>5. QED
      BY <3>3, <3>4
  <2>11. QED
    BY <2>1, <2>2, <2>3, <2>5, <2>7, <2>10 DEF Sound
<1>8. z.kind # "reserve"
  BY <1>6
<1>9. QED
  BY <1>3, <1>4, <1>5, <1>7, <1>8, GoOnKeeps

LEMMA GrantToJobKeeps ==
  ASSUME TxInv, NEW w \in Workers, Granted(w), NEW o \in Orders, tx[w].next.row = o,
         tx[w].kind = "job",
         GrantToJob(w, o)
  PROVE  TxInv'
<1>1. CASE status[o] = "reserved"
  <2>1. Settle(w, o, "expired", TypeLocks(cart[o]))
    BY <1>1 DEF GrantToJob
  <2>2. claim[o] = "held" /\ <<status[o], "expired">> \in Decisions
    BY <1>1 DEF TxInv, ClaimsMatch, Decisions
  <2>3. "expired" \in OrderStatus
    BY DEF OrderStatus
  <2>4. QED
    BY <2>1, <2>2, <2>3, SettleKeeps
<1>2. CASE status[o] # "reserved"
  BY <1>2, LeaveKeeps DEF GrantToJob
<1>3. QED
  BY <1>1, <1>2

(* The confirm and the webhook that comes in time mark the order paid.      *)
LEMMA PaidInTimeKeeps ==
  ASSUME TxInv, NEW w \in Workers, Granted(w), NEW o \in Orders, tx[w].next.row = o,
         tx[w].kind # "job", status[o] = "reserved", PaidInTime(w, o)
  PROVE  TxInv'
<1>1. <<status[o], "paid">> \in Decisions /\ "paid" \in OrderStatus
  BY DEF Decisions, OrderStatus
<1>2. Settle(w, o, "paid", TicketLocks(cart[o]))
  BY DEF PaidInTime
<1>3. QED
  BY <1>1, <1>2, SettleKeeps

LEMMA GrantToConfirmKeeps ==
  ASSUME TxInv, NEW w \in Workers, Granted(w), NEW o \in Orders, tx[w].next.row = o,
         tx[w].kind # "job", GrantToConfirm(w, o)
  PROVE  TxInv'
<1>1. CASE status[o] = "paid"
  BY <1>1, LeaveKeeps DEF GrantToConfirm
<1>2. CASE status[o] = "reserved" /\ o \notin overdue
  BY <1>2, PaidInTimeKeeps DEF GrantToConfirm
<1>3. CASE status[o] # "paid" /\ ~(status[o] = "reserved" /\ o \notin overdue)
  BY <1>3, RollbackKeeps DEF GrantToConfirm
<1>4. QED
  BY <1>1, <1>2, <1>3

LEMMA GrantToWebhookKeeps ==
  ASSUME TxInv, NEW w \in Workers, Granted(w), NEW o \in Orders, tx[w].next.row = o,
         tx[w].kind # "job", GrantToWebhook(w, o)
  PROVE  TxInv'
<1>1. status[o] # "none" /\ status[o] \in OrderStatus
  BY OrderGranted DEF TxInv, TxTypeOK
<1>2. CASE status[o] \in Terminal
  <2>1. Leave(w, o)
    BY <1>2 DEF GrantToWebhook, Terminal
  <2>2. QED
    BY <2>1, LeaveKeeps
<1>3. CASE status[o] \notin Terminal
  <2>1. status[o] \in {"reserved", "expired"} /\ (status[o] = "expired" => o \in overdue)
    BY <1>1, <1>3 DEF OrderStatus, Terminal, TxInv, ClaimsMatch
  <2>2. /\ <<status[o], "paid_no_stock">> \in Decisions /\ <<status[o], "refunded">> \in Decisions
        /\ {"paid_no_stock", "refunded", "failed"} \subseteq OrderStatus
        /\ status[o] = "reserved" => <<status[o], "failed">> \in Decisions
    BY <2>1 DEF Decisions, OrderStatus
  <2>3. CASE tx[w].kind = "paid" /\ o \in overdue
    <3>1. LatePayment(w, o)
      BY <1>3, <2>3 DEF GrantToWebhook
    <3>2. CASE claim[o] = "held"
      <4>1. Settle(w, o, "paid_no_stock", TypeLocks(cart[o]))
        BY <3>1, <3>2 DEF LatePayment
      <4>2. QED
        BY <2>2, <3>2, <4>1, SettleKeeps
    <3>3. CASE claim[o] # "held"
      <4>1. Settle(w, o, "paid_no_stock", {})
        BY <3>1, <3>3 DEF LatePayment
      <4>2. QED
        BY <2>2, <3>3, <4>1, SettleKeeps
    <3>4. QED
      BY <3>2, <3>3
  <2>4. CASE tx[w].kind = "paid" /\ o \notin overdue
    <3>1. PaidInTime(w, o)
      BY <1>3, <2>4 DEF GrantToWebhook
    <3>2. QED
      BY <2>1, <2>4, <3>1, PaidInTimeKeeps
  <2>5. CASE tx[w].kind # "paid" /\ status[o] = "reserved" /\ tx[w].kind = "failed"
    <3>1. Settle(w, o, "failed", {})
      BY <1>3, <2>5 DEF GrantToWebhook
    <3>2. QED
      BY <2>2, <2>5, <3>1, SettleKeeps
  <2>6. CASE tx[w].kind # "paid" /\ status[o] = "expired" /\ tx[w].kind = "failed"
    <3>1. Leave(w, o)
      BY <1>3, <2>6 DEF GrantToWebhook
    <3>2. QED
      BY <3>1, LeaveKeeps
  <2>7. CASE tx[w].kind # "paid" /\ tx[w].kind # "failed"
    <3>1. Settle(w, o, "refunded", {})
      BY <1>3, <2>7 DEF GrantToWebhook
    <3>2. QED
      BY <2>2, <3>1, SettleKeeps
  <2>8. QED
    BY <2>1, <2>3, <2>4, <2>5, <2>6, <2>7
<1>4. QED
  BY <1>2, <1>3

LEMMA GrantKeeps ==
  ASSUME TxInv, NEW w \in Workers, Grant(w)
  PROVE  TxInv'
<1> DEFINE row == tx[w].next.row
<1>1. Granted(w) /\ Waiting(w) /\ tx[w].next \in Locks
  BY WaitingFacts DEF Grant, Granted
<1>2. row \in TicketTypes \cup Orders
  BY <1>1 DEF Locks
<1>3. CASE row \in TicketTypes
  <2>1. GrantType(w, row)
    BY <1>3 DEF Grant
  <2>2. CASE tx[w].kind = "reserve"
    <3>1. TakeUnits(w, row)
      BY <2>1, <2>2 DEF GrantType
    <3>2. QED
      BY <1>1, <1>3, <2>2, <3>1, TakeKeeps
  <2>3. CASE tx[w].kind # "reserve" /\ tx[w].next.mode = "update"
    <3>1. AddUnits(w, row, tx[w].cart[row])
      BY <2>1, <2>3 DEF GrantType
    <3>2. QED
      BY <1>1, <1>3, <2>3, <3>1, GiveBackKeeps
  <2>4. CASE tx[w].kind # "reserve" /\ tx[w].next.mode # "update"
    <3>1. GoOn(w, Holding(w), {})
      BY <2>1, <2>4 DEF GrantType
    <3>2. QED
      BY <1>1, <2>4, <3>1, InsertKeeps
  <2>5. QED
    BY <2>2, <2>3, <2>4
<1>4. CASE row \notin TicketTypes
  <2>1. row \in Orders /\ GrantOrder(w, row)
    BY <1>2, <1>4 DEF Grant
  <2>2. CASE tx[w].kind = "job"
    <3>1. GrantToJob(w, row)
      BY <2>1, <2>2 DEF GrantOrder
    <3>2. QED
      BY <1>1, <2>1, <2>2, <3>1, GrantToJobKeeps
  <2>3. CASE tx[w].kind = "confirm"
    <3>1. GrantToConfirm(w, row)
      BY <2>1, <2>3 DEF GrantOrder
    <3>2. QED
      BY <1>1, <2>1, <2>3, <3>1, GrantToConfirmKeeps
  <2>4. CASE tx[w].kind \notin {"job", "confirm"}
    <3>1. GrantToWebhook(w, row)
      BY <2>1, <2>4 DEF GrantOrder
    <3>2. QED
      BY <1>1, <2>1, <2>4, <3>1, GrantToWebhookKeeps
  <2>5. QED
    BY <2>2, <2>3, <2>4
<1>5. QED
  BY <1>3, <1>4

-----------------------------------------------------------------------------
(* A transaction commits. *)

LEMMA CommittingFacts ==
  ASSUME TxInv, NEW w \in Workers, Commit(w)
  PROVE  /\ tx[w] \in Transactions /\ Sound(tx[w]) /\ tx[w].todo = {} /\ Install(w)
         /\ tx[w].order \in Orders /\ tx[w].cart \in Quantities
         /\ tx[w].change \in [TicketTypes -> Int]
         /\ tx[w].writes \in [Orders -> OrderStatus \cup {"unwritten"}]
<1>1. Active(w) /\ tx[w].todo = {} /\ Install(w)
  BY DEF Commit
<1>2. tx[w] \in Transactions /\ Sound(tx[w])
  BY <1>1, ActiveIsTransaction DEF TxInv
<1>3. QED
  BY <1>1, <1>2 DEF Transactions

(* A reservation inserts its order and takes its cart. *)
LEMMA ReserveCommits ==
  ASSUME TxInv, NEW w \in Workers, Commit(w), tx[w].kind = "reserve"
  PROVE  /\ status[tx[w].order] = "none" /\ claim[tx[w].order] = "free"
         /\ status' = [status EXCEPT ![tx[w].order] = "reserved"]
         /\ claim' = [claim EXCEPT ![tx[w].order] = "held"]
         /\ cart' = [cart EXCEPT ![tx[w].order] = tx[w].cart]
         /\ tx[w].cart \in Carts
         /\ \A t \in TicketTypes : tx[w].change[t] = -tx[w].cart[t]
<1> DEFINE z == tx[w]
<1>1. /\ z \in Transactions /\ Sound(z) /\ z.todo = {} /\ Install(w)
      /\ z.order \in Orders /\ z.writes \in [Orders -> OrderStatus \cup {"unwritten"}]
  BY CommittingFacts
<1>2. /\ Reserves(z)
      /\ \A o \in Orders : z.writes[o] = "unwritten"
  BY <1>1 DEF Sound, Reserves, WritesFollowReads, Decisions
<1>3. /\ z.cart \in Carts /\ status[z.order] = "none"
      /\ \A t \in TicketTypes : z.change[t] = -z.cart[t]
  BY <1>1, <1>2 DEF Reserves
<1>4. status \in [Orders -> OrderStatus] /\ claim \in [Orders -> Claims]
  BY DEF TxInv, TxTypeOK
<1>5. \A o \in Orders : Writes(w)[o] = IF o = z.order THEN "reserved" ELSE "unwritten"
  BY <1>1, <1>2 DEF Writes
<1>6. status' = [status EXCEPT ![z.order] = "reserved"]
  <2>1. status' = [o \in Orders |-> IF o = z.order THEN "reserved" ELSE status[o]]
    BY <1>1, <1>5 DEF Install
  <2>2. QED
    BY <1>4, <2>1
<1>7. claim' = [claim EXCEPT ![z.order] = "held"]
  <2>1. \A o \in Orders :
          ClaimAfter(o, Writes(w)[o]) = IF o = z.order THEN "held" ELSE claim[o]
    BY <1>5 DEF ClaimAfter
  <2>2. claim' = [o \in Orders |-> ClaimAfter(o, Writes(w)[o])]
    BY <1>1 DEF Install
  <2>3. claim' = [o \in Orders |-> IF o = z.order THEN "held" ELSE claim[o]]
    BY <2>1, <2>2
  <2>4. QED
    BY <1>4, <2>3
<1>8. cart' = [cart EXCEPT ![z.order] = z.cart]
  BY <1>1 DEF Install
<1>9. claim[z.order] = "free"
  BY <1>1, <1>3 DEF TxInv, ClaimsMatch
<1>10. QED
  BY <1>3, <1>6, <1>7, <1>8, <1>9

(* The other transactions change orders they have locked and read.          *)
LEMMA OthersCommit ==
  ASSUME TxInv, NEW w \in Workers, Commit(w), tx[w].kind # "reserve"
  PROVE  /\ cart' = cart
         /\ status' \in [Orders -> OrderStatus] /\ claim' \in [Orders -> Claims]
         /\ \A o \in Orders :
              IF tx[w].writes[o] = "unwritten"
              THEN status'[o] = status[o] /\ claim'[o] = claim[o]
              ELSE /\ ForUpdate(o) \in tx[w].locks
                   /\ <<status[o], tx[w].writes[o]>> \in Decisions
                   /\ tx[w].writes[o] = "expired" => o \in overdue
                   /\ status'[o] = tx[w].writes[o]
                   /\ claim'[o] = ClaimAfter(o, tx[w].writes[o])
<1> DEFINE z == tx[w]
<1>1. /\ z \in Transactions /\ Sound(z) /\ Install(w)
      /\ z.order \in Orders /\ z.writes \in [Orders -> OrderStatus \cup {"unwritten"}]
  BY CommittingFacts
<1>2. status \in [Orders -> OrderStatus] /\ claim \in [Orders -> Claims]
      /\ cart \in [Orders -> Quantities]
  BY DEF TxInv, TxTypeOK
<1>3. cart' = cart
  <2>1. cart' = [cart EXCEPT ![z.order] = cart[z.order]]
    BY <1>1 DEF Install
  <2>2. QED
    BY <1>1, <1>2, <2>1
<1>4. Writes(w) = z.writes
  BY DEF Writes
<1>5. /\ status' = [o \in Orders |-> IF z.writes[o] = "unwritten" THEN status[o] ELSE z.writes[o]]
      /\ claim' = [o \in Orders |-> ClaimAfter(o, z.writes[o])]
  BY <1>1, <1>4 DEF Install
<1>6. \A o \in Orders : ClaimAfter(o, z.writes[o]) \in Claims
  BY <1>2 DEF ClaimAfter, Claims
<1>7. ASSUME NEW o \in Orders, z.writes[o] = "unwritten"
      PROVE  status'[o] = status[o] /\ claim'[o] = claim[o]
  BY <1>5, <1>7 DEF ClaimAfter
<1>8. ASSUME NEW o \in Orders, z.writes[o] # "unwritten"
      PROVE  /\ ForUpdate(o) \in z.locks /\ <<status[o], z.writes[o]>> \in Decisions
             /\ z.writes[o] = "expired" => o \in overdue
             /\ status'[o] = z.writes[o] /\ claim'[o] = ClaimAfter(o, z.writes[o])
  <2>1. <<z.read[o], z.writes[o]>> \in Decisions /\ (z.writes[o] = "expired" => z.kind = "job")
    BY <1>1, <1>8 DEF Sound, WritesFollowReads
  <2>2. z.read[o] # "unread"
    BY <2>1 DEF Decisions
  <2>3. ForUpdate(o) \in z.locks /\ z.read[o] = status[o]
    BY <1>1, <2>2 DEF Sound, ReadsAreLocked
  <2>4. z.writes[o] = "expired" => o \in overdue
    BY <1>1, <2>1, <2>3 DEF Sound, LocksOrders, ForUpdate
  <2>5. QED
    BY <1>5, <1>8, <2>1, <2>3, <2>4
<1>9. status' \in [Orders -> OrderStatus]
  BY <1>1, <1>2, <1>5
<1>10. claim' \in [Orders -> Claims]
  BY <1>5, <1>6
<1>11. QED
  BY <1>3, <1>7, <1>8, <1>9, <1>10

(* It changes nothing but its own order, if it reserves, and what it has    *)
(* locked.                                                                  *)
LEMMA CommitChangesItsOwn ==
  ASSUME TxInv, NEW w \in Workers, Commit(w)
  PROVE  /\ \A o \in Orders : status[o] # "none" =>
              /\ status'[o] # "none"
              /\ ForUpdate(o) \notin tx[w].locks =>
                   status'[o] = status[o] /\ claim'[o] = claim[o] /\ cart'[o] = cart[o]
         /\ \A o \in Orders :
              status[o] = "none" /\ ~(tx[w].kind = "reserve" /\ o = tx[w].order) =>
                status'[o] = "none"
         /\ \A t \in TicketTypes :
              /\ remaining'[t] \in Nat
              /\ remaining'[t] = remaining[t] + tx[w].change[t]
              /\ ForUpdate(t) \notin tx[w].locks => remaining'[t] = remaining[t]
         /\ overdue' = overdue
<1> DEFINE z == tx[w]
<1>1. /\ z \in Transactions /\ Sound(z) /\ Install(w) /\ z.order \in Orders
      /\ z.change \in [TicketTypes -> Int]
  BY CommittingFacts
<1>2. /\ status \in [Orders -> OrderStatus] /\ claim \in [Orders -> Claims]
      /\ cart \in [Orders -> Quantities] /\ remaining \in [TicketTypes -> Nat]
  BY DEF TxInv, TxTypeOK
<1>3. /\ remaining' = [t \in TicketTypes |-> remaining[t] + z.change[t]]
      /\ overdue' = overdue
  BY <1>1 DEF Install
<1>4. \A t \in TicketTypes :
        /\ remaining'[t] \in Nat
        /\ remaining'[t] = remaining[t] + z.change[t]
        /\ ForUpdate(t) \notin z.locks => remaining'[t] = remaining[t]
  BY <1>1, <1>2, <1>3 DEF Sound, ChangesAreLocked
<1>5. CASE z.kind = "reserve"
  <2>1. /\ status[z.order] = "none"
        /\ status' = [status EXCEPT ![z.order] = "reserved"]
        /\ claim' = [claim EXCEPT ![z.order] = "held"]
        /\ cart' = [cart EXCEPT ![z.order] = z.cart]
    BY <1>5, ReserveCommits
  <2>2. status'[z.order] = "reserved"
    BY <1>1, <1>2, <2>1
  <2>3. \A o \in Orders \ {z.order} :
          status'[o] = status[o] /\ claim'[o] = claim[o] /\ cart'[o] = cart[o]
    BY <1>2, <2>1
  <2>4. QED
    BY <1>3, <1>4, <1>5, <2>1, <2>2, <2>3
<1>6. CASE z.kind # "reserve"
  <2>1. /\ cart' = cart
        /\ \A o \in Orders :
             IF z.writes[o] = "unwritten"
             THEN status'[o] = status[o] /\ claim'[o] = claim[o]
             ELSE /\ ForUpdate(o) \in z.locks
                  /\ <<status[o], z.writes[o]>> \in Decisions
                  /\ status'[o] = z.writes[o]
    BY <1>6, OthersCommit
  <2>2. \A s, r : <<s, r>> \in Decisions => s # "none" /\ r # "none"
    BY DEF Decisions
  <2>3. QED
    BY <1>3, <1>4, <2>1, <2>2
<1>7. QED
  BY <1>5, <1>6

(* Claims keep up with the statuses. *)
LEMMA CommitKeepsRows ==
  ASSUME TxInv, NEW w \in Workers, Commit(w)
  PROVE  TxTypeOK' /\ ClaimsMatch'
<1> DEFINE z == tx[w]
<1>1. /\ z \in Transactions /\ Install(w) /\ z.order \in Orders /\ z.cart \in Quantities
      /\ z.change \in [TicketTypes -> Int]
  BY CommittingFacts
<1>2. /\ status \in [Orders -> OrderStatus] /\ claim \in [Orders -> Claims]
      /\ cart \in [Orders -> Quantities] /\ overdue \subseteq Orders
      /\ tx \in [Workers -> {Idle} \cup Transactions]
  BY DEF TxInv, TxTypeOK
<1>3. remaining' \in [TicketTypes -> Nat]
  <2>1. remaining' = [t \in TicketTypes |-> remaining[t] + z.change[t]]
    BY <1>1 DEF Install
  <2>2. QED
    BY <2>1, CommitChangesItsOwn
<1>4. tx' \in [Workers -> {Idle} \cup Transactions] /\ overdue' \subseteq Orders
  BY <1>1, <1>2 DEF Install
<1>5. CASE z.kind = "reserve"
  <2>1. /\ status' = [status EXCEPT ![z.order] = "reserved"]
        /\ claim' = [claim EXCEPT ![z.order] = "held"]
        /\ cart' = [cart EXCEPT ![z.order] = z.cart]
    BY <1>5, ReserveCommits
  <2>2. TxTypeOK'
    BY <1>1, <1>2, <1>3, <1>4, <2>1 DEF TxTypeOK, OrderStatus, Claims
  <2>3. ClaimsMatch'
    BY <1>1, <1>2, <2>1, CommitChangesItsOwn DEF TxInv, ClaimsMatch
  <2>4. QED
    BY <2>2, <2>3
<1>6. CASE z.kind # "reserve"
  <2>1. /\ cart' = cart
        /\ status' \in [Orders -> OrderStatus] /\ claim' \in [Orders -> Claims]
        /\ \A o \in Orders :
             IF z.writes[o] = "unwritten"
             THEN status'[o] = status[o] /\ claim'[o] = claim[o]
             ELSE /\ <<status[o], z.writes[o]>> \in Decisions
                  /\ z.writes[o] = "expired" => o \in overdue
                  /\ status'[o] = z.writes[o]
                  /\ claim'[o] = ClaimAfter(o, z.writes[o])
    BY <1>6, OthersCommit
  <2>2. TxTypeOK'
    BY <1>2, <1>3, <1>4, <2>1 DEF TxTypeOK
  <2>3. overdue' = overdue
    BY CommitChangesItsOwn
  <2>4. ASSUME NEW o \in Orders
        PROVE  /\ status'[o] = "none" => claim'[o] = "free"
               /\ status'[o] = "reserved" => claim'[o] = "held"
               /\ status'[o] = "paid" => claim'[o] = "sold"
               /\ status'[o] \in {"expired", "paid_no_stock"} => claim'[o] = "returned"
               /\ status'[o] = "expired" => o \in overdue'
               /\ status'[o] \in {"failed", "refunded"} => claim'[o] \in {"held", "returned"}
    <3>1. CASE z.writes[o] = "unwritten"
      BY <2>1, <2>3, <3>1 DEF TxInv, ClaimsMatch
    <3>2. CASE z.writes[o] # "unwritten"
      <4>1. claim[o] \in {"held", "returned"}
        BY <2>1, <3>2 DEF Decisions, TxInv, ClaimsMatch
      <4>2. z.writes[o] \in {"paid", "failed", "expired", "paid_no_stock", "refunded"}
        BY <2>1, <3>2 DEF Decisions
      <4>3. QED
        BY <2>1, <2>3, <3>2, <4>1, <4>2 DEF ClaimAfter
    <3>3. QED
      BY <3>1, <3>2
  <2>5. ClaimsMatch'
    BY <2>4 DEF ClaimsMatch
  <2>6. QED
    BY <2>2, <2>5
<1>7. QED
  BY <1>5, <1>6

(* What another transaction has locked stays as it is. *)
LEMMA CommitLeavesLocked ==
  ASSUME TxInv, NEW w \in Workers, NEW v \in Workers, v # w, Active(v), Commit(w)
  PROVE  /\ tx'[v] = tx[v] /\ tx[v] \in Transactions /\ Sound(tx[v])
         /\ \A o \in Orders : ForUpdate(o) \in tx[v].locks =>
              status'[o] = status[o] /\ claim'[o] = claim[o] /\ cart'[o] = cart[o]
         /\ \A t \in TicketTypes : ForUpdate(t) \in tx[v].locks => remaining'[t] = remaining[t]
         /\ tx[v].kind = "reserve" => status'[tx[v].order] = "none"
<1> DEFINE x == tx[v]
           z == tx[w]
<1>1. x \in Transactions /\ Sound(x) /\ Active(w) /\ Install(w)
  BY ActiveIsTransaction DEF TxInv, Commit
<1>2. tx'[v] = tx[v]
  BY <1>1 DEF Install, TxInv, TxTypeOK
<1>3. Apart(x, z)
  BY <1>1 DEF TxInv
<1>4. \A row : ForUpdate(row) \in x.locks => ForUpdate(row) \notin z.locks
  BY <1>3 DEF Apart, Conflict, ForUpdate
<1>5. \A o \in Orders : ForUpdate(o) \in x.locks => status[o] # "none"
  BY <1>1 DEF Sound, LocksOrders, ForUpdate
<1>6. x.kind = "reserve" => status[x.order] = "none" /\ x.order \in Orders
  BY <1>1 DEF Sound, Reserves, Transactions
<1>7. x.kind = "reserve" => ~(z.kind = "reserve" /\ x.order = z.order)
  BY <1>3 DEF Apart
<1>8. QED
  BY <1>1, <1>2, <1>4, <1>5, <1>6, <1>7, CommitChangesItsOwn

LEMMA OthersStaySound ==
  ASSUME TxInv, NEW w \in Workers, NEW v \in Workers, v # w, Active(v), Commit(w)
  PROVE  Sound(tx[v])'
<1> DEFINE x == tx[v]
<1>1. /\ tx'[v] = x /\ x \in Transactions
      /\ \A o \in Orders : ForUpdate(o) \in x.locks =>
           status'[o] = status[o] /\ claim'[o] = claim[o] /\ cart'[o] = cart[o]
      /\ \A t \in TicketTypes : ForUpdate(t) \in x.locks => remaining'[t] = remaining[t]
      /\ x.kind = "reserve" => status'[x.order] = "none"
  BY CommitLeavesLocked
<1>2. /\ Queued(x) /\ LocksOrders(x) /\ Reserves(x) /\ ReadsAreLocked(x)
      /\ WritesFollowReads(x) /\ ReturnsAll(x) /\ ChangesAreLocked(x) /\ InOrder(x)
  BY CommitLeavesLocked DEF Sound
<1>3. /\ \A o \in Orders : status[o] # "none" => status'[o] # "none"
      /\ \A t \in TicketTypes : remaining'[t] \in Nat
      /\ overdue' = overdue
  BY CommitChangesItsOwn
<1>4. Queued(tx[v])' /\ WritesFollowReads(tx[v])' /\ InOrder(tx[v])'
  BY <1>1, <1>2 DEF Queued, WritesFollowReads, InOrder
<1>5. LocksOrders(tx[v])'
  BY <1>1, <1>2, <1>3 DEF LocksOrders
<1>6. Reserves(tx[v])'
  BY <1>1, <1>2 DEF Reserves
<1>7. ReadsAreLocked(tx[v])'
  BY <1>1, <1>2 DEF ReadsAreLocked
<1>8. ChangesAreLocked(tx[v])'
  <2>1. ASSUME NEW t \in TicketTypes
        PROVE  /\ x.change[t] # 0 => ForUpdate(t) \in x.locks
               /\ remaining'[t] + x.change[t] >= 0
    <3>1. /\ x.change[t] # 0 => ForUpdate(t) \in x.locks
          /\ remaining[t] + x.change[t] >= 0
      BY <1>2 DEF ChangesAreLocked
    <3>2. CASE x.change[t] = 0
      BY <1>3, <3>2
    <3>3. CASE x.change[t] # 0
      BY <1>1, <3>1, <3>3
    <3>4. QED
      BY <3>2, <3>3
  <2>2. QED
    BY <1>1, <2>1 DEF ChangesAreLocked
<1>9. ReturnsAll(tx[v])'
  <2>1. \A o \in Orders : x.writes[o] \in {"expired", "paid_no_stock"} =>
          claim'[o] = claim[o] /\ cart'[o] = cart[o]
    <3>1. \A o \in Orders : x.writes[o] \in {"expired", "paid_no_stock"} => x.read[o] # "unread"
      BY <1>2 DEF WritesFollowReads, Decisions
    <3>2. QED
      BY <1>1, <1>2, <3>1 DEF ReadsAreLocked
  <2>2. Returns(x) = {o \in Orders : x.writes[o] \in {"expired", "paid_no_stock"} /\ claim'[o] = "held"}
    BY <2>1 DEF Returns
  <2>3. Returns(tx[v])' = Returns(x)
    BY <1>1, <2>2 DEF Returns
  <2>4. \A t : UnitCount(cart', Returns(x), t) = UnitCount(cart, Returns(x), t)
    <3>1. \A o \in Returns(x) : cart'[o] = cart[o]
      BY <2>1 DEF Returns
    <3>2. QED
      BY <3>1, UnitsAgree
  <2>5. x.kind # "reserve" => \A t \in TicketTypes :
          /\ x.change[t] >= 0
          /\ x.change[t] + (IF ForUpdate(t) \in x.todo THEN x.cart[t] ELSE 0) =
               UnitCount(cart', Returns(x), t)
    BY <1>2, <2>4 DEF ReturnsAll
  <2>6. QED
    BY <1>1, <2>3, <2>5 DEF ReturnsAll
<1>10. QED
  BY <1>4, <1>5, <1>6, <1>7, <1>8, <1>9 DEF Sound

LEMMA CommitKeeps ==
  ASSUME TxInv, NEW w \in Workers, Commit(w)
  PROVE  TxInv'
<1>1. TxTypeOK' /\ ClaimsMatch'
  BY CommitKeepsRows
<1>2. tx'[w] = Idle /\ \A v \in Workers \ {w} : tx'[v] = tx[v]
  BY DEF Commit, Install, TxInv, TxTypeOK
<1>3. \A v \in Workers : Active(v)' => v # w /\ Active(v)
  BY <1>2 DEF Active
<1>4. \A v \in Workers : Active(v)' => Sound(tx[v])'
  BY <1>3, OthersStaySound
<1>5. \A u, v \in Workers : u # v /\ Active(u)' /\ Active(v)' => Apart(tx[u], tx[v])'
  BY <1>2, <1>3 DEF TxInv, Apart
<1>6. QED
  BY <1>1, <1>4, <1>5 DEF TxInv

-----------------------------------------------------------------------------
(* The other steps, and the invariant itself. *)

LEMMA DeadlinePassesKeeps ==
  ASSUME TxInv, NEW o \in Orders, DeadlinePasses(o)
  PROVE  TxInv'
<1>1. /\ overdue' = overdue \cup {o}
      /\ UNCHANGED <<remaining, status, claim, cart, tx>>
  BY DEF DeadlinePasses
<1>2. TxTypeOK' /\ ClaimsMatch'
  BY <1>1 DEF TxInv, TxTypeOK, ClaimsMatch
<1>3. ASSUME NEW v \in Workers, Active(v)'
      PROVE  Sound(tx[v])'
  <2>1. Sound(tx[v])
    BY <1>1, <1>3 DEF TxInv, Active
  <2>2. LocksOrders(tx[v])'
    BY <1>1, <2>1 DEF Sound, LocksOrders
  <2>3. QED
    BY <1>1, <2>1, <2>2
       DEF Sound, Queued, Reserves, ReadsAreLocked, WritesFollowReads, Returns, ReturnsAll,
           ChangesAreLocked, InOrder
<1>4. \A u, v \in Workers : u # v /\ Active(u)' /\ Active(v)' => Apart(tx[u], tx[v])'
  BY <1>1 DEF TxInv, Active, Apart
<1>5. QED
  BY <1>2, <1>3, <1>4 DEF TxInv

LEMMA TxInitIsSound ==
  ASSUME TxInit
  PROVE  TxInv
<1>1. TxTypeOK
  BY TxAssumption, CartsAssumption
     DEF TxInit, TxTypeOK, OrderStatus, Claims, Quantities, NoUnits
<1>2. ClaimsMatch
  BY DEF TxInit, ClaimsMatch
<1>3. \A w \in Workers : ~Active(w)
  BY DEF TxInit, Active
<1>4. QED
  BY <1>1, <1>2, <1>3 DEF TxInv

LEMMA StepKeepsTxInv ==
  ASSUME TxInv, [TxNext]_vars
  PROVE  TxInv'
<1>1. ASSUME NEW w \in Workers, NEW o \in Orders, NEW c \in Carts, BeginReserve(w, o, c)
      PROVE  TxInv'
  BY <1>1, BeginReserveKeeps
<1>2. ASSUME NEW w \in Workers, NEW o \in Orders, NEW kind \in Payments,
             BeginPayment(w, kind, o)
      PROVE  TxInv'
  BY <1>2, BeginPaymentKeeps
<1>3. ASSUME NEW w \in Workers, BeginJob(w)
      PROVE  TxInv'
  BY <1>3, BeginJobKeeps
<1>4. ASSUME NEW w \in Workers, Grant(w)
      PROVE  TxInv'
  BY <1>4, GrantKeeps
<1>5. ASSUME NEW w \in Workers, Commit(w)
      PROVE  TxInv'
  BY <1>5, CommitKeeps
<1>6. ASSUME NEW w \in Workers, Rollback(w)
      PROVE  TxInv'
  BY <1>6, RollbackKeeps
<1>7. CASE BreakDeadlock
  BY <1>6, <1>7 DEF BreakDeadlock
<1>8. ASSUME NEW o \in Orders, DeadlinePasses(o)
      PROVE  TxInv'
  BY <1>8, DeadlinePassesKeeps
<1>9. CASE UNCHANGED vars
  BY <1>9
     DEF vars, TxInv, TxTypeOK, ClaimsMatch, Active, Apart, Sound, Queued, LocksOrders, Reserves,
         ReadsAreLocked, WritesFollowReads, Returns, ReturnsAll, ChangesAreLocked, InOrder
<1>10. QED
  BY <1>1, <1>2, <1>3, <1>4, <1>5, <1>6, <1>7, <1>8, <1>9 DEF TxNext, Fail

(* Everything below rests on this.                                          *)
THEOREM TxInvariant == TxSpec => []TxInv
<1>1. TxInit => TxInv
  BY TxInitIsSound
<1>2. TxInv /\ [TxNext]_vars => TxInv'
  BY StepKeepsTxInv
<1>3. QED
  BY <1>1, <1>2, PTL DEF TxSpec

(* Type correctness: remaining never goes below zero, for one.              *)
THEOREM TxTypeCorrect == TxSpec => []TxTypeOK
<1>1. TxInv => TxTypeOK
  BY DEF TxInv
<1>2. QED
  BY <1>1, TxInvariant, PTL

(* What a transaction has read under a lock is true until it commits: the   *)
(* checks of server.ts:1010-1031 and of applyPaymentEvent.ts are not stale. *)
THEOREM ReadingsAreKept == TxSpec => []ReadingsHold
<1>1. TxInv => ReadingsHold
  BY DEF TxInv, Sound, ReadsAreLocked, ChangesAreLocked, ReadingsHold
<1>2. QED
  BY <1>1, TxInvariant, PTL

-----------------------------------------------------------------------------
(* Deadlocks. *)

(* Where a transaction is in the order of the locks. *)
Height(w) == Rank(tx[w].next.row)

(* One that waits for another is below it, if neither is the release job or *)
(* is inserting tickets.                                                    *)
LEMMA WaitingIsBelow ==
  ASSUME TxInv, NEW v \in Workers, NEW w \in Workers, WaitsFor(v, w), Waiting(w),
         tx[w].kind # "job", ~InsertsTickets(v), ~InsertsTickets(w)
  PROVE  Height(v) < Height(w)
<1> DEFINE x == tx[v]
           y == tx[w]
<1>1. /\ x.next \in x.todo /\ x.next \in Locks
      /\ y.next \in y.todo /\ y.next \in Locks /\ InOrder(y) /\ y.locks \subseteq Locks
  BY WaitingFacts DEF WaitsFor, Waiting, TxInv, Sound, Transactions
<1>2. PICK l \in y.locks : Conflict(x.next, l)
  BY DEF WaitsFor
<1>3. l.row = x.next.row
  BY <1>2 DEF Conflict
<1>4. l.mode = "update" /\ y.next.mode = "update"
  BY <1>1, <1>2 DEF InsertsTickets, Locks
<1>5. Rank(l.row) < Rank(y.next.row)
  BY <1>1, <1>2, <1>4 DEF InOrder
<1>6. QED
  BY <1>3, <1>5 DEF Height

(* Heights are numbers, so that of finitely many transactions one is the    *)
(* highest: those above it are the fewest.                                  *)
LEMMA OneIsHighest ==
  ASSUME NEW S \in SUBSET Workers, S # {}, \A v \in S : Height(v) \in Nat
  PROVE  \E v \in S : \A u \in S : ~(Height(v) < Height(u))
<1> DEFINE Above(v) == {u \in S : Height(v) < Height(u)}
           R == StrictSubsetOrdering(S)
           T == {Above(v) : v \in S}
<1>1. IsFiniteSet(S)
  BY TxAssumption, FS_Subset
<1>2. IsWellFoundedOn(R, SUBSET S)
  BY <1>1, FS_StrictSubsetOrderingWellFounded, FS_FiniteSubsetsOfFinite
<1>3. T \subseteq SUBSET S /\ T # {}
  OBVIOUS
<1>4. PICK X \in T : \A Y \in T : <<Y, X>> \notin R
  <2> HIDE DEF R, T
  <2>1. QED
    BY <1>2, <1>3, WFMin
<1>5. PICK v \in S : X = Above(v)
  BY <1>4
<1>6. ASSUME NEW u \in S, Height(v) < Height(u)
      PROVE  FALSE
  <2>1. u \in Above(v) /\ u \notin Above(u)
    BY <1>6
  <2>2. Above(u) \subseteq Above(v)
    BY <1>6
  <2>3. <<Above(u), Above(v)>> \in R
    BY <2>1, <2>2 DEF StrictSubsetOrdering
  <2>4. QED
    BY <1>4, <1>5, <2>3
<1>7. QED
  BY <1>6

LEMMA HeightsAreNumbers ==
  ASSUME TxInv, NEW v \in Workers, Waiting(v)
  PROVE  Height(v) \in Nat
<1>1. tx[v].next \in Locks
  BY WaitingFacts
<1>2. tx[v].next.row \in TicketTypes \cup Orders
  BY <1>1 DEF Locks
<1>3. QED
  BY <1>2, TxAssumption DEF Height, Rank

LEMMA DeadlocksNeedThem ==
  ASSUME TxInv
  PROVE  DeadlocksNeedTheJobOrTickets
<1> SUFFICES ASSUME NEW S \in SUBSET Workers, Deadlocked(S),
                    \A w \in S : tx[w].kind # "job" /\ ~InsertsTickets(w)
             PROVE  FALSE
  BY DEF DeadlocksNeedTheJobOrTickets
<1>1. S # {} /\ \A v \in S : Waiting(v)
  BY DEF Deadlocked, WaitsFor
<1>2. PICK v \in S : \A u \in S : ~(Height(v) < Height(u))
  BY <1>1, HeightsAreNumbers, OneIsHighest
<1>3. PICK w \in S : WaitsFor(v, w)
  BY DEF Deadlocked
<1>4. Height(v) < Height(w)
  BY <1>1, <1>3, WaitingIsBelow
<1>5. QED
  BY <1>2, <1>4

(* Locking in the order of the ids does avoid deadlocks among reservations  *)
(* and late payments, whatever their number: server.ts:762 is right, and    *)
(* says nothing of the release job or of payments that insert tickets.      *)
THEOREM DeadlocksExplained == TxSpec => []DeadlocksNeedTheJobOrTickets
<1>1. TxInv => DeadlocksNeedTheJobOrTickets
  BY DeadlocksNeedThem
<1>2. QED
  BY <1>1, TxInvariant, PTL

-----------------------------------------------------------------------------
(* Transactions implement the stock contract. *)

LEMMA ReserveTakes ==
  ASSUME TxInv, NEW w \in Workers, Commit(w), tx[w].kind = "reserve"
  PROVE  \E c \in Carts : Stock!Take(tx[w].order, c)
<1> DEFINE z == tx[w]
<1>1. /\ z.order \in Orders /\ z.cart \in Carts /\ z.cart \in Quantities /\ Sound(z) /\ Install(w)
      /\ claim[z.order] = "free"
      /\ claim' = [claim EXCEPT ![z.order] = "held"]
      /\ cart' = [cart EXCEPT ![z.order] = z.cart]
      /\ \A t \in TicketTypes : z.change[t] = -z.cart[t]
  BY CommittingFacts, ReserveCommits
<1>2. \A t \in TicketTypes : z.cart[t] \in Nat /\ remaining[t] \in Nat
  BY <1>1, CartsAssumption DEF Quantities, TxInv, TxTypeOK
<1>3. \A t \in TicketTypes : z.cart[t] <= remaining[t]
  BY <1>1, <1>2 DEF Sound, ChangesAreLocked
<1>4. remaining' = [t \in TicketTypes |-> remaining[t] - z.cart[t]]
  <2>1. remaining' = [t \in TicketTypes |-> remaining[t] + z.change[t]]
    BY <1>1 DEF Install
  <2>2. \A t \in TicketTypes : remaining[t] + z.change[t] = remaining[t] - z.cart[t]
    BY <1>1, <1>2
  <2>3. QED
    BY <2>1, <2>2
<1>5. Stock!Take(z.order, z.cart)
  BY <1>1, <1>3, <1>4 DEF Stock!Take
<1>6. QED
  BY <1>1, <1>5

(* The others sell the units of one order, or return those of some. *)
LEMMA OthersSellOrReturn ==
  ASSUME TxInv, NEW w \in Workers, Commit(w), tx[w].kind # "reserve"
  PROVE  IF \E o \in Orders : tx[w].writes[o] = "paid"
         THEN tx[w].writes[tx[w].order] = "paid" /\ Stock!Sell(tx[w].order)
         ELSE Stock!Return(Returns(tx[w]))
<1> DEFINE z == tx[w]
<1>1. /\ Sound(z) /\ z.todo = {} /\ Install(w) /\ z.order \in Orders
      /\ z.change \in [TicketTypes -> Int]
      /\ claim \in [Orders -> Claims] /\ remaining \in [TicketTypes -> Nat]
  BY CommittingFacts DEF TxInv, TxTypeOK
<1>2. /\ cart' = cart /\ claim' \in [Orders -> Claims]
      /\ \A o \in Orders :
           IF z.writes[o] = "unwritten"
           THEN claim'[o] = claim[o]
           ELSE /\ <<status[o], z.writes[o]>> \in Decisions
                /\ claim'[o] = ClaimAfter(o, z.writes[o])
  BY OthersCommit
<1>3. \A t \in TicketTypes : z.change[t] = UnitCount(cart, Returns(z), t)
  <2>1. \A t \in TicketTypes : z.change[t] + 0 = UnitCount(cart, Returns(z), t)
    BY <1>1 DEF Sound, ReturnsAll
  <2>2. QED
    BY <1>1, <2>1
<1>4. remaining' = [t \in TicketTypes |-> remaining[t] + UnitCount(cart, Returns(z), t)]
  <2>1. remaining' = [t \in TicketTypes |-> remaining[t] + z.change[t]]
    BY <1>1 DEF Install
  <2>2. QED
    BY <1>3, <2>1
<1>5. \A o \in Orders : z.writes[o] = "paid" => o = z.order /\ z.kind # "job"
  BY <1>1 DEF Sound, WritesFollowReads
<1>6. CASE \E o \in Orders : z.writes[o] = "paid"
  <2>1. z.writes[z.order] = "paid" /\ \A o \in Orders \ {z.order} : z.writes[o] = "unwritten"
    BY <1>1, <1>5, <1>6 DEF Sound, WritesFollowReads
  <2>2. Returns(z) = {}
    BY <2>1 DEF Returns
  <2>3. remaining' = remaining
    <3>1. \A t : UnitCount(cart, {}, t) = 0
      BY UnitsOfNone
    <3>2. \A t \in TicketTypes : remaining'[t] = remaining[t]
      BY <1>1, <1>4, <2>2, <3>1
    <3>3. QED
      BY <1>1, <1>4, <3>2
  <2>4. claim[z.order] = "held"
    BY <1>1, <1>2, <2>1 DEF Decisions, TxInv, ClaimsMatch
  <2>5. claim'[z.order] = "sold" /\ \A o \in Orders \ {z.order} : claim'[o] = claim[o]
    BY <1>1, <1>2, <2>1 DEF ClaimAfter
  <2>6. claim' = [claim EXCEPT ![z.order] = "sold"]
    BY <1>1, <1>2, <2>5
  <2>7. Stock!Sell(z.order)
    BY <1>2, <2>3, <2>4, <2>6 DEF Stock!Sell
  <2>8. QED
    BY <1>6, <2>1, <2>7
<1>7. CASE \A o \in Orders : z.writes[o] # "paid"
  <2>1. \A o \in Returns(z) : claim[o] = "held"
    BY DEF Returns
  <2>2. ASSUME NEW o \in Orders
        PROVE  claim'[o] = IF o \in Returns(z) THEN "returned" ELSE claim[o]
    <3>1. CASE z.writes[o] = "unwritten"
      BY <1>2, <3>1 DEF Returns
    <3>2. CASE z.writes[o] \in {"expired", "paid_no_stock"}
      <4>1. status[o] \in {"reserved", "expired"}
        BY <1>2, <3>2 DEF Decisions
      <4>2. claim[o] \in {"held", "returned"}
        BY <4>1 DEF TxInv, ClaimsMatch
      <4>3. claim'[o] = "returned"
        BY <1>2, <3>2 DEF ClaimAfter
      <4>4. QED
        BY <3>2, <4>2, <4>3 DEF Returns
    <3>3. CASE z.writes[o] \in {"failed", "refunded"}
      BY <1>2, <3>3 DEF ClaimAfter, Returns
    <3>4. QED
      BY <1>2, <1>7, <3>1, <3>2, <3>3 DEF Decisions
  <2>3. claim' = [o \in Orders |-> IF o \in Returns(z) THEN "returned" ELSE claim[o]]
    BY <1>2, <2>2
  <2>4. \A t : Stock!UnitCount(cart, Returns(z), t) = UnitCount(cart, Returns(z), t)
    BY DEF UnitCount, Units, Stock!UnitCount, Stock!Units, Cardinality, Stock!Cardinality
  <2>5. Stock!Return(Returns(z))
    BY <1>2, <1>4, <2>1, <2>3, <2>4 DEF Stock!Return
  <2>6. QED
    BY <1>7, <2>5
<1>8. QED
  BY <1>6, <1>7

(* Nothing is seen of a transaction before it commits. *)
LEMMA UncommittedIsUnseen ==
  ASSUME [TxNext]_vars
  PROVE  (\E w \in Workers : Commit(w)) \/ UNCHANGED <<remaining, status, claim, cart>>
<1>1. \A w, x : Proceed(w, x) => UNCHANGED <<remaining, status, claim, cart>>
  BY DEF Proceed
<1>2. ASSUME NEW w \in Workers, Grant(w)
      PROVE  \E x : Proceed(w, x)
  <2> USE DEF GoOn, Rollback
  <2>1. CASE tx[w].next.row \in TicketTypes
    BY <1>2, <2>1 DEF Grant, GrantType, TakeUnits, AddUnits
  <2>2. CASE tx[w].next.row \notin TicketTypes
    <3>1. GrantOrder(w, tx[w].next.row)
      BY <1>2, <2>2 DEF Grant
    <3>2. QED
      BY <3>1
         DEF GrantOrder, GrantToJob, GrantToConfirm, GrantToWebhook, LatePayment, PaidInTime,
             Settle, Leave
  <2>3. QED
    BY <2>1, <2>2
<1>3. ASSUME NEW w \in Workers, NEW x, NEW locks, Begin(w, x, locks)
      PROVE  UNCHANGED <<remaining, status, claim, cart>>
  BY <1>1, <1>3 DEF Begin
<1>4. ASSUME NEW w \in Workers, NEW o \in Orders, NEW c \in Carts, BeginReserve(w, o, c)
      PROVE  UNCHANGED <<remaining, status, claim, cart>>
  BY <1>3, <1>4 DEF BeginReserve
<1>5. ASSUME NEW w \in Workers, NEW o \in Orders, NEW kind \in Payments,
             BeginPayment(w, kind, o)
      PROVE  UNCHANGED <<remaining, status, claim, cart>>
  BY <1>3, <1>5 DEF BeginPayment
<1>6. ASSUME NEW w \in Workers, BeginJob(w)
      PROVE  UNCHANGED <<remaining, status, claim, cart>>
  BY <1>3, <1>6 DEF BeginJob
<1>7. ASSUME NEW w \in Workers, Rollback(w)
      PROVE  UNCHANGED <<remaining, status, claim, cart>>
  BY <1>1, <1>7 DEF Rollback
<1>8. CASE BreakDeadlock
  BY <1>7, <1>8 DEF BreakDeadlock
<1>9. ASSUME NEW o \in Orders, DeadlinePasses(o)
      PROVE  UNCHANGED <<remaining, status, claim, cart>>
  BY <1>9 DEF DeadlinePasses
<1>10. CASE UNCHANGED vars
  BY <1>10 DEF vars
<1>11. \A w \in Workers : Grant(w) => UNCHANGED <<remaining, status, claim, cart>>
  BY <1>1, <1>2
<1>12. QED
  BY <1>4, <1>5, <1>6, <1>7, <1>8, <1>9, <1>10, <1>11 DEF TxNext, Fail

LEMMA TxStepIsStockStep ==
  ASSUME TxInv, [TxNext]_vars
  PROVE  [Stock!Next]_(Stock!stockVars)
<1>1. ASSUME NEW w \in Workers, Commit(w)
      PROVE  Stock!Next
  <2>1. Stock!Carts = Carts
    BY DEF Stock!Carts, Stock!Quantities, Stock!NoUnits, Carts, Quantities, NoUnits
  <2>2. CASE tx[w].kind = "reserve"
    BY <1>1, <2>1, <2>2, ReserveTakes, CommittingFacts DEF Stock!Next
  <2>3. CASE tx[w].kind # "reserve"
    <3>1. Returns(tx[w]) \in SUBSET Orders
      BY DEF Returns
    <3>2. tx[w].order \in Orders
      BY <1>1, CommittingFacts
    <3>3. QED
      BY <1>1, <2>3, <3>1, <3>2, OthersSellOrReturn DEF Stock!Next
  <2>4. QED
    BY <2>2, <2>3
<1>2. CASE UNCHANGED <<remaining, claim, cart>>
  BY <1>2 DEF Stock!stockVars
<1>3. QED
  BY <1>1, <1>2, UncommittedIsUnseen

(* Lock by lock, with failures, time-outs and deadlocks, the transactions   *)
(* treat the stock as TicketStock prescribes.                               *)
THEOREM TxImplements == TxSpec => TxImplementsTicketStock
<1>1. TxInit => Stock!Init
  BY DEF TxInit, Stock!Init, Stock!NoUnits, NoUnits
<1>2. TxInv /\ [TxNext]_vars => [Stock!Next]_(Stock!stockVars)
  BY TxStepIsStockStep
<1>3. QED
  BY <1>1, <1>2, TxInvariant, PTL DEF TxSpec, TxImplementsTicketStock, Stock!Spec

-----------------------------------------------------------------------------
(* Transactions implement the steps of orders. *)

(* OrderSteps speaks of the stock as TicketStock does. *)
LEMMA SameStock ==
  /\ Life!Carts = Carts
  /\ \A o \in Orders, c \in Carts : Stock!Take(o, c) => Life!Take(o, c)
  /\ \A o \in Orders : Stock!Sell(o) => Life!Sell(o)
  /\ \A S \in SUBSET Orders : Stock!Return(S) => Life!Return(S)
<1>1. Life!Carts = Carts
  BY DEF Life!Carts, Life!Quantities, Life!NoUnits, Carts, Quantities, NoUnits
<1>2. \A o \in Orders, c \in Carts : Stock!Take(o, c) => Life!Take(o, c)
  BY DEF Stock!Take, Life!Take
<1>3. \A o \in Orders : Stock!Sell(o) => Life!Sell(o)
  BY DEF Stock!Sell, Life!Sell
<1>4. \A S \in SUBSET Orders : Stock!Return(S) => Life!Return(S)
  <2>1. \A x, S, t : Stock!UnitCount(x, S, t) = Life!UnitCount(x, S, t)
    BY DEF Life!UnitCount, Life!Units, Stock!UnitCount, Stock!Units, Cardinality,
           Stock!Cardinality, Life!Cardinality
  <2>2. QED
    BY <2>1 DEF Stock!Return, Life!Return
<1>5. QED
  BY <1>1, <1>2, <1>3, <1>4

(* To return the units of no order is to leave the stock alone. *)
LEMMA ReturnNone ==
  ASSUME TxInv, Stock!Return({})
  PROVE  UNCHANGED Life!stockVars
<1>1. remaining \in [TicketTypes -> Nat] /\ claim \in [Orders -> Claims]
  BY DEF TxInv, TxTypeOK
<1>2. \A t : Stock!UnitCount(cart, {}, t) = UnitCount(cart, {}, t)
  BY DEF UnitCount, Units, Stock!UnitCount, Stock!Units, Cardinality, Stock!Cardinality
<1>3. \A t : UnitCount(cart, {}, t) = 0
  BY UnitsOfNone
<1>4. remaining' = [t \in TicketTypes |-> remaining[t]]
  <2>1. remaining' = [t \in TicketTypes |-> remaining[t] + Stock!UnitCount(cart, {}, t)]
    BY DEF Stock!Return
  <2>2. \A t \in TicketTypes : remaining[t] + Stock!UnitCount(cart, {}, t) = remaining[t]
    BY <1>1, <1>2, <1>3
  <2>3. QED
    BY <2>1, <2>2
<1>5. claim' = [o \in Orders |-> claim[o]] /\ cart' = cart
  BY DEF Stock!Return
<1>6. QED
  BY <1>1, <1>4, <1>5 DEF Life!stockVars

LEMMA ReserveIsOrderStep ==
  ASSUME TxInv, NEW w \in Workers, Commit(w), tx[w].kind = "reserve"
  PROVE  Life!StepsNext
<1> DEFINE o == tx[w].order
<1>1. PICK c \in Carts : Stock!Take(o, c) /\ o \in Orders
  BY ReserveTakes, CommittingFacts
<1>2. Life!Take(o, c) /\ c \in Life!Carts
  BY <1>1, SameStock
<1>3. Life!Reserve(o, c)
  BY <1>1, <1>2, ReserveCommits DEF Life!Reserve, Life!Becomes
<1>4. QED
  BY <1>1, <1>2, <1>3 DEF Life!StepsNext

(* A payment gave its order a status: it still had the one it was given in  *)
(* the light of, and its units change accordingly.                          *)
LEMMA PaymentIsOrderStep ==
  ASSUME TxInv, NEW w \in Workers, Commit(w), tx[w].kind \notin {"reserve", "job"},
         tx[w].writes[tx[w].order] # "unwritten"
  PROVE  Life!StepsNext
<1> DEFINE z == tx[w]
           o == z.order
           new == z.writes[o]
<1>1. Sound(z) /\ o \in Orders
  BY CommittingFacts
<1>2. /\ <<status[o], new>> \in Decisions /\ new # "expired"
      /\ \A p \in Orders \ {o} : z.writes[p] = "unwritten"
  BY <1>1, OthersCommit DEF Sound, WritesFollowReads
<1>3. Life!Becomes(o, new)
  <2>1. status \in [Orders -> OrderStatus] /\ status' \in [Orders -> OrderStatus]
    BY OthersCommit DEF TxInv, TxTypeOK
  <2>2. status'[o] = new /\ \A p \in Orders \ {o} : status'[p] = status[p]
    BY <1>1, <1>2, OthersCommit
  <2>3. status' = [status EXCEPT ![o] = new]
    BY <1>1, <2>1, <2>2
  <2>4. QED
    BY <2>3 DEF Life!Becomes
<1>4. CASE new = "paid"
  <2>1. status[o] = "reserved" /\ Life!Sell(o)
    BY <1>1, <1>2, <1>4, OthersSellOrReturn, SameStock DEF Decisions
  <2>2. Life!PayInTime(o)
    BY <1>3, <1>4, <2>1 DEF Life!PayInTime
  <2>3. QED
    BY <1>1, <2>2 DEF Life!StepsNext
<1>5. CASE new # "paid"
  <2>1. Stock!Return(Returns(z)) /\ Returns(z) \in SUBSET Orders
    BY <1>1, <1>2, <1>5, OthersSellOrReturn DEF Returns
  <2>2. CASE new = "paid_no_stock"
    <3>1. Returns(z) = {p \in {o} : claim[p] = "held"}
      BY <1>1, <1>2, <2>2 DEF Returns
    <3>2. Life!Return({p \in {o} : claim[p] = "held"})
      BY <2>1, <3>1, SameStock
    <3>3. Life!PayLate(o)
      BY <1>2, <1>3, <2>2, <3>2 DEF Life!PayLate, Decisions
    <3>4. QED
      BY <1>1, <3>3 DEF Life!StepsNext
  <2>3. CASE new \in {"failed", "refunded"}
    <3>1. Returns(z) = {}
      BY <1>1, <1>2, <2>3 DEF Returns
    <3>2. UNCHANGED Life!stockVars
      BY <2>1, <3>1, ReturnNone
    <3>3. Life!FailPayment(o) \/ Life!Refund(o)
      BY <1>2, <1>3, <2>3, <3>2 DEF Life!FailPayment, Life!Refund, Decisions
    <3>4. QED
      BY <1>1, <3>3 DEF Life!StepsNext
  <2>4. QED
    BY <1>2, <1>5, <2>2, <2>3 DEF Decisions
<1>6. QED
  BY <1>4, <1>5

(* The job expires the orders that it wrote, whose units are all held; and  *)
(* a payment that found its order settled expires none.                     *)
LEMMA JobIsOrderStep ==
  ASSUME TxInv, NEW w \in Workers, Commit(w), tx[w].kind # "reserve",
         tx[w].kind = "job" \/ tx[w].writes[tx[w].order] = "unwritten"
  PROVE  Life!StepsNext
<1> DEFINE z == tx[w]
           S == Returns(z)
<1>1. Sound(z) /\ S \in SUBSET Orders
  BY CommittingFacts DEF Returns
<1>2. \A o \in Orders : z.writes[o] \in {"unwritten", "expired"}
  BY <1>1 DEF Sound, WritesFollowReads
<1>3. \A o \in Orders : z.writes[o] = "expired" => status[o] = "reserved" /\ claim[o] = "held"
  <2>1. \A o \in Orders : z.writes[o] = "expired" => status[o] = "reserved"
    BY OthersCommit DEF Decisions
  <2>2. QED
    BY <2>1 DEF TxInv, ClaimsMatch
<1>4. \A o \in Orders : o \in S <=> z.writes[o] = "expired"
  BY <1>2, <1>3 DEF Returns
<1>5. Life!Return(S)
  BY <1>1, <1>2, OthersSellOrReturn, SameStock
<1>6. status' = [o \in Orders |-> IF o \in S THEN "expired" ELSE status[o]]
  <2>1. status' \in [Orders -> OrderStatus]
    BY OthersCommit
  <2>2. \A o \in Orders : status'[o] = IF o \in S THEN "expired" ELSE status[o]
    BY <1>2, <1>4, OthersCommit
  <2>3. QED
    BY <2>1, <2>2
<1>7. Life!Expire(S)
  BY <1>1, <1>3, <1>4, <1>5, <1>6 DEF Life!Expire
<1>8. QED
  BY <1>1, <1>7 DEF Life!StepsNext

LEMMA TxStepIsOrderStep ==
  ASSUME TxInv, [TxNext]_vars
  PROVE  [Life!StepsNext]_(Life!stepVars)
<1>1. \A w \in Workers : Commit(w) => Life!StepsNext
  BY ReserveIsOrderStep, PaymentIsOrderStep, JobIsOrderStep
<1>2. CASE UNCHANGED <<remaining, status, claim, cart>>
  BY <1>2 DEF Life!stepVars, Life!stockVars
<1>3. QED
  BY <1>1, <1>2, UncommittedIsUnseen

(* However locks are taken and lost, each commit is one of the steps that   *)
(* OrderSteps lists, as are the one-step transactions of Checkout.          *)
THEOREM TxImplementsSteps == TxSpec => TxImplementsOrderSteps
<1>1. TxInit => Life!StepsInit
  BY DEF TxInit, Life!StepsInit, Life!Init, Life!NoUnits, NoUnits
<1>2. TxInv /\ [TxNext]_vars => [Life!StepsNext]_(Life!stepVars)
  BY TxStepIsOrderStep
<1>3. QED
  BY <1>1, <1>2, TxInvariant, PTL DEF TxSpec, TxImplementsOrderSteps, Life!StepsSpec
=============================================================================
