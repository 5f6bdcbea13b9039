# Verification of the ticketing API

TLA+ models, TLC configurations and TLAPS proofs for the API under
`src/apps/api` (Fastify, Prisma, PostgreSQL, BullMQ): reserving and paying for
tickets, the payment webhook, the release of expired reservations, and around
them check-in, e-mail, late payment cases, organizer membership and venue layouts.

Paths below are relative to the repository (`src/`); `server.ts` is
`apps/api/src/server.ts`, `applyPaymentEvent.ts`, `materializePayment.ts` and
`webhook-idempotency.ts` are in `apps/api/src/modules/payments/`.

## 1. The system

### Checkout transactions
State: rows of `TicketType` (`quota`, `remaining`), `Order` (`status`,
`reservedUntil`), `OrderItem`, `InventoryReservation` (`releasedAt`,
`releaseReason`), `Payment`, `LatePaymentCase`, `Ticket`, `DomainEvent`.
Four transactions write them:

| transaction | code | effect |
|---|---|---|
| reserve | `server.ts:752` | takes units with a guarded decrement, creates order, items, reservations |
| confirm | `server.ts:930` | pays a reserved order through the `mock` provider, issues tickets |
| payment event | `applyPaymentEvent.ts:103` | `paid` in time, `paid` late, `failed`, `refunded`, or ignored |
| release job | `jobs/releaseExpiredReservations.ts:44` | expires overdue orders and returns their units |

They interact through rows and locks only. Hard: confirm, webhook and job race
around the deadline; stock given back by one of two paths; unique indexes
violated inside a transaction. Correct when: no unit is sold twice or lost, an
order is paid at most once and only while it holds its units, tickets match items,
and a late payment becomes exactly one case.

### Payment webhook
State: `PaymentEvent` rows. `POST /webhooks/payments/:provider`
(`server.ts:1859`) stores the event in a statement of its own, applies it in a
transaction that also marks it processed, and answers; a delivery of a stored event
is answered from the row. `orderId` is a foreign key, null when the payload has no UUID. Hard: at-least-once delivery, death or failure between
the steps. Correct when: effects happen at most once, what is refused or ignored
is so for good, deliveries end, and no event is lost (it may be: section 6).

### Checkout requests
State: `ReserveIdempotencyKey`, `ConfirmIdempotencyKey`, the notification queue.
The handlers look the client's request id up first, write the key inside the
transaction, and confirm queues an e-mail job after it. Hard: overlapping requests
with one id, lost answers, retries. Correct when: one id makes one order and pays
with one payload, success is reported of paid orders only, and a client that
retries learns of what took effect.

### Memberships and invitations
State: `Membership` and `OrganizerInvitation` rows. Seven requests write them: add,
change role, remove (`server.ts:403`-`:582`), invite, resend, revoke, accept
(`routes/organizerInvitations.routes.ts`). Each checks first, in statements of its own, and
then writes in a transaction; revoke and accept repeat their checks in the `where` of the
update, resend and remove do not. Hard: two requests between whose checks and writes the
other writes; token rotation; the index on pending invitations; the link that a removed
membership leaves. Correct when: nobody is a member twice, an invitation is accepted by
the token in force and ends once, and an owner is always left (one need not be: section 6).

### Check-in and late payment cases
State: `Ticket.status`, valid `TicketScan` rows, `LatePaymentCase.status` and `version`, the
audit rows of cases. `POST /checkin/scan` (`server.ts:1120`) locks the ticket's row, validates,
reads it again, and writes. `POST /late-payment-cases/:id/resolve` (`server.ts:1717`) reads and
decides first; the update in its transaction repeats status and version. Hard: several gates or
operators at once. Correct when: a ticket lets in one person, a case moves along the listed transitions
only, one of two operators wins, and the audit tells the whole story.

### Notifications
State: the BullMQ queue, `Order.confirmationEmailSentAt`, e-mail events, audit rows of resends. Confirm
queues a job after its commit (`server.ts:1060`), an operator queues more (`server.ts:1223`), the worker
(`workers/notificationsWorker.ts`) reads the order, sends, and records in a transaction. Hard: the worker
dies or the answer is lost between sending and recording, attempts run out, the API dies around
the queueing. Correct when: what is on record was sent, it is not sent again by itself, a job
done did its work, and jobs end.

### Locks
State: PostgreSQL's row locks and the job's advisory lock. A reserve locks its ticket types in ascending
order (`server.ts:762`-`770`); confirm, the webhook and the job lock orders first, and ticket types after
(`applyPaymentEvent.ts:179`, `releaseExpiredReservations.ts:124`) or by the tickets they insert
(`server.ts:1023`). Hard: lock order, deadlock victims, a transaction that fails holding locks. Correct when:
the locks make each transaction atomic, the order keeps reserves from deadlock, and every wait ends.

### Venue layouts
State: `Venue`, `VenueLayoutTemplate`, `VenueLayoutVersion`, `EventLayoutSnapshot`,
`EventLayoutInventoryBinding` and their audit rows. Each POST route of
`modules/venues/venueLayouts.routes.ts` checks the role of its user, looks up a chain of rows, and inserts in a
transaction; nothing is updated or deleted. Hard: versions numbered at once; what was looked up when a role
changes; ids of another organizer. Correct when: numbers are unique and leave no gaps, snapshots are copies of
versions of the event's own organizer, bindings fit the snapshot. The roles' capabilities are a table in
`packages/shared/src/adminAuthz.ts`.

### Provider event leases
State: `PaymentProviderEvent` rows. `webhook-idempotency.ts` claims a row for 30 seconds and marks it
processed or failed, as ADR-0005 has it; no route calls it. Hard: leases that run out under a living worker.
Correct when: one worker at a time, and processed is final.

### Other components

| component | state | operations |
|---|---|---|
| Activity feed (`modules/activity/service.ts`) | none | a page of domain events, by cursor |
| Artists, registration, events, ticket types | single rows | create, read, update |
| Metrics, logging, rate limit, web application | none the server reads back | - |

## 2. Modules

```
Carts ---> TicketStock ---> OrderSteps  (abstract: the stock, and orders with it)
  |            ^                ^ refinements (Stock!Spec, Life!StepsSpec)
  |            `------.---------'
  |---> CheckoutTx ---|----> MCCheckoutTx, TxProofs
  `---> Checkout -----'
            |---> MCCheckout
            |---> PaymentWebhook ---> MCPaymentWebhook
            `---> CheckoutApi   ---> MCCheckoutApi

CartProofs ---> CheckoutProofs ---> WebhookProofs (with PaymentWebhook)
        |                    `----> ApiProofs (with CheckoutApi)
        `-----> TxProofs (with CheckoutTx)

Organization ---> MCOrganization, OrganizationProofs
AdminAuthz ---> VenueLayouts ---> MCVenueLayouts, VenueProofs
Fulfilment ---> MCFulfilment  --------------------.
Notifications ---> MCNotifications  --------------+--> OperationsProofs
ProviderEventLease ---> MCProviderEventLease  ----'
```

**Carts** - quantities per ticket type; `UnitCount(q, S, t)`, the units of type
`t` in the carts of the orders `S`, is the cardinality of a set of numbered units,
so that sums need no recursion and the library's theorems on finite sets apply.

**TicketStock** - the contract: an order takes units that are there, whole, and then
either sells or returns them, whole, once. Nothing of requests, payments or time.

**OrderSteps** - TicketStock with `Order.status`: six ways in which a status and the units of its order change in one step
(`Reserve`, `PayInTime`, `PayLate`, `FailPayment`, `Refund`, `Expire` of a set of orders; nothing leads out of `paid`, `failed`,
`refunded` or `paid_no_stock`). It says nothing of when, so that it holds both for whole transactions and for locks.

**Checkout** - the rows and the transactions. One variable per column or row the
properties depend on: `remaining`, `status`, `reservedUntil`, `cart`, `hold`
(the order's reservations), `tickets`, `payment`, `lateCase`, `emitted`, and the clock
`now`. Actions: `Reserve`, `Confirm`, `ApplyPaid`, `ApplyPaidLate`, `ApplyFailed`,
`ApplyRefunded`, `ReleaseExpired`, `Tick`.

**PaymentWebhook** - adds the provider and the handler. `Store`, then one of `Apply`,
`Ignore`, `Refuse`, `FailTransiently`, then `Answer` or `RecordError`; `StoreFails` for deliveries
that the foreign key keeps from being stored (`rejected` has their events); `Dedupe` for
deliveries of stored events; `Crash` between any two. `Apply` is the conjunction of
Checkout's transaction and `MarkProcessed`, as the code runs both in one transaction.

**CheckoutApi** - adds requests of clients: `BeginReserve`, `ReserveCommits`,
`ReserveRefused`, `ReserveLosesRace`, `FindWinner`, `AnswerReserve`, and
`BeginConfirm`, `ConfirmCommits`, `ConfirmRefused`, `Enqueue`, `AnswerConfirm`, `Crash`.

**Organization** - the members and invitations of one organizer. Each request is two steps:
`Begin...` is what it reads and checks, kept in `request[r]`, and `Add`, `ChangeRole`, `Remove`,
`Invite`, `Resend`, `Revoke`, `Accept` or `AcceptRefused` is its transaction.

**Fulfilment** - a scan is `LockTicket`, `ValidateTicket`, `ReadCurrent`, `CheckIn`, one action per
statement that matters, or `AbortScan`; a case is `OpenCase`, then `BeginResolve` (what is read and
checked) and `Resolve` (the transaction). It is separate from Checkout: it starts
from tickets issued and cases opened, whose exactness Checkout shows, and nothing it
writes is read there.

**Notifications** - per order the job 0, whose identifier makes confirm's queueing idempotent, and one
job per resend. API: `Confirm`, `PayByWebhook`, `Enqueue`, `Resend`, `AuditResend`, `ApiCrash`. Worker: `Take`
(read and skip), `Send` (with its answer lost or not), `SendRefused`, `Record`, `RecordFails`, `Complete`;
the queue: `Retry` inside these, and `Stall`.

**CheckoutTx** - the transactions of Checkout, lock by lock. A worker's transaction `tx[w]` has the set of locks it does
not have yet (`todo`) and which of them it asks for (`next`), those it has, what it read in each order and what it will write. `BeginReserve`, `BeginPayment` and `BeginJob` open
one; `Grant` gives it the lock `next` once nobody holds a conflicting one, and runs the statements up to the next
lock (`TakeUnits`, `GrantToConfirm`, `GrantToWebhook`, `GrantToJob`); `Commit` installs its writes; `Fail` and `BreakDeadlock` roll
it back. It keeps `remaining`, `status`, `claim` (the reservations) and `cart` only: payments, cases and events are written under
the lock of their order.

**AdminAuthz**, **VenueLayouts** - the table of capabilities, and the routes that insert venue rows. `Begin...` is what a
request reads and checks, `Create...` its transaction; `ReadNumber` is the first statement of the numbering transaction. The
`...Shown` operators are the GET routes. `ChangeMembership` lets roles change at any time between the two steps.

**ProviderEventLease** - one row and its workers: `Deliver` (read the clock), `Create`, `Find`, `Update`, one action per
statement of `claimProviderEvent`, then `MarkProcessed`, `MarkError` or `Crash`. `overrun` remembers whether a worker has
marked the row after its lease was over.

**CartProofs** (lemmas on `UnitCount`), **CheckoutProofs**, **WebhookProofs**, **ApiProofs**, **TxProofs**, **OrganizationProofs**,
**VenueProofs**, and **OperationsProofs** (Fulfilment, Notifications and ProviderEventLease) - the theorems. The `MC` modules give constants values.

### Abstractions, and what justifies them
- *A transaction is one step.* Each locks its `Order` row before it reads it
  (`server.ts:931`, `applyPaymentEvent.ts:115`, the job with the status tested again under the lock)
  and holds the lock to the commit; `remaining` is only changed by increments and by a
  decrement guarded in the statement itself; what fails rolls back and changes nothing.
  The job takes effect when it commits. `CheckoutTx` takes the transactions apart into their locks:
  `ReadingsHold` is what makes one step of each, and `TxImplementsOrderSteps` that what commits is such a step.
- *A failed statement aborts its transaction* in PostgreSQL, also where the code
  catches the unique violation (`lib/domainEvents.ts:61`, `server.ts:1050`). So a
  second once-only event or a taken confirm key is a transaction that does not happen.
- *One hold per order*: every write to reservations hits all unreleased ones of an order.
- *No `pending` and `canceled` orders*: no code writes these statuses.
- *`maxPerOrder`* is tested for each line and a type may be on several lines: it does not
  bound an order's total, so `Reserve` is not restricted by it.
- *Time* is one clock for all hosts. `Recent` lets a handler use a reading up to
  `HandlerLag` old. Hosts whose clocks differ by more are outside the model.
- *What a webhook payload says of its order* is one of: an order (`Orders`), nothing that is a UUID (`NoOrder`:
  `server.ts:1892`, stored as null and "unmatched"), a UUID of no order (`UnknownOrder`: the foreign key of
  `migrations/0006_payment_events_contract_v1/migration.sql:28` refuses the row). Orders are never deleted. An insert that
  fails for a passing reason leaves nothing behind, and is no step, like a delivery that was lost.
- *The time of an accept* is read before its update (`organizerInvitations.routes.ts:374`), which may wait for the row: `ClaimTimes`
  has every time between the arrival of the request and its commit.
- *The checks of a membership or invitation request are one step.* They are several reads,
  but only the values kept in `request[r]` reach the transaction, and any of them may be stale
  by then anyhow. A token is a number that a resend increases; an accept that knows the token names
  the invitation. Users are their canonical addresses, rows of `Membership` are never reused.
- *No ticket is voided*: no code writes `void`. Refused scans write rows that only reports read.
- *The queue* is modelled from its options (`queue.ts:9`-`14`) and BullMQ's contract: it takes the identifiers
  the code gives, drops a job whose identifier it has, counts failed attempts, and hands a stalled job
  to another worker a bounded number of times. Delays between attempts are left out; a stalled worker
  is dead, so two workers never run one job at the same moment.
- *`PayByWebhook` stands for all providers*, and `Confirm` may follow it; in the code only with the
  payment of the `mock` provider, which CheckoutApi tests. The model allows more.
- *In CheckoutTx `overdue` is a set*, not a clock, and `IdOf` numbers the rows in the order of identifiers that
  `localeCompare`, `sort()` and `orderBy` agree on; `Before` says which locks come before which. Tickets are inserted in the order the items are read in,
  which no code fixes: `TicketLocks` has every order. Waits for unique indexes are left out. Those for the keys of reserve and
  confirm are for transactions that have all their locks. A wait for the index of `Payment` (`materializePayment.ts:41`) is not:
  the other transaction with the same reference goes on to lock ticket types (`applyPaymentEvent.ts:181`) or to insert
  tickets (`server.ts:1023`). Who waits there has locked the row of its order and nothing else, and of the
  transactions that hold locks already only the job asks for such a row, so a cycle through such a wait has the job in it, as
  `DeadlocksNeedTheJobOrTickets` allows. This is an argument about the code, not a result of the model.
- *A layout* is its zones with their capacities and its seats with their zone and whether they are active; canvas,
  access points, labels and hashes are left out. The serializable isolation of the numbering transaction can only make
  it fail more often, and any transaction may fail in the model. Rows are published as they are created.
- *Amounts, names, mails, fees* are left out: no modelled guard reads them.

## 3. What the runs show

| run | specification | instance | result |
|---|---|---|---|
| `checkout` | `FairSpec` | 2 orders, 2 types (quota 1 and 2), 2 providers x 2 references, clock to 3 | 12 properties hold |
| `checkout_reconcile` | `Spec` | the same | violates `RemainingReconciles` |
| `checkout_tx` | `TxFairSpec` | 2 transactions at once, 2 orders, 2 types (quota 2 and 1) | 5 properties hold |
| `webhook` | `WebhookFairSpec` | 2 events, 2 handlers, 2 orders for one unit, 1 failure, clock to 2 | 5 properties hold |
| `webhook_lost` | `WebhookFairSpec` | 1 event, 1 handler, 1 order | violates `FailedAttemptsAreRetried` |
| `api` | `ApiFairSpec` | 2 requests at once, 2 reserve ids, 1 confirm id with 2 references, 2 orders, 1 crash | 3 properties hold |
| `organization` | `OrgSpec` | 2 users, one the owner, 3 membership and 2 invitation rows, 2 requests at once | 3 properties hold |
| `organization_owners` | `OrgSpec` | the same, both users owners | violates `LastOwnerStays` |
| `fulfilment` | `FulfilSpec` | 2 tickets, 1 case, 3 requests at once | 2 properties hold |
| `notifications` | `NotifFairSpec` | 1 order, 1 resend, 3 attempts, 1 stall | 4 properties hold |
| `venues` | `VenueSpec` | 2 organizers, 1 event, 2 versions, 2 layouts, 2 requests at once | 4 properties hold |
| `leases` | `LeaseSpec` | 3 workers, lease of 2, clock to 5, 4 attempts | 2 properties hold |

The type invariants of the modules other than Checkout are theorems (section 4) and are not repeated in the runs.

- `StockConserved`, `HoldMatchesStatus`, `NoOversell`, `TicketsExact`: every unit is on
  sale or with exactly one order, and the status says where. The last two are queries of
  `loadtests/*.sql`, which the repository runs by hand after a load.
- `PaymentsAccounted`, `LateCaseExact`, `AuditMatchesStatus`: the `Payment`,
  `LatePaymentCase` and `DomainEvent` rows agree with what happened to the order.
  The last one is also why the swallowed violation in `emitDomainEvent` is harmless
  today: no open order has a once-only event.
- `PaidWhileHeld` (every step): payment only before the deadline, with the hold in place.
- `ImplementsTicketStock`, `ImplementsOrderSteps`: Checkout implements TicketStock, and OrderSteps with its `status`, under the
  mapping `Claim`. The second has what the first does not see: which status goes with which change of the stock, and that no
  order which is paid, failed, refunded or late goes on to anything else.
- `ReservationSettles`: no order stays reserved past its deadline.
- `PaidByOneEvent`, `OneWorker`, `IgnoredForGood`, `RefusedForGood`: at-most-once
  effects of the webhook and permanence of what it decided. `DeliveryEnds`: the provider gets
  its 2xx, whatever crashes or fails in between, except for two kinds of event: those without payment identity, which end refused, and
  those that name a UUID of no order, which end in `persistence_error` (section 6).
- `OneOrderPerRequest`, `ConfirmedMeansPaid`, `CommitsAreAcknowledged`: the idempotency
  keys do what they are for.
- `InvitationsMatchMembers`, `AcceptedByCurrentToken`, `EndedForGood`: whichever of add, invite,
  resend, revoke, accept and remove overlap, the rows of members and invitations agree, a
  rotated token is void, an accept came before the expiry, and an invitation that ended does not come back.
- `EntriesJustified`: each ticket has as many entries as people it may let in. `HistoryIsComplete`: the audit rows of a
  case chain without gap or fork from `PENDING` to its status, along allowed transitions.
- `RecordedWasSent`, `AutomaticMailOnce`, `CompletedWasMailed`: before it is on record an e-mail may be
  sent twice (a lost answer, a dead worker), after that it is not; and a job never
  reports success for nothing. `JobsEnd`: every queued job completes or fails.
- `ReadingsHold`: what a transaction read under its locks, statuses and free units, is so when it commits.
  `DeadlocksNeedTheJobOrTickets`: the ascending order, "para evitar deadlocks" (`server.ts:762`), keeps reserves and late
  payments from deadlock among themselves; the job, which locks the types of one order after those of another, and payments that
  insert tickets can take part in one. `TransactionsEnd`: every transaction then still ends, by commit or as a victim.
  `TxImplementsTicketStock`, `TxImplementsOrderSteps`: half-done and rolled back transactions included, the stock contract is
  kept, and a commit acts as if the whole transaction had run at that moment.
- `VersionsNumbered`, `LayoutsFit`, `RowsStayWithTheirOrganizer`, `WhatIsShownHangsTogether`: however the lookups, inserts and
  changes of role interleave, numbers are unique and dense, snapshots and bindings fit, every row has one audit row of somebody who
  was allowed to write it for that organizer, and what the GET routes show refers to nothing they hide.
- `LeaseIsExclusive`, `ProcessedForGood`: the conditional update makes up for the clock and the row having been read before.

### Bounds
Each is a constant. `MaxQty` (units of a type per order), `Quota`, `Refs`,
`Providers`, `Orders` size the data: two orders are the fewest that can compete for a unit or a
reference, quotas of 1 and 2 with carts of up to 2 make both refusal and sharing happen.
`Horizon` stops the clock; with `ReservationTTL` 1 a horizon of 3 has a reservation made
late and still expiring. `HandlerLag` 1 lets a stale reading straddle a deadline. `MaxFailures`,
`MaxCrashes` bound failures; `Handlers` and `Requests` the concurrency (two suffice
for every race between two requests), `Events`, `ReserveIds`, `ConfirmIds` the identifiers.
`MembershipIds` has one row more than there are users, so that a member can be removed and come
back; `MaxRotations` 1 and `InvitationTTL` 1 with a `Horizon` of 2 let a token be
rotated, expire and be accepted in any order. `Orders` in `CheckoutApi` has one identifier per reserve id, so that a reserve is never
held up for want of one; one confirm id suffices for two overlapping confirms of different payloads, since ids do not
interact but through their orders. In `checkout_tx` two `Workers` are one wait and one holder, which has every deadlock of two
transactions (longer cycles are not explored); two types are the fewest that can be locked in two orders, and quotas of 2 and 1 with carts of one
unit each let one type be short. In `venues` two versions are the fewest that can be numbered at once, a `MaxNumber` of 3 leaves
room for gaps, and of the two layouts one has a seat in a zone that it lacks; with the event of one organizer and the venue of either,
a layout of the wrong one is there to be taken. In `leases` three workers are one that overruns and two that compete, and
the clock has time for two leases in a row.
`organization` uses symmetry of rows and requests, with invariants and step properties only.
`Requests` in `fulfilment` is 3, so that one waits while two run; tickets and requests are symmetric. In
`notifications` orders do not interact, so one is enough; `MaxAttempts` is 5 in the code, and 3 has a first, a
middle and a last attempt; one stall is the queue's default and a second one fails the job; one resend
before, during or after the automatic job has every overlap of two jobs.
Deadlock is not checked: with the clock at its horizon and all identifiers used, nothing is left to happen.

### Fairness
- `WF(Tick)`, `WF(ReleaseExpired(now))`: `docs/adr/0003-stock-reservas.md:5` has the job run
  periodically. Nothing is assumed of clients or providers in `ReservationSettles`.
- `WF(Handle(h))`: a request that was received runs on unless it crashes.
- `SF(Deliver(e))` while unanswered: ADR-0005 takes providers to deliver at least once. It is strong
  because handlers may be busy in between.
- `WF(Work(o, k))`: workers run; a waiting job is taken and an attempt goes on. Nothing is assumed
  of the provider, which may refuse for ever, or of the API.
- `SF(Grant(w))`, `WF(Commit(w))`, `WF(BreakDeadlock)`: PostgreSQL queues those who wait for a lock, so that it is granted to
  them in turn; connections that live go on; deadlocks are detected. Nothing is assumed of `Fail`.
- `SF(RetryReserve)`, `SF(RetryConfirm)`: a client without an answer retries. Needed only by
  `CommitsAreAcknowledged`, which is about such clients.

## 4. What is proved

Checked by TLAPS, for any types, quotas, providers, references and clock bounds, every finite
set of orders, and any number of users, rows, tickets, cases, overlapping requests and open transactions:

| module | theorem | states |
|---|---|---|
| `CheckoutProofs` | `TypeCorrect` | `Spec => []TypeOK` |
| | `StockInvariant` | `Spec => []StockInv`, the inductive invariant |
| | `StockIsConserved`, `StatusTellsHold` | its two conjuncts |
| | `TicketsAreExact`, `NeverOversold` | consequences with the tickets |
| | `PaidOnlyWhileHeld` | the action property |
| | `CheckoutImplementsStock` | `Spec => ImplementsTicketStock` |
| | `CheckoutImplementsSteps` | `Spec => ImplementsOrderSteps` |
| | `AuditIsTrue` | `Spec => []AuditMatchesStatus` |
| | `OnceOnlyEventsAreNew` | an open order has none of the once-only events |
| | `MoneyIsAccounted` | `Spec => []PaymentsAccounted` |
| | `LateCasesAreExact` | `Spec => []LateCaseExact` |
| `OrganizationProofs` | `OrgTypeCorrect` | `OrgSpec => []OrgTypeOK` |
| | `MembersMatchInvitations` | `OrgSpec => []InvitationsMatchMembers` |
| | `EndedIsForGood` | `OrgSpec => EndedForGood` |
| | `AcceptedByTheTokenInForce` | `OrgSpec => AcceptedByCurrentToken` |
| `OperationsProofs` | `FulfilTypeCorrect` | `FulfilSpec => []FulfilTypeOK` |
| | `EntriesAreJustified` | `FulfilSpec => []EntriesJustified` |
| | `OverrideNeverRuns` | no override is ever recorded |
| | `HistoriesAreComplete` | `FulfilSpec => []HistoryIsComplete` |
| | `MailInvariant` | `NotifSpec => []MailInv`, the inductive invariant |
| | `NotifTypeCorrect` | `NotifSpec => []NotifTypeOK` |
| | `RecordsAreTrue` | `NotifSpec => []RecordedWasSent` |
| | `CompletedJobsMailed` | `NotifSpec => []CompletedWasMailed` |
| | `AutomaticMailIsOnce` | `NotifSpec => AutomaticMailOnce` |
| | `LeaseInvariant` | `LeaseSpec => []LeaseInv`, the inductive invariant |
| | `OneWorkerInCharge` | `LeaseSpec => []LeaseIsExclusive` |
| | `ProcessedStays` | `LeaseSpec => ProcessedForGood` |
| `WebhookProofs` | `WebhookRefinesCheckout` | `WebhookSpec => Spec` |
| | `WebhookTypeCorrect` | `WebhookSpec => []WebhookTypeOK` |
| | `OneWorkerPerEvent` | `WebhookSpec => []OneWorker` |
| | `IgnoredStaysRight` | `WebhookSpec => []IgnoredForGood` |
| | `RefusalsStayTrue` | `WebhookSpec => []RefusedForGood` |
| | `EffectsOncePerCharge` | `WebhookSpec => []PaidByOneEvent` |
| `ApiProofs` | `RequestsRefineCheckout` | `ApiSpec => Spec` |
| | `ApiTypeCorrect` | `ApiSpec => []ApiTypeOK` |
| | `ReserveIsIdempotent` | `ApiSpec => []OneOrderPerRequest` |
| | `ConfirmIsTruthful` | `ApiSpec => []ConfirmedMeansPaid` |
| `TxProofs` | `TxInvariant` | `TxSpec => []TxInv`, the inductive invariant |
| | `TxTypeCorrect` | `TxSpec => []TxTypeOK` |
| | `ReadingsAreKept` | `TxSpec => []ReadingsHold` |
| | `DeadlocksExplained` | `TxSpec => []DeadlocksNeedTheJobOrTickets` |
| | `TxImplements` | `TxSpec => TxImplementsTicketStock` |
| | `TxImplementsSteps` | `TxSpec => TxImplementsOrderSteps` |
| `VenueProofs` | `VenueInvariant` | `VenueSpec => []VenueInv`, the inductive invariant |
| | `VenueTypeCorrect` | `VenueSpec => []VenueTypeOK` |
| | `NumbersAreRight` | `VenueSpec => []VersionsNumbered` |
| | `LayoutsAlwaysFit` | `VenueSpec => []LayoutsFit` |
| | `RowsAreTheirOrganizers` | `VenueSpec => []RowsStayWithTheirOrganizer` |
| | `ShownHangsTogether` | `VenueSpec => []WhatIsShownHangsTogether` |

*Stock.* `StockConserved` is not inductive alone. `ReleaseExpired` and `ApplyPaidLate` give back
units of unreleased holds; that each unit is then counted once needs to know
which orders still hold theirs, and that is `HoldMatchesStatus`. It in turn needs that an expired
order's deadline is over, or an in-time payment could pay an order whose units are back on sale.
`StockInv` is `TypeOK`, `HoldMatchesStatus` and `StockConserved` together. The
arithmetic rests on lemmas about `Units`: units of disjoint sets of orders add up, those of
one order are its cart, and they depend only on the carts of the orders counted.

*Payments.* `PaymentsAccounted` counts; `ChargedOnce` says the same without counting (a payment's
order was charged, a charged order has exactly one payment) and is kept by every step, given that the status
decides who may still be charged. `CaseInv` adds to `LateCaseExact` that a case names an order that
exists; a payment of an open order then has no case yet (`NewPaymentNewCase`).

*Steps of orders.* Each transaction of Checkout is one of OrderSteps' actions: what it does to the holds was shown for
TicketStock (`ReserveTakes`, `PaidSells`, `ReleaseReturns`), and `HoldMatchesStatus` makes the rest fit: an order that expires holds all
its units, and one that is paid in time is still `reserved`. One kind of step is a stutter, a failure reported for an expired order.

*Locks.* `TxInv` says of each open transaction (`Sound`) that what it has read is locked and still so (`ReadsAreLocked`), that each status
it will write follows from the one it read (`WritesFollowReads`), that it has changed only types it has locked
(`ChangesAreLocked`), by its cart as far as it has got (`Reserves`, `ReturnsAll`), and that the locks it still
wants come after those it has (`InOrder`); of two transactions that no locks of theirs conflict (`Apart`); and of the rows that the
reservations agree with the status (`ClaimsMatch`). A commit then changes nothing another transaction has read, since the locks are its own
(`OthersStaySound`). `ReadingsHold` is part of it. For deadlocks, a transaction that waits for another is below it in the order of rows
(`WaitingIsBelow`), unless one of them is the job or inserts tickets; of finitely many transactions one is highest, so not all
wait (`OneIsHighest`, since strict inclusion of finite sets is well-founded). For the refinements, nothing is seen of
a transaction before it commits (`UncommittedIsUnseen`), and what it then installs is one step: a reservation
(`ReserveIsOrderStep`), one order settled by a payment (`PaymentIsOrderStep`), or a set of orders expired (`JobIsOrderStep`; the empty set for
a payment that found its order settled).

*Venues.* Rows are inserted and never changed, which is `RowsGrow`; roles do change, but a request keeps the one that it read. So what a
request has checked, `Checked`, stays so whatever other requests insert (`ChecksStay`), and the organizer of a row stays
the same (`OwnersStay`). `VenueInv` has with it that rows refer to rows that exist (`RowsExist`). Each insert then keeps numbers,
layouts and owners as they should be, because it tests, or has in `Checked`, what is needed: the unique index for the number, the copy of the version for the
snapshot, the snapshot's zones and seats for the binding, and its own audit row (`OneMoreAudited`). That what is shown hangs together follows from the
rows alone, and from the capabilities that the GET routes ask for all going to the same roles (`ViewsGoTogether`).

*Organization.* `OrgTypeOK` is not inductive: a resend of a row that does not exist
would make one up, so `ResentExists` goes with it. `InvitationsMatchMembers` needs `AcceptsTheirOwn`,
that an accept under way is the invited user's: it was checked when the request began, and addresses do not
change (`EmailsStay`). The two action properties follow from these and from what each
transaction tests again.

*Fulfilment.* `ScanInv`: a request that scans holds the row of its ticket, and past validation the ticket is
still unused; so what `CheckIn` writes is the first entry. `CaseInv`: a case without payment has no
history, and a resolution under way was allowed from what it read, so that when the update finds this
unchanged the story grows by an allowed step (`StoryGrows`).

*Webhook and requests.* Both modules refine Checkout with the same variables: every step of theirs is a step of Checkout
or leaves its rows alone (`HookStepIsCheckoutStep`, `ApiStepIsCheckoutStep`). So all theorems of `CheckoutProofs`
hold of them, for any deliveries, retries and crashes, and their own invariants can lean on Checkout's.
`HookInv` adds to the types and `OneWorker` that a stored event does not name an unknown order, as the foreign key has it, and that the
orders which events name exist; so what a handler applies, ignores or refuses is about an order that exists, or names none. That a settled
status and a recorded payment stay (`StatusesStay`, `PaymentsStay`) then gives `IgnoredInv`, and `RefusalsTrue`, which also covers a refusal
that is caught and not yet recorded. `PaidInv` is about the one step in which a handler applies a paid event: before it the order had no
payment (`ChargedOnce`), so no other event is on record for it. `ApiWhole` has, beside Checkout's invariants, that each order has
one key (`KeyedOrders`), that a key of confirm is committed with its payment (`KeyedPayments`), and that a request about to
answer knows what its key says (`RequestsKnow`).

*Notifications.* `MailInv` says per job what its state tells of the order, the e-mails and the records: between `sending` and
`recording` one e-mail more has left than is on record, and an automatic job that is sending has nothing of its own on record yet.

*Leases.* `LeaseInv`: as long as nobody overran, a worker within its lease is the one whose lease the row carries. Two such workers
would both have set it; and a claim needs the lease in the row to be over for its clock, which is never ahead.

The assumptions are `CartsAssumption` (finitely many orders, `MaxQty` a natural number),
`CheckoutAssumption`, `WebhookAssumption`, `ApiAssumption`, `OrganizationAssumption`, `FulfilmentAssumption`,
`NotificationsAssumption`, `LeaseAssumption`, `TxAssumption` (finitely many workers, distinct identifiers) and `VenueAssumption` (types and distinctness of the constants), all evaluated by the runs.

## 5. What is only model-checked

`ReservationSettles`, `DeliveryEnds`, `CommitsAreAcknowledged`, `JobsEnd` and `TransactionsEnd`: liveness under fairness is out of
the prover's reach, as is anything with `ENABLED`. Every other property of a passing run is a theorem of section 4. The three properties that
the code violates are left to the runs that violate them.

## 6. Where code and documents disagree

1. **Units of failed and refunded orders stay off sale.** `migrations/0011_ticket_type_remaining/migration.sql:2`
   says `remaining = quota - active_reservations - paid_tickets` and that stock is
   restored at TTL release. A failed or refunded webhook leaves the reservations unreleased
   (`applyPaymentEvent.ts:296`-`334`) and the job takes `reserved` orders only. Run `checkout_reconcile`.
2. **A failed first attempt is never retried.** ADR-0005 says failed attempts remain
   retryable. The event row is committed before it is applied (`server.ts:1899`), a later delivery is
   answered as a duplicate, and an exception is itself answered with success
   (`server.ts:1935`-`1959`). Run `webhook_lost`.

3. **The last owner can be removed.** `server.ts:550` refuses with "No se puede remover el último
   owner", and `apps/api/src/authz/settings.lifecycle.integration.test.ts:236` tests "last owner blocked". The owners
   are counted before the transaction that removes one (`server.ts:548`): two owners who remove each other at
   the same time leave the organizer without any. A second owner comes from the seed
   (`apps/api/prisma/seed.ts:33`, run with another owner's address), or as in that test. Run `organization_owners`.

Not a finding of a run, but a theorem: `OverrideNeverRuns`. A scan with `allowOverride` of a used ticket is refused by
`validateTicketRecord` (`server.ts:245`) before the override is looked at, and under the row lock the
second read cannot differ from the first; the branch at `server.ts:1181` never runs, and
`manual_override_entries_total`, on which `docs/observability/alerts.md` builds an alert, stays at zero.

An e-mail may be lost: when the API dies between confirm's commit and the queue, a
replay of the request is answered before it would queue it, and orders paid by webhook queue none. No
document promises otherwise, so no property forbids it.

The webhook model also has a delivery that overlaps the first one being answered 200 before the
first records its 422; no property forbids it, since nothing documents the order of the two.

Other observations, none of them against a document:
- `server.ts:1899`: an event that names a UUID of no order (an order of another environment, say) violates the foreign key of
  `payment_events.orderId`. The error is counted as `persistence_error` and thrown (`server.ts:1995`-`1998`), so that the provider gets a 5xx and
  delivers again for as long as it cares to, and no row tells of the event. An id that is no UUID is stored, marked "unmatched" and answered with success.
  No document says which of the two is meant for an unknown order, so `DeliveryEnds` names the case and no run calls it wrong.
- The event dashboard counts `latePaymentReviewRequired` (`modules/events/dashboard/dashboard.service.ts:127`) and shows it as "Late review"
  (`apps/web/src/pages/EventDashboardPage.tsx:102`). A late payment opens its case without setting the flag
  (`applyPaymentEvent.ts:198`-`206`), no other code under `apps/api/src` sets it, and the resolution clears it (`server.ts:1788`). Nothing
  modelled reads the flag, and it is left out of Fulfilment.
- `webhook-idempotency.ts:95`-`116`: both marks update the row whoever holds its lease, so that a worker whose lease is over can
  put an event another one processed back to `error`, to be claimed again. `LeaseIsExclusive` and `ProcessedForGood` hold up to the first
  such mark only, hence `overrun`. Whoever puts these functions to use should add the lease to the `where` of the marks. The status
  `received`, which the claim also accepts, is written by nothing.
- `releaseExpiredReservations.ts:175`: one interactive transaction for all overdue orders, within Prisma's limit of five seconds. Behind
  a long backlog each run would be rolled back; `ReservationSettles` assumes that runs get done.
- Locks can still be taken in opposite orders (`DeadlocksNeedTheJobOrTickets` names the cases): the victim is answered an error,
  and nothing is lost, except that the webhook answers its exception with success (2 above).
- `venueLayouts.routes.ts:585`: each binding of a zone is checked against the zone's capacity alone; two ticket types bound to one zone
  may add up to more. Disabled seats can be bound.
- `venueLayouts.routes.ts:157` and the like: the role is read before the transaction, so a member who is removed meanwhile still
  gets that one row written. `RowsStayWithTheirOrganizer` is therefore about the role that was read.

## 7. What is left

All modules planned are written: Carts, TicketStock, OrderSteps, Checkout, CheckoutTx, PaymentWebhook, CheckoutApi, Organization, Fulfilment,
Notifications, VenueLayouts with AdminAuthz, ProviderEventLease, and the theorems of section 4. Worth adding:
payments, cases and events in CheckoutTx, so that it refines Checkout itself and not only what they have in common, OrderSteps.

Not modelled: the activity feed (one read-only query), artists, registration, the dashboard (single-row writes or reads), the rate limit (no route uses it), metrics, the seed and
the web application (no state the server depends on).
