--------------------------- MODULE PaymentWebhook ---------------------------
(***************************************************************************)
(* POST /webhooks/payments/:provider around the transactions of Checkout.  *)
(* The provider delivers an event until it is answered with success, and   *)
(* possibly again. A handler stores the event in a statement of its own,   *)
(* applies it in one transaction, and answers; the process may die after   *)
(* any of these, and the transaction may fail. Reserve, confirm, the       *)
(* release job and the clock go on meanwhile.                              *)
(***************************************************************************)
EXTENDS Checkout

CONSTANTS
  Events,       \* (provider, providerEventId) pairs
  Handlers,     \* webhook requests in progress at once
  NoPayment,    \* a payload without providerPaymentId
  NoContent,    \* an event the provider has not produced
  UnknownOrder, \* a UUID in a payload that is the id of no order
  MaxFailures   \* bound: crashes and failed transactions

ASSUME WebhookAssumption ==
  /\ IsFiniteSet(Events)
  /\ NoPayment \notin PaymentIds
  /\ UnknownOrder \notin Orders \cup {NoOrder}
  /\ MaxFailures \in Nat

VARIABLES
  content,   \* what each event says, the same at every delivery
  row,       \* the PaymentEvent row of each event
  handler,   \* where each request is
  answered,  \* the events that got a 2xx answer
  rejected,  \* the events that a delivery could not store: persistence_error
  failures   \* failures so far

hookVars == <<content, row, handler, answered, rejected, failures>>

allVars == <<vars, hookVars>>

Kinds == {"paid", "failed", "refunded", "unsupported"}

(* The payment identity counts in paid events only; what else an event says *)
(* makes no difference if it names no order. NoOrder is an id that is       *)
(* missing or no UUID, which is stored as null.                             *)
Contents ==
  [kind : {"paid"}, order : Orders, payment : PaymentIds \cup {NoPayment}]
    \cup [kind : Kinds \ {"paid"}, order : Orders, payment : {NoPayment}]
    \cup [kind : {"paid"}, order : {NoOrder, UnknownOrder}, payment : {NoPayment}]

Refusals == {"MISSING_PAYMENT_IDENTITY", "PAYMENT_REFERENCE_ALREADY_USED"}

IgnoredReasons == {"unmatched", "terminal_guard", "unsupported_event_type"}

(* stored: the row exists; outcome: "none" until processedAt is set, then  *)
(* "applied" or ignoredReason; processError: the error written, if any.     *)
NoRow == [stored |-> FALSE, outcome |-> "none", processError |-> "none"]

Idle == [at |-> "idle"]

WebhookTypeOK ==
  /\ TypeOK
  /\ content \in [Events -> Contents \cup {NoContent}]
  /\ row \in [Events -> [stored : BOOLEAN,
                         outcome : {"none", "applied"} \cup IgnoredReasons,
                         processError : {"none", "transient"} \cup Refusals]]
  /\ handler \in [Handlers -> {Idle}
                    \cup [at : {"apply", "answer"}, event : Events]
                    \cup [at : {"catch"}, event : Events, error : {"transient"} \cup Refusals]]
  /\ answered \subseteq Events
  /\ rejected \subseteq Events
  /\ failures \in 0..MaxFailures

WebhookInit ==
  /\ Init
  /\ content = [e \in Events |-> NoContent]
  /\ row = [e \in Events |-> NoRow]
  /\ handler = [h \in Handlers |-> Idle]
  /\ answered = {}
  /\ rejected = {}
  /\ failures = 0

-----------------------------------------------------------------------------
(* The provider. *)

(* Something happens at the provider to a charge of an order that exists,   *)
(* or to one whose payload names none, or one that does not exist.          *)
Happen(e, c) ==
  /\ content[e] = NoContent
  /\ c.order \in Orders => status[c.order] # "none"
  /\ content' = [content EXCEPT ![e] = c]
  /\ UNCHANGED <<vars, row, handler, answered, rejected, failures>>

(* Mutant of IsNew: the unique index on (provider, providerEventId) is gone. *)
AlwaysNew(e) == TRUE

IsNew(e) == ~row[e].stored

(* The foreign key of payment_events.orderId, which may be null. *)
OrderReferenceHolds(e) == content[e].order # UnknownOrder

(* A delivery that index and key let in: the row is committed at once.      *)
Store(h, e) ==
  /\ handler[h] = Idle
  /\ content[e] # NoContent
  /\ IsNew(e)
  /\ OrderReferenceHolds(e)
  /\ row' = [row EXCEPT ![e] = [NoRow EXCEPT !.stored = TRUE]]
  /\ handler' = [handler EXCEPT ![h] = [at |-> "apply", event |-> e]]
  /\ UNCHANGED <<vars, content, answered, rejected, failures>>

(* The insert fails on the foreign key, and will at every delivery:         *)
(* persistence_error, nothing is stored, no 2xx answer. An insert that      *)
(* fails for a passing reason is a delivery that did nothing, like a lost   *)
(* one, and is no step here.                                                *)
StoreFails(h, e) ==
  /\ handler[h] = Idle
  /\ content[e] # NoContent
  /\ IsNew(e)
  /\ ~OrderReferenceHolds(e)
  /\ rejected' = rejected \cup {e}
  /\ UNCHANGED <<vars, content, row, handler, answered, failures>>

(* Mutant of Dedupe: only what was processed is answered with success.      *)
DedupeProcessed(h, e) ==
  /\ handler[h] = Idle
  /\ row[e].outcome # "none"
  /\ answered' = answered \cup {e}
  /\ UNCHANGED <<vars, content, row, handler, rejected, failures>>

(* A delivery of an event whose row exists is answered from the row: again  *)
(* 422 if it lacked the payment identity, success in every other case.      *)
Dedupe(h, e) ==
  /\ handler[h] = Idle
  /\ row[e].stored
  /\ ~(row[e].outcome = "none" /\ row[e].processError = "MISSING_PAYMENT_IDENTITY")
  /\ answered' = answered \cup {e}
  /\ UNCHANGED <<vars, content, row, handler, rejected, failures>>

Deliver(e) == \E h \in Handlers : Store(h, e) \/ StoreFails(h, e) \/ Dedupe(h, e)

-----------------------------------------------------------------------------
(* The handler. *)

(* Mutant of MarkProcessed: processedAt is left to a later statement. *)
MarkAfterCommit(h, outcome) ==
  /\ handler' = [handler EXCEPT ![h].at = "answer"]
  /\ UNCHANGED <<row, content, answered, rejected, failures>>

(* markEventProcessed, in the transaction that applies the event. *)
MarkProcessed(h, outcome) ==
  /\ row' = [row EXCEPT ![handler[h].event] =
               [stored |-> TRUE, outcome |-> outcome, processError |-> "none"]]
  /\ handler' = [handler EXCEPT ![h].at = "answer"]
  /\ UNCHANGED <<content, answered, rejected, failures>>

(* applyPaymentEvent when it only marks the row. *)
Ignore(h) ==
  /\ handler[h].at = "apply"
  /\ LET c == content[handler[h].event]
     IN  \/ c.order = NoOrder /\ MarkProcessed(h, "unmatched")
         \/ c.order # NoOrder /\ ~Open(c.order) /\ MarkProcessed(h, "terminal_guard")
         \/ /\ c.order # NoOrder /\ Open(c.order) /\ c.kind = "unsupported"
            /\ MarkProcessed(h, "unsupported_event_type")
  /\ UNCHANGED vars

(* applyPaymentEvent when the event changes the order. *)
Apply(h) ==
  /\ handler[h].at = "apply"
  /\ LET c == content[handler[h].event]
     IN  /\ c.order # NoOrder
         /\ \/ /\ c.kind = "paid" /\ c.payment # NoPayment
               /\ ApplyPaid(c.order, c.payment) \/ ApplyPaidLate(c.order, c.payment)
            \/ c.kind = "failed" /\ ApplyFailed(c.order)
            \/ c.kind = "refunded" /\ ApplyRefunded(c.order)
  /\ MarkProcessed(h, "applied")

(* The transaction throws and rolls back. *)
Throw(h, error) ==
  /\ handler' = [handler EXCEPT ![h] =
                   [at |-> "catch", event |-> handler[h].event, error |-> error]]
  /\ UNCHANGED <<vars, content, row, answered, rejected>>

(* A paid event that names no payment, or another order's. *)
Refuse(h) ==
  /\ handler[h].at = "apply"
  /\ LET c == content[handler[h].event]
     IN  /\ c.order # NoOrder /\ Open(c.order) /\ c.kind = "paid"
         /\ \/ c.payment = NoPayment /\ Throw(h, "MISSING_PAYMENT_IDENTITY")
            \/ /\ c.payment # NoPayment /\ payment[c.payment] \notin {NoOrder, c.order}
               /\ Throw(h, "PAYMENT_REFERENCE_ALREADY_USED")
  /\ UNCHANGED failures

(* Any other exception: a deadlock, a timeout, a lost connection.           *)
FailTransiently(h) ==
  /\ handler[h].at = "apply"
  /\ failures < MaxFailures
  /\ failures' = failures + 1
  /\ Throw(h, "transient")

(* processError is written; a refusal is answered with its 4xx status, any  *)
(* other error with success.                                                *)
RecordError(h) ==
  /\ handler[h].at = "catch"
  /\ row' = [row EXCEPT ![handler[h].event].processError = handler[h].error]
  /\ answered' = IF handler[h].error \in Refusals THEN answered
                 ELSE answered \cup {handler[h].event}
  /\ handler' = [handler EXCEPT ![h] = Idle]
  /\ UNCHANGED <<vars, content, rejected, failures>>

Answer(h) ==
  /\ handler[h].at = "answer"
  /\ answered' = answered \cup {handler[h].event}
  /\ handler' = [handler EXCEPT ![h] = Idle]
  /\ UNCHANGED <<vars, content, row, rejected, failures>>

(* The process dies, or its answer is lost. *)
Crash(h) ==
  /\ handler[h] # Idle
  /\ failures < MaxFailures
  /\ failures' = failures + 1
  /\ handler' = [handler EXCEPT ![h] = Idle]
  /\ UNCHANGED <<vars, content, row, answered, rejected>>

Handle(h) == Ignore(h) \/ Apply(h) \/ Refuse(h) \/ RecordError(h) \/ Answer(h)

(* Everything else that writes the rows of a purchase. *)
CheckoutStep ==
  /\ \/ \E o \in Orders : (\E c \in Carts : Reserve(o, c)) \/ (\E ref \in Refs : Confirm(o, ref))
     \/ ReleaseJob
     \/ Tick
  /\ UNCHANGED hookVars

WebhookNext ==
  \/ CheckoutStep
  \/ \E e \in Events : (\E c \in Contents : Happen(e, c)) \/ Deliver(e)
  \/ \E h \in Handlers : Handle(h) \/ FailTransiently(h) \/ Crash(h)

WebhookSpec == WebhookInit /\ [][WebhookNext]_allVars

(* A request that was received runs on, and the provider keeps delivering   *)
(* an event it got no 2xx for (ADR-0005: delivery is at-least-once).        *)
WebhookFairSpec ==
  /\ WebhookSpec
  /\ \A h \in Handlers : WF_allVars(Handle(h))
  /\ \A e \in Events : SF_allVars(e \notin answered /\ Deliver(e))
-----------------------------------------------------------------------------
(* Properties. *)

Applied(kind) == {e \in Events : row[e].outcome = "applied" /\ content[e].kind = kind}

(* Effects once per charge, whatever is delivered twice or dies midway: an  *)
(* order is paid by at most one event, that event's charge is the Payment   *)
(* row of the order, and a Payment row that confirm did not make has the    *)
(* event it came from marked processed (ADR-0005, exactly-once effects).    *)
PaidByOneEvent ==
  /\ \A e \in Applied("paid") :
       /\ payment[content[e].payment] = content[e].order
       /\ \A f \in Applied("paid") : content[f].order = content[e].order => f = e
  /\ \A p \in PaymentIds : p[1] # Mock /\ payment[p] # NoOrder =>
       \E e \in Applied("paid") : content[e].payment = p /\ content[e].order = payment[p]

(* Only the request that stored an event works on it, so an event is never  *)
(* applied by two requests, and never after an answer was given for good.   *)
OneWorker ==
  \A h \in Handlers : handler[h] # Idle =>
    /\ row[handler[h].event].stored
    /\ \A g \in Handlers : handler[g] # Idle /\ handler[g].event = handler[h].event => g = h
    /\ handler[h].at = "apply" => row[handler[h].event].outcome = "none"

(* An event ignored because the order was settled stays rightly ignored:    *)
(* nothing - the release job, confirm, another event - reopens the order.   *)
IgnoredForGood ==
  \A e \in Events :
    row[e].outcome = "terminal_guard" => status[content[e].order] \in Terminal

(* A refusal recorded for a used reference stays true: the reference is     *)
(* another order's Payment, so no delivery could ever have applied it.      *)
RefusedForGood ==
  \A e \in Events :
    row[e].processError = "PAYMENT_REFERENCE_ALREADY_USED" =>
      payment[content[e].payment] \in Orders \ {content[e].order}

(* The provider can stop delivering: every event ends with a 2xx answer,    *)
(* whatever fails on the way, but for two kinds that no delivery could      *)
(* bring to one: those without the payment identity, which end refused, and *)
(* those of an order that does not exist, which end in persistence_error.   *)
DeliveryEnds ==
  \A e \in Events : content[e] # NoContent ~>
    \/ e \in answered
    \/ row[e].processError = "MISSING_PAYMENT_IDENTITY"
    \/ e \in rejected /\ content[e].order = UnknownOrder

(* docs/adr/ADR-0005-payments-webhook-idempotency.md: failed attempts       *)
(* remain retryable, not permanently deduped. With the provider delivering  *)
(* until it is answered, every event that can be stored is then processed   *)
(* or refused.                                                              *)
FailedAttemptsAreRetried ==
  \A e \in Events : content[e] # NoContent /\ OrderReferenceHolds(e) ~>
    (row[e].outcome # "none" \/ row[e].processError \in Refusals)
=============================================================================
