---------------------------- MODULE WebhookProofs ----------------------------
(***************************************************************************)
(* Theorems about PaymentWebhook, for any number of events, handlers and   *)
(* failures. Each of its steps is one of Checkout's or leaves Checkout's   *)
(* rows alone, so that what was proved of these rows holds here as well.   *)
(***************************************************************************)
EXTENDS PaymentWebhook, CheckoutProofs

Rows == [stored : BOOLEAN, outcome : {"none", "applied"} \cup IgnoredReasons,
         processError : {"none", "transient"} \cup Refusals]

Working == [at : {"apply", "answer"}, event : Events]
Catching == [at : {"catch"}, event : Events, error : {"transient"} \cup Refusals]

(* A handler works on a stored event, a stored event has a content and does *)
(* not name an order that is unknown, and an event about one of Orders is   *)
(* about one that exists.                                                   *)
HookInv ==
  /\ WebhookTypeOK
  /\ OneWorker
  /\ \A e \in Events : ~row[e].stored => row[e] = NoRow
  /\ \A e \in Events : row[e].stored => content[e] # NoContent /\ OrderReferenceHolds(e)
  /\ \A e \in Events : content[e] # NoContent /\ content[e].order \in Orders =>
       status[content[e].order] # "none"

-----------------------------------------------------------------------------
(* Handlers. *)

LEMMA HandlerAt ==
  ASSUME HookInv, NEW h \in Handlers, handler[h] # Idle
  PROVE  LET e == handler[h].event
         IN  /\ handler[h] \in Working \cup Catching
             /\ e \in Events
             /\ row[e] \in Rows /\ row[e].stored
             /\ content[e] \in Contents
             /\ content[e].order \in Orders \cup {NoOrder}
             /\ content[e].payment \in PaymentIds \cup {NoPayment}
<1>1. handler[h] \in Working \cup Catching
  BY DEF HookInv, WebhookTypeOK, Working, Catching
<1>2. handler[h].event \in Events
  BY <1>1 DEF Working, Catching
<1>3. row[handler[h].event] \in Rows /\ row[handler[h].event].stored
  BY <1>2 DEF HookInv, WebhookTypeOK, OneWorker, Rows
<1>4. content[handler[h].event] \in Contents /\ content[handler[h].event].order # UnknownOrder
  BY <1>2, <1>3 DEF HookInv, WebhookTypeOK, OrderReferenceHolds
<1>5. QED
  BY <1>1, <1>2, <1>3, <1>4 DEF Contents

LEMMA HookStepIsCheckoutStep ==
  ASSUME HookInv, [WebhookNext]_allVars
  PROVE  [Next]_vars
<1>1. CASE CheckoutStep
  BY <1>1 DEF CheckoutStep, Next
<1>2. ASSUME NEW h \in Handlers, Apply(h)
      PROVE  Next
  <2> DEFINE c == content[handler[h].event]
  <2>1. handler[h] # Idle
    BY <1>2 DEF Apply, Idle
  <2>2. c.order \in Orders \cup {NoOrder} /\ c.payment \in PaymentIds \cup {NoPayment}
    BY <2>1, HandlerAt
  <2>3. c.order \in Orders
    BY <1>2, <2>2 DEF Apply
  <2>4. \/ /\ c.payment \in PaymentIds
           /\ ApplyPaid(c.order, c.payment) \/ ApplyPaidLate(c.order, c.payment)
        \/ ApplyFailed(c.order)
        \/ ApplyRefunded(c.order)
    BY <1>2, <2>2 DEF Apply
  <2> HIDE DEF c
  <2>5. QED
    BY <2>3, <2>4 DEF Next
<1>3. ASSUME NEW h \in Handlers, Handle(h) \/ FailTransiently(h) \/ Crash(h), ~Apply(h)
      PROVE  UNCHANGED vars
  BY <1>3 DEF Handle, Ignore, Refuse, Throw, RecordError, Answer, FailTransiently, Crash
<1>4. ASSUME NEW e \in Events, (\E c \in Contents : Happen(e, c)) \/ Deliver(e)
      PROVE  UNCHANGED vars
  BY <1>4 DEF Happen, Deliver, Store, StoreFails, Dedupe
<1>5. CASE UNCHANGED allVars
  BY <1>5 DEF allVars
<1>6. QED
  BY <1>1, <1>2, <1>3, <1>4, <1>5 DEF WebhookNext

(* A handler goes on with its event or ends; the rows of other events stay. *)
LEMMA GoingOnKeepsHook ==
  ASSUME HookInv, [Next]_vars, NEW h \in Handlers, handler[h] # Idle,
         NEW s, s = Idle \/ (s \in Working \cup Catching /\ s.event = handler[h].event /\ s.at # "apply"),
         handler' = [handler EXCEPT ![h] = s],
         NEW r \in Rows, r.stored, row' = [row EXCEPT ![handler[h].event] = r],
         content' = content, answered' \subseteq Events, rejected' = rejected,
         failures' \in 0..MaxFailures
  PROVE  HookInv'
<1> DEFINE e == handler[h].event
<1>1. e \in Events /\ row[e].stored /\ content[e] # NoContent /\ OrderReferenceHolds(e)
  <2>1. e \in Events /\ row[e].stored
    BY HandlerAt
  <2>2. QED
    BY <2>1 DEF HookInv
<1>2. TypeOK'
  BY StepKeepsTypes DEF HookInv, WebhookTypeOK
<1>3. /\ row \in [Events -> Rows]
      /\ handler \in [Handlers -> {Idle} \cup Working \cup Catching]
  BY DEF HookInv, WebhookTypeOK, Rows, Working, Catching
<1>4. /\ row' \in [Events -> Rows] /\ row'[e] = r
      /\ \A f \in Events \ {e} : row'[f] = row[f]
  BY <1>1, <1>3
<1>5. /\ handler' \in [Handlers -> {Idle} \cup Working \cup Catching] /\ handler'[h] = s
      /\ \A g \in Handlers \ {h} : handler'[g] = handler[g]
  BY <1>3
<1>6. WebhookTypeOK'
  BY <1>2, <1>4, <1>5 DEF HookInv, WebhookTypeOK, Rows, Working, Catching
<1>7. \A g \in Handlers \ {h} : handler[g] # Idle => handler[g].event \in Events \ {e}
  <2> SUFFICES ASSUME NEW g \in Handlers \ {h}, handler[g] # Idle
               PROVE  handler[g].event \in Events \ {e}
    OBVIOUS
  <2>1. handler[g].event \in Events
    BY HandlerAt
  <2>2. handler[g].event # e
    BY DEF HookInv, OneWorker
  <2>3. QED
    BY <2>1, <2>2
<1>8. OneWorker'
  <2> SUFFICES ASSUME NEW g \in Handlers, handler'[g] # Idle
               PROVE  /\ row'[handler'[g].event].stored
                      /\ \A k \in Handlers : handler'[k] # Idle /\ handler'[k].event = handler'[g].event => k = g
                      /\ handler'[g].at = "apply" => row'[handler'[g].event].outcome = "none"
    BY DEF OneWorker, Idle
  <2>1. CASE g = h
    <3>1. handler'[g] = s /\ s.event = e /\ s.at # "apply"
      BY <1>5, <2>1
    <3>2. row'[e].stored
      BY <1>4
    <3>3. \A k \in Handlers \ {h} : handler'[k] # Idle => handler'[k].event # e
      BY <1>5, <1>7
    <3>4. QED
      BY <2>1, <3>1, <3>2, <3>3
  <2>2. CASE g # h
    <3>1. handler'[g] = handler[g] /\ handler[g].event \in Events \ {e}
      BY <1>5, <1>7, <2>2
    <3>2. row'[handler[g].event] = row[handler[g].event]
      BY <1>4, <3>1
    <3>3. /\ row[handler[g].event].stored
          /\ handler[g].at = "apply" => row[handler[g].event].outcome = "none"
          /\ \A k \in Handlers : handler[k] # Idle /\ handler[k].event = handler[g].event => k = g
      BY <3>1 DEF HookInv, OneWorker
    <3>4. handler'[h] # Idle => handler'[h].event = e
      BY <1>5
    <3>5. QED
      BY <1>5, <3>1, <3>2, <3>3, <3>4
  <2>3. QED
    BY <2>1, <2>2
<1>9. \A f \in Events : ~row'[f].stored => row'[f] = NoRow
  BY <1>4 DEF HookInv
<1>10. \A f \in Events : row'[f].stored => content'[f] # NoContent /\ OrderReferenceHolds(f)'
  BY <1>1, <1>4 DEF HookInv, OrderReferenceHolds
<1>11. ASSUME NEW f \in Events, content[f] # NoContent, content[f].order \in Orders
       PROVE  status'[content[f].order] # "none"
  BY <1>11, StatusesStay DEF HookInv, WebhookTypeOK
<1>12. QED
  BY <1>6, <1>8, <1>9, <1>10, <1>11 DEF HookInv

(* No row or handler changes: another transaction, or a delivery answered   *)
(* from the row.                                                            *)
LEMMA QuietKeepsHook ==
  ASSUME HookInv, [Next]_vars, UNCHANGED <<content, row, handler, failures>>,
         answered' \subseteq Events, rejected' \subseteq Events
  PROVE  HookInv'
<1>1. TypeOK'
  BY StepKeepsTypes DEF HookInv, WebhookTypeOK
<1>2. WebhookTypeOK'
  BY <1>1 DEF HookInv, WebhookTypeOK
<1>3. OneWorker'
  BY DEF HookInv, OneWorker
<1>4. ASSUME NEW f \in Events, content[f] # NoContent, content[f].order \in Orders
      PROVE  status'[content[f].order] # "none"
  BY <1>4, StatusesStay DEF HookInv, WebhookTypeOK
<1>5. QED
  BY <1>2, <1>3, <1>4 DEF HookInv, OrderReferenceHolds

(* The rows of one event after markEventProcessed. *)
LEMMA MarkIsRow ==
  ASSUME HookInv, NEW h \in Handlers, handler[h].at = "apply",
         NEW outcome \in {"applied"} \cup IgnoredReasons, MarkProcessed(h, outcome)
  PROVE  LET r == [stored |-> TRUE, outcome |-> outcome, processError |-> "none"]
             s == [handler[h] EXCEPT !.at = "answer"]
         IN  /\ handler[h] # Idle
             /\ r \in Rows /\ r.stored /\ row' = [row EXCEPT ![handler[h].event] = r]
             /\ s \in Working /\ s.event = handler[h].event /\ s.at = "answer"
             /\ handler' = [handler EXCEPT ![h] = s]
             /\ UNCHANGED <<content, answered, rejected, failures>>
<1> DEFINE s == [handler[h] EXCEPT !.at = "answer"]
<1>1. handler[h] # Idle
  BY DEF Idle
<1>2. handler[h] \in Working
  BY <1>1, HandlerAt DEF Working, Catching
<1>3. s \in Working /\ s.event = handler[h].event /\ s.at = "answer"
  BY <1>2 DEF Working
<1>4. handler' = [handler EXCEPT ![h] = s]
  BY DEF MarkProcessed, HookInv, WebhookTypeOK
<1>5. [stored |-> TRUE, outcome |-> outcome, processError |-> "none"] \in Rows
  BY DEF Rows
<1>6. QED
  BY <1>1, <1>3, <1>4, <1>5 DEF MarkProcessed

LEMMA StepKeepsHook == HookInv /\ [WebhookNext]_allVars => HookInv'
<1> SUFFICES ASSUME HookInv, [WebhookNext]_allVars
             PROVE  HookInv'
  OBVIOUS
<1>0. /\ [Next]_vars
      /\ answered \subseteq Events /\ rejected \subseteq Events /\ failures \in 0..MaxFailures
      /\ row \in [Events -> Rows] /\ content \in [Events -> Contents \cup {NoContent}]
      /\ handler \in [Handlers -> {Idle} \cup Working \cup Catching]
  BY HookStepIsCheckoutStep DEF HookInv, WebhookTypeOK, Rows, Working, Catching
<1>1. CASE CheckoutStep \/ UNCHANGED allVars
  BY <1>0, <1>1, QuietKeepsHook DEF CheckoutStep, hookVars, allVars
<1>2. ASSUME NEW e \in Events, NEW c \in Contents, Happen(e, c)
      PROVE  HookInv'
  <2>1. /\ content[e] = NoContent /\ content' = [content EXCEPT ![e] = c]
        /\ c.order \in Orders => status[c.order] # "none"
        /\ UNCHANGED <<row, handler, answered, rejected, failures>> /\ UNCHANGED vars
    BY <1>2 DEF Happen
  <2>2. TypeOK' /\ status' = status
    BY <1>0, <2>1, StepKeepsTypes DEF HookInv, WebhookTypeOK, vars
  <2>3. WebhookTypeOK'
    BY <2>1, <2>2 DEF HookInv, WebhookTypeOK
  <2>4. OneWorker'
    BY <2>1 DEF HookInv, OneWorker
  <2>5. ASSUME NEW f \in Events
        PROVE  /\ ~row'[f].stored => row'[f] = NoRow
               /\ row'[f].stored => content'[f] # NoContent /\ OrderReferenceHolds(f)'
               /\ content'[f] # NoContent /\ content'[f].order \in Orders =>
                    status'[content'[f].order] # "none"
    <3>1. CASE f = e
      BY <1>0, <2>1, <2>2, <3>1 DEF HookInv, OrderReferenceHolds
    <3>2. CASE f # e
      BY <1>0, <2>1, <2>2, <3>2 DEF HookInv, OrderReferenceHolds
    <3>3. QED
      BY <3>1, <3>2
  <2>6. QED
    BY <2>3, <2>4, <2>5 DEF HookInv
<1>3. ASSUME NEW e \in Events, NEW h \in Handlers, Store(h, e)
      PROVE  HookInv'
  <2> DEFINE r == [NoRow EXCEPT !.stored = TRUE]
             s == [at |-> "apply", event |-> e]
  <2>1. /\ handler[h] = Idle /\ content[e] # NoContent /\ ~row[e].stored /\ OrderReferenceHolds(e)
        /\ row' = [row EXCEPT ![e] = r] /\ handler' = [handler EXCEPT ![h] = s]
        /\ UNCHANGED <<content, answered, rejected, failures>> /\ UNCHANGED vars
    BY <1>3 DEF Store, IsNew
  <2>2. r \in Rows /\ r.stored /\ r.outcome = "none" /\ s \in Working
    BY DEF NoRow, Rows, Working
  <2>3. TypeOK' /\ status' = status
    BY <1>0, <2>1, StepKeepsTypes DEF HookInv, WebhookTypeOK, vars
  <2> HIDE DEF r
  <2>4. /\ row' \in [Events -> Rows] /\ row'[e] = r /\ \A f \in Events \ {e} : row'[f] = row[f]
        /\ handler' \in [Handlers -> {Idle} \cup Working \cup Catching] /\ handler'[h] = s
        /\ \A g \in Handlers \ {h} : handler'[g] = handler[g]
    BY <1>0, <2>1, <2>2
  <2>5. WebhookTypeOK'
    BY <2>1, <2>3, <2>4 DEF HookInv, WebhookTypeOK, Rows, Working, Catching
  <2>6. \A g \in Handlers : handler[g] # Idle => handler[g].event \in Events \ {e}
    <3> SUFFICES ASSUME NEW g \in Handlers, handler[g] # Idle
                 PROVE  handler[g].event \in Events \ {e}
      OBVIOUS
    <3>1. handler[g].event \in Events /\ row[handler[g].event].stored
      BY HandlerAt
    <3>2. QED
      BY <2>1, <3>1
  <2>7. OneWorker'
    <3> SUFFICES ASSUME NEW g \in Handlers, handler'[g] # Idle
                 PROVE  /\ row'[handler'[g].event].stored
                        /\ \A k \in Handlers : handler'[k] # Idle /\ handler'[k].event = handler'[g].event => k = g
                        /\ handler'[g].at = "apply" => row'[handler'[g].event].outcome = "none"
      BY DEF OneWorker, Idle
    <3>1. CASE g = h
      BY <2>2, <2>4, <2>6, <3>1
    <3>2. CASE g # h
      <4>1. handler'[g] = handler[g] /\ handler[g] # Idle /\ handler[g].event \in Events \ {e}
        BY <2>4, <2>6, <3>2
      <4>2. row'[handler[g].event] = row[handler[g].event]
        BY <2>4, <4>1
      <4>3. /\ row[handler[g].event].stored
            /\ handler[g].at = "apply" => row[handler[g].event].outcome = "none"
            /\ \A k \in Handlers : handler[k] # Idle /\ handler[k].event = handler[g].event => k = g
        BY <4>1 DEF HookInv, OneWorker
      <4>4. handler'[h].event = e
        BY <2>4
      <4>5. QED
        BY <2>4, <4>1, <4>2, <4>3, <4>4
    <3>3. QED
      BY <3>1, <3>2
  <2>8. ASSUME NEW f \in Events
        PROVE  /\ ~row'[f].stored => row'[f] = NoRow
               /\ row'[f].stored => content'[f] # NoContent /\ OrderReferenceHolds(f)'
               /\ content'[f] # NoContent /\ content'[f].order \in Orders =>
                    status'[content'[f].order] # "none"
    BY <2>1, <2>2, <2>3, <2>4 DEF HookInv, OrderReferenceHolds
  <2>9. QED
    BY <2>5, <2>7, <2>8 DEF HookInv
<1>4. ASSUME NEW e \in Events, NEW h \in Handlers, StoreFails(h, e) \/ Dedupe(h, e)
      PROVE  HookInv'
  BY <1>0, <1>4, QuietKeepsHook DEF StoreFails, Dedupe
<1>5. ASSUME NEW h \in Handlers, NEW outcome \in {"applied"} \cup IgnoredReasons,
             handler[h].at = "apply", MarkProcessed(h, outcome)
      PROVE  HookInv'
  <2> DEFINE r == [stored |-> TRUE, outcome |-> outcome, processError |-> "none"]
             s == [handler[h] EXCEPT !.at = "answer"]
  <2>1. /\ handler[h] # Idle
        /\ r \in Rows /\ r.stored /\ row' = [row EXCEPT ![handler[h].event] = r]
        /\ s \in Working /\ s.event = handler[h].event /\ s.at = "answer"
        /\ handler' = [handler EXCEPT ![h] = s]
        /\ UNCHANGED <<content, answered, rejected, failures>>
    BY <1>5, MarkIsRow
  <2> HIDE DEF r, s
  <2>2. QED
    BY <1>0, <2>1, GoingOnKeepsHook
<1>6. ASSUME NEW h \in Handlers, Ignore(h) \/ Apply(h)
      PROVE  HookInv'
  <2>1. handler[h].at = "apply" /\ \E outcome \in {"applied"} \cup IgnoredReasons : MarkProcessed(h, outcome)
    BY <1>6 DEF Ignore, Apply, IgnoredReasons
  <2>2. QED
    BY <1>5, <2>1
<1>7. ASSUME NEW h \in Handlers, NEW error \in {"transient"} \cup Refusals,
             handler[h] # Idle, Throw(h, error), failures' \in 0..MaxFailures
      PROVE  HookInv'
  <2> DEFINE s == [at |-> "catch", event |-> handler[h].event, error |-> error]
             r == row[handler[h].event]
  <2>1. handler[h].event \in Events /\ r \in Rows /\ r.stored
    BY <1>7, HandlerAt
  <2>2. s \in Catching /\ s.event = handler[h].event /\ s.at # "apply"
    BY <2>1 DEF Catching
  <2>3. /\ handler' = [handler EXCEPT ![h] = s]
        /\ row' = [row EXCEPT ![handler[h].event] = r]
        /\ content' = content /\ rejected' = rejected /\ answered' \subseteq Events
    BY <1>0, <1>7, <2>1 DEF Throw
  <2> HIDE DEF r, s
  <2>4. QED
    BY <1>0, <1>7, <2>1, <2>2, <2>3, GoingOnKeepsHook
<1>8. ASSUME NEW h \in Handlers, Refuse(h) \/ FailTransiently(h)
      PROVE  HookInv'
  <2>1. handler[h].at = "apply" /\ \E error \in {"transient"} \cup Refusals : Throw(h, error)
    BY <1>8 DEF Refuse, FailTransiently, Refusals
  <2>2. handler[h] # Idle
    BY <2>1 DEF Idle
  <2>3. failures' \in 0..MaxFailures
    BY <1>0, <1>8, WebhookAssumption DEF Refuse, FailTransiently
  <2>4. QED
    BY <1>7, <2>1, <2>2, <2>3
<1>9. ASSUME NEW h \in Handlers, RecordError(h)
      PROVE  HookInv'
  <2> DEFINE e == handler[h].event
             r == [row[e] EXCEPT !.processError = handler[h].error]
  <2>1. handler[h].at = "catch" /\ handler[h] # Idle
    BY <1>9 DEF RecordError, Idle
  <2>2. e \in Events /\ row[e] \in Rows /\ row[e].stored /\ handler[h] \in Catching
    BY <2>1, HandlerAt DEF Working
  <2>3. r \in Rows /\ r.stored
    BY <2>2 DEF Rows, Catching
  <2>4. row' = [row EXCEPT ![e] = r]
    BY <1>0, <1>9, <2>2 DEF RecordError
  <2>5. handler' = [handler EXCEPT ![h] = Idle] /\ UNCHANGED <<content, rejected, failures>>
    BY <1>9 DEF RecordError
  <2>6. answered' \subseteq Events
    BY <1>0, <1>9, <2>2 DEF RecordError
  <2> HIDE DEF r
  <2>7. QED
    BY <1>0, <2>1, <2>3, <2>4, <2>5, <2>6, GoingOnKeepsHook
<1>10. ASSUME NEW h \in Handlers, Answer(h) \/ Crash(h)
       PROVE  HookInv'
  <2> DEFINE r == row[handler[h].event]
  <2>1. handler[h] # Idle
    BY <1>10 DEF Answer, Crash, Idle
  <2>2. handler[h].event \in Events /\ r \in Rows /\ r.stored
    BY <2>1, HandlerAt
  <2>3. row' = [row EXCEPT ![handler[h].event] = r]
    BY <1>0, <1>10, <2>2 DEF Answer, Crash
  <2>4. /\ handler' = [handler EXCEPT ![h] = Idle] /\ content' = content
        /\ answered' \subseteq Events /\ rejected' = rejected /\ failures' \in 0..MaxFailures
    BY <1>0, <1>10, <2>2, WebhookAssumption DEF Answer, Crash
  <2> HIDE DEF r
  <2>5. QED
    BY <1>0, <2>1, <2>2, <2>3, <2>4, GoingOnKeepsHook
<1>11. QED
  BY <1>1, <1>2, <1>3, <1>4, <1>6, <1>8, <1>9, <1>10 DEF WebhookNext, Deliver, Handle

LEMMA HookHolds == WebhookSpec => []HookInv
<1>1. WebhookInit => HookInv
  <2> SUFFICES ASSUME WebhookInit
               PROVE  HookInv
    OBVIOUS
  <2>1. TypeOK
    BY CheckoutAssumption, CartsAssumption
       DEF WebhookInit, Init, TypeOK, OrderStatus, HoldStates, Quantities, NoUnits, NoCase
  <2>2. 0 \in 0..MaxFailures
    BY WebhookAssumption
  <2>3. WebhookTypeOK
    BY <2>1, <2>2 DEF WebhookInit, WebhookTypeOK, NoRow
  <2>4. OneWorker
    BY DEF WebhookInit, OneWorker
  <2>5. QED
    BY <2>3, <2>4 DEF WebhookInit, HookInv, NoRow
<1>2. QED
  BY <1>1, StepKeepsHook, PTL DEF WebhookSpec

(* Every behaviour of the webhook is one of Checkout, seen from its rows.   *)
THEOREM WebhookRefinesCheckout == WebhookSpec => Spec
<1>1. WebhookInit => Init
  BY DEF WebhookInit
<1>2. HookInv /\ [WebhookNext]_allVars => [Next]_vars
  BY HookStepIsCheckoutStep
<1>3. QED
  BY <1>1, <1>2, HookHolds, PTL DEF WebhookSpec, Spec

(* Every reachable state has the types of its rows and handlers. *)
THEOREM WebhookTypeCorrect == WebhookSpec => []WebhookTypeOK
<1>1. HookInv => WebhookTypeOK
  BY DEF HookInv
<1>2. QED
  BY <1>1, HookHolds, PTL

(* For any number of deliveries and handlers, an event is only ever worked  *)
(* on by the request that stored it.                                        *)
THEOREM OneWorkerPerEvent == WebhookSpec => []OneWorker
<1>1. HookInv => OneWorker
  BY DEF HookInv
<1>2. QED
  BY <1>1, HookHolds, PTL

-----------------------------------------------------------------------------
(* Effects. *)

(* The charge is recorded as another order's payment. *)
UsedElsewhere(c) ==
  c.payment \in PaymentIds /\ payment[c.payment] \in Orders /\ payment[c.payment] # c.order

(* A refusal that is about to be recorded is as true as a recorded one.     *)
RefusalsTrue ==
  /\ \A e \in Events :
       row[e].processError = "PAYMENT_REFERENCE_ALREADY_USED" => UsedElsewhere(content[e])
  /\ \A h \in Handlers :
       handler[h].at = "catch" /\ handler[h].error = "PAYMENT_REFERENCE_ALREADY_USED" =>
         UsedElsewhere(content[handler[h].event])

LEMMA IdleIsIdle == Idle.at = "idle"
BY DEF Idle

(* What an event is about, once it is stored, is an order and a payment.    *)
LEMMA StoredContent ==
  ASSUME HookInv, NEW e \in Events, row[e].stored
  PROVE  /\ content[e] \in Contents
         /\ content[e].order \in Orders \cup {NoOrder}
         /\ content[e].payment \in PaymentIds \cup {NoPayment}
         /\ content[e].payment # NoPayment => content[e].order \in Orders
<1>1. content[e] \in Contents /\ content[e].order # UnknownOrder
  BY DEF HookInv, WebhookTypeOK, OrderReferenceHolds
<1>2. QED
  BY <1>1 DEF Contents

LEMMA OutcomeIsStored ==
  ASSUME HookInv, NEW e \in Events, row[e].outcome # "none" \/ row[e].processError # "none"
  PROVE  row[e].stored
BY DEF HookInv, NoRow

(* An event that keeps its content, or has no row yet. *)
LEMMA StoredStays ==
  ASSUME HookInv, [WebhookNext]_allVars, NEW e \in Events, row[e].stored
  PROVE  content'[e] = content[e] /\ row'[e].stored
<1>1. content[e] # NoContent
  BY DEF HookInv
<1>2. row \in [Events -> Rows] /\ content \in [Events -> Contents \cup {NoContent}]
  BY DEF HookInv, WebhookTypeOK, Rows
<1>3. ASSUME NEW f \in Events, NEW c \in Contents, Happen(f, c)
      PROVE  content'[e] = content[e] /\ row' = row
  BY <1>1, <1>2, <1>3 DEF Happen
<1>4. ASSUME NEW f \in Events, NEW h \in Handlers, Store(h, f) \/ StoreFails(h, f) \/ Dedupe(h, f)
      PROVE  content' = content /\ row'[e].stored
  BY <1>2, <1>4 DEF Store, StoreFails, IsNew, Dedupe
<1>5. ASSUME NEW h \in Handlers, NEW outcome, MarkProcessed(h, outcome)
      PROVE  content' = content /\ row'[e].stored
  BY <1>2, <1>5 DEF MarkProcessed
<1>6. ASSUME NEW h \in Handlers, Handle(h) \/ FailTransiently(h) \/ Crash(h)
      PROVE  content' = content /\ row'[e].stored
  BY <1>2, <1>5, <1>6 DEF Handle, Ignore, Apply, Refuse, Throw, RecordError, Answer,
                        FailTransiently, Crash, Rows
<1>7. CASE CheckoutStep \/ UNCHANGED allVars
  BY <1>7 DEF CheckoutStep, hookVars, allVars
<1>8. QED
  BY <1>3, <1>4, <1>6, <1>7 DEF WebhookNext, Deliver

(* What a step does to the row of an event that is stored: nothing, the     *)
(* mark of its handler, or the error of its handler.                        *)
LEMMA RowChanges ==
  ASSUME HookInv, [WebhookNext]_allVars, NEW e \in Events
  PROVE  \/ row'[e] = row[e]
         \/ ~row[e].stored /\ row'[e].outcome = "none" /\ row'[e].processError = "none"
         \/ \E h \in Handlers :
              /\ handler[h].event = e /\ handler[h].at = "apply" /\ handler[h] # Idle
              /\ Ignore(h) \/ Apply(h)
              /\ row'[e].processError = "none"
         \/ \E h \in Handlers :
              /\ handler[h].event = e /\ handler[h].at = "catch" /\ handler[h] # Idle
              /\ row'[e].processError = handler[h].error
              /\ row'[e].outcome = row[e].outcome
<1>1. row \in [Events -> Rows]
  BY DEF HookInv, WebhookTypeOK, Rows
<1>2. ASSUME NEW h \in Handlers, Ignore(h) \/ Apply(h), row'[e] # row[e]
      PROVE  /\ handler[h].event = e /\ handler[h].at = "apply" /\ handler[h] # Idle
             /\ row'[e].processError = "none"
  <2>1. handler[h].at = "apply" /\ \E outcome \in {"applied"} \cup IgnoredReasons : MarkProcessed(h, outcome)
    BY <1>2 DEF Ignore, Apply, IgnoredReasons
  <2>2. QED
    BY <1>1, <1>2, <2>1, IdleIsIdle DEF MarkProcessed
<1>3. ASSUME NEW h \in Handlers, RecordError(h), row'[e] # row[e]
      PROVE  /\ handler[h].event = e /\ handler[h].at = "catch" /\ handler[h] # Idle
             /\ row'[e].processError = handler[h].error
             /\ row'[e].outcome = row[e].outcome
  <2>1. /\ row' = [row EXCEPT ![handler[h].event].processError = handler[h].error]
        /\ handler[h].at = "catch"
    BY <1>3 DEF RecordError
  <2>2. handler[h].event = e
    BY <1>1, <1>3, <2>1
  <2>3. row'[e] = [row[e] EXCEPT !.processError = handler[h].error] /\ row[e] \in Rows
    BY <1>1, <2>1, <2>2
  <2>4. QED
    BY <2>1, <2>2, <2>3, IdleIsIdle DEF Rows
<1>4. ASSUME NEW h \in Handlers, Refuse(h) \/ Answer(h) \/ FailTransiently(h) \/ Crash(h)
      PROVE  row' = row
  BY <1>4 DEF Refuse, Throw, Answer, FailTransiently, Crash
<1>5. ASSUME NEW f \in Events, NEW h \in Handlers, Store(h, f)
      PROVE  \/ row'[e] = row[e]
             \/ ~row[e].stored /\ row'[e].outcome = "none" /\ row'[e].processError = "none"
  <2> DEFINE r == [NoRow EXCEPT !.stored = TRUE]
  <2>1. row' = [row EXCEPT ![f] = r] /\ ~row[f].stored
    BY <1>5 DEF Store, IsNew
  <2>2. r.outcome = "none" /\ r.processError = "none"
    BY DEF NoRow
  <2> HIDE DEF r
  <2>3. row'[e] = IF e = f THEN r ELSE row[e]
    BY <1>1, <2>1
  <2>4. QED
    BY <2>1, <2>2, <2>3
<1>6. ASSUME NEW f \in Events, NEW c, Happen(f, c) \/ StoreFails(c, f) \/ Dedupe(c, f)
      PROVE  row' = row
  BY <1>6 DEF Happen, StoreFails, Dedupe
<1>7. CASE CheckoutStep \/ UNCHANGED allVars
  BY <1>7 DEF CheckoutStep, hookVars, allVars
<1>8. ASSUME NEW h \in Handlers, Handle(h) \/ FailTransiently(h) \/ Crash(h),
             row'[e] # row[e]
      PROVE  \/ /\ handler[h].event = e /\ handler[h].at = "apply" /\ handler[h] # Idle
                /\ Ignore(h) \/ Apply(h)
                /\ row'[e].processError = "none"
             \/ /\ handler[h].event = e /\ handler[h].at = "catch" /\ handler[h] # Idle
                /\ row'[e].processError = handler[h].error
                /\ row'[e].outcome = row[e].outcome
  <2>1. Ignore(h) \/ Apply(h) \/ RecordError(h)
    BY <1>4, <1>8 DEF Handle
  <2>2. QED
    BY <1>2, <1>3, <1>8, <2>1
<1>9. ASSUME NEW f \in Events, (\E c \in Contents : Happen(f, c)) \/ Deliver(f)
      PROVE  \/ row'[e] = row[e]
             \/ ~row[e].stored /\ row'[e].outcome = "none" /\ row'[e].processError = "none"
  <2>1. (\E c : Happen(f, c) \/ StoreFails(c, f) \/ Dedupe(c, f)) \/ \E h \in Handlers : Store(h, f)
    BY <1>9 DEF Deliver
  <2>2. QED
    BY <1>5, <1>6, <2>1
<1>10. QED
  BY <1>7, <1>8, <1>9 DEF WebhookNext

(* IgnoredForGood is about orders that exist. *)
IgnoredInv ==
  \A e \in Events : row[e].outcome = "terminal_guard" =>
    content[e].order \in Orders /\ status[content[e].order] \in Terminal

(* An order that was settled when its event was ignored is settled still.   *)
LEMMA StepKeepsIgnored ==
  HookInv /\ IgnoredInv /\ [WebhookNext]_allVars => IgnoredInv'
<1> SUFFICES ASSUME HookInv, IgnoredInv, [WebhookNext]_allVars,
                    NEW e \in Events, row'[e].outcome = "terminal_guard"
             PROVE  content'[e].order \in Orders /\ status'[content'[e].order] \in Terminal
  BY DEF IgnoredInv
<1>1. TypeOK /\ [Next]_vars
  BY HookStepIsCheckoutStep DEF HookInv, WebhookTypeOK
<1>2. ASSUME row[e].stored, content[e].order \in Orders, status[content[e].order] \in Terminal
      PROVE  content'[e].order \in Orders /\ status'[content'[e].order] \in Terminal
  BY <1>1, <1>2, StatusesStay, StoredStays
<1>3. CASE row[e].outcome = "terminal_guard"
  <2>1. row[e].stored
    BY <1>3, OutcomeIsStored
  <2>2. QED
    BY <1>2, <1>3, <2>1 DEF IgnoredInv
<1>4. CASE row[e].outcome # "terminal_guard"
  <2>1. PICK h \in Handlers :
          /\ handler[h].event = e /\ handler[h].at = "apply" /\ handler[h] # Idle
          /\ Ignore(h) \/ Apply(h)
    BY <1>4, RowChanges
  <2>2. row[e].stored /\ row[e] \in Rows
    BY <2>1, HandlerAt
  <2>3. row \in [Events -> Rows]
    BY DEF HookInv, WebhookTypeOK, Rows
  <2>4. content[e].order # NoOrder /\ ~Open(content[e].order)
    BY <2>1, <2>3 DEF Ignore, Apply, MarkProcessed
  <2>5. content[e] # NoContent /\ content[e].order \in Orders
    BY <2>2, <2>4, StoredContent DEF HookInv
  <2>6. status[content[e].order] # "none"
    BY <2>4, <2>5 DEF HookInv
  <2>7. QED
    BY <1>2, <2>2, <2>4, <2>5, <2>6 DEF Open
<1>5. QED
  BY <1>3, <1>4

(* The refusal is about another order's Payment row, and a Payment row      *)
(* stays with its order.                                                    *)
LEMMA UsedElsewhereStays ==
  ASSUME HookInv, [WebhookNext]_allVars, NEW e \in Events, row[e].stored,
         UsedElsewhere(content[e])
  PROVE  UsedElsewhere(content[e])' /\ content'[e] = content[e]
<1>1. TypeOK /\ [Next]_vars
  BY HookStepIsCheckoutStep DEF HookInv, WebhookTypeOK
<1>2. content'[e] = content[e]
  BY StoredStays
<1>3. content[e].payment \in PaymentIds /\ payment[content[e].payment] # NoOrder
  BY CheckoutAssumption DEF UsedElsewhere
<1>4. payment'[content[e].payment] = payment[content[e].payment]
  BY <1>1, <1>3, PaymentsStay
<1>5. QED
  BY <1>2, <1>4 DEF UsedElsewhere

(* A handler starts to refuse an event only in Refuse. *)
LEMMA CatchChanges ==
  ASSUME HookInv, [WebhookNext]_allVars, NEW h \in Handlers, handler'[h].at = "catch",
         handler'[h].error = "PAYMENT_REFERENCE_ALREADY_USED"
  PROVE  \/ handler'[h] = handler[h]
         \/ /\ handler[h] # Idle /\ handler[h].at = "apply"
            /\ handler'[h].event = handler[h].event
            /\ UsedElsewhere(content[handler[h].event])
<1>1. handler \in [Handlers -> {Idle} \cup Working \cup Catching]
  BY DEF HookInv, WebhookTypeOK, Working, Catching
<1>2. ASSUME NEW g \in Handlers, Refuse(g), handler'[h] # handler[h]
      PROVE  /\ handler[h] # Idle /\ handler[h].at = "apply"
             /\ handler'[h].event = handler[h].event
             /\ UsedElsewhere(content[handler[h].event])
  <2> DEFINE c == content[handler[g].event]
  <2>1. /\ handler[g].at = "apply" /\ c.kind = "paid" /\ c.order # NoOrder
        /\ \/ c.payment = NoPayment /\ Throw(g, "MISSING_PAYMENT_IDENTITY")
           \/ /\ c.payment # NoPayment /\ payment[c.payment] \notin {NoOrder, c.order}
              /\ Throw(g, "PAYMENT_REFERENCE_ALREADY_USED")
    BY <1>2 DEF Refuse
  <2>2. handler[g] # Idle
    BY <2>1, IdleIsIdle
  <2>3. c.payment \in PaymentIds \cup {NoPayment}
    BY <2>2, HandlerAt
  <2>4. PICK error \in Refusals :
          handler' = [handler EXCEPT ![g] = [at |-> "catch", event |-> handler[g].event, error |-> error]]
    BY <2>1 DEF Throw, Refusals
  <2>5. g = h /\ handler'[h] = [at |-> "catch", event |-> handler[h].event, error |-> error]
    BY <1>1, <1>2, <2>4
  <2>6. ~Throw(h, "MISSING_PAYMENT_IDENTITY")
    BY <1>1 DEF Throw
  <2>7. c.payment \in PaymentIds /\ payment[c.payment] \in Orders /\ payment[c.payment] # c.order
    BY <2>1, <2>3, <2>5, <2>6 DEF HookInv, WebhookTypeOK, TypeOK
  <2>8. QED
    BY <2>1, <2>2, <2>5, <2>7 DEF UsedElsewhere
<1>3. ASSUME NEW g \in Handlers, NEW outcome, MarkProcessed(g, outcome)
      PROVE  handler'[h] = handler[h]
  <2>1. handler' = [handler EXCEPT ![g].at = "answer"]
    BY <1>3 DEF MarkProcessed
  <2>2. CASE g = h
    BY <1>1, <2>1, <2>2, IdleIsIdle DEF Working, Catching
  <2>3. QED
    BY <1>1, <2>1, <2>2
<1>4. ASSUME NEW g \in Handlers, FailTransiently(g)
      PROVE  handler'[h] = handler[h]
  BY <1>1, <1>4 DEF FailTransiently, Throw
<1>5. ASSUME NEW g \in Handlers, RecordError(g) \/ Answer(g) \/ Crash(g)
      PROVE  handler'[h] = handler[h]
  BY <1>1, <1>5, IdleIsIdle DEF RecordError, Answer, Crash
<1>6. ASSUME NEW g \in Handlers, NEW f \in Events, Store(g, f)
      PROVE  handler'[h] = handler[h]
  BY <1>1, <1>6 DEF Store
<1>7. ASSUME NEW f \in Events, NEW c, Happen(f, c) \/ StoreFails(c, f) \/ Dedupe(c, f)
      PROVE  handler'[h] = handler[h]
  BY <1>7 DEF Happen, StoreFails, Dedupe
<1>8. CASE CheckoutStep \/ UNCHANGED allVars
  BY <1>8 DEF CheckoutStep, hookVars, allVars
<1>9. ASSUME NEW g \in Handlers, Ignore(g) \/ Apply(g)
      PROVE  handler'[h] = handler[h]
  <2>1. \E outcome : MarkProcessed(g, outcome)
    BY <1>9 DEF Ignore, Apply
  <2>2. QED
    BY <1>3, <2>1
<1>10. ASSUME NEW g \in Handlers, Handle(g) \/ FailTransiently(g) \/ Crash(g)
       PROVE  Refuse(g) \/ handler'[h] = handler[h]
  BY <1>4, <1>5, <1>9, <1>10 DEF Handle
<1>11. ASSUME NEW f \in Events, (\E c \in Contents : Happen(f, c)) \/ Deliver(f)
       PROVE  handler'[h] = handler[h]
  <2>1. (\E c : Happen(f, c) \/ StoreFails(c, f) \/ Dedupe(c, f)) \/ \E g \in Handlers : Store(g, f)
    BY <1>11 DEF Deliver
  <2>2. QED
    BY <1>6, <1>7, <2>1
<1>12. QED
  BY <1>2, <1>8, <1>10, <1>11 DEF WebhookNext

LEMMA StepKeepsRefusals ==
  HookInv /\ RefusalsTrue /\ [WebhookNext]_allVars => RefusalsTrue'
<1> SUFFICES ASSUME HookInv, RefusalsTrue, [WebhookNext]_allVars
             PROVE  RefusalsTrue'
  OBVIOUS
<1>1. ASSUME NEW e \in Events, row'[e].processError = "PAYMENT_REFERENCE_ALREADY_USED"
      PROVE  UsedElsewhere(content[e])'
  <2>1. CASE row'[e] = row[e]
    <3>1. row[e].stored /\ UsedElsewhere(content[e])
      BY <1>1, <2>1, OutcomeIsStored DEF RefusalsTrue
    <3>2. QED
      BY <3>1, UsedElsewhereStays
  <2>2. CASE row'[e] # row[e]
    <3>1. PICK h \in Handlers :
            /\ handler[h].event = e /\ handler[h].at = "catch" /\ handler[h] # Idle
            /\ handler[h].error = "PAYMENT_REFERENCE_ALREADY_USED"
      BY <1>1, <2>2, RowChanges
    <3>2. row[e].stored /\ UsedElsewhere(content[e])
      BY <3>1, HandlerAt DEF RefusalsTrue
    <3>3. QED
      BY <3>2, UsedElsewhereStays
  <2>3. QED
    BY <2>1, <2>2
<1>2. ASSUME NEW h \in Handlers, handler'[h].at = "catch",
             handler'[h].error = "PAYMENT_REFERENCE_ALREADY_USED"
      PROVE  UsedElsewhere(content[handler[h].event])'
  <2>1. CASE handler'[h] = handler[h]
    <3>1. UsedElsewhere(content[handler[h].event]) /\ handler[h] # Idle
      BY <1>2, <2>1, IdleIsIdle DEF RefusalsTrue
    <3>2. handler[h].event \in Events /\ row[handler[h].event].stored
      BY <3>1, HandlerAt
    <3>3. UsedElsewhere(content[handler[h].event]) /\ content'[handler[h].event] = content[handler[h].event]
      BY <3>1, <3>2, UsedElsewhereStays
    <3>4. TypeOK /\ [Next]_vars
      BY HookStepIsCheckoutStep DEF HookInv, WebhookTypeOK
    <3>5. payment'[content[handler[h].event].payment] = payment[content[handler[h].event].payment]
      BY <3>3, <3>4, PaymentsStay, CheckoutAssumption DEF UsedElsewhere
    <3>6. QED
      BY <2>1, <3>3, <3>5 DEF UsedElsewhere
  <2>2. CASE handler'[h] # handler[h]
    <3>1. /\ handler[h] # Idle /\ handler'[h].event = handler[h].event
          /\ UsedElsewhere(content[handler[h].event])
      BY <1>2, <2>2, CatchChanges
    <3>2. handler[h].event \in Events /\ row[handler[h].event].stored
      BY <3>1, HandlerAt
    <3>3. content'[handler[h].event] = content[handler[h].event]
      BY <3>1, <3>2, UsedElsewhereStays
    <3>4. TypeOK /\ [Next]_vars
      BY HookStepIsCheckoutStep DEF HookInv, WebhookTypeOK
    <3>5. payment'[content[handler[h].event].payment] = payment[content[handler[h].event].payment]
      BY <3>1, <3>4, PaymentsStay, CheckoutAssumption DEF UsedElsewhere
    <3>6. QED
      BY <3>1, <3>3, <3>5 DEF UsedElsewhere
  <2>3. QED
    BY <2>1, <2>2
<1>3. QED
  BY <1>1, <1>2 DEF RefusalsTrue

-----------------------------------------------------------------------------
(* Money. *)

(* PaidByOneEvent is about orders and payments that exist. *)
PaidInv ==
  /\ PaidByOneEvent
  /\ \A e \in Applied("paid") : content[e].order \in Orders /\ content[e].payment \in PaymentIds

(* The applied paid events, and the one a handler applies. *)
LEMMA AppliedChanges ==
  ASSUME HookInv, [WebhookNext]_allVars
  PROVE  /\ \A e \in Applied("paid") : e \in Applied("paid")' /\ content'[e] = content[e]
         /\ \A e \in Applied("paid")' :
              \/ e \in Applied("paid") /\ content'[e] = content[e]
              \/ \E h \in Handlers :
                   /\ Apply(h) /\ handler[h] # Idle /\ handler[h].event = e
                   /\ content[e].kind = "paid" /\ content'[e] = content[e]
<1>1. ASSUME NEW e \in Applied("paid")
      PROVE  e \in Applied("paid")' /\ content'[e] = content[e]
  <2>1. e \in Events /\ row[e].stored /\ row[e].outcome = "applied"
    BY <1>1, OutcomeIsStored DEF Applied
  <2>2. content'[e] = content[e]
    BY <2>1, StoredStays
  <2>3. \A h \in Handlers : handler[h] # Idle /\ handler[h].event = e => handler[h].at # "apply"
    BY <2>1 DEF HookInv, OneWorker
  <2>4. row'[e].outcome = "applied"
    BY <2>1, <2>3, RowChanges
  <2>5. QED
    BY <1>1, <2>1, <2>2, <2>4 DEF Applied
<1>2. ASSUME NEW e \in Applied("paid")'
      PROVE  \/ e \in Applied("paid") /\ content'[e] = content[e]
             \/ \E h \in Handlers :
                  /\ Apply(h) /\ handler[h] # Idle /\ handler[h].event = e
                  /\ content[e].kind = "paid" /\ content'[e] = content[e]
  <2>1. e \in Events /\ row'[e].outcome = "applied" /\ content'[e].kind = "paid"
    BY <1>2 DEF Applied
  <2>2. CASE row[e].outcome = "applied"
    <3>1. content'[e] = content[e]
      BY <2>1, <2>2, OutcomeIsStored, StoredStays
    <3>2. QED
      BY <2>1, <2>2, <3>1 DEF Applied
  <2>3. CASE row[e].outcome # "applied"
    <3>1. PICK h \in Handlers :
            /\ handler[h].event = e /\ handler[h].at = "apply" /\ handler[h] # Idle
            /\ Ignore(h) \/ Apply(h)
      BY <2>1, <2>3, RowChanges
    <3>2. row \in [Events -> Rows]
      BY DEF HookInv, WebhookTypeOK, Rows
    <3>3. ~Ignore(h)
      BY <2>1, <3>1, <3>2 DEF Ignore, MarkProcessed
    <3>4. content'[e] = content[e]
      BY <3>1, HandlerAt, StoredStays
    <3>5. QED
      BY <2>1, <3>1, <3>3, <3>4
  <2>4. QED
    BY <2>2, <2>3
<1>3. QED
  BY <1>1, <1>2

(* What applying a paid event does to the Payment rows. *)
LEMMA ApplyRecords ==
  ASSUME HookInv, ChargedOnce, NEW h \in Handlers, Apply(h)
  PROVE  LET c == content[handler[h].event]
         IN  /\ handler[h] # Idle
             /\ \/ c.kind # "paid" /\ payment' = payment
                \/ /\ c.kind = "paid" /\ c.order \in Orders /\ c.payment \in PaymentIds
                   /\ payment[c.payment] = NoOrder
                   /\ payment' = [payment EXCEPT ![c.payment] = c.order]
                   /\ \A p \in PaymentIds : payment[p] # c.order
<1> DEFINE c == content[handler[h].event]
<1>1. handler[h] # Idle
  BY IdleIsIdle DEF Apply
<1>2. /\ c.order \in Orders \cup {NoOrder} /\ c.payment \in PaymentIds \cup {NoPayment}
      /\ c.order # NoOrder
  BY <1>1, HandlerAt DEF Apply
<1>3. CASE /\ c.kind = "paid" /\ c.payment # NoPayment
           /\ ApplyPaid(c.order, c.payment) \/ ApplyPaidLate(c.order, c.payment)
  <2>1. c.order \in Orders /\ c.payment \in PaymentIds
    BY <1>2, <1>3
  <2>2. /\ Open(c.order) /\ payment[c.payment] \in {NoOrder, c.order}
        /\ payment' = [payment EXCEPT ![c.payment] = c.order]
    BY <1>3 DEF ApplyPaid, MarkPaid, ApplyPaidLate, MaterializePayment
  <2>3. status[c.order] \notin Charged
    BY <2>2 DEF Open, Terminal, Charged
  <2>4. \A p \in PaymentIds : payment[p] # c.order
    BY <2>1, <2>3, CheckoutAssumption DEF ChargedOnce
  <2>5. QED
    BY <1>1, <1>3, <2>1, <2>2, <2>4
<1>4. CASE c.kind = "failed" /\ ApplyFailed(c.order)
  BY <1>1, <1>4 DEF ApplyFailed
<1>5. CASE c.kind = "refunded" /\ ApplyRefunded(c.order)
  BY <1>1, <1>5 DEF ApplyRefunded
<1>6. QED
  BY <1>3, <1>4, <1>5 DEF Apply

(* Payment rows that confirm does not make come from applied paid events.   *)
LEMMA OnlyApplyRecords ==
  ASSUME HookInv, [WebhookNext]_allVars, \A h \in Handlers : ~Apply(h),
         NEW p \in PaymentIds, p[1] # Mock
  PROVE  payment'[p] = payment[p]
<1>1. payment \in [PaymentIds -> Orders \cup {NoOrder}]
  BY DEF HookInv, WebhookTypeOK, TypeOK
<1>2. ASSUME NEW o \in Orders, NEW ref \in Refs, Confirm(o, ref)
      PROVE  payment'[p] = payment[p]
  <2>1. payment' = [payment EXCEPT ![<<Mock, ref>>] = o]
    BY <1>2 DEF Confirm, MarkPaid, MaterializePayment
  <2>2. p # <<Mock, ref>>
    OBVIOUS
  <2>3. QED
    BY <1>1, <2>1, <2>2
<1>3. CASE CheckoutStep
  BY <1>2, <1>3 DEF CheckoutStep, Reserve, ReleaseJob, ReleaseExpired, Tick
<1>4. ASSUME NEW h \in Handlers, Handle(h) \/ FailTransiently(h) \/ Crash(h)
      PROVE  payment' = payment
  BY <1>4 DEF Handle, Ignore, Refuse, Throw, RecordError, Answer, FailTransiently, Crash, vars
<1>5. ASSUME NEW e \in Events, (\E c \in Contents : Happen(e, c)) \/ Deliver(e)
      PROVE  payment' = payment
  BY <1>5 DEF Happen, Deliver, Store, StoreFails, Dedupe, vars
<1>6. CASE UNCHANGED allVars
  BY <1>6 DEF allVars, vars
<1>7. QED
  BY <1>3, <1>4, <1>5, <1>6 DEF WebhookNext

LEMMA StepKeepsPaid ==
  HookInv /\ ChargedOnce /\ PaidInv /\ [WebhookNext]_allVars => PaidInv'
<1> SUFFICES ASSUME HookInv, ChargedOnce, PaidInv, [WebhookNext]_allVars
             PROVE  PaidInv'
  OBVIOUS
<1>1. /\ TypeOK /\ [Next]_vars
      /\ payment \in [PaymentIds -> Orders \cup {NoOrder}]
  BY HookStepIsCheckoutStep DEF HookInv, WebhookTypeOK, TypeOK
<1>2. ASSUME NEW e \in Applied("paid")
      PROVE  /\ e \in Applied("paid")' /\ content'[e] = content[e]
             /\ content[e].order \in Orders /\ content[e].payment \in PaymentIds
             /\ payment[content[e].payment] = content[e].order
             /\ payment'[content[e].payment] = content[e].order
  <2>1. /\ content[e].order \in Orders /\ content[e].payment \in PaymentIds
        /\ payment[content[e].payment] = content[e].order
    BY DEF PaidInv, PaidByOneEvent
  <2>2. payment'[content[e].payment] = payment[content[e].payment]
    BY <1>1, <2>1, PaymentsStay, CheckoutAssumption
  <2>3. QED
    BY <2>1, <2>2, AppliedChanges
<1>3. CASE \A e \in Applied("paid")' : e \in Applied("paid")
  <2>1. ASSUME NEW p \in PaymentIds, p[1] # Mock, payment'[p] # NoOrder
        PROVE  payment'[p] = payment[p]
    <3>1. CASE \A h \in Handlers : ~Apply(h)
      BY <2>1, <3>1, OnlyApplyRecords
    <3>2. ASSUME NEW h \in Handlers, Apply(h)
          PROVE  payment'[p] = payment[p]
      <4> DEFINE e == handler[h].event
      <4>1. CASE content[e].kind # "paid"
        BY <3>2, <4>1, ApplyRecords
      <4>2. CASE content[e].kind = "paid"
        <5>1. /\ handler[h] # Idle /\ content[e].payment \in PaymentIds /\ content[e].order \in Orders
              /\ payment[content[e].payment] = NoOrder
          BY <3>2, <4>2, ApplyRecords
        <5>2. e \in Events /\ row \in [Events -> Rows] /\ content' = content
          BY <3>2, <5>1, HandlerAt DEF HookInv, WebhookTypeOK, Rows, Apply, MarkProcessed
        <5>3. row'[e].outcome = "applied"
          BY <3>2, <5>2 DEF Apply, MarkProcessed
        <5>4. e \in Applied("paid")
          BY <1>3, <4>2, <5>2, <5>3 DEF Applied
        <5>5. payment[content[e].payment] = content[e].order
          BY <1>2, <5>4
        <5>6. QED
          BY <5>1, <5>5, CheckoutAssumption
      <4>3. QED
        BY <4>1, <4>2
    <3>3. QED
      BY <3>1, <3>2
  <2>2. ASSUME NEW p \in PaymentIds, p[1] # Mock, payment'[p] # NoOrder
        PROVE  \E e \in Applied("paid")' : content'[e].payment = p /\ content'[e].order = payment'[p]
    <3>1. payment'[p] = payment[p]
      BY <2>1, <2>2
    <3>2. PICK e \in Applied("paid") : content[e].payment = p /\ content[e].order = payment[p]
      BY <2>2, <3>1 DEF PaidInv, PaidByOneEvent
    <3>3. e \in Applied("paid")' /\ content'[e] = content[e]
      BY <1>2
    <3>4. QED
      BY <3>1, <3>2, <3>3
  <2>3. \A e, f \in Applied("paid")' : content'[f].order = content'[e].order => f = e
    BY <1>2, <1>3 DEF PaidInv, PaidByOneEvent
  <2>4. \A e \in Applied("paid")' : /\ payment'[content'[e].payment] = content'[e].order
                                    /\ content'[e].order \in Orders /\ content'[e].payment \in PaymentIds
    BY <1>2, <1>3
  <2>5. QED
    BY <2>2, <2>3, <2>4 DEF PaidInv, PaidByOneEvent
<1>4. ASSUME NEW d \in Applied("paid")', d \notin Applied("paid")
      PROVE  PaidInv'
  <2>1. PICK h \in Handlers :
          /\ Apply(h) /\ handler[h] # Idle /\ handler[h].event = d
          /\ content[d].kind = "paid" /\ content'[d] = content[d]
    BY <1>4, AppliedChanges
  <2>2. /\ content[d].order \in Orders /\ content[d].payment \in PaymentIds
        /\ payment[content[d].payment] = NoOrder
        /\ payment' = [payment EXCEPT ![content[d].payment] = content[d].order]
        /\ \A p \in PaymentIds : payment[p] # content[d].order
    BY <2>1, ApplyRecords
  <2>3. payment'[content[d].payment] = content[d].order
    BY <1>1, <2>2
  <2>4. ASSUME NEW e \in Applied("paid")'
        PROVE  e = d \/ e \in Applied("paid")
    <3>1. row \in [Events -> Rows] /\ e \in Events
      BY DEF HookInv, WebhookTypeOK, Rows, Applied
    <3>2. row' = [row EXCEPT ![d] = [stored |-> TRUE, outcome |-> "applied", processError |-> "none"]]
      BY <2>1 DEF Apply, MarkProcessed
    <3>3. content' = content
      BY <2>1 DEF Apply, MarkProcessed
    <3>4. QED
      BY <3>1, <3>2, <3>3 DEF Applied
  <2>5. \A e \in Applied("paid")' : /\ payment'[content'[e].payment] = content'[e].order
                                    /\ content'[e].order \in Orders /\ content'[e].payment \in PaymentIds
    BY <1>2, <2>1, <2>2, <2>3, <2>4
  <2>6. \A e \in Applied("paid") : content[e].order # content[d].order
    BY <1>2, <2>2
  <2>7. \A e, f \in Applied("paid")' : content'[f].order = content'[e].order => f = e
    <3> SUFFICES ASSUME NEW e \in Applied("paid")', NEW f \in Applied("paid")',
                        content'[f].order = content'[e].order
                 PROVE  f = e
      OBVIOUS
    <3>1. CASE e \in Applied("paid") /\ f \in Applied("paid")
      BY <1>2, <3>1 DEF PaidInv, PaidByOneEvent
    <3>2. CASE e = d /\ f \in Applied("paid")
      BY <1>2, <2>1, <2>6, <3>2
    <3>3. CASE f = d /\ e \in Applied("paid")
      BY <1>2, <2>1, <2>6, <3>3
    <3>4. QED
      BY <2>4, <3>1, <3>2, <3>3
  <2>8. ASSUME NEW p \in PaymentIds, p[1] # Mock, payment'[p] # NoOrder
        PROVE  \E e \in Applied("paid")' : content'[e].payment = p /\ content'[e].order = payment'[p]
    <3>1. CASE p = content[d].payment
      BY <1>4, <2>1, <2>3, <3>1
    <3>2. CASE p # content[d].payment
      <4>1. payment'[p] = payment[p]
        BY <1>1, <2>2, <3>2
      <4>2. PICK e \in Applied("paid") : content[e].payment = p /\ content[e].order = payment[p]
        BY <2>8, <4>1 DEF PaidInv, PaidByOneEvent
      <4>3. e \in Applied("paid")' /\ content'[e] = content[e]
        BY <1>2
      <4>4. QED
        BY <4>1, <4>2, <4>3
    <3>3. QED
      BY <3>1, <3>2
  <2>9. QED
    BY <2>5, <2>7, <2>8 DEF PaidInv, PaidByOneEvent
<1>5. QED
  BY <1>3, <1>4

-----------------------------------------------------------------------------
(* Theorems. *)

(* No order that made an event moot is ever reopened, whatever arrives.     *)
THEOREM IgnoredStaysRight == WebhookSpec => []IgnoredForGood
<1>1. WebhookInit => IgnoredInv
  BY DEF WebhookInit, IgnoredInv, NoRow
<1>2. IgnoredInv => IgnoredForGood
  BY DEF IgnoredInv, IgnoredForGood
<1>3. QED
  BY <1>1, <1>2, StepKeepsIgnored, HookHolds, PTL DEF WebhookSpec

(* A charge refused because its reference was used was another order's.     *)
THEOREM RefusalsStayTrue == WebhookSpec => []RefusedForGood
<1>1. WebhookInit => RefusalsTrue
  BY DEF WebhookInit, RefusalsTrue, NoRow, Idle
<1>2. RefusalsTrue => RefusedForGood
  BY DEF RefusalsTrue, UsedElsewhere, RefusedForGood
<1>3. QED
  BY <1>1, <1>2, StepKeepsRefusals, HookHolds, PTL DEF WebhookSpec

(* At-least-once delivery, crashes and failed transactions included, a      *)
(* charge has its effects exactly once.                                     *)
THEOREM EffectsOncePerCharge == WebhookSpec => []PaidByOneEvent
<1>1. WebhookInit => PaidInv
  <2> SUFFICES ASSUME WebhookInit
               PROVE  PaidInv
    OBVIOUS
  <2>1. Applied("paid") = {}
    BY DEF WebhookInit, Applied, NoRow
  <2>2. \A p \in PaymentIds : payment[p] = NoOrder
    BY DEF WebhookInit, Init
  <2>3. QED
    BY <2>1, <2>2 DEF PaidInv, PaidByOneEvent
<1>2. PaidInv => PaidByOneEvent
  BY DEF PaidInv
<1>3. WebhookSpec => []ChargedOnce
  BY WebhookRefinesCheckout, ChargedOnceHolds
<1>4. QED
  BY <1>1, <1>2, <1>3, StepKeepsPaid, HookHolds, PTL DEF WebhookSpec
=============================================================================
