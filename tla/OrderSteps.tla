----------------------------- MODULE OrderSteps -----------------------------
(***************************************************************************)
(* The life of orders together with their units: which status may follow   *)
(* which, and what each change does to the stock, in one step. Checkout,   *)
(* where a transaction is a step, and CheckoutTx, where it takes a lock at *)
(* a time and may fail, both come down to this.                            *)
(***************************************************************************)
EXTENDS TicketStock

VARIABLE status      \* Order.status

stepVars == <<stockVars, status>>

StepsInit ==
  /\ Init
  /\ status = [o \in Orders |-> "none"]

Becomes(o, new) == status' = [status EXCEPT ![o] = new]

Reserve(o, c) == status[o] = "none" /\ Take(o, c) /\ Becomes(o, "reserved")

PayInTime(o) == status[o] = "reserved" /\ Sell(o) /\ Becomes(o, "paid")

(* What the order still holds goes back; the release job may have been first. *)
PayLate(o) ==
  /\ status[o] \in {"reserved", "expired"}
  /\ Return({p \in {o} : claim[p] = "held"})
  /\ Becomes(o, "paid_no_stock")

(* The units of a failed or refunded order stay where they are. *)
FailPayment(o) == status[o] = "reserved" /\ Becomes(o, "failed") /\ UNCHANGED stockVars

Refund(o) ==
  /\ status[o] \in {"reserved", "expired"}
  /\ Becomes(o, "refunded")
  /\ UNCHANGED stockVars

Expire(S) ==
  /\ \A o \in S : status[o] = "reserved"
  /\ Return(S)
  /\ status' = [o \in Orders |-> IF o \in S THEN "expired" ELSE status[o]]

StepsNext ==
  \/ \E o \in Orders :
       \/ \E c \in Carts : Reserve(o, c)
       \/ PayInTime(o) \/ PayLate(o) \/ FailPayment(o) \/ Refund(o)
  \/ \E S \in SUBSET Orders : Expire(S)

StepsSpec == StepsInit /\ [][StepsNext]_stepVars
=============================================================================
