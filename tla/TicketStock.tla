---------------------------- MODULE TicketStock ----------------------------
(***************************************************************************)
(* What the checkout promises about stock, with nothing said of requests,  *)
(* payments or clocks: an order takes units that are there, and then       *)
(* either keeps them for good or returns all of them, once.                *)
(***************************************************************************)
EXTENDS Carts

CONSTANT Quota       \* units of each ticket type that exist

VARIABLES
  available,  \* units of each type nobody holds
  claim,      \* what each order has on the stock
  amount      \* the units it took

stockVars == <<available, claim, amount>>

Claims == {"free", "held", "sold", "returned"}

StockTypeOK ==
  /\ available \in [TicketTypes -> Nat]
  /\ claim \in [Orders -> Claims]
  /\ amount \in [Orders -> Quantities]

Init ==
  /\ available = Quota
  /\ claim = [o \in Orders |-> "free"]
  /\ amount = [o \in Orders |-> NoUnits]

Take(o, c) ==
  /\ claim[o] = "free"
  /\ \A t \in TicketTypes : c[t] <= available[t]
  /\ available' = [t \in TicketTypes |-> available[t] - c[t]]
  /\ claim' = [claim EXCEPT ![o] = "held"]
  /\ amount' = [amount EXCEPT ![o] = c]

Sell(o) ==
  /\ claim[o] = "held"
  /\ claim' = [claim EXCEPT ![o] = "sold"]
  /\ UNCHANGED <<available, amount>>

Return(S) ==
  /\ \A o \in S : claim[o] = "held"
  /\ available' = [t \in TicketTypes |-> available[t] + UnitCount(amount, S, t)]
  /\ claim' = [o \in Orders |-> IF o \in S THEN "returned" ELSE claim[o]]
  /\ UNCHANGED amount

Next ==
  \/ \E o \in Orders : (\E c \in Carts : Take(o, c)) \/ Sell(o)
  \/ \E S \in SUBSET Orders : Return(S)

Spec == Init /\ [][Next]_stockVars
=============================================================================
