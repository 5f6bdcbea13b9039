----------------------------- MODULE CheckoutApi -----------------------------
(***************************************************************************)
(* POST /checkout/reserve and POST /checkout/confirm around their          *)
(* transactions: the look-up of the client's request id before, the key    *)
(* written inside, the e-mail job queued after. Requests overlap, clients  *)
(* send a request again under the same id, processes die between steps,    *)
(* and webhooks, the release job and the clock go on meanwhile.            *)
(*                                                                         *)
(* In PostgreSQL a statement that fails aborts its transaction. The code   *)
(* catches the violation of the key's unique index, but what it runs next  *)
(* fails and everything rolls back: the request is answered with an error. *)
(***************************************************************************)
EXTENDS Checkout

CONSTANTS
  ReserveIds, ConfirmIds, \* clientRequestIds of either endpoint
  Requests,               \* requests in progress at once
  NoKey,                  \* a confirm id not used yet
  MaxCrashes              \* bound: requests that die midway

ASSUME ApiAssumption ==
  /\ NoKey \notin [order : Orders, ref : Refs]
  /\ MaxCrashes \in Nat

VARIABLES
  reserveKey,   \* ReserveIdempotencyKey: the order of each id
  confirmKey,   \* ConfirmIdempotencyKey: the order and reference of each id
  request,      \* where each request in progress is
  reserveReply, \* the orders that were answered to each reserve id
  confirmReply, \* the order and reference each confirm id was answered success for
  queued,       \* orders with an order_paid_confirmation job
  crashes       \* requests that died

apiVars == <<reserveKey, confirmKey, request, reserveReply, confirmReply, queued, crashes>>

allVars == <<vars, apiVars>>

Confirmations == [order : Orders, ref : Refs]

Idle == [at |-> "idle"]

ApiTypeOK ==
  /\ TypeOK
  /\ reserveKey \in [ReserveIds -> Orders \cup {NoOrder}]
  /\ confirmKey \in [ConfirmIds -> Confirmations \cup {NoKey}]
  /\ request \in [Requests -> {Idle}
                    \cup [at : {"reserve", "find_winner"}, id : ReserveIds]
                    \cup [at : {"answer_reserve"}, id : ReserveIds, order : Orders]
                    \cup [at : {"confirm", "enqueue", "answer_confirm"}, id : ConfirmIds,
                          body : Confirmations]]
  /\ reserveReply \in [ReserveIds -> SUBSET Orders]
  /\ confirmReply \in [ConfirmIds -> SUBSET Confirmations]
  /\ queued \subseteq Orders
  /\ crashes \in 0..MaxCrashes

ApiInit ==
  /\ Init
  /\ reserveKey = [id \in ReserveIds |-> NoOrder]
  /\ confirmKey = [id \in ConfirmIds |-> NoKey]
  /\ request = [r \in Requests |-> Idle]
  /\ reserveReply = [id \in ReserveIds |-> {}]
  /\ confirmReply = [id \in ConfirmIds |-> {}]
  /\ queued = {}
  /\ crashes = 0

Goto(r, to) == request' = [request EXCEPT ![r] = to]

-----------------------------------------------------------------------------
(* POST /checkout/reserve. *)

(* Mutant of BeginReserve: the look-up is left to the race for the key.     *)
BeginWithoutLookup(r, id) ==
  /\ request[r] = Idle
  /\ Goto(r, [at |-> "reserve", id |-> id])
  /\ UNCHANGED <<vars, reserveKey, confirmKey, reserveReply, confirmReply, queued, crashes>>

(* A request arrives and looks its id up: a known id is answered with the   *)
(* order made for it, whatever the request asks for now.                    *)
BeginReserve(r, id) ==
  /\ request[r] = Idle
  /\ IF reserveKey[id] # NoOrder
     THEN /\ reserveReply' = [reserveReply EXCEPT ![id] = @ \cup {reserveKey[id]}]
          /\ UNCHANGED request
     ELSE /\ Goto(r, [at |-> "reserve", id |-> id])
          /\ UNCHANGED reserveReply
  /\ UNCHANGED <<vars, reserveKey, confirmKey, confirmReply, queued, crashes>>

(* Mutant of ReserveKeyFree: the index on clientRequestId is not unique.    *)
ReserveKeyIgnored(id) == TRUE

ReserveKeyFree(id) == reserveKey[id] = NoOrder

(* The transaction commits the order and its key together; the answer may   *)
(* still be lost.                                                           *)
ReserveCommits(r) ==
  /\ request[r].at = "reserve"
  /\ ReserveKeyFree(request[r].id)
  /\ \E o \in Orders, c \in Carts :
       /\ Reserve(o, c)
       /\ reserveKey' = [reserveKey EXCEPT ![request[r].id] = o]
       /\ Goto(r, [at |-> "answer_reserve", id |-> request[r].id, order |-> o])
  /\ UNCHANGED <<confirmKey, reserveReply, confirmReply, queued, crashes>>

(* Not enough stock: the answer is an error, also when the unit went to an  *)
(* overlapping request with the same id.                                    *)
ReserveRefused(r) ==
  /\ request[r].at = "reserve"
  /\ \E c \in Carts : ~EnoughStock(c)
  /\ Goto(r, Idle)
  /\ UNCHANGED <<vars, reserveKey, confirmKey, reserveReply, confirmReply, queued, crashes>>

(* Another request with the same id wrote its key first: this transaction   *)
(* rolls back, and the handler goes to look for the winner's order.         *)
ReserveLosesRace(r) ==
  /\ request[r].at = "reserve"
  /\ ~ReserveKeyFree(request[r].id)
  /\ \E c \in Carts : EnoughStock(c)
  /\ Goto(r, [at |-> "find_winner", id |-> request[r].id])
  /\ UNCHANGED <<vars, reserveKey, confirmKey, reserveReply, confirmReply, queued, crashes>>

FindWinner(r) ==
  /\ request[r].at = "find_winner"
  /\ Goto(r, [at |-> "answer_reserve", id |-> request[r].id,
              order |-> reserveKey[request[r].id]])
  /\ UNCHANGED <<vars, reserveKey, confirmKey, reserveReply, confirmReply, queued, crashes>>

AnswerReserve(r) ==
  /\ request[r].at = "answer_reserve"
  /\ reserveReply' = [reserveReply EXCEPT ![request[r].id] = @ \cup {request[r].order}]
  /\ Goto(r, Idle)
  /\ UNCHANGED <<vars, reserveKey, confirmKey, confirmReply, queued, crashes>>

-----------------------------------------------------------------------------
(* POST /checkout/confirm. *)

Replays(id, body) == confirmKey[id] = body

(* A request arrives and looks its id up: answered at once if the id was    *)
(* used with the same payload, refused with 409 if with another.            *)
BeginConfirm(r, id, body) ==
  /\ request[r] = Idle
  /\ status[body.order] # "none"
  /\ \/ /\ Replays(id, body)
        /\ confirmReply' = [confirmReply EXCEPT ![id] = @ \cup {body}]
        /\ UNCHANGED request
     \/ /\ confirmKey[id] = NoKey
        /\ Goto(r, [at |-> "confirm", id |-> id, body |-> body])
        /\ UNCHANGED confirmReply
  /\ UNCHANGED <<vars, reserveKey, confirmKey, reserveReply, queued, crashes>>

(* Mutant of WriteConfirmKey: the violated index is ignored, as if the      *)
(* transaction could go on.                                                 *)
IgnoreKeyRace(r) ==
  IF confirmKey[request[r].id] = NoKey
  THEN confirmKey' = [confirmKey EXCEPT ![request[r].id] = request[r].body]
  ELSE UNCHANGED confirmKey

WriteConfirmKey(r) ==
  /\ confirmKey[request[r].id] = NoKey
  /\ confirmKey' = [confirmKey EXCEPT ![request[r].id] = request[r].body]

(* The order has the payment the body names, through the mock provider. *)
SamePayment(body) == payment[<<Mock, body.ref>>] = body.order

(* A confirm that writes nothing but its key: the order is already paid, by *)
(* an overlapping confirm or a webhook, or the payment is there already.    *)
ConfirmAgain(body) ==
  /\ \/ status[body.order] = "paid"
     \/ status[body.order] = "reserved" /\ ~IsLate(body.order)
  /\ SamePayment(body)
  /\ UNCHANGED vars

ConfirmCommits(r) ==
  /\ request[r].at = "confirm"
  /\ LET body == request[r].body
     IN  /\ Confirm(body.order, body.ref) \/ ConfirmAgain(body)
         /\ Goto(r, [request[r] EXCEPT
                       !.at = IF status'[body.order] = "paid" THEN "enqueue" ELSE "answer_confirm"])
  /\ WriteConfirmKey(r)
  /\ UNCHANGED <<reserveKey, reserveReply, confirmReply, queued, crashes>>

(* Every other outcome rolls back and is answered with an error: a status   *)
(* that is neither, a late request, a reference in use, a paid order that   *)
(* was not paid with it, an id whose key was written meanwhile.             *)
ConfirmRefused(r) ==
  /\ request[r].at = "confirm"
  /\ LET body == request[r].body
     IN  \/ status[body.order] \notin {"reserved", "paid"}
         \/ status[body.order] = "reserved" /\ IsLate(body.order)
         \/ status[body.order] = "reserved" /\ payment[<<Mock, body.ref>>] \notin {NoOrder, body.order}
         \/ status[body.order] = "paid" /\ ~SamePayment(body)
         \/ confirmKey[request[r].id] # NoKey
  /\ Goto(r, Idle)
  /\ UNCHANGED <<vars, reserveKey, confirmKey, reserveReply, confirmReply, queued, crashes>>

(* The job id is made of the order's id, so the queue holds it once. *)
Enqueue(r) ==
  /\ request[r].at = "enqueue"
  /\ queued' = queued \cup {request[r].body.order}
  /\ Goto(r, [request[r] EXCEPT !.at = "answer_confirm"])
  /\ UNCHANGED <<vars, reserveKey, confirmKey, reserveReply, confirmReply, crashes>>

AnswerConfirm(r) ==
  /\ request[r].at = "answer_confirm"
  /\ confirmReply' = [confirmReply EXCEPT ![request[r].id] = @ \cup {request[r].body}]
  /\ Goto(r, Idle)
  /\ UNCHANGED <<vars, reserveKey, confirmKey, reserveReply, queued, crashes>>

-----------------------------------------------------------------------------
(* The process dies, the answer is lost, or the queue cannot be reached.    *)
Crash(r) ==
  /\ request[r] # Idle
  /\ crashes < MaxCrashes
  /\ crashes' = crashes + 1
  /\ Goto(r, Idle)
  /\ UNCHANGED <<vars, reserveKey, confirmKey, reserveReply, confirmReply, queued>>

Handle(r) ==
  \/ ReserveCommits(r) \/ ReserveRefused(r) \/ ReserveLosesRace(r)
  \/ FindWinner(r) \/ AnswerReserve(r)
  \/ ConfirmCommits(r) \/ ConfirmRefused(r) \/ Enqueue(r) \/ AnswerConfirm(r)

(* What else writes the rows of a purchase. *)
OtherStep ==
  /\ \/ \E o \in Orders :
          \/ \E p \in PaymentIds : ApplyPaid(o, p) \/ ApplyPaidLate(o, p)
          \/ ApplyFailed(o)
          \/ ApplyRefunded(o)
     \/ ReleaseJob
     \/ Tick
  /\ UNCHANGED apiVars

ApiNext ==
  \/ OtherStep
  \/ \E r \in Requests :
       \/ \E id \in ReserveIds : BeginReserve(r, id)
       \/ \E id \in ConfirmIds, body \in Confirmations : BeginConfirm(r, id, body)
       \/ Handle(r)
       \/ Crash(r)

ApiSpec == ApiInit /\ [][ApiNext]_allVars

(* A client that got no answer to a request that took effect sends it again. *)
RetryReserve(id) ==
  /\ reserveKey[id] # NoOrder /\ reserveReply[id] = {}
  /\ \E r \in Requests : BeginReserve(r, id)

RetryConfirm(id) ==
  /\ confirmKey[id] # NoKey /\ confirmReply[id] = {}
  /\ \E r \in Requests : BeginConfirm(r, id, confirmKey[id])

(* A request that was received runs on, and clients retry. *)
ApiFairSpec ==
  /\ ApiSpec
  /\ \A r \in Requests : WF_allVars(Handle(r))
  /\ \A id \in ReserveIds : SF_allVars(RetryReserve(id))
  /\ \A id \in ConfirmIds : SF_allVars(RetryConfirm(id))
-----------------------------------------------------------------------------
(* Properties. *)

(* A reserve request makes at most one order however often it is sent: each *)
(* order there is has the key of one request, and whoever sends that id is  *)
(* answered with that order and no other.                                   *)
OneOrderPerRequest ==
  /\ \A o \in Orders : status[o] # "none" =>
       Cardinality({id \in ReserveIds : reserveKey[id] = o}) = 1
  /\ \A id \in ReserveIds : reserveReply[id] \subseteq {reserveKey[id]}

(* The order and reference a confirm id was answered success for are those  *)
(* of its key, the order is paid, and with that reference: an id is good    *)
(* for one payload, also when two confirms with it overlap, and no success  *)
(* is reported for an order that is not paid.                               *)
ConfirmedMeansPaid ==
  \A id \in ConfirmIds : confirmReply[id] # {} =>
    /\ confirmReply[id] = {confirmKey[id]}
    /\ status[confirmKey[id].order] = "paid"
    /\ payment[<<Mock, confirmKey[id].ref>>] = confirmKey[id].order

(* What took effect under an id is seen by the client: whatever crashes     *)
(* between commit and answer, again and again a time comes when every       *)
(* reserve and confirm that committed has been answered with success. (An   *)
(* answer is never unsaid, so each one is.)                                 *)
CommitsAreAcknowledged ==
  []<>(/\ \A id \in ReserveIds : reserveKey[id] # NoOrder => reserveReply[id] # {}
       /\ \A id \in ConfirmIds : confirmKey[id] # NoKey => confirmReply[id] # {})
=============================================================================
