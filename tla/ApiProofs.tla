------------------------------ MODULE ApiProofs ------------------------------
(***************************************************************************)
(* Theorems about CheckoutApi, for any number of requests, request ids and *)
(* crashes. As with the webhook, each of its steps is one of Checkout's or *)
(* leaves Checkout's rows alone.                                           *)
(***************************************************************************)
EXTENDS CheckoutApi, CheckoutProofs

Reserving == [at : {"reserve", "find_winner"}, id : ReserveIds]
Answering == [at : {"answer_reserve"}, id : ReserveIds, order : Orders]
Confirming == [at : {"confirm", "enqueue", "answer_confirm"}, id : ConfirmIds,
               body : Confirmations]

(* The orders there are, the ids they were reserved under, and the answers. *)
KeyedOrders ==
  /\ \A o \in Orders : status[o] # "none" => \E id \in ReserveIds : reserveKey[id] = o
  /\ \A id \in ReserveIds : reserveKey[id] # NoOrder => status[reserveKey[id]] # "none"
  /\ \A i, j \in ReserveIds : reserveKey[i] # NoOrder /\ reserveKey[i] = reserveKey[j] => i = j
  /\ \A id \in ReserveIds : reserveReply[id] \subseteq {reserveKey[id]}

PaidWith(body) == status[body.order] = "paid" /\ payment[<<Mock, body.ref>>] = body.order

(* The same after the step. *)
PaidWithNext(body) == status'[body.order] = "paid" /\ payment'[<<Mock, body.ref>>] = body.order

(* A key is committed with the payment it stands for. *)
KeyedPayments ==
  /\ \A id \in ConfirmIds : confirmKey[id] # NoKey => PaidWith(confirmKey[id])
  /\ \A id \in ConfirmIds : confirmReply[id] \subseteq {confirmKey[id]}

(* What a request is about to answer is what its key says. *)
RequestsKnow ==
  \A r \in Requests :
    /\ request[r].at = "find_winner" => reserveKey[request[r].id] # NoOrder
    /\ request[r].at = "answer_reserve" => request[r].order = reserveKey[request[r].id]
    /\ request[r].at \in {"enqueue", "answer_confirm"} =>
         confirmKey[request[r].id] = request[r].body

ApiInv == ApiTypeOK /\ KeyedOrders /\ KeyedPayments /\ RequestsKnow

-----------------------------------------------------------------------------
(* Steps. *)

LEMMA IdleAt == Idle.at = "idle"
BY DEF Idle

LEMMA RequestTypes ==
  ASSUME ApiTypeOK
  PROVE  /\ TypeOK
         /\ reserveKey \in [ReserveIds -> Orders \cup {NoOrder}]
         /\ confirmKey \in [ConfirmIds -> Confirmations \cup {NoKey}]
         /\ request \in [Requests -> {Idle} \cup Reserving \cup Answering \cup Confirming]
         /\ reserveReply \in [ReserveIds -> SUBSET Orders]
         /\ confirmReply \in [ConfirmIds -> SUBSET Confirmations]
BY DEF ApiTypeOK, Reserving, Answering, Confirming

LEMMA RequestAt ==
  ASSUME ApiTypeOK, NEW r \in Requests
  PROVE  /\ request[r].at \in {"reserve", "find_winner"} => request[r] \in Reserving
         /\ request[r].at = "answer_reserve" => request[r] \in Answering
         /\ request[r].at \in {"confirm", "enqueue", "answer_confirm"} => request[r] \in Confirming
<1>1. request[r] \in {Idle} \cup Reserving \cup Answering \cup Confirming
  BY RequestTypes
<1>2. QED
  BY <1>1, IdleAt DEF Reserving, Answering, Confirming

LEMMA ApiStepIsCheckoutStep ==
  ASSUME ApiTypeOK, [ApiNext]_allVars
  PROVE  [Next]_vars
<1>1. CASE OtherStep
  BY <1>1 DEF OtherStep, Next
<1>2. ASSUME NEW r \in Requests, ReserveCommits(r)
      PROVE  Next
  BY <1>2 DEF ReserveCommits, Next
<1>3. ASSUME NEW r \in Requests, ConfirmCommits(r)
      PROVE  [Next]_vars
  <2>1. request[r] \in Confirming
    BY <1>3, RequestAt DEF ConfirmCommits
  <2>2. request[r].body.order \in Orders /\ request[r].body.ref \in Refs
    BY <2>1 DEF Confirming, Confirmations
  <2>3. Confirm(request[r].body.order, request[r].body.ref) \/ UNCHANGED vars
    BY <1>3 DEF ConfirmCommits, ConfirmAgain
  <2>4. QED
    BY <2>2, <2>3 DEF Next
<1>4. ASSUME NEW r \in Requests, Handle(r) \/ Crash(r), ~ReserveCommits(r), ~ConfirmCommits(r)
      PROVE  UNCHANGED vars
  BY <1>4 DEF Handle, Crash, ReserveRefused, ReserveLosesRace, FindWinner, AnswerReserve,
              ConfirmRefused, Enqueue, AnswerConfirm
<1>5. ASSUME NEW r \in Requests, \/ \E id \in ReserveIds : BeginReserve(r, id)
                                 \/ \E id \in ConfirmIds, body \in Confirmations : BeginConfirm(r, id, body)
      PROVE  UNCHANGED vars
  BY <1>5 DEF BeginReserve, BeginConfirm
<1>6. CASE UNCHANGED allVars
  BY <1>6 DEF allVars
<1>7. QED
  BY <1>1, <1>2, <1>3, <1>4, <1>5, <1>6 DEF ApiNext

(* Only reserve makes an order. *)
LEMMA OnlyReserveCreates ==
  ASSUME TypeOK, NEW o \in Orders, status[o] = "none",
         \/ \E p \in Orders :
              \/ \E ref \in Refs : Confirm(p, ref)
              \/ \E q \in PaymentIds : ApplyPaid(p, q) \/ ApplyPaidLate(p, q)
              \/ ApplyFailed(p) \/ ApplyRefunded(p)
         \/ ReleaseJob
         \/ Tick
         \/ UNCHANGED vars
  PROVE  status'[o] = "none"
<1> USE DEF TypeOK
<1>1. ASSUME NEW p \in Orders, NEW ref \in Refs, Confirm(p, ref)
      PROVE  status'[o] = "none"
  BY <1>1 DEF Confirm, MarkPaid
<1>2. ASSUME NEW p \in Orders, NEW q \in PaymentIds, ApplyPaid(p, q) \/ ApplyPaidLate(p, q)
      PROVE  status'[o] = "none"
  BY <1>2 DEF ApplyPaid, MarkPaid, ApplyPaidLate, Open
<1>3. ASSUME NEW p \in Orders, ApplyFailed(p) \/ ApplyRefunded(p)
      PROVE  status'[o] = "none"
  BY <1>3 DEF ApplyFailed, ApplyRefunded, Open
<1>4. ASSUME NEW jobNow \in Recent, ReleaseExpired(jobNow)
      PROVE  status'[o] = "none"
  BY <1>4 DEF ReleaseExpired, OverdueOrders
<1>5. CASE Tick \/ UNCHANGED vars
  BY <1>5 DEF Tick, vars
<1>6. QED
  BY <1>1, <1>2, <1>3, <1>4, <1>5 DEF ReleaseJob

(* A step that reserves nothing leaves the orders there are. *)
LEMMA OthersCreateNothing ==
  ASSUME ApiTypeOK, [ApiNext]_allVars, \A r \in Requests : ~ReserveCommits(r),
         NEW o \in Orders, status[o] = "none"
  PROVE  status'[o] = "none"
<1>0. TypeOK
  BY RequestTypes
<1>1. CASE OtherStep
  BY <1>0, <1>1, OnlyReserveCreates DEF OtherStep
<1>2. ASSUME NEW r \in Requests, ConfirmCommits(r)
      PROVE  status'[o] = "none"
  <2>1. request[r] \in Confirming
    BY <1>2, RequestAt DEF ConfirmCommits
  <2>2. request[r].body.order \in Orders /\ request[r].body.ref \in Refs
    BY <2>1 DEF Confirming, Confirmations
  <2>3. Confirm(request[r].body.order, request[r].body.ref) \/ UNCHANGED vars
    BY <1>2 DEF ConfirmCommits, ConfirmAgain
  <2>4. QED
    BY <1>0, <2>2, <2>3, OnlyReserveCreates
<1>3. ASSUME NEW r \in Requests, Handle(r) \/ Crash(r), ~ReserveCommits(r), ~ConfirmCommits(r)
      PROVE  UNCHANGED vars
  BY <1>3 DEF Handle, Crash, ReserveRefused, ReserveLosesRace, FindWinner, AnswerReserve,
              ConfirmRefused, Enqueue, AnswerConfirm
<1>4. ASSUME NEW r \in Requests, \/ \E id \in ReserveIds : BeginReserve(r, id)
                                 \/ \E id \in ConfirmIds, body \in Confirmations : BeginConfirm(r, id, body)
      PROVE  UNCHANGED vars
  BY <1>4 DEF BeginReserve, BeginConfirm
<1>5. CASE UNCHANGED allVars
  BY <1>5 DEF allVars, vars
<1>6. UNCHANGED vars => status'[o] = "none"
  BY DEF vars
<1>7. ASSUME NEW r \in Requests, Handle(r) \/ Crash(r)
      PROVE  status'[o] = "none"
  BY <1>2, <1>3, <1>6, <1>7
<1>8. QED
  BY <1>1, <1>4, <1>5, <1>6, <1>7 DEF ApiNext

(* A key is written once. *)
LEMMA KeysStay ==
  ASSUME ApiTypeOK, [ApiNext]_allVars
  PROVE  /\ \A id \in ReserveIds : reserveKey[id] # NoOrder => reserveKey'[id] = reserveKey[id]
         /\ \A id \in ConfirmIds : confirmKey[id] # NoKey => confirmKey'[id] = confirmKey[id]
         /\ reserveKey' = reserveKey \/ \E r \in Requests : ReserveCommits(r)
         /\ confirmKey' = confirmKey \/ \E r \in Requests : ConfirmCommits(r)
<1>0. /\ reserveKey \in [ReserveIds -> Orders \cup {NoOrder}]
      /\ confirmKey \in [ConfirmIds -> Confirmations \cup {NoKey}]
  BY RequestTypes
<1>1. ASSUME NEW r \in Requests, ReserveCommits(r)
      PROVE  /\ confirmKey' = confirmKey
             /\ \A id \in ReserveIds : reserveKey[id] # NoOrder => reserveKey'[id] = reserveKey[id]
  BY <1>0, <1>1 DEF ReserveCommits, ReserveKeyFree
<1>2. ASSUME NEW r \in Requests, ConfirmCommits(r)
      PROVE  /\ reserveKey' = reserveKey
             /\ \A id \in ConfirmIds : confirmKey[id] # NoKey => confirmKey'[id] = confirmKey[id]
  BY <1>0, <1>2 DEF ConfirmCommits, WriteConfirmKey
<1>3. ASSUME NEW r \in Requests, Handle(r) \/ Crash(r), ~ReserveCommits(r), ~ConfirmCommits(r)
      PROVE  reserveKey' = reserveKey /\ confirmKey' = confirmKey
  BY <1>3 DEF Handle, Crash, ReserveRefused, ReserveLosesRace, FindWinner, AnswerReserve,
              ConfirmRefused, Enqueue, AnswerConfirm
<1>4. ASSUME NEW r \in Requests, \/ \E id \in ReserveIds : BeginReserve(r, id)
                                 \/ \E id \in ConfirmIds, body \in Confirmations : BeginConfirm(r, id, body)
      PROVE  reserveKey' = reserveKey /\ confirmKey' = confirmKey
  BY <1>4 DEF BeginReserve, BeginConfirm
<1>5. CASE OtherStep \/ UNCHANGED allVars
  BY <1>5 DEF OtherStep, apiVars, allVars
<1>6. QED
  BY <1>1, <1>2, <1>3, <1>4, <1>5 DEF ApiNext

(* A request moves on and knows what it answers; the others know it still.  *)
LEMMA MoveKeepsKnowing ==
  ASSUME ApiTypeOK, RequestsKnow, [ApiNext]_allVars, NEW r \in Requests,
         NEW to \in {Idle} \cup Reserving \cup Answering \cup Confirming, Goto(r, to),
         to.at = "find_winner" => reserveKey'[to.id] # NoOrder,
         to.at = "answer_reserve" => to.order = reserveKey'[to.id],
         to.at \in {"enqueue", "answer_confirm"} => confirmKey'[to.id] = to.body
  PROVE  /\ request' \in [Requests -> {Idle} \cup Reserving \cup Answering \cup Confirming]
         /\ RequestsKnow'
<1>1. request \in [Requests -> {Idle} \cup Reserving \cup Answering \cup Confirming]
  BY RequestTypes
<1>2. /\ request' \in [Requests -> {Idle} \cup Reserving \cup Answering \cup Confirming]
      /\ request'[r] = to /\ \A g \in Requests \ {r} : request'[g] = request[g]
  BY <1>1 DEF Goto
<1>3. ASSUME NEW g \in Requests \ {r}
      PROVE  /\ request[g].at = "find_winner" => reserveKey'[request[g].id] # NoOrder
             /\ request[g].at = "answer_reserve" => request[g].order = reserveKey'[request[g].id]
             /\ request[g].at \in {"enqueue", "answer_confirm"} =>
                  confirmKey'[request[g].id] = request[g].body
  <2>1. CASE request[g].at = "find_winner"
    <3>1. request[g] \in Reserving /\ reserveKey[request[g].id] # NoOrder
      BY <2>1, RequestAt DEF RequestsKnow
    <3>2. QED
      BY <2>1, <3>1, KeysStay DEF Reserving
  <2>2. CASE request[g].at = "answer_reserve"
    <3>1. request[g] \in Answering /\ request[g].order = reserveKey[request[g].id]
      BY <2>2, RequestAt DEF RequestsKnow
    <3>2. QED
      BY <2>2, <3>1, KeysStay, CheckoutAssumption DEF Answering
  <2>3. CASE request[g].at \in {"enqueue", "answer_confirm"}
    <3>1. request[g] \in Confirming /\ confirmKey[request[g].id] = request[g].body
      BY <2>3, RequestAt DEF RequestsKnow
    <3>2. QED
      BY <2>3, <3>1, KeysStay, ApiAssumption DEF Confirming, Confirmations
  <2>4. QED
    BY <2>1, <2>2, <2>3
<1>4. ASSUME NEW g \in Requests
      PROVE  /\ request'[g].at = "find_winner" => reserveKey'[request'[g].id] # NoOrder
             /\ request'[g].at = "answer_reserve" => request'[g].order = reserveKey'[request'[g].id]
             /\ request'[g].at \in {"enqueue", "answer_confirm"} =>
                  confirmKey'[request'[g].id] = request'[g].body
  <2>1. CASE g = r
    BY <1>2, <2>1
  <2>2. CASE g # r
    BY <1>2, <1>3, <2>2
  <2>3. QED
    BY <2>1, <2>2
<1>5. QED
  BY <1>2, <1>4 DEF RequestsKnow

LEMMA StillKeepsKnowing ==
  ASSUME ApiTypeOK, RequestsKnow, UNCHANGED <<reserveKey, confirmKey, request>>
  PROVE  RequestsKnow' /\ request' \in [Requests -> {Idle} \cup Reserving \cup Answering \cup Confirming]
BY RequestTypes DEF RequestsKnow

(* Requests, whatever step is taken. *)
LEMMA StepKeepsKnowing ==
  ASSUME ApiTypeOK, RequestsKnow, [ApiNext]_allVars
  PROVE  /\ request' \in [Requests -> {Idle} \cup Reserving \cup Answering \cup Confirming]
         /\ RequestsKnow'
<1> DEFINE States == {Idle} \cup Reserving \cup Answering \cup Confirming
           Good == request' \in [Requests -> States] /\ RequestsKnow'
<1>0. /\ reserveKey \in [ReserveIds -> Orders \cup {NoOrder}]
      /\ confirmKey \in [ConfirmIds -> Confirmations \cup {NoKey}]
  BY RequestTypes
<1>1. ASSUME NEW r \in Requests, Goto(r, Idle)
      PROVE  Good
  BY <1>1, IdleAt, MoveKeepsKnowing
<1>2. ASSUME NEW r \in Requests, NEW id \in ReserveIds, BeginReserve(r, id)
      PROVE  Good
  <2>1. CASE reserveKey[id] # NoOrder
    BY <1>2, <2>1, StillKeepsKnowing DEF BeginReserve
  <2>2. CASE reserveKey[id] = NoOrder
    <3> DEFINE to == [at |-> "reserve", id |-> id]
    <3>1. to \in Reserving /\ to.at = "reserve" /\ Goto(r, to)
      BY <1>2, <2>2 DEF BeginReserve, Reserving
    <3> HIDE DEF to
    <3>2. QED
      BY <3>1, MoveKeepsKnowing
  <2>3. QED
    BY <2>1, <2>2
<1>3. ASSUME NEW r \in Requests, ReserveCommits(r)
      PROVE  Good
  <2>1. request[r] \in Reserving
    BY <1>3, RequestAt DEF ReserveCommits
  <2>2. PICK o \in Orders :
          /\ reserveKey' = [reserveKey EXCEPT ![request[r].id] = o]
          /\ Goto(r, [at |-> "answer_reserve", id |-> request[r].id, order |-> o])
    BY <1>3 DEF ReserveCommits
  <2> DEFINE to == [at |-> "answer_reserve", id |-> request[r].id, order |-> o]
  <2>3. to \in Answering /\ to.at = "answer_reserve" /\ Goto(r, to)
    BY <2>1, <2>2 DEF Reserving, Answering
  <2>4. to.order = reserveKey'[to.id]
    BY <1>0, <2>1, <2>2 DEF Reserving
  <2> HIDE DEF to
  <2>5. QED
    BY <2>3, <2>4, MoveKeepsKnowing
<1>4. ASSUME NEW r \in Requests, ReserveRefused(r) \/ AnswerReserve(r) \/ ConfirmRefused(r)
                                   \/ AnswerConfirm(r) \/ Crash(r)
      PROVE  Good
  BY <1>1, <1>4 DEF ReserveRefused, AnswerReserve, ConfirmRefused, AnswerConfirm, Crash
<1>5. ASSUME NEW r \in Requests, ReserveLosesRace(r)
      PROVE  Good
  <2> DEFINE to == [at |-> "find_winner", id |-> request[r].id]
  <2>1. request[r] \in Reserving
    BY <1>5, RequestAt DEF ReserveLosesRace
  <2>2. to \in Reserving /\ to.at = "find_winner" /\ Goto(r, to)
    BY <1>5, <2>1 DEF ReserveLosesRace, Reserving
  <2>3. reserveKey'[to.id] # NoOrder
    BY <1>5 DEF ReserveLosesRace, ReserveKeyFree
  <2> HIDE DEF to
  <2>4. QED
    BY <2>2, <2>3, MoveKeepsKnowing
<1>6. ASSUME NEW r \in Requests, FindWinner(r)
      PROVE  Good
  <2> DEFINE to == [at |-> "answer_reserve", id |-> request[r].id, order |-> reserveKey[request[r].id]]
  <2>1. request[r] \in Reserving /\ reserveKey[request[r].id] # NoOrder
    BY <1>6, RequestAt DEF FindWinner, RequestsKnow
  <2>2. to \in Answering /\ to.at = "answer_reserve" /\ Goto(r, to)
    BY <1>0, <1>6, <2>1 DEF FindWinner, Reserving, Answering
  <2>3. to.order = reserveKey'[to.id]
    BY <1>6 DEF FindWinner
  <2> HIDE DEF to
  <2>4. QED
    BY <2>2, <2>3, MoveKeepsKnowing
<1>7. ASSUME NEW r \in Requests, NEW id \in ConfirmIds, NEW body \in Confirmations,
             BeginConfirm(r, id, body)
      PROVE  Good
  <2>1. CASE request' = request
    BY <1>7, <2>1, StillKeepsKnowing DEF BeginConfirm
  <2>2. CASE Goto(r, [at |-> "confirm", id |-> id, body |-> body])
    <3> DEFINE to == [at |-> "confirm", id |-> id, body |-> body]
    <3>1. to \in Confirming /\ to.at = "confirm" /\ Goto(r, to)
      BY <2>2 DEF Confirming
    <3> HIDE DEF to
    <3>2. QED
      BY <3>1, MoveKeepsKnowing
  <2>3. QED
    BY <1>7, <2>1, <2>2 DEF BeginConfirm
<1>8. ASSUME NEW r \in Requests, ConfirmCommits(r) \/ Enqueue(r)
      PROVE  Good
  <2>1. PICK at \in {"enqueue", "answer_confirm"} : Goto(r, [request[r] EXCEPT !.at = at])
    BY <1>8 DEF ConfirmCommits, Enqueue
  <2> DEFINE to == [request[r] EXCEPT !.at = at]
  <2>2. request[r] \in Confirming
    BY <1>8, RequestAt DEF ConfirmCommits, Enqueue
  <2>3. to \in Confirming /\ to.at \in {"enqueue", "answer_confirm"} /\ Goto(r, to)
        /\ to.id = request[r].id /\ to.body = request[r].body
    BY <2>1, <2>2 DEF Confirming
  <2>4. confirmKey'[request[r].id] = request[r].body
    <3>1. CASE ConfirmCommits(r)
      BY <1>0, <2>2, <3>1 DEF ConfirmCommits, WriteConfirmKey, Confirming
    <3>2. CASE Enqueue(r)
      BY <3>2 DEF Enqueue, RequestsKnow
    <3>3. QED
      BY <1>8, <3>1, <3>2
  <2> HIDE DEF to
  <2>5. QED
    BY <2>3, <2>4, MoveKeepsKnowing
<1>9. ASSUME OtherStep \/ UNCHANGED allVars
      PROVE  Good
  BY <1>9, StillKeepsKnowing DEF OtherStep, apiVars, allVars
<1> HIDE DEF Good
<1>10. ASSUME NEW r \in Requests, Handle(r) \/ Crash(r)
       PROVE  Good
  BY <1>3, <1>4, <1>5, <1>6, <1>8, <1>10 DEF Handle
<1>11. Good
  BY <1>2, <1>7, <1>9, <1>10 DEF ApiNext
<1>12. QED
  BY <1>11 DEF Good

-----------------------------------------------------------------------------
(* Keys and answers. *)

LEMMA StepKeepsKeyedOrders ==
  ASSUME ApiInv, [ApiNext]_allVars
  PROVE  KeyedOrders' /\ reserveReply' \in [ReserveIds -> SUBSET Orders]
<1>0. /\ reserveKey \in [ReserveIds -> Orders \cup {NoOrder}]
      /\ reserveReply \in [ReserveIds -> SUBSET Orders]
      /\ TypeOK /\ [Next]_vars
      /\ ApiTypeOK /\ RequestsKnow
  BY RequestTypes, ApiStepIsCheckoutStep DEF ApiInv
<1> DEFINE Orders2 ==
      /\ \A o \in Orders : status'[o] # "none" => \E id \in ReserveIds : reserveKey'[id] = o
      /\ \A id \in ReserveIds : reserveKey'[id] # NoOrder => status'[reserveKey'[id]] # "none"
      /\ \A i, j \in ReserveIds : reserveKey'[i] # NoOrder /\ reserveKey'[i] = reserveKey'[j] => i = j
<1>1. ASSUME NEW r \in Requests, ReserveCommits(r)
      PROVE  Orders2
  <2>1. request[r] \in Reserving
    BY <1>0, <1>1, RequestAt DEF ReserveCommits
  <2> DEFINE k == request[r].id
  <2>2. PICK o \in Orders, c \in Carts :
          Reserve(o, c) /\ reserveKey' = [reserveKey EXCEPT ![k] = o]
    BY <1>1 DEF ReserveCommits
  <2>3. k \in ReserveIds /\ reserveKey[k] = NoOrder
    BY <1>1, <2>1 DEF ReserveCommits, ReserveKeyFree, Reserving
  <2>4. status[o] = "none" /\ status' = [status EXCEPT ![o] = "reserved"]
    BY <2>2 DEF Reserve
  <2>5. \A id \in ReserveIds : reserveKey'[id] = IF id = k THEN o ELSE reserveKey[id]
    BY <1>0, <2>2
  <2>6. \A q \in Orders : status'[q] = IF q = o THEN "reserved" ELSE status[q]
    BY <1>0, <2>4 DEF TypeOK
  <2>7. \A id \in ReserveIds : reserveKey[id] # o
    BY <2>4, CheckoutAssumption DEF ApiInv, KeyedOrders
  <2> HIDE DEF k
  <2>8. \A q \in Orders : status'[q] # "none" => \E id \in ReserveIds : reserveKey'[id] = q
    <3> SUFFICES ASSUME NEW q \in Orders, status'[q] # "none"
                 PROVE  \E id \in ReserveIds : reserveKey'[id] = q
      OBVIOUS
    <3>1. CASE q = o
      BY <2>3, <2>5, <3>1
    <3>2. CASE q # o
      <4>1. PICK id \in ReserveIds : reserveKey[id] = q
        BY <2>6, <3>2 DEF ApiInv, KeyedOrders
      <4>2. reserveKey'[id] = q
        BY <2>3, <2>5, <4>1, CheckoutAssumption
      <4>3. QED
        BY <4>2
    <3>3. QED
      BY <3>1, <3>2
  <2>9. \A id \in ReserveIds : reserveKey'[id] # NoOrder => status'[reserveKey'[id]] # "none"
    BY <1>0, <2>5, <2>6 DEF ApiInv, KeyedOrders
  <2>10. \A i, j \in ReserveIds : reserveKey'[i] # NoOrder /\ reserveKey'[i] = reserveKey'[j] => i = j
    BY <2>5, <2>7 DEF ApiInv, KeyedOrders
  <2>11. QED
    BY <2>8, <2>9, <2>10
<1>2. ASSUME \A r \in Requests : ~ReserveCommits(r)
      PROVE  Orders2
  <2>1. reserveKey' = reserveKey
    BY <1>0, <1>2, KeysStay
  <2>2. \A o \in Orders : status[o] = "none" => status'[o] = "none"
    BY <1>0, <1>2, OthersCreateNothing
  <2>3. \A o \in Orders : status[o] # "none" => status'[o] # "none"
    BY <1>0, StatusesStay
  <2>4. QED
    BY <1>0, <2>1, <2>2, <2>3 DEF ApiInv, KeyedOrders
<1>3. Orders2
  BY <1>1, <1>2
<1>4. ASSUME NEW r \in Requests, NEW id \in ReserveIds, BeginReserve(r, id), reserveReply' # reserveReply
      PROVE  /\ reserveReply' = [reserveReply EXCEPT ![id] = @ \cup {reserveKey[id]}]
             /\ reserveKey[id] \in Orders
  BY <1>0, <1>4 DEF BeginReserve
<1>5. ASSUME NEW r \in Requests, AnswerReserve(r)
      PROVE  \E id \in ReserveIds :
               /\ reserveReply' = [reserveReply EXCEPT ![id] = @ \cup {reserveKey[id]}]
               /\ reserveKey[id] \in Orders
  <2>1. request[r] \in Answering /\ request[r].order = reserveKey[request[r].id]
    BY <1>0, <1>5, RequestAt DEF AnswerReserve, RequestsKnow
  <2>2. QED
    BY <1>5, <2>1 DEF AnswerReserve, Answering
<1>6. ASSUME NEW r \in Requests, Handle(r) \/ Crash(r), ~AnswerReserve(r)
      PROVE  reserveReply' = reserveReply
  BY <1>6 DEF Handle, Crash, ReserveCommits, ReserveRefused, ReserveLosesRace, FindWinner,
              ConfirmCommits, ConfirmRefused, Enqueue, AnswerConfirm
<1>7. ASSUME OtherStep \/ UNCHANGED allVars \/ \E r \in Requests, id \in ConfirmIds, body \in Confirmations :
               BeginConfirm(r, id, body)
      PROVE  reserveReply' = reserveReply
  BY <1>7 DEF OtherStep, apiVars, allVars, BeginConfirm
<1>8. \/ reserveReply' = reserveReply
      \/ \E id \in ReserveIds :
           /\ reserveReply' = [reserveReply EXCEPT ![id] = @ \cup {reserveKey[id]}]
           /\ reserveKey[id] \in Orders
  <2>1. CASE \E r \in Requests : Handle(r) \/ Crash(r)
    BY <1>5, <1>6, <2>1
  <2>2. CASE \E r \in Requests, id \in ReserveIds : BeginReserve(r, id)
    BY <1>4, <2>2
  <2>3. QED
    BY <1>7, <2>1, <2>2 DEF ApiNext
<1>9. \A id \in ReserveIds : reserveReply'[id] \subseteq {reserveKey[id]} \cap Orders
  BY <1>0, <1>8 DEF ApiInv, KeyedOrders
<1>10. ASSUME NEW id \in ReserveIds
       PROVE  reserveReply'[id] \subseteq {reserveKey'[id]}
  <2>1. CASE reserveKey[id] = NoOrder
    BY <1>9, <2>1, CheckoutAssumption
  <2>2. CASE reserveKey[id] # NoOrder
    BY <1>0, <1>9, <2>2, KeysStay
  <2>3. QED
    BY <2>1, <2>2
<1>11. reserveReply' \in [ReserveIds -> SUBSET Orders]
  BY <1>0, <1>8
<1> HIDE DEF Orders2
<1>12. KeyedOrders'
  BY <1>3, <1>10 DEF Orders2, KeyedOrders
<1>13. QED
  BY <1>11, <1>12

LEMMA StepKeepsKeyedPayments ==
  ASSUME ApiInv, ChargedOnce, [ApiNext]_allVars
  PROVE  KeyedPayments' /\ confirmReply' \in [ConfirmIds -> SUBSET Confirmations]
<1>0. /\ confirmKey \in [ConfirmIds -> Confirmations \cup {NoKey}]
      /\ confirmReply \in [ConfirmIds -> SUBSET Confirmations]
      /\ TypeOK /\ [Next]_vars
      /\ ApiTypeOK /\ RequestsKnow
  BY RequestTypes, ApiStepIsCheckoutStep DEF ApiInv
<1>1. ASSUME NEW body \in Confirmations, PaidWith(body)
      PROVE  PaidWithNext(body)
  <2>1. body.order \in Orders /\ body.ref \in Refs /\ <<Mock, body.ref>> \in PaymentIds
    BY CheckoutAssumption DEF Confirmations, PaymentIds
  <2>2. status'[body.order] = "paid"
    BY <1>0, <1>1, <2>1, StatusesStay DEF PaidWith, Terminal
  <2>3. payment'[<<Mock, body.ref>>] = body.order
    BY <1>0, <1>1, <2>1, PaymentsStay, CheckoutAssumption DEF PaidWith
  <2>4. QED
    BY <2>2, <2>3 DEF PaidWithNext
<1>2. ASSUME NEW r \in Requests, ConfirmCommits(r)
      PROVE  /\ request[r].id \in ConfirmIds /\ request[r].body \in Confirmations
             /\ confirmKey' = [confirmKey EXCEPT ![request[r].id] = request[r].body]
             /\ PaidWithNext(request[r].body)
  <2> DEFINE body == request[r].body
  <2>1. request[r].id \in ConfirmIds /\ body \in Confirmations
    BY <1>0, <1>2, RequestAt DEF ConfirmCommits, Confirming
  <2>2. body.order \in Orders /\ body.ref \in Refs /\ <<Mock, body.ref>> \in PaymentIds
    BY <2>1, CheckoutAssumption DEF Confirmations, PaymentIds
  <2>3. CASE Confirm(body.order, body.ref)
    <3>1. /\ status' = [status EXCEPT ![body.order] = "paid"]
          /\ payment' = [payment EXCEPT ![<<Mock, body.ref>>] = body.order]
      BY <2>3 DEF Confirm, MarkPaid, MaterializePayment
    <3>2. QED
      BY <1>0, <1>2, <2>1, <2>2, <3>1 DEF TypeOK, PaidWithNext, ConfirmCommits, WriteConfirmKey
  <2>4. CASE ConfirmAgain(body)
    <3>1. payment[<<Mock, body.ref>>] = body.order /\ UNCHANGED vars
      BY <2>4 DEF ConfirmAgain, SamePayment
    <3>2. status[body.order] \in Charged
      BY <2>2, <3>1, CheckoutAssumption DEF ChargedOnce
    <3>3. status[body.order] = "paid"
      BY <2>4, <3>2 DEF ConfirmAgain, Charged
    <3>4. PaidWithNext(body)
      BY <3>1, <3>3 DEF PaidWithNext, vars
    <3>5. QED
      BY <1>2, <2>1, <3>4 DEF ConfirmCommits, WriteConfirmKey
  <2>5. QED
    BY <1>2, <2>3, <2>4 DEF ConfirmCommits
<1>3. ASSUME NEW id \in ConfirmIds, confirmKey'[id] # NoKey
      PROVE  PaidWithNext(confirmKey'[id])
  <2>1. CASE confirmKey[id] # NoKey
    <3>1. confirmKey'[id] = confirmKey[id] /\ confirmKey[id] \in Confirmations
      BY <1>0, <2>1, KeysStay
    <3>2. PaidWith(confirmKey[id])
      BY <2>1 DEF ApiInv, KeyedPayments
    <3>3. QED
      BY <1>1, <3>1, <3>2
  <2>2. CASE confirmKey[id] = NoKey
    <3>1. PICK r \in Requests : ConfirmCommits(r)
      BY <1>0, <1>3, <2>2, KeysStay
    <3>2. /\ confirmKey' = [confirmKey EXCEPT ![request[r].id] = request[r].body]
          /\ PaidWithNext(request[r].body)
      BY <1>2, <3>1
    <3>3. confirmKey'[id] = request[r].body
      BY <1>0, <1>3, <2>2, <3>2
    <3>4. QED
      BY <3>2, <3>3
  <2>3. QED
    BY <2>1, <2>2
<1>4. ASSUME NEW r \in Requests, NEW id \in ConfirmIds, NEW body \in Confirmations,
             BeginConfirm(r, id, body), confirmReply' # confirmReply
      PROVE  /\ confirmReply' = [confirmReply EXCEPT ![id] = @ \cup {confirmKey[id]}]
             /\ confirmKey[id] \in Confirmations
  BY <1>4 DEF BeginConfirm, Replays
<1>5. ASSUME NEW r \in Requests, AnswerConfirm(r)
      PROVE  \E id \in ConfirmIds :
               /\ confirmReply' = [confirmReply EXCEPT ![id] = @ \cup {confirmKey[id]}]
               /\ confirmKey[id] \in Confirmations
  <2>1. request[r] \in Confirming /\ confirmKey[request[r].id] = request[r].body
    BY <1>0, <1>5, RequestAt DEF AnswerConfirm, RequestsKnow
  <2>2. QED
    BY <1>5, <2>1 DEF AnswerConfirm, Confirming
<1>6. ASSUME NEW r \in Requests, Handle(r) \/ Crash(r), ~AnswerConfirm(r)
      PROVE  confirmReply' = confirmReply
  BY <1>6 DEF Handle, Crash, ReserveCommits, ReserveRefused, ReserveLosesRace, FindWinner,
              AnswerReserve, ConfirmCommits, ConfirmRefused, Enqueue
<1>7. ASSUME OtherStep \/ UNCHANGED allVars \/ \E r \in Requests, id \in ReserveIds : BeginReserve(r, id)
      PROVE  confirmReply' = confirmReply
  BY <1>7 DEF OtherStep, apiVars, allVars, BeginReserve
<1>8. \/ confirmReply' = confirmReply
      \/ \E id \in ConfirmIds :
           /\ confirmReply' = [confirmReply EXCEPT ![id] = @ \cup {confirmKey[id]}]
           /\ confirmKey[id] \in Confirmations
  <2>1. CASE \E r \in Requests : Handle(r) \/ Crash(r)
    BY <1>5, <1>6, <2>1
  <2>2. CASE \E r \in Requests, id \in ConfirmIds, body \in Confirmations : BeginConfirm(r, id, body)
    BY <1>4, <2>2
  <2>3. QED
    BY <1>7, <2>1, <2>2 DEF ApiNext
<1>9. \A id \in ConfirmIds : confirmReply'[id] \subseteq {confirmKey[id]} \cap Confirmations
  BY <1>0, <1>8 DEF ApiInv, KeyedPayments
<1>10. ASSUME NEW id \in ConfirmIds
       PROVE  confirmReply'[id] \subseteq {confirmKey'[id]}
  <2>1. CASE confirmKey[id] = NoKey
    BY <1>9, <2>1, ApiAssumption DEF Confirmations
  <2>2. CASE confirmKey[id] # NoKey
    BY <1>0, <1>9, <2>2, KeysStay
  <2>3. QED
    BY <2>1, <2>2
<1>11. confirmReply' \in [ConfirmIds -> SUBSET Confirmations]
  BY <1>0, <1>8
<1>12. KeyedPayments'
  BY <1>3, <1>10 DEF KeyedPayments, PaidWith, PaidWithNext
<1>13. QED
  BY <1>11, <1>12

-----------------------------------------------------------------------------
(* Theorems. *)

LEMMA StepKeepsApi == ApiInv /\ ChargedOnce /\ [ApiNext]_allVars => ApiInv'
<1> SUFFICES ASSUME ApiInv, ChargedOnce, [ApiNext]_allVars
             PROVE  ApiInv'
  OBVIOUS
<1>0. /\ reserveKey \in [ReserveIds -> Orders \cup {NoOrder}]
      /\ confirmKey \in [ConfirmIds -> Confirmations \cup {NoKey}]
      /\ queued \subseteq Orders /\ crashes \in 0..MaxCrashes
      /\ TypeOK /\ [Next]_vars
      /\ ApiTypeOK /\ RequestsKnow
  BY RequestTypes, ApiStepIsCheckoutStep DEF ApiInv, ApiTypeOK
<1>1. KeyedOrders' /\ reserveReply' \in [ReserveIds -> SUBSET Orders]
  BY StepKeepsKeyedOrders
<1>2. KeyedPayments' /\ confirmReply' \in [ConfirmIds -> SUBSET Confirmations]
  BY StepKeepsKeyedPayments
<1>3. /\ request' \in [Requests -> {Idle} \cup Reserving \cup Answering \cup Confirming]
      /\ RequestsKnow'
  BY <1>0, StepKeepsKnowing
<1>4. TypeOK'
  BY <1>0, StepKeepsTypes
<1>5. reserveKey' \in [ReserveIds -> Orders \cup {NoOrder}]
  <2>1. ASSUME NEW r \in Requests, ReserveCommits(r)
        PROVE  reserveKey' \in [ReserveIds -> Orders \cup {NoOrder}]
    BY <1>0, <2>1 DEF ReserveCommits
  <2>2. QED
    BY <1>0, <2>1, KeysStay
<1>6. confirmKey' \in [ConfirmIds -> Confirmations \cup {NoKey}]
  <2>1. ASSUME NEW r \in Requests, ConfirmCommits(r)
        PROVE  confirmKey' \in [ConfirmIds -> Confirmations \cup {NoKey}]
    <3>1. request[r] \in Confirming
      BY <1>0, <2>1, RequestAt DEF ConfirmCommits
    <3>2. QED
      BY <1>0, <2>1, <3>1 DEF ConfirmCommits, WriteConfirmKey, Confirming
  <2>2. QED
    BY <1>0, <2>1, KeysStay
<1>7. queued' \subseteq Orders /\ crashes' \in 0..MaxCrashes
  <2>1. ASSUME NEW r \in Requests, Enqueue(r)
        PROVE  queued' \subseteq Orders /\ crashes' = crashes
    <3>1. request[r] \in Confirming
      BY <1>0, <2>1, RequestAt DEF Enqueue
    <3>2. QED
      BY <1>0, <2>1, <3>1 DEF Enqueue, Confirming, Confirmations
  <2>2. ASSUME NEW r \in Requests, Crash(r)
        PROVE  queued' = queued /\ crashes' \in 0..MaxCrashes
    BY <1>0, <2>2, ApiAssumption DEF Crash
  <2>3. ASSUME NEW r \in Requests, Handle(r), ~Enqueue(r)
        PROVE  queued' = queued /\ crashes' = crashes
    BY <2>3 DEF Handle, ReserveCommits, ReserveRefused, ReserveLosesRace, FindWinner,
                AnswerReserve, ConfirmCommits, ConfirmRefused, AnswerConfirm
  <2>4. ASSUME NEW r \in Requests, \/ \E id \in ReserveIds : BeginReserve(r, id)
                                   \/ \E id \in ConfirmIds, body \in Confirmations : BeginConfirm(r, id, body)
        PROVE  queued' = queued /\ crashes' = crashes
    BY <2>4 DEF BeginReserve, BeginConfirm
  <2>5. CASE OtherStep \/ UNCHANGED allVars
    BY <1>0, <2>5 DEF OtherStep, apiVars, allVars
  <2>6. QED
    BY <1>0, <2>1, <2>2, <2>3, <2>4, <2>5 DEF ApiNext
<1>8. ApiTypeOK'
  BY <1>1, <1>2, <1>3, <1>4, <1>5, <1>6, <1>7 DEF ApiTypeOK, Reserving, Answering, Confirming
<1>9. QED
  BY <1>1, <1>2, <1>3, <1>8 DEF ApiInv

LEMMA ApiStarts == ApiInit => ApiInv
<1> SUFFICES ASSUME ApiInit
             PROVE  ApiInv
  OBVIOUS
<1>1. TypeOK
  BY CheckoutAssumption, CartsAssumption
     DEF ApiInit, Init, TypeOK, OrderStatus, HoldStates, Quantities, NoUnits, NoCase
<1>2. 0 \in 0..MaxCrashes
  BY ApiAssumption
<1>3. ApiTypeOK
  BY <1>1, <1>2 DEF ApiInit, ApiTypeOK
<1>4. KeyedOrders /\ KeyedPayments
  BY DEF ApiInit, Init, KeyedOrders, KeyedPayments
<1>5. RequestsKnow
  BY DEF ApiInit, RequestsKnow, Idle
<1>6. QED
  BY <1>3, <1>4, <1>5 DEF ApiInv

(* The invariant of the requests needs that a recorded charge is its        *)
(* order's only one, which Checkout keeps; and that they run Checkout's     *)
(* steps needs only their types.                                            *)
LEMMA ApiTypesHold == ApiTypeOK /\ [ApiNext]_allVars => [Next]_vars
BY ApiStepIsCheckoutStep

ApiWhole == ApiInv /\ StockInv /\ ChargedOnce

LEMMA ApiHolds == ApiSpec => []ApiWhole
<1>1. ApiInit => ApiWhole
  BY ApiStarts, StockStarts, CheckoutAssumption DEF ApiInit, ApiWhole, Init, ChargedOnce, Charged
<1>2. ApiWhole /\ [ApiNext]_allVars => ApiWhole'
  BY StepKeepsApi, ApiTypesHold, StepKeepsStock, StepKeepsChargedOnce DEF ApiWhole, ApiInv
<1>3. QED
  BY <1>1, <1>2, PTL DEF ApiSpec

(* Every behaviour of the requests is one of Checkout, seen from its rows.  *)
THEOREM RequestsRefineCheckout == ApiSpec => Spec
<1>1. ApiInit => Init
  BY DEF ApiInit
<1>2. ApiWhole /\ [ApiNext]_allVars => [Next]_vars
  BY ApiTypesHold DEF ApiWhole, ApiInv
<1>3. QED
  BY <1>1, <1>2, ApiHolds, PTL DEF ApiSpec, Spec

(* Every reachable state has the types of its keys, requests and answers.   *)
THEOREM ApiTypeCorrect == ApiSpec => []ApiTypeOK
<1>1. ApiWhole => ApiTypeOK
  BY DEF ApiWhole, ApiInv
<1>2. QED
  BY <1>1, ApiHolds, PTL

(* However often a reserve request is sent, and whatever overlaps or        *)
(* crashes, it makes one order and is answered with that order.             *)
THEOREM ReserveIsIdempotent == ApiSpec => []OneOrderPerRequest
<1>1. ApiWhole => OneOrderPerRequest
  <2> SUFFICES ASSUME ApiWhole
               PROVE  OneOrderPerRequest
    OBVIOUS
  <2>1. KeyedOrders
    BY DEF ApiWhole, ApiInv
  <2>2. ASSUME NEW o \in Orders, status[o] # "none"
        PROVE  Cardinality({id \in ReserveIds : reserveKey[id] = o}) = 1
    <3>1. PICK id \in ReserveIds : reserveKey[id] = o
      BY <2>1, <2>2 DEF KeyedOrders
    <3>2. {i \in ReserveIds : reserveKey[i] = o} = {id}
      BY <2>1, <3>1, CheckoutAssumption DEF KeyedOrders
    <3>3. QED
      BY <3>2, FS_Singleton
  <2>3. QED
    BY <2>1, <2>2 DEF OneOrderPerRequest, KeyedOrders
<1>2. QED
  BY <1>1, ApiHolds, PTL

(* A confirm that was answered with success is of a paid order, paid with   *)
(* the reference it was sent with, and its id stands for nothing else.      *)
THEOREM ConfirmIsTruthful == ApiSpec => []ConfirmedMeansPaid
<1>1. ApiWhole => ConfirmedMeansPaid
  <2> SUFFICES ASSUME ApiWhole, NEW id \in ConfirmIds, confirmReply[id] # {}
               PROVE  /\ confirmReply[id] = {confirmKey[id]}
                      /\ PaidWith(confirmKey[id])
    BY DEF ConfirmedMeansPaid, PaidWith
  <2>1. confirmReply[id] = {confirmKey[id]} /\ confirmReply[id] \subseteq Confirmations
    BY RequestTypes DEF ApiWhole, ApiInv, KeyedPayments
  <2>2. confirmKey[id] # NoKey
    BY <2>1, ApiAssumption DEF Confirmations
  <2>3. QED
    BY <2>1, <2>2 DEF ApiWhole, ApiInv, KeyedPayments
<1>2. QED
  BY <1>1, ApiHolds, PTL
=============================================================================
