----------------------------- MODULE Fulfilment -----------------------------
(***************************************************************************)
(* What staff do after the sale: they scan tickets at the gates, and       *)
(* resolve the cases that late payments leave. A scan is one transaction   *)
(* that locks the row of its ticket and then reads and writes it, statement *)
(* by statement. A resolution reads its case, decides, and writes in a     *)
(* transaction whose update repeats what was read.                         *)
(*                                                                         *)
(* Tickets are issued with the order (Checkout); no code voids them. The   *)
(* rows of TicketScan that record refusals are read by reports only.       *)
(***************************************************************************)
EXTENDS Naturals, Sequences

CONSTANTS
  Tickets,
  Cases,
  Requests, NoRequest  \* requests in progress at once

ASSUME FulfilmentAssumption == NoRequest \notin Requests

VARIABLES
  ticket,     \* Ticket.status
  entries,    \* valid TicketScan rows
  overrides,  \* MANUAL_OVERRIDE_EXECUTED events
  ticketLock, \* who holds the row of the ticket
  lateCase,   \* LatePaymentCase status and version
  history,    \* the AuditLog rows of the case
  request     \* what each request has read

scanVars == <<ticket, entries, overrides, ticketLock>>
caseVars == <<lateCase, history>>
fulfilVars == <<scanVars, caseVars, request>>

CaseStatus == {"none", "PENDING", "ACCEPTED", "REJECTED", "REFUND_REQUESTED", "REFUNDED"}

allowedTransitions ==
  [s \in CaseStatus |->
     CASE s = "PENDING" -> {"ACCEPTED", "REJECTED", "REFUND_REQUESTED", "REFUNDED"}
       [] s = "REFUND_REQUESTED" -> {"REFUNDED"}
       [] OTHER -> {}]

Idle == [at |-> "idle"]

FulfilTypeOK ==
  /\ ticket \in [Tickets -> {"issued", "checked_in"}]
  /\ entries \in [Tickets -> Nat]
  /\ overrides \in [Tickets -> Nat]
  /\ ticketLock \in [Tickets -> Requests \cup {NoRequest}]
  /\ lateCase \in [Cases -> [status : CaseStatus, version : Nat]]
  /\ history \in [Cases -> Seq([previous : CaseStatus, next : CaseStatus, version : Nat])]
  /\ request \in [Requests -> {Idle}
       \cup [at : {"locked", "validated"}, ticket : Tickets, allowOverride : BOOLEAN]
       \cup [at : {"enter"}, ticket : Tickets, current : {"issued", "checked_in"}]
       \cup [at : {"resolve"}, case : Cases, status : CaseStatus, version : Nat, next : CaseStatus]]

FulfilInit ==
  /\ ticket = [t \in Tickets |-> "issued"]
  /\ entries = [t \in Tickets |-> 0]
  /\ overrides = [t \in Tickets |-> 0]
  /\ ticketLock = [t \in Tickets |-> NoRequest]
  /\ lateCase = [c \in Cases |-> [status |-> "none", version |-> 0]]
  /\ history = [c \in Cases |-> <<>>]
  /\ request = [r \in Requests |-> Idle]

Goto(r, what) == request' = [request EXCEPT ![r] = what]

-----------------------------------------------------------------------------
(* Check-in. *)

(* Mutant of LockFree: the row is read without FOR UPDATE. *)
NoLock(t) == TRUE

LockFree(t) == ticketLock[t] = NoRequest

Unlock(r) == ticketLock' = [t \in Tickets |-> IF ticketLock[t] = r THEN NoRequest ELSE ticketLock[t]]

LockTicket(r, t, allowOverride) ==
  /\ request[r] = Idle
  /\ LockFree(t)
  /\ ticketLock' = [ticketLock EXCEPT ![t] = r]
  /\ Goto(r, [at |-> "locked", ticket |-> t, allowOverride |-> allowOverride])
  /\ UNCHANGED <<ticket, entries, overrides, caseVars>>

(* A ticket that was used is refused here, override or not. *)
ValidateTicket(r) ==
  /\ request[r].at = "locked"
  /\ IF ticket[request[r].ticket] = "issued"
     THEN Goto(r, [request[r] EXCEPT !.at = "validated"]) /\ UNCHANGED ticketLock
     ELSE Goto(r, Idle) /\ Unlock(r)
  /\ UNCHANGED <<ticket, entries, overrides, caseVars>>

(* The ticket is read again, and the override asked for. *)
ReadCurrent(r) ==
  LET current == ticket[request[r].ticket]
  IN  /\ request[r].at = "validated"
      /\ IF current = "checked_in" /\ ~request[r].allowOverride
         THEN Goto(r, Idle) /\ Unlock(r)
         ELSE /\ Goto(r, [at |-> "enter", ticket |-> request[r].ticket, current |-> current])
              /\ UNCHANGED ticketLock
      /\ UNCHANGED <<ticket, entries, overrides, caseVars>>

CheckIn(r) ==
  LET t == request[r].ticket
  IN  /\ request[r].at = "enter"
      /\ ticket' = [ticket EXCEPT ![t] = "checked_in"]
      /\ entries' = [entries EXCEPT ![t] = @ + 1]
      /\ overrides' = IF request[r].current = "checked_in"
                      THEN [overrides EXCEPT ![t] = @ + 1]
                      ELSE overrides
      /\ Goto(r, Idle)
      /\ Unlock(r)
      /\ UNCHANGED caseVars

(* The transaction fails, or the user turns out not to be a member. *)
AbortScan(r) ==
  /\ request[r].at \in {"locked", "validated", "enter"}
  /\ Goto(r, Idle)
  /\ Unlock(r)
  /\ UNCHANGED <<ticket, entries, overrides, caseVars>>

-----------------------------------------------------------------------------
(* Late payment cases. *)

(* A payment that comes too late; the rest is in Checkout. *)
OpenCase(c) ==
  /\ lateCase[c].status = "none"
  /\ lateCase' = [lateCase EXCEPT ![c].status = "PENDING"]
  /\ UNCHANGED <<scanVars, history, request>>

BeginResolve(r, c, next) ==
  /\ request[r] = Idle
  /\ next \in allowedTransitions[lateCase[c].status]
  /\ Goto(r, [at |-> "resolve", case |-> c, status |-> lateCase[c].status,
              version |-> lateCase[c].version, next |-> next])
  /\ UNCHANGED <<scanVars, caseVars>>

(* Mutant of Unchanged: the update names the case only. *)
UpdateAnyway(req) == TRUE

(* The condition of the update. *)
Unchanged(req) ==
  lateCase[req.case] = [status |-> req.status, version |-> req.version]

(* The order's latePaymentReviewRequired, which is cleared as well, is set  *)
(* by nothing and left out.                                                 *)
Resolve(r) ==
  LET req == request[r]
      c == req.case
  IN  /\ req.at = "resolve"
      /\ IF Unchanged(req)
         THEN /\ lateCase' = [lateCase EXCEPT ![c].status = req.next, ![c].version = @ + 1]
              /\ history' = [history EXCEPT ![c] =
                               Append(@, [previous |-> req.status, next |-> req.next,
                                          version |-> req.version])]
         ELSE UNCHANGED caseVars
      /\ Goto(r, Idle)
      /\ UNCHANGED scanVars

-----------------------------------------------------------------------------
Scan(r) ==
  \/ \E t \in Tickets, allowOverride \in BOOLEAN : LockTicket(r, t, allowOverride)
  \/ ValidateTicket(r) \/ ReadCurrent(r) \/ CheckIn(r) \/ AbortScan(r)

FulfilNext ==
  \/ \E c \in Cases : OpenCase(c)
  \/ \E r \in Requests :
       \/ Scan(r)
       \/ \E c \in Cases, next \in CaseStatus : BeginResolve(r, c, next)
       \/ Resolve(r)

FulfilSpec == FulfilInit /\ [][FulfilNext]_fulfilVars

-----------------------------------------------------------------------------
(* Properties. *)

(* However many gates scan a ticket at once, it lets in one person, and     *)
(* every further entry is an override on record.                            *)
EntriesJustified ==
  \A t \in Tickets :
    entries[t] = overrides[t] + (IF ticket[t] = "checked_in" THEN 1 ELSE 0)

(* The audit rows of a case tell its story whole: each starts where the one *)
(* before it ended, by an allowed transition, from PENDING to the status    *)
(* the case has. Of operators who decide at once one is refused, and what   *)
(* is accepted, rejected or refunded is not decided again.                  *)
HistoryIsComplete ==
  \A c \in Cases :
    LET steps == history[c]
        Status(k) == IF k = 0 THEN "PENDING" ELSE steps[k].next
    IN  /\ lateCase[c].version = Len(steps)
        /\ \A k \in DOMAIN steps :
             /\ steps[k].previous = Status(k - 1)
             /\ steps[k].next \in allowedTransitions[steps[k].previous]
             /\ steps[k].version = k - 1
        /\ lateCase[c].status # "none" => lateCase[c].status = Status(Len(steps))
=============================================================================
