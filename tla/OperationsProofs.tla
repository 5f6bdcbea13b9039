-------------------------- MODULE OperationsProofs --------------------------
(***************************************************************************)
(* Theorems about what goes on around the checkout: Fulfilment, for any    *)
(* number of tickets, cases and requests in progress; Notifications, for   *)
(* any number of orders, resends, attempts and stalls; ProviderEventLease, *)
(* for any number of workers and attempts and any length of the lease.     *)
(***************************************************************************)
EXTENDS Fulfilment, Notifications, ProviderEventLease, SequenceTheorems, TLAPS

(***************************************************************************)
(* Fulfilment.                                                             *)
(***************************************************************************)

Scanning == {"locked", "validated", "enter"}

(* Who scans a ticket holds its row, and has found it not used; so nobody   *)
(* gets as far as the override.                                             *)
ScanInv ==
  /\ \A r \in Requests : request[r].at \in Scanning => ticketLock[request[r].ticket] = r
  /\ \A r \in Requests : request[r].at \in {"validated", "enter"} =>
       ticket[request[r].ticket] = "issued"
  /\ \A r \in Requests : request[r].at = "enter" => request[r].current = "issued"
  /\ \A t \in Tickets : overrides[t] = 0
  /\ \A t \in Tickets : entries[t] = IF ticket[t] = "checked_in" THEN 1 ELSE 0

-----------------------------------------------------------------------------
(* Types. *)

ScanRequests ==
  [at : {"locked", "validated"}, ticket : Tickets, allowOverride : BOOLEAN]
    \cup [at : {"enter"}, ticket : Tickets, current : {"issued", "checked_in"}]

ResolveRequests ==
  [at : {"resolve"}, case : Cases, status : CaseStatus, version : Nat, next : CaseStatus]

LEMMA RequestTypes ==
  ASSUME FulfilTypeOK, NEW r \in Requests
  PROVE  /\ request[r].at \in Scanning => request[r] \in ScanRequests
         /\ request[r].at = "resolve" => request[r] \in ResolveRequests
         /\ request[r].at \in {"locked", "validated"} =>
              /\ request[r] \in [at : {"locked", "validated"}, ticket : Tickets, allowOverride : BOOLEAN]
         /\ request[r].at \in {"idle"} \cup Scanning \cup {"resolve"}
BY DEF FulfilTypeOK, Idle, Scanning, ScanRequests, ResolveRequests

LEMMA UnlockTypes ==
  ASSUME FulfilTypeOK, NEW r \in Requests, Unlock(r)
  PROVE  ticketLock' \in [Tickets -> Requests \cup {NoRequest}]
BY DEF FulfilTypeOK, Unlock

LEMMA GotoTypes ==
  ASSUME FulfilTypeOK, NEW r \in Requests, NEW what \in {Idle} \cup ScanRequests \cup ResolveRequests,
         Goto(r, what)
  PROVE  request' \in [Requests -> {Idle} \cup ScanRequests \cup ResolveRequests]
BY DEF FulfilTypeOK, Goto, ScanRequests, ResolveRequests

LEMMA InitTypes == FulfilInit => FulfilTypeOK
BY DEF FulfilInit, FulfilTypeOK, CaseStatus

LEMMA StepKeepsTypes == FulfilTypeOK /\ [FulfilNext]_fulfilVars => FulfilTypeOK'
<1> SUFFICES ASSUME FulfilTypeOK, [FulfilNext]_fulfilVars
             PROVE  FulfilTypeOK'
  OBVIOUS
<1> DEFINE Reqs == [Requests -> {Idle} \cup ScanRequests \cup ResolveRequests]
           Locks == [Tickets -> Requests \cup {NoRequest}]
           Rest == /\ ticket' \in [Tickets -> {"issued", "checked_in"}]
                   /\ entries' \in [Tickets -> Nat]
                   /\ overrides' \in [Tickets -> Nat]
                   /\ lateCase' \in [Cases -> [status : CaseStatus, version : Nat]]
                   /\ history' \in [Cases -> Seq([previous : CaseStatus, next : CaseStatus, version : Nat])]
<1>1. ASSUME request' \in Reqs, ticketLock' \in Locks, Rest
      PROVE  FulfilTypeOK'
  BY <1>1 DEF FulfilTypeOK, ScanRequests, ResolveRequests
<1>2. ASSUME UNCHANGED <<ticket, entries, overrides, caseVars>>
      PROVE  Rest
  BY <1>2 DEF FulfilTypeOK, caseVars
<1>3. ASSUME NEW r \in Requests, NEW t \in Tickets, NEW allowOverride \in BOOLEAN,
             LockTicket(r, t, allowOverride)
      PROVE  FulfilTypeOK'
  <2>1. [at |-> "locked", ticket |-> t, allowOverride |-> allowOverride] \in ScanRequests
    BY DEF ScanRequests
  <2>2. request' \in Reqs
    BY <1>3, <2>1, GotoTypes DEF LockTicket
  <2>3. ticketLock' \in Locks
    BY <1>3 DEF LockTicket, FulfilTypeOK
  <2>4. QED
    BY <1>1, <1>2, <1>3, <2>2, <2>3 DEF LockTicket
<1>4. ASSUME NEW r \in Requests, ValidateTicket(r)
      PROVE  FulfilTypeOK'
  <2>1. [request[r] EXCEPT !.at = "validated"] \in ScanRequests
    BY <1>4, RequestTypes DEF ValidateTicket, ScanRequests
  <2>2. request' \in Reqs
    BY <1>4, <2>1, GotoTypes DEF ValidateTicket
  <2>3. ticketLock' \in Locks
    BY <1>4, UnlockTypes DEF ValidateTicket, FulfilTypeOK
  <2>4. QED
    BY <1>1, <1>2, <1>4, <2>2, <2>3 DEF ValidateTicket
<1>5. ASSUME NEW r \in Requests, ReadCurrent(r)
      PROVE  FulfilTypeOK'
  <2>1. request[r].ticket \in Tickets
    BY <1>5, RequestTypes DEF ReadCurrent
  <2>2. [at |-> "enter", ticket |-> request[r].ticket, current |-> ticket[request[r].ticket]]
          \in ScanRequests
    BY <2>1 DEF ScanRequests, FulfilTypeOK
  <2>3. request' \in Reqs
    BY <1>5, <2>2, GotoTypes DEF ReadCurrent
  <2>4. ticketLock' \in Locks
    BY <1>5, UnlockTypes DEF ReadCurrent, FulfilTypeOK
  <2>5. QED
    BY <1>1, <1>2, <1>5, <2>3, <2>4 DEF ReadCurrent
<1>6. ASSUME NEW r \in Requests, CheckIn(r)
      PROVE  FulfilTypeOK'
  <2>1. request' \in Reqs /\ ticketLock' \in Locks
    BY <1>6, GotoTypes, UnlockTypes DEF CheckIn
  <2>2. ticket' \in [Tickets -> {"issued", "checked_in"}]
    BY <1>6 DEF CheckIn, FulfilTypeOK
  <2>0. PICK t \in Tickets : t = request[r].ticket
    BY <1>6, RequestTypes DEF CheckIn, ScanRequests, Scanning
  <2>3. entries' \in [Tickets -> Nat]
    <3>1. entries' = [entries EXCEPT ![t] = entries[t] + 1]
      BY <1>6, <2>0 DEF CheckIn
    <3>2. QED
      BY <3>1 DEF FulfilTypeOK
  <2>4. overrides' \in [Tickets -> Nat]
    <3> DEFINE more == [overrides EXCEPT ![t] = overrides[t] + 1]
    <3>1. overrides \in [Tickets -> Nat] /\ more \in [Tickets -> Nat]
      BY DEF FulfilTypeOK
    <3>2. overrides' \in {overrides, more}
      BY <1>6, <2>0 DEF CheckIn
    <3> HIDE DEF more
    <3>3. QED
      BY <3>1, <3>2
  <2>5. UNCHANGED caseVars
    BY <1>6 DEF CheckIn
  <2>6. Rest
    BY <2>2, <2>3, <2>4, <2>5 DEF FulfilTypeOK, caseVars
  <2>7. QED
    BY <1>1, <2>1, <2>6
<1>7. ASSUME NEW r \in Requests, AbortScan(r)
      PROVE  FulfilTypeOK'
  BY <1>1, <1>2, <1>7, GotoTypes, UnlockTypes DEF AbortScan
<1>8. ASSUME NEW c \in Cases, OpenCase(c)
      PROVE  FulfilTypeOK'
  BY <1>8 DEF OpenCase, FulfilTypeOK, scanVars, CaseStatus
<1>9. ASSUME NEW r \in Requests, NEW c \in Cases, NEW next \in CaseStatus, BeginResolve(r, c, next)
      PROVE  FulfilTypeOK'
  <2>1. [at |-> "resolve", case |-> c, status |-> lateCase[c].status,
         version |-> lateCase[c].version, next |-> next] \in ResolveRequests
    BY DEF ResolveRequests, FulfilTypeOK
  <2>2. request' \in Reqs
    BY <1>9, <2>1, GotoTypes DEF BeginResolve
  <2>3. ticketLock' \in Locks
    BY <1>9 DEF BeginResolve, FulfilTypeOK, scanVars
  <2>4. QED
    BY <1>1, <1>2, <1>9, <2>2, <2>3 DEF BeginResolve, scanVars
<1>10. ASSUME NEW r \in Requests, Resolve(r)
       PROVE  FulfilTypeOK'
  <2> DEFINE req == request[r]
             row == [previous |-> req.status, next |-> req.next, version |-> req.version]
  <2>1. req \in ResolveRequests
    BY <1>10, RequestTypes DEF Resolve
  <2>2. request' \in Reqs /\ ticketLock' \in Locks
    BY <1>10, GotoTypes DEF Resolve, scanVars, FulfilTypeOK
  <2>3. row \in [previous : CaseStatus, next : CaseStatus, version : Nat]
    BY <2>1 DEF ResolveRequests
  <2>4. CASE ~Unchanged(req)
    BY <1>1, <1>2, <1>10, <2>2, <2>4 DEF Resolve, scanVars
  <2>5. CASE Unchanged(req)
    <3> DEFINE Steps == [previous : CaseStatus, next : CaseStatus, version : Nat]
    <3>1. PICK c \in Cases : c = req.case
      BY <2>1 DEF ResolveRequests
    <3>2. history[c] \in Seq(Steps)
      BY DEF FulfilTypeOK
    <3>3. Append(history[c], row) \in Seq(Steps)
      <4> HIDE DEF Steps, row
      <4>1. QED
        BY <2>3, <3>2 DEF Steps
    <3>4. history' = [history EXCEPT ![c] = Append(history[c], row)]
      BY <1>10, <2>5, <3>1 DEF Resolve
    <3>5. history' \in [Cases -> Seq(Steps)]
      <4>1. history \in [Cases -> Seq(Steps)]
        BY DEF FulfilTypeOK
      <4> DEFINE S == Seq(Steps)
                 longer == Append(history[c], row)
      <4>2. longer \in S /\ history \in [Cases -> S] /\ history' = [history EXCEPT ![c] = longer]
        BY <3>3, <3>4, <4>1
      <4> HIDE DEF S, longer
      <4>3. history' \in [Cases -> S]
        BY <4>2
      <4>4. QED
        BY <4>3 DEF S
    <3>6. lateCase' \in [Cases -> [status : CaseStatus, version : Nat]]
      <4>1. lateCase' = [lateCase EXCEPT ![c].status = req.next, ![c].version = lateCase[c].version + 1]
        BY <1>10, <2>5, <3>1 DEF Resolve
      <4>2. req.next \in CaseStatus
        BY <2>1 DEF ResolveRequests
      <4>3. lateCase[c] \in [status : CaseStatus, version : Nat]
        BY DEF FulfilTypeOK
      <4>4. lateCase[c].version + 1 \in Nat
        BY <4>3
      <4>5. [lateCase[c] EXCEPT !.status = req.next, !.version = lateCase[c].version + 1]
              \in [status : CaseStatus, version : Nat]
        BY <4>2, <4>3, <4>4
      <4>6. QED
        BY <4>1, <4>5 DEF FulfilTypeOK
    <3>7. UNCHANGED scanVars
      BY <1>10 DEF Resolve
    <3>8. Rest
      BY <3>5, <3>6, <3>7 DEF FulfilTypeOK, scanVars
    <3>9. QED
      BY <1>1, <2>2, <3>8
  <2>6. QED
    BY <2>4, <2>5
<1>11. CASE UNCHANGED fulfilVars
  BY <1>11 DEF fulfilVars, scanVars, caseVars, FulfilTypeOK
<1>12. QED
  BY <1>3, <1>4, <1>5, <1>6, <1>7, <1>8, <1>9, <1>10, <1>11 DEF FulfilNext, Scan

(* Every reachable state has the types of its rows and requests. *)
THEOREM FulfilTypeCorrect == FulfilSpec => []FulfilTypeOK
BY InitTypes, StepKeepsTypes, PTL DEF FulfilSpec

-----------------------------------------------------------------------------
(* Check-in. *)

(* Releasing the rows of one request leaves those of the others. *)
LEMMA UnlockKeepsOthers ==
  ASSUME FulfilTypeOK, ScanInv, NEW r \in Requests, NEW q \in Requests \ {r},
         request[q].at \in Scanning, Unlock(r)
  PROVE  ticketLock'[request[q].ticket] = q
<1>1. request[q].ticket \in Tickets /\ ticketLock[request[q].ticket] = q
  BY RequestTypes DEF ScanInv, ScanRequests
<1>2. QED
  BY <1>1 DEF Unlock

LEMMA InitScans == FulfilInit => ScanInv
BY DEF FulfilInit, ScanInv, Idle, Scanning

LEMMA StepKeepsScans == FulfilTypeOK /\ ScanInv /\ [FulfilNext]_fulfilVars => ScanInv'
<1> SUFFICES ASSUME FulfilTypeOK, ScanInv, [FulfilNext]_fulfilVars
             PROVE  ScanInv'
  OBVIOUS
<1>0. request \in [Requests -> UNION {{request[q]} : q \in Requests}]
  BY DEF FulfilTypeOK
<1> DEFINE Counts == /\ \A t \in Tickets : overrides[t] = 0
                     /\ \A t \in Tickets : entries[t] = IF ticket[t] = "checked_in" THEN 1 ELSE 0
           Fits(q) == /\ request[q].at \in Scanning => ticketLock[request[q].ticket] = q
                      /\ request[q].at \in {"validated", "enter"} => ticket[request[q].ticket] = "issued"
                      /\ request[q].at = "enter" => request[q].current = "issued"
<1>1. Counts /\ \A q \in Requests : Fits(q)
  BY DEF ScanInv
<1>2. ASSUME Counts', \A q \in Requests : Fits(q)'
      PROVE  ScanInv'
  BY <1>2 DEF ScanInv
<1>3. ASSUME UNCHANGED <<ticket, entries, overrides>>
      PROVE  Counts'
  BY <1>1, <1>3
(* A request that goes back to idle, or turns to a case. *)
<1>4. ASSUME NEW r \in Requests, NEW what, Goto(r, what), what.at \notin Scanning,
             UNCHANGED <<ticket, entries, overrides>>, Unlock(r) \/ UNCHANGED ticketLock
      PROVE  ScanInv'
  <2>1. request'[r] = what /\ \A q \in Requests \ {r} : request'[q] = request[q]
    BY <1>0, <1>4 DEF Goto
  <2>2. Fits(r)'
    BY <1>4, <2>1 DEF Scanning
  <2>3. ASSUME NEW q \in Requests \ {r}
        PROVE  Fits(q)'
    <3>1. request'[q] = request[q] /\ Fits(q)
      BY <1>1, <2>1
    <3>2. request[q].at \in Scanning => ticketLock'[request[q].ticket] = q
      BY <1>4, <3>1, UnlockKeepsOthers
    <3>3. QED
      BY <1>4, <3>1, <3>2
  <2>4. QED
    BY <1>2, <1>3, <1>4, <2>2, <2>3
<1>5. ASSUME NEW r \in Requests, NEW t \in Tickets, NEW allowOverride \in BOOLEAN,
             LockTicket(r, t, allowOverride)
      PROVE  ScanInv'
  <2>1. /\ ticketLock[t] = NoRequest
        /\ ticketLock' = [ticketLock EXCEPT ![t] = r]
        /\ UNCHANGED <<ticket, entries, overrides>>
    BY <1>5 DEF LockTicket, LockFree
  <2>2. /\ request'[r] = [at |-> "locked", ticket |-> t, allowOverride |-> allowOverride]
        /\ \A q \in Requests \ {r} : request'[q] = request[q]
    BY <1>0, <1>5 DEF LockTicket, Goto
  <2>3. Fits(r)'
    BY <2>1, <2>2 DEF FulfilTypeOK
  <2>4. ASSUME NEW q \in Requests \ {r}
        PROVE  Fits(q)'
    <3>1. request'[q] = request[q] /\ Fits(q)
      BY <1>1, <2>2
    <3>2. ASSUME request[q].at \in Scanning
          PROVE  ticketLock'[request[q].ticket] = q
      <4>1. ticketLock[request[q].ticket] = q /\ request[q].ticket \in Tickets
        BY <3>1, <3>2, RequestTypes DEF ScanRequests
      <4>2. request[q].ticket # t
        BY <2>1, <4>1, FulfilmentAssumption
      <4>3. QED
        BY <2>1, <4>1, <4>2 DEF FulfilTypeOK
    <3>3. QED
      BY <2>1, <3>1, <3>2
  <2>5. QED
    BY <1>2, <1>3, <2>1, <2>3, <2>4
<1>6. ASSUME NEW r \in Requests, ValidateTicket(r)
      PROVE  ScanInv'
  <2>1. CASE ticket[request[r].ticket] # "issued"
    BY <1>4, <1>6, <2>1 DEF ValidateTicket, Idle, Scanning
  <2>2. CASE ticket[request[r].ticket] = "issued"
    <3>1. /\ Goto(r, [request[r] EXCEPT !.at = "validated"])
          /\ UNCHANGED <<ticketLock, ticket, entries, overrides>>
          /\ request[r].at = "locked"
      BY <1>6, <2>2 DEF ValidateTicket
    <3>2. request[r] \in [at : {"locked", "validated"}, ticket : Tickets, allowOverride : BOOLEAN]
      BY <3>1, RequestTypes
    <3>3. /\ request'[r].at = "validated" /\ request'[r].ticket = request[r].ticket
          /\ \A q \in Requests \ {r} : request'[q] = request[q]
      BY <1>0, <3>1, <3>2 DEF Goto
    <3>4. Fits(r)'
      BY <1>1, <2>2, <3>1, <3>3 DEF Scanning
    <3>5. ASSUME NEW q \in Requests \ {r}
          PROVE  Fits(q)'
      BY <1>1, <3>1, <3>3
    <3>6. QED
      BY <1>2, <1>3, <3>1, <3>4, <3>5
  <2>3. QED
    BY <2>1, <2>2
<1>7. ASSUME NEW r \in Requests, ReadCurrent(r)
      PROVE  ScanInv'
  <2>1. request[r].at = "validated" /\ ticket[request[r].ticket] = "issued"
    BY <1>1, <1>7 DEF ReadCurrent
  <2>2. /\ Goto(r, [at |-> "enter", ticket |-> request[r].ticket, current |-> "issued"])
        /\ UNCHANGED <<ticketLock, ticket, entries, overrides>>
    BY <1>7, <2>1 DEF ReadCurrent
  <2>3. /\ request'[r] = [at |-> "enter", ticket |-> request[r].ticket, current |-> "issued"]
        /\ \A q \in Requests \ {r} : request'[q] = request[q]
    BY <1>0, <2>2 DEF Goto
  <2>4. Fits(r)'
    BY <1>1, <2>1, <2>2, <2>3 DEF Scanning
  <2>5. ASSUME NEW q \in Requests \ {r}
        PROVE  Fits(q)'
    BY <1>1, <2>2, <2>3
  <2>6. QED
    BY <1>2, <1>3, <2>2, <2>4, <2>5
<1>8. ASSUME NEW r \in Requests, CheckIn(r)
      PROVE  ScanInv'
  <2>1. PICK t \in Tickets : t = request[r].ticket
    BY <1>8, RequestTypes DEF CheckIn, ScanRequests, Scanning
  <2>2. /\ ticket[t] = "issued" /\ request[r].current = "issued" /\ ticketLock[t] = r
        /\ entries[t] = 0
    BY <1>1, <1>8, <2>1 DEF CheckIn, Scanning
  <2>3. /\ ticket' = [ticket EXCEPT ![t] = "checked_in"]
        /\ entries' = [entries EXCEPT ![t] = entries[t] + 1]
        /\ overrides' = overrides
    BY <1>8, <2>1, <2>2 DEF CheckIn
  <2>4. Counts'
    BY <1>1, <2>2, <2>3 DEF FulfilTypeOK
  <2>5. request'[r] = Idle /\ \A q \in Requests \ {r} : request'[q] = request[q]
    BY <1>0, <1>8 DEF CheckIn, Goto
  <2>6. Fits(r)'
    BY <2>5 DEF Idle, Scanning
  <2>7. ASSUME NEW q \in Requests \ {r}
        PROVE  Fits(q)'
    <3>1. request'[q] = request[q] /\ Fits(q)
      BY <1>1, <2>5
    <3>2. ASSUME request[q].at \in Scanning
          PROVE  /\ ticketLock'[request[q].ticket] = q
                 /\ ticket'[request[q].ticket] = ticket[request[q].ticket]
      <4>1. ticketLock[request[q].ticket] = q /\ request[q].ticket \in Tickets
        BY <3>1, <3>2, RequestTypes DEF ScanRequests
      <4>2. request[q].ticket # t
        BY <2>2, <4>1
      <4>3. ticketLock'[request[q].ticket] = q
        BY <1>8, <3>2, UnlockKeepsOthers DEF CheckIn
      <4>4. QED
        BY <2>3, <4>1, <4>2, <4>3 DEF FulfilTypeOK
    <3>3. QED
      BY <3>1, <3>2 DEF Scanning
  <2>8. QED
    BY <1>2, <2>4, <2>6, <2>7
<1>9. ASSUME NEW r \in Requests, AbortScan(r)
      PROVE  ScanInv'
  BY <1>4, <1>9 DEF AbortScan, Idle, Scanning
<1>10. ASSUME NEW r \in Requests, NEW c \in Cases, NEW next \in CaseStatus, BeginResolve(r, c, next)
       PROVE  ScanInv'
  BY <1>4, <1>10 DEF BeginResolve, Scanning, scanVars
<1>11. ASSUME NEW r \in Requests, Resolve(r)
       PROVE  ScanInv'
  BY <1>4, <1>11 DEF Resolve, Idle, Scanning, scanVars
<1>12. CASE UNCHANGED <<scanVars, request>>
  BY <1>12 DEF scanVars, ScanInv
<1>13. ASSUME NEW c \in Cases, OpenCase(c)
       PROVE  ScanInv'
  <2>1. UNCHANGED <<scanVars, request>>
    BY <1>13 DEF OpenCase
  <2>2. QED
    BY <1>12, <2>1
<1>14. ASSUME NEW r \in Requests, Scan(r)
       PROVE  ScanInv'
  BY <1>5, <1>6, <1>7, <1>8, <1>9, <1>14 DEF Scan
<1>15. CASE UNCHANGED fulfilVars
  <2>1. UNCHANGED <<scanVars, request>>
    BY <1>15 DEF fulfilVars
  <2>2. QED
    BY <1>12, <2>1
<1>16. QED
  BY <1>10, <1>11, <1>13, <1>14, <1>15 DEF FulfilNext

LEMMA ScansAreSafe == FulfilSpec => []ScanInv
BY InitScans, StepKeepsScans, FulfilTypeCorrect, PTL DEF FulfilSpec

(* One entry per ticket, however many gates scan it at once. *)
THEOREM EntriesAreJustified == FulfilSpec => []EntriesJustified
<1>1. ASSUME ScanInv
      PROVE  EntriesJustified
  <2> SUFFICES ASSUME NEW t \in Tickets
               PROVE  entries[t] = overrides[t] + (IF ticket[t] = "checked_in" THEN 1 ELSE 0)
    BY DEF EntriesJustified
  <2>1. overrides[t] = 0 /\ entries[t] = IF ticket[t] = "checked_in" THEN 1 ELSE 0
    BY <1>1 DEF ScanInv
  <2>2. CASE ticket[t] = "checked_in"
    BY <2>1, <2>2
  <2>3. CASE ticket[t] # "checked_in"
    BY <2>1, <2>3
  <2>4. QED
    BY <2>2, <2>3
<1>2. QED
  BY <1>1, ScansAreSafe, PTL

(* No scan ever records an override: one that asks for it is refused by     *)
(* validateTicketRecord, or finds the ticket still unused under the lock.   *)
THEOREM OverrideNeverRuns == FulfilSpec => [](\A t \in Tickets : overrides[t] = 0)
BY ScansAreSafe, PTL DEF ScanInv

-----------------------------------------------------------------------------
(* Late payment cases. *)

(* A case with no payment has no history, and who resolves one has found   *)
(* the transition allowed.                                                 *)
CaseInv ==
  /\ HistoryIsComplete
  /\ \A c \in Cases : lateCase[c].status = "none" => history[c] = <<>>
  /\ \A r \in Requests : request[r].at = "resolve" =>
       request[r].next \in allowedTransitions[request[r].status]

Story(status, version, steps) ==
  LET Status(k) == IF k = 0 THEN "PENDING" ELSE steps[k].next
  IN  /\ version = Len(steps)
      /\ \A k \in DOMAIN steps :
           /\ steps[k].previous = Status(k - 1)
           /\ steps[k].next \in allowedTransitions[steps[k].previous]
           /\ steps[k].version = k - 1
      /\ status # "none" => status = Status(Len(steps))

Steps == [previous : CaseStatus, next : CaseStatus, version : Nat]

(* One more allowed step, from the status and version the story has reached. *)
LEMMA StoryGrows ==
  ASSUME NEW status \in CaseStatus \ {"none"}, NEW version \in Nat,
         NEW steps \in Seq(Steps), Story(status, version, steps),
         NEW next \in allowedTransitions[status], next \in CaseStatus
  PROVE  Story(next, version + 1,
               Append(steps, [previous |-> status, next |-> next, version |-> version]))
<1> DEFINE row == [previous |-> status, next |-> next, version |-> version]
           longer == Append(steps, row)
           n == Len(steps)
<1>1. row \in Steps
  BY DEF Steps
<1>2. n \in Nat /\ version = n /\ DOMAIN steps = 1..n
  BY DEF Story
<1>3. row.previous = status /\ row.next = next /\ row.version = version
  OBVIOUS
<1>4. status = IF n = 0 THEN "PENDING" ELSE steps[n].next
  BY DEF Story
<1>5. /\ Len(longer) = n + 1 /\ DOMAIN longer = 1..(n + 1)
      /\ longer[n + 1] = row
      /\ \A k \in 1..n : longer[k] = steps[k]
  <2> HIDE DEF row
  <2>1. QED
    BY <1>1, <1>2, AppendProperties
<1> HIDE DEF row, longer, n
<1>6. ASSUME NEW k \in 1..(n + 1)
      PROVE  /\ longer[k].previous = IF k - 1 = 0 THEN "PENDING" ELSE longer[k - 1].next
             /\ longer[k].next \in allowedTransitions[longer[k].previous]
             /\ longer[k].version = k - 1
  <2>1. CASE k = n + 1
    <3>1. k - 1 = n
      BY <1>2, <2>1
    <3>2. n # 0 => longer[n] = steps[n]
      BY <1>2, <1>5
    <3>3. longer[k].previous = status /\ longer[k].next = next /\ longer[k].version = n
      BY <1>2, <1>3, <1>5, <2>1
    <3>4. QED
      BY <1>4, <3>1, <3>2, <3>3
  <2>2. CASE k # n + 1
    <3>1. k \in 1..n /\ longer[k] = steps[k]
      BY <1>2, <1>5, <2>2
    <3>2. k - 1 # 0 => longer[k - 1] = steps[k - 1]
      BY <1>2, <1>5, <3>1
    <3>3. /\ steps[k].previous = IF k - 1 = 0 THEN "PENDING" ELSE steps[k - 1].next
          /\ steps[k].next \in allowedTransitions[steps[k].previous]
          /\ steps[k].version = k - 1
      BY <1>2, <3>1 DEF Story
    <3>4. QED
      BY <3>1, <3>2, <3>3
  <2>3. QED
    BY <2>1, <2>2
<1>7. next = IF n + 1 = 0 THEN "PENDING" ELSE longer[n + 1].next
  BY <1>2, <1>3, <1>5
<1>8. Story(next, version + 1, longer)
  BY <1>2, <1>5, <1>6, <1>7 DEF Story
<1>9. QED
  BY <1>8 DEF longer, row

LEMMA HistoryIsStory ==
  HistoryIsComplete <=> \A c \in Cases : Story(lateCase[c].status, lateCase[c].version, history[c])
BY DEF HistoryIsComplete, Story

LEMMA InitCases == FulfilInit => CaseInv
<1> SUFFICES ASSUME FulfilInit
             PROVE  CaseInv
  OBVIOUS
<1>1. \A c \in Cases : lateCase[c].status = "none" /\ lateCase[c].version = 0 /\ history[c] = <<>>
  BY DEF FulfilInit
<1>2. HistoryIsComplete
  BY <1>1 DEF HistoryIsComplete
<1>3. QED
  BY <1>1, <1>2 DEF CaseInv, FulfilInit, Idle

LEMMA StepKeepsCases == FulfilTypeOK /\ CaseInv /\ [FulfilNext]_fulfilVars => CaseInv'
<1> SUFFICES ASSUME FulfilTypeOK, CaseInv, [FulfilNext]_fulfilVars
             PROVE  CaseInv'
  OBVIOUS
<1>0. request \in [Requests -> UNION {{request[q]} : q \in Requests}]
  BY DEF FulfilTypeOK
<1> DEFINE Told(c) == /\ Story(lateCase[c].status, lateCase[c].version, history[c])
                      /\ lateCase[c].status = "none" => history[c] = <<>>
           Asks(q) == request[q].at = "resolve" =>
                        request[q].next \in allowedTransitions[request[q].status]
<1>1. (\A c \in Cases : Told(c)) /\ (\A q \in Requests : Asks(q))
  BY HistoryIsStory DEF CaseInv
<1>2. ASSUME \A c \in Cases : Told(c)', \A q \in Requests : Asks(q)'
      PROVE  CaseInv'
  <2>1. HistoryIsComplete'
    BY <1>2 DEF HistoryIsComplete, Story
  <2>2. QED
    BY <1>2, <2>1 DEF CaseInv
<1>3. ASSUME UNCHANGED caseVars
      PROVE  \A c \in Cases : Told(c)'
  BY <1>1, <1>3 DEF caseVars, Story
(* Of the requests only one moves, and not to resolve. *)
<1>4. ASSUME NEW r \in Requests, NEW what, Goto(r, what), what.at # "resolve"
      PROVE  \A q \in Requests : Asks(q)'
  BY <1>0, <1>1, <1>4 DEF Goto
<1>5. ASSUME NEW r \in Requests, Scan(r)
      PROVE  CaseInv'
  <2>1. UNCHANGED caseVars
    BY <1>5 DEF Scan, LockTicket, ValidateTicket, ReadCurrent, CheckIn, AbortScan
  <2>2. \A q \in Requests : Asks(q)'
    <3>1. CASE ValidateTicket(r)
      <4>1. request[r] \in [at : {"locked", "validated"}, ticket : Tickets, allowOverride : BOOLEAN]
        BY <3>1, RequestTypes DEF ValidateTicket
      <4>2. [request[r] EXCEPT !.at = "validated"].at # "resolve"
        BY <4>1
      <4>3. Idle.at # "resolve"
        BY DEF Idle
      <4>4. QED
        BY <1>4, <3>1, <4>2, <4>3 DEF ValidateTicket
    <3>2. CASE ~ValidateTicket(r)
      BY <1>4, <1>5, <3>2 DEF Scan, LockTicket, ReadCurrent, CheckIn, AbortScan, Idle
    <3>3. QED
      BY <3>1, <3>2
  <2>3. QED
    BY <1>2, <1>3, <2>1, <2>2
<1>6. ASSUME NEW c \in Cases, OpenCase(c)
      PROVE  CaseInv'
  <2>1. /\ lateCase' = [lateCase EXCEPT ![c].status = "PENDING"]
        /\ UNCHANGED <<history, request>>
        /\ lateCase[c].status = "none"
    BY <1>6 DEF OpenCase
  <2>2. lateCase'[c].status = "PENDING" /\ lateCase'[c].version = lateCase[c].version
    BY <2>1 DEF FulfilTypeOK
  <2>3. \A d \in Cases \ {c} : lateCase'[d] = lateCase[d]
    BY <2>1 DEF FulfilTypeOK
  <2>4. Told(c)'
    <3>1. history'[c] = <<>> /\ lateCase[c].version = 0
      BY <1>1, <2>1 DEF Story
    <3>2. QED
      BY <2>2, <3>1 DEF Story
  <2>5. ASSUME NEW d \in Cases \ {c}
        PROVE  Told(d)'
    BY <1>1, <2>1, <2>3 DEF Story
  <2>6. \A q \in Requests : Asks(q)'
    BY <1>1, <2>1
  <2>7. QED
    BY <1>2, <2>4, <2>5, <2>6
<1>7. ASSUME NEW r \in Requests, NEW c \in Cases, NEW next \in CaseStatus, BeginResolve(r, c, next)
      PROVE  CaseInv'
  <2>1. UNCHANGED caseVars
    BY <1>7 DEF BeginResolve
  <2>2. next \in allowedTransitions[lateCase[c].status]
    BY <1>7 DEF BeginResolve
  <2>3. /\ request'[r] = [at |-> "resolve", case |-> c, status |-> lateCase[c].status,
                          version |-> lateCase[c].version, next |-> next]
        /\ \A q \in Requests \ {r} : request'[q] = request[q]
    BY <1>0, <1>7 DEF BeginResolve, Goto
  <2>4. \A q \in Requests : Asks(q)'
    BY <1>1, <2>2, <2>3
  <2>5. QED
    BY <1>2, <1>3, <2>1, <2>4
<1>8. ASSUME NEW r \in Requests, Resolve(r)
      PROVE  CaseInv'
  <2>1. PICK req : req = request[r]
    OBVIOUS
  <2>2. PICK c : c = req.case
    OBVIOUS
  <2>3. c \in Cases /\ req \in ResolveRequests /\ req.at = "resolve"
    BY <1>8, <2>1, <2>2, RequestTypes DEF Resolve, ResolveRequests
  <2>4. \A q \in Requests : Asks(q)'
    BY <1>4, <1>8 DEF Resolve, Idle
  <2>5. CASE ~Unchanged(req)
    BY <1>2, <1>3, <1>8, <2>1, <2>4, <2>5 DEF Resolve
  <2>6. CASE Unchanged(req)
    <3> DEFINE row == [previous |-> req.status, next |-> req.next, version |-> req.version]
    <3>1. /\ lateCase[c].status = req.status /\ lateCase[c].version = req.version
      BY <2>2, <2>6 DEF Unchanged
    <3>2. /\ lateCase' = [lateCase EXCEPT ![c].status = req.next, ![c].version = lateCase[c].version + 1]
          /\ history' = [history EXCEPT ![c] = Append(history[c], row)]
      BY <1>8, <2>1, <2>2, <2>6 DEF Resolve
    <3>3. req.status \in CaseStatus /\ req.next \in CaseStatus /\ req.version \in Nat
      BY <2>3 DEF ResolveRequests
    <3>4. req.next \in allowedTransitions[req.status]
      BY <1>1, <2>1, <2>3
    <3>5. req.status # "none" /\ req.next # "none"
      BY <3>3, <3>4 DEF allowedTransitions, CaseStatus
    <3>6. history[c] \in Seq(Steps)
      BY <2>3 DEF FulfilTypeOK, Steps
    <3>7. Story(req.next, req.version + 1, Append(history[c], row))
      BY <1>1, <2>3, <3>1, <3>3, <3>4, <3>5, <3>6, StoryGrows
    <3>8. lateCase'[c].status = req.next /\ lateCase'[c].version = req.version + 1
      BY <2>3, <3>1, <3>2 DEF FulfilTypeOK
    <3>9. history'[c] = Append(history[c], row)
      BY <2>3, <3>2 DEF FulfilTypeOK
    <3>10. Told(c)'
      BY <3>5, <3>7, <3>8, <3>9
    <3>11. ASSUME NEW d \in Cases \ {c}
           PROVE  Told(d)'
      <4>1. lateCase'[d] = lateCase[d] /\ history'[d] = history[d]
        BY <3>2, <3>11 DEF FulfilTypeOK
      <4>2. QED
        BY <1>1, <4>1
    <3>12. QED
      BY <1>2, <2>3, <2>4, <3>10, <3>11
  <2>7. QED
    BY <2>5, <2>6
<1>9. CASE UNCHANGED fulfilVars
  <2>1. UNCHANGED caseVars /\ request' = request
    BY <1>9 DEF fulfilVars
  <2>2. QED
    BY <1>1, <1>2, <1>3, <2>1
<1>10. QED
  BY <1>5, <1>6, <1>7, <1>8, <1>9 DEF FulfilNext

(* Operators who resolve a case at once never lose or fork its history. *)
THEOREM HistoriesAreComplete == FulfilSpec => []HistoryIsComplete
<1>1. CaseInv => HistoryIsComplete
  BY DEF CaseInv
<1>2. QED
  BY <1>1, InitCases, StepKeepsCases, FulfilTypeCorrect, PTL DEF FulfilSpec

(***************************************************************************)
(* Notifications.                                                          *)
(***************************************************************************)

States == {"none", "waiting"} \cup Active \cup Finished

JobRows == [state : States, attempts : 0..MaxAttempts, stalled : 0..(MaxStalled + 1)]

(* What the state of a job says of its order, its e-mails and its records.  *)
JobInv(o, k) ==
  LET state == job[o][k].state
  IN  /\ state # "none" => o \in paid
      /\ state \notin Finished =>
           job[o][k].attempts < MaxAttempts /\ job[o][k].stalled <= MaxStalled
      /\ mailEvents[o][k] <= mails[o][k]
      /\ mailEvents[o][k] > 0 => o \in sentAt
      /\ state = "recording" => mailEvents[o][k] < mails[o][k]
      /\ state = "ending" => mailEvents[o][k] > 0
      /\ state = "completed" => o \in sentAt /\ (k # Automatic => mailEvents[o][k] > 0)
      /\ k = Automatic /\ state \in {"sending", "recording"} => mailEvents[o][k] = 0

SentIsRecorded == \A o \in sentAt : \E k \in JobIds : mailEvents[o][k] > 0

MailInv ==
  /\ NotifTypeOK
  /\ \A o \in Orders, k \in JobIds : JobInv(o, k)
  /\ SentIsRecorded

-----------------------------------------------------------------------------
(* Steps that touch one job. *)

(* A new row for one job leaves the others as they are. *)
LEMMA OneRowChanges ==
  ASSUME NotifTypeOK, NEW o \in Orders, NEW k \in JobIds, NEW j \in JobRows,
         job' = [job EXCEPT ![o][k] = j]
  PROVE  /\ job' \in [Orders -> [JobIds -> JobRows]]
         /\ job'[o][k] = j
         /\ \A p \in Orders, l \in JobIds : <<p, l>> # <<o, k>> => job'[p][l] = job[p][l]
<1>1. job \in [Orders -> [JobIds -> JobRows]]
  BY DEF NotifTypeOK, JobRows, States
<1>2. QED
  BY <1>1

(* One count goes up, the others stay. *)
LEMMA OneCountChanges ==
  ASSUME NEW count \in [Orders -> [JobIds -> Nat]], NEW o \in Orders, NEW k \in JobIds
  PROVE  LET after == [count EXCEPT ![o][k] = @ + 1]
         IN  /\ after \in [Orders -> [JobIds -> Nat]]
             /\ after[o][k] = count[o][k] + 1
             /\ \A p \in Orders, l \in JobIds : <<p, l>> # <<o, k>> => after[p][l] = count[p][l]
OBVIOUS

LEMMA RowOf ==
  ASSUME NotifTypeOK, NEW o \in Orders, NEW k \in JobIds
  PROVE  /\ job[o][k] \in JobRows
         /\ mails[o][k] \in Nat /\ mailEvents[o][k] \in Nat
BY DEF NotifTypeOK, JobRows, States

LEMMA MoveIsRow ==
  ASSUME NotifTypeOK, NEW o \in Orders, NEW k \in JobIds, NEW state \in States, Move(o, k, state)
  PROVE  LET j == [job[o][k] EXCEPT !.state = state]
         IN  j \in JobRows /\ job' = [job EXCEPT ![o][k] = j]
<1>1. job[o][k] \in JobRows
  BY RowOf
<1>2. [job[o][k] EXCEPT !.state = state] \in JobRows
  BY <1>1 DEF JobRows
<1>3. job' = [job EXCEPT ![o][k] = [job[o][k] EXCEPT !.state = state]]
  BY DEF Move
<1>4. QED
  BY <1>2, <1>3

LEMMA RetryIsRow ==
  ASSUME NotifTypeOK, NEW o \in Orders, NEW k \in JobIds, job[o][k].attempts < MaxAttempts,
         Retry(o, k)
  PROVE  LET more == job[o][k].attempts + 1
             j == [job[o][k] EXCEPT !.attempts = more,
                                    !.state = IF more < MaxAttempts THEN "waiting" ELSE "failed"]
         IN  j \in JobRows /\ job' = [job EXCEPT ![o][k] = j]
<1> DEFINE more == job[o][k].attempts + 1
           next == IF more < MaxAttempts THEN "waiting" ELSE "failed"
           j == [job[o][k] EXCEPT !.attempts = more, !.state = next]
<1>1. job[o][k] \in JobRows
  BY RowOf
<1>2. more \in 0..MaxAttempts
  BY <1>1, NotificationsAssumption DEF JobRows
<1>3. next \in States
  BY DEF States, Finished
<1>4. j \in JobRows
  BY <1>1, <1>2, <1>3 DEF JobRows
<1>5. job' = [job EXCEPT ![o][k] = j]
  <2>1. job' = [job EXCEPT ![o][k].attempts = more, ![o][k].state = next]
    BY <1>1 DEF Retry, NotifTypeOK
  <2>2. QED
    BY <2>1, <1>1 DEF NotifTypeOK, JobRows
<1>6. QED
  BY <1>4, <1>5

(* The other jobs do not care: orders only become paid, and only get mailed. *)
LEMMA OneJobKeepsMail ==
  ASSUME MailInv, NEW o \in Orders, NEW k \in JobIds, NEW j \in JobRows,
         job' = [job EXCEPT ![o][k] = j],
         UNCHANGED <<paid, confirming, resending, audited>>,
         mails' \in [Orders -> [JobIds -> Nat]], mailEvents' \in [Orders -> [JobIds -> Nat]],
         \A p \in Orders, l \in JobIds : <<p, l>> # <<o, k>> =>
           mails'[p][l] = mails[p][l] /\ mailEvents'[p][l] = mailEvents[p][l],
         mailEvents'[o][k] >= mailEvents[o][k],
         sentAt \subseteq sentAt', sentAt' \subseteq paid,
         \A p \in sentAt' \ sentAt : p = o /\ mailEvents'[o][k] > 0,
         JobInv(o, k)'
  PROVE  MailInv'
<1>1. /\ job' \in [Orders -> [JobIds -> JobRows]]
      /\ \A p \in Orders, l \in JobIds : <<p, l>> # <<o, k>> => job'[p][l] = job[p][l]
  <2>1. NotifTypeOK
    BY DEF MailInv
  <2>2. job' = [job EXCEPT ![o][k] = j] /\ j \in JobRows /\ o \in Orders /\ k \in JobIds
    OBVIOUS
  <2>3. QED
    BY ONLY <2>1, <2>2, OneRowChanges, ZenonT(30)
<1>2. NotifTypeOK'
  <2>1. NotifTypeOK
    BY DEF MailInv
  <2>2. /\ UNCHANGED <<paid, confirming, resending, audited>> /\ sentAt' \subseteq paid
        /\ mails' \in [Orders -> [JobIds -> Nat]] /\ mailEvents' \in [Orders -> [JobIds -> Nat]]
    OBVIOUS
  <2>3. QED
    BY ONLY <1>1, <2>1, <2>2 DEF NotifTypeOK, JobRows, States
<1>3. ASSUME NEW p \in Orders, NEW l \in JobIds
      PROVE  JobInv(p, l)'
  <2>1. CASE <<p, l>> = <<o, k>>
    BY <2>1
  <2>2. CASE <<p, l>> # <<o, k>>
    <3>1. /\ job'[p][l] = job[p][l]
          /\ mails'[p][l] = mails[p][l] /\ mailEvents'[p][l] = mailEvents[p][l]
      BY <1>1, <2>2
    <3>2. JobInv(p, l)
      BY DEF MailInv
    <3>3. QED
      BY <3>1, <3>2 DEF JobInv
  <2>3. QED
    BY <2>1, <2>2
<1>4. SentIsRecorded'
  <2> SUFFICES ASSUME NEW p \in sentAt'
               PROVE  \E l \in JobIds : mailEvents'[p][l] > 0
    BY DEF SentIsRecorded
  <2>1. CASE p \in sentAt
    <3>1. PICK l \in JobIds : mailEvents[p][l] > 0
      BY <2>1 DEF MailInv, SentIsRecorded
    <3>2. p \in Orders
      BY <2>1 DEF MailInv, NotifTypeOK
    <3>3. mailEvents[p][l] \in Nat /\ mailEvents'[p][l] \in Nat /\ mailEvents[o][k] \in Nat
      <4>1. /\ mailEvents \in [Orders -> [JobIds -> Nat]] /\ mailEvents' \in [Orders -> [JobIds -> Nat]]
            /\ o \in Orders /\ k \in JobIds /\ l \in JobIds
        BY DEF MailInv, NotifTypeOK
      <4>2. QED
        BY ONLY <3>2, <4>1
    <3>4. CASE <<p, l>> = <<o, k>>
      <4>1. p = o /\ l = k /\ mailEvents'[o][k] >= mailEvents[o][k]
        BY <3>4
      <4>2. QED
        BY ONLY <3>1, <3>3, <4>1
    <3>5. CASE <<p, l>> # <<o, k>>
      BY <3>1, <3>2, <3>5
    <3>6. QED
      BY <3>4, <3>5
  <2>2. CASE p \notin sentAt
    BY <2>2
  <2>3. QED
    BY <2>1, <2>2
<1>5. QED
  BY <1>2, <1>3, <1>4 DEF MailInv

(* A job moves to a state that asks nothing new of its order and e-mails.   *)
LEMMA MoveKeepsMail ==
  ASSUME MailInv, NEW o \in Orders, NEW k \in JobIds, NEW j \in JobRows,
         job' = [job EXCEPT ![o][k] = j],
         UNCHANGED <<paid, confirming, resending, audited, sentAt, mails, mailEvents>>,
         j.state = "none" \/ o \in paid,
         j.state \notin Finished => j.attempts < MaxAttempts /\ j.stalled <= MaxStalled,
         j.state \notin {"recording", "ending"},
         j.state = "completed" => o \in sentAt /\ (k # Automatic => mailEvents[o][k] > 0),
         k = Automatic /\ j.state = "sending" => mailEvents[o][k] = 0
  PROVE  MailInv'
<1>1. JobInv(o, k)
  BY DEF MailInv
<1>2. job'[o][k] = j
  BY OneRowChanges DEF MailInv
<1>3. JobInv(o, k)'
  BY <1>1, <1>2 DEF JobInv
<1>4. mailEvents'[o][k] >= mailEvents[o][k]
  <2>1. mailEvents[o][k] \in Nat
    BY RowOf DEF MailInv
  <2>2. QED
    BY <2>1
<1>5. /\ mails' \in [Orders -> [JobIds -> Nat]] /\ mailEvents' \in [Orders -> [JobIds -> Nat]]
      /\ sentAt \subseteq sentAt' /\ sentAt' \subseteq paid /\ sentAt' \ sentAt = {}
  BY DEF MailInv, NotifTypeOK
<1>6. QED
  BY <1>3, <1>4, <1>5, OneJobKeepsMail

(* An attempt that failed. *)
LEMMA RetryKeepsMail ==
  ASSUME MailInv, NEW o \in Orders, NEW k \in JobIds, job[o][k].state \in Active, Retry(o, k),
         UNCHANGED <<paid, confirming, resending, audited, sentAt, mails, mailEvents>>
  PROVE  MailInv'
<1> DEFINE more == job[o][k].attempts + 1
           next == IF more < MaxAttempts THEN "waiting" ELSE "failed"
           j == [job[o][k] EXCEPT !.attempts = more, !.state = next]
<1>1. JobInv(o, k) /\ job[o][k] \in JobRows
  BY RowOf DEF MailInv
<1>2. /\ job[o][k].attempts < MaxAttempts /\ job[o][k].stalled <= MaxStalled
      /\ o \in paid
  BY <1>1 DEF JobInv, Active, Finished
<1>3. j \in JobRows /\ job' = [job EXCEPT ![o][k] = j]
  BY <1>2, RetryIsRow DEF MailInv
<1>4. /\ j.state = next /\ j.attempts = more /\ j.stalled = job[o][k].stalled
  BY <1>1 DEF JobRows
<1>5. next \notin Finished => more < MaxAttempts
  BY DEF Finished
<1>6. next \notin {"none", "recording", "ending", "completed", "sending"}
  OBVIOUS
<1> HIDE DEF j, next, more
<1>7. QED
  BY <1>2, <1>3, <1>4, <1>5, <1>6, MoveKeepsMail

-----------------------------------------------------------------------------
(* The invariant. *)

LEMMA InitMail == NotifInit => MailInv
<1> SUFFICES ASSUME NotifInit
             PROVE  MailInv
  OBVIOUS
<1>1. 0 \in 0..MaxAttempts /\ 0 \in 0..(MaxStalled + 1) /\ 0 < MaxAttempts /\ 0 <= MaxStalled
  BY NotificationsAssumption
<1>2. NotifTypeOK
  BY <1>1 DEF NotifInit, NotifTypeOK, NoJob
<1>3. ASSUME NEW o \in Orders, NEW k \in JobIds
      PROVE  JobInv(o, k)
  BY <1>1 DEF NotifInit, JobInv, NoJob
<1>4. SentIsRecorded
  BY DEF NotifInit, SentIsRecorded
<1>5. QED
  BY <1>2, <1>3, <1>4 DEF MailInv

(* The API's steps around the queue change no job. *)
LEMMA ApiKeepsMail ==
  ASSUME MailInv, paid \subseteq paid', paid' \subseteq Orders, confirming' \subseteq paid',
         resending' \subseteq Orders \X (1..MaxResends), audited' \subseteq Orders \X (1..MaxResends),
         UNCHANGED <<job, sentAt, mails, mailEvents>>
  PROVE  MailInv'
<1>1. NotifTypeOK'
  BY DEF MailInv, NotifTypeOK
<1>2. ASSUME NEW o \in Orders, NEW k \in JobIds
      PROVE  JobInv(o, k)'
  <2>1. JobInv(o, k)
    BY DEF MailInv
  <2>2. QED
    BY <2>1 DEF JobInv
<1>3. SentIsRecorded'
  BY DEF MailInv, SentIsRecorded
<1>4. QED
  BY <1>1, <1>2, <1>3 DEF MailInv

(* A new job waits; one that the queue knows is left alone. *)
LEMMA AddKeepsMail ==
  ASSUME MailInv, NEW o \in paid, NEW k \in JobIds, AddJob(o, k),
         confirming' \subseteq paid, resending' \subseteq Orders \X (1..MaxResends),
         UNCHANGED <<paid, audited, sentAt, mails, mailEvents>>
  PROVE  MailInv'
<1> DEFINE j == [job[o][k] EXCEPT !.state = "waiting"]
<1>1. o \in Orders
  BY DEF MailInv, NotifTypeOK
<1>2. job[o][k] \in JobRows
  BY <1>1, RowOf DEF MailInv
<1>3. NotifTypeOK'
  <2>1. job' \in [Orders -> [JobIds -> JobRows]]
    <3>1. "waiting" \in States
      BY DEF States
    <3>2. CASE job[o][k] = NoJob
      BY <1>1, <1>2, <3>1, <3>2 DEF AddJob, MailInv, NotifTypeOK, JobRows, States
    <3>3. CASE job[o][k] # NoJob
      BY <3>3 DEF AddJob, MailInv, NotifTypeOK, JobRows, States
    <3>4. QED
      BY <3>2, <3>3
  <2>2. QED
    BY <2>1 DEF MailInv, NotifTypeOK, JobRows, States
<1>4. ASSUME NEW p \in Orders, NEW l \in JobIds
      PROVE  JobInv(p, l)'
  <2>1. JobInv(p, l)
    BY DEF MailInv
  <2>2. CASE <<p, l>> = <<o, k>> /\ job[o][k] = NoJob
    <3>1. job'[o][k] = j
      BY <1>1, <2>2 DEF AddJob, MailInv, NotifTypeOK
    <3>2. j.state = "waiting" /\ j.attempts = 0 /\ j.stalled = 0
      BY <2>2 DEF NoJob
    <3>3. QED
      BY <2>1, <2>2, <3>1, <3>2, NotificationsAssumption DEF JobInv, Finished
  <2>3. CASE ~(<<p, l>> = <<o, k>> /\ job[o][k] = NoJob)
    <3>1. job'[p][l] = job[p][l]
      BY <1>1, <2>3 DEF AddJob, MailInv, NotifTypeOK
    <3>2. QED
      BY <2>1, <3>1 DEF JobInv
  <2>4. QED
    BY <2>2, <2>3
<1>5. SentIsRecorded'
  BY DEF MailInv, SentIsRecorded
<1>6. QED
  BY <1>3, <1>4, <1>5 DEF MailInv

(* The provider takes the e-mail: one more has left. *)
LEMMA SendKeepsMail ==
  ASSUME MailInv, NEW o \in Orders, NEW k \in JobIds, Send(o, k)
  PROVE  MailInv'
<1>1. /\ job[o][k].state = "sending"
      /\ mails' = [mails EXCEPT ![o][k] = @ + 1]
      /\ UNCHANGED <<paid, confirming, resending, audited, sentAt, mailEvents>>
  BY DEF Send
<1>2. NotifTypeOK /\ JobInv(o, k) /\ job[o][k] \in JobRows
  BY RowOf DEF MailInv
<1>3. mails[o][k] \in Nat /\ mailEvents[o][k] \in Nat
  BY <1>2, RowOf
<1>4. /\ mails' \in [Orders -> [JobIds -> Nat]]
      /\ mails'[o][k] = mails[o][k] + 1
      /\ \A p \in Orders, l \in JobIds : <<p, l>> # <<o, k>> => mails'[p][l] = mails[p][l]
  BY <1>1, <1>2, OneCountChanges DEF NotifTypeOK
<1>5. mailEvents' \in [Orders -> [JobIds -> Nat]] /\ sentAt \subseteq paid
  BY <1>1, <1>2 DEF NotifTypeOK
<1>6. ASSUME NEW j \in JobRows, job' = [job EXCEPT ![o][k] = j],
             j.state \in {"recording", "waiting", "failed"},
             j.state # "failed" => j.attempts < MaxAttempts /\ j.stalled <= MaxStalled
      PROVE  MailInv'
  <2>1. job'[o][k] = j
    BY <1>2, <1>6, OneRowChanges
  <2>2. JobInv(o, k)'
    BY <1>1, <1>2, <1>3, <1>4, <1>6, <2>1 DEF JobInv, Finished
  <2>3. mailEvents'[o][k] >= mailEvents[o][k]
    BY <1>1, <1>3
  <2>4. sentAt \subseteq sentAt' /\ sentAt' \subseteq paid /\ sentAt' \ sentAt = {}
    BY <1>1, <1>5
  <2>5. QED
    BY <1>1, <1>4, <1>5, <1>6, <2>2, <2>3, <2>4, OneJobKeepsMail
<1>7. job[o][k].attempts < MaxAttempts /\ job[o][k].stalled <= MaxStalled
  BY <1>1, <1>2 DEF JobInv, Finished
<1>8. CASE Move(o, k, "recording")
  <2>1. "recording" \in States
    BY DEF States, Active
  <2>2. LET j == [job[o][k] EXCEPT !.state = "recording"]
        IN  /\ j \in JobRows /\ job' = [job EXCEPT ![o][k] = j]
            /\ j.state = "recording" /\ j.attempts = job[o][k].attempts
            /\ j.stalled = job[o][k].stalled
    BY <1>2, <1>8, <2>1, MoveIsRow DEF JobRows
  <2>3. QED
    BY <1>6, <1>7, <2>2
<1>9. CASE Retry(o, k)
  <2> DEFINE more == job[o][k].attempts + 1
             next == IF more < MaxAttempts THEN "waiting" ELSE "failed"
             j == [job[o][k] EXCEPT !.attempts = more, !.state = next]
  <2>1. j \in JobRows /\ job' = [job EXCEPT ![o][k] = j]
    BY <1>2, <1>7, <1>9, RetryIsRow
  <2>2. j.state = next /\ j.attempts = more /\ j.stalled = job[o][k].stalled
    BY <1>2 DEF JobRows
  <2>3. next \in {"waiting", "failed"} /\ (next # "failed" => more < MaxAttempts)
    OBVIOUS
  <2> HIDE DEF j, next, more
  <2>4. QED
    BY <1>6, <1>7, <2>1, <2>2, <2>3
<1>10. QED
  BY <1>8, <1>9 DEF Send

(* The order is marked and the event written together. *)
LEMMA RecordKeepsMail ==
  ASSUME MailInv, NEW o \in Orders, NEW k \in JobIds, Record(o, k)
  PROVE  MailInv'
<1>1. /\ job[o][k].state = "recording"
      /\ sentAt' = sentAt \cup {o}
      /\ mailEvents' = [mailEvents EXCEPT ![o][k] = @ + 1]
      /\ Move(o, k, "ending")
      /\ UNCHANGED <<paid, confirming, resending, audited, mails>>
  BY DEF Record
<1>2. NotifTypeOK /\ JobInv(o, k) /\ job[o][k] \in JobRows
  BY RowOf DEF MailInv
<1>3. mails[o][k] \in Nat /\ mailEvents[o][k] \in Nat
  BY <1>2, RowOf
<1>4. /\ mailEvents' \in [Orders -> [JobIds -> Nat]]
      /\ mailEvents'[o][k] = mailEvents[o][k] + 1
      /\ \A p \in Orders, l \in JobIds : <<p, l>> # <<o, k>> => mailEvents'[p][l] = mailEvents[p][l]
  BY <1>1, <1>2, OneCountChanges DEF NotifTypeOK
<1>5. mails' \in [Orders -> [JobIds -> Nat]]
  BY <1>1, <1>2 DEF NotifTypeOK
<1>6. o \in paid /\ sentAt' \subseteq paid
  BY <1>1, <1>2 DEF JobInv, NotifTypeOK
<1> DEFINE j == [job[o][k] EXCEPT !.state = "ending"]
<1>7. j \in JobRows /\ job' = [job EXCEPT ![o][k] = j]
  <2>1. "ending" \in States
    BY DEF States, Active
  <2>2. QED
    BY <1>1, <1>2, <2>1, MoveIsRow
<1>8. job'[o][k] = j
  BY <1>2, <1>7, OneRowChanges
<1>9. j.state = "ending" /\ j.attempts = job[o][k].attempts /\ j.stalled = job[o][k].stalled
  BY <1>2 DEF JobRows
<1>10. JobInv(o, k)'
  <2>1. job'[o][k].state = "ending" /\ o \in sentAt' /\ mails'[o][k] = mails[o][k] /\ paid' = paid
    BY <1>1, <1>8, <1>9
  <2>2. mailEvents'[o][k] > 0 /\ mailEvents'[o][k] <= mails'[o][k]
    BY <1>1, <1>2, <1>3, <1>4, <2>1 DEF JobInv
  <2>3. job'[o][k].attempts < MaxAttempts /\ job'[o][k].stalled <= MaxStalled
    BY <1>1, <1>2, <1>8, <1>9 DEF JobInv, Finished
  <2>4. QED
    BY <1>6, <2>1, <2>2, <2>3 DEF JobInv
<1>11. /\ mailEvents'[o][k] >= mailEvents[o][k] /\ mailEvents'[o][k] > 0
       /\ sentAt \subseteq sentAt' /\ sentAt' \ sentAt \subseteq {o}
  BY <1>1, <1>3, <1>4
<1> HIDE DEF j
<1>12. QED
  BY <1>1, <1>4, <1>5, <1>6, <1>7, <1>10, <1>11, OneJobKeepsMail

(* A worker that dies hands the job on, or leaves it failed. *)
LEMMA StallKeepsMail ==
  ASSUME MailInv, NEW o \in Orders, NEW k \in JobIds, Stall(o, k)
  PROVE  MailInv'
<1> DEFINE more == job[o][k].stalled + 1
           next == IF job[o][k].stalled < MaxStalled THEN "waiting" ELSE "failed"
           j == [job[o][k] EXCEPT !.stalled = more, !.state = next]
<1>1. NotifTypeOK /\ JobInv(o, k) /\ job[o][k] \in JobRows
  BY RowOf DEF MailInv
<1>2. job[o][k].state \in Active
  BY DEF Stall
<1>3. /\ o \in paid
      /\ job[o][k].attempts < MaxAttempts /\ job[o][k].stalled <= MaxStalled
  BY <1>1, <1>2 DEF JobInv, Active, Finished
<1>4. more \in 0..(MaxStalled + 1) /\ next \in States
  BY <1>1, <1>3, NotificationsAssumption DEF JobRows, States, Finished
<1>5. j \in JobRows
  BY <1>1, <1>4 DEF JobRows
<1>6. job' = [job EXCEPT ![o][k] = j]
  BY <1>1 DEF Stall, NotifTypeOK, JobRows
<1>7. j.state = next /\ j.stalled = more /\ j.attempts = job[o][k].attempts
  BY <1>1 DEF JobRows
<1>8. next \in {"waiting", "failed"} /\ (next \notin Finished => more <= MaxStalled)
  BY <1>1, <1>3, NotificationsAssumption DEF JobRows, Finished
<1> HIDE DEF j, next, more
<1>9. QED
  BY <1>3, <1>5, <1>6, <1>7, <1>8, MoveKeepsMail DEF Stall

LEMMA WorkKeepsMail ==
  ASSUME MailInv, NEW o \in Orders, NEW k \in JobIds, Work(o, k)
  PROVE  MailInv'
<1>1. NotifTypeOK /\ JobInv(o, k) /\ job[o][k] \in JobRows
  BY RowOf DEF MailInv
<1>2. mailEvents[o][k] \in Nat
  BY <1>1, RowOf
<1>3. ASSUME NEW state \in States
      PROVE  /\ [job[o][k] EXCEPT !.state = state].state = state
             /\ [job[o][k] EXCEPT !.state = state].attempts = job[o][k].attempts
             /\ [job[o][k] EXCEPT !.state = state].stalled = job[o][k].stalled
  BY <1>1 DEF JobRows
<1>4. CASE Take(o, k)
  <2> DEFINE next == IF Skips(o, k) THEN "completed" ELSE "sending"
             j == [job[o][k] EXCEPT !.state = next]
  <2>1. /\ job[o][k].state = "waiting" /\ Move(o, k, next)
        /\ UNCHANGED <<paid, confirming, resending, audited, sentAt, mails, mailEvents>>
    BY <1>4 DEF Take
  <2>2. next \in States
    BY DEF States, Active, Finished
  <2>3. j \in JobRows /\ job' = [job EXCEPT ![o][k] = j] /\ j.state = next
        /\ j.attempts = job[o][k].attempts /\ j.stalled = job[o][k].stalled
    BY <1>1, <1>3, <2>1, <2>2, MoveIsRow
  <2>4. o \in paid /\ job[o][k].attempts < MaxAttempts /\ job[o][k].stalled <= MaxStalled
    BY <1>1, <2>1 DEF JobInv, Finished
  <2>5. next = "completed" => k = Automatic /\ o \in sentAt
    BY <2>4 DEF Skips
  <2>6. next = "sending" /\ k = Automatic => mailEvents[o][k] = 0
    BY <1>1, <1>2, <2>4 DEF Skips, JobInv
  <2>7. next \in {"completed", "sending"}
    OBVIOUS
  <2> HIDE DEF j, next
  <2>8. QED
    BY <2>1, <2>3, <2>4, <2>5, <2>6, <2>7, MoveKeepsMail
<1>5. CASE SendRefused(o, k) \/ RecordFails(o, k)
  BY <1>5, RetryKeepsMail DEF SendRefused, RecordFails, Active
<1>6. CASE Complete(o, k)
  <2> DEFINE j == [job[o][k] EXCEPT !.state = "completed"]
  <2>1. /\ job[o][k].state = "ending" /\ Move(o, k, "completed")
        /\ UNCHANGED <<paid, confirming, resending, audited, sentAt, mails, mailEvents>>
    BY <1>6 DEF Complete
  <2>2. "completed" \in States
    BY DEF States, Finished
  <2>3. j \in JobRows /\ job' = [job EXCEPT ![o][k] = j] /\ j.state = "completed"
    BY <1>1, <1>3, <2>1, <2>2, MoveIsRow
  <2>4. o \in paid /\ o \in sentAt /\ mailEvents[o][k] > 0
    BY <1>1, <2>1 DEF JobInv
  <2> HIDE DEF j
  <2>5. QED
    BY <2>1, <2>3, <2>4, MoveKeepsMail DEF Finished
<1>7. QED
  BY <1>4, <1>5, <1>6, SendKeepsMail, RecordKeepsMail DEF Work

LEMMA StepKeepsMail == MailInv /\ [NotifNext]_notifVars => MailInv'
<1> SUFFICES ASSUME MailInv, [NotifNext]_notifVars
             PROVE  MailInv'
  OBVIOUS
<1>1. NotifTypeOK
  BY DEF MailInv
<1>2. Automatic \in JobIds /\ \A k \in 1..MaxResends : k \in JobIds
  BY DEF JobIds
<1>3. ASSUME NEW o \in Orders, Confirm(o) \/ PayByWebhook(o)
      PROVE  MailInv'
  BY <1>1, <1>3, ApiKeepsMail DEF Confirm, PayByWebhook, NotifTypeOK
<1>4. ASSUME NEW o \in Orders, Enqueue(o)
      PROVE  MailInv'
  BY <1>1, <1>2, <1>4, AddKeepsMail DEF Enqueue, NotifTypeOK
<1>5. ASSUME NEW o \in Orders, NEW k \in 1..MaxResends, Resend(o, k)
      PROVE  MailInv'
  <2>1. /\ o \in paid /\ k \in JobIds /\ AddJob(o, k)
        /\ resending' = resending \cup {<<o, k>>}
        /\ UNCHANGED <<paid, confirming, audited, sentAt, mails, mailEvents>>
    BY <1>2, <1>5 DEF Resend
  <2>2. confirming' \subseteq paid /\ resending' \subseteq Orders \X (1..MaxResends)
    BY <1>1, <1>5, <2>1 DEF NotifTypeOK
  <2>3. QED
    BY <2>1, <2>2, AddKeepsMail
<1>6. ASSUME NEW o \in Orders, NEW k \in 1..MaxResends, AuditResend(o, k)
      PROVE  MailInv'
  BY <1>1, <1>6, ApiKeepsMail DEF AuditResend, NotifTypeOK
<1>7. CASE ApiCrash
  BY <1>1, <1>7, ApiKeepsMail DEF ApiCrash, NotifTypeOK
<1>8. CASE UNCHANGED notifVars
  BY <1>1, <1>8, ApiKeepsMail DEF notifVars, NotifTypeOK
<1>9. QED
  BY <1>3, <1>4, <1>5, <1>6, <1>7, <1>8, WorkKeepsMail, StallKeepsMail DEF NotifNext

THEOREM MailInvariant == NotifSpec => []MailInv
BY InitMail, StepKeepsMail, PTL DEF NotifSpec

-----------------------------------------------------------------------------
(* Every reachable state of the queue and the orders has the right types:   *)
(* attempts and stalls stay within what the queue allows.                   *)
THEOREM NotifTypeCorrect == NotifSpec => []NotifTypeOK
<1>1. MailInv => NotifTypeOK
  BY DEF MailInv
<1>2. QED
  BY <1>1, MailInvariant, PTL

(* For any number of jobs, failures and dead workers: what is on record was *)
(* sent.                                                                    *)
THEOREM RecordsAreTrue == NotifSpec => []RecordedWasSent
<1>1. MailInv => RecordedWasSent
  BY DEF MailInv, JobInv, SentIsRecorded, RecordedWasSent
<1>2. QED
  BY <1>1, MailInvariant, PTL

(* A job that is reported done did its work. *)
THEOREM CompletedJobsMailed == NotifSpec => []CompletedWasMailed
<1>1. MailInv => CompletedWasMailed
  BY DEF MailInv, JobInv, CompletedWasMailed
<1>2. QED
  BY <1>1, MailInvariant, PTL

(* The automatic e-mail is not sent again once it is on record. *)
THEOREM AutomaticMailIsOnce == NotifSpec => AutomaticMailOnce
<1> DEFINE Once == \A o \in Orders : mails'[o][Automatic] > mails[o][Automatic] =>
                     mailEvents[o][Automatic] = 0
<1>1. MailInv /\ [NotifNext]_notifVars => Once
  <2> SUFFICES ASSUME MailInv, [NotifNext]_notifVars, NEW o \in Orders,
                      mails'[o][Automatic] > mails[o][Automatic]
               PROVE  mailEvents[o][Automatic] = 0
    OBVIOUS
  <2>1. Automatic \in JobIds
    BY DEF JobIds
  <2>2. mails[o][Automatic] \in Nat /\ NotifTypeOK
    BY <2>1, RowOf DEF MailInv
  <2>3. mails' # mails
    BY <2>2
  <2>4. PICK p \in Orders, k \in JobIds : Send(p, k)
    <3>1. ASSUME NEW p \in Orders, NEW k \in JobIds, Work(p, k), ~Send(p, k)
          PROVE  FALSE
      BY <2>3, <3>1 DEF Work, Take, SendRefused, Record, RecordFails, Complete
    <3>2. ASSUME NEW p \in Orders, Confirm(p) \/ PayByWebhook(p) \/ Enqueue(p)
          PROVE  FALSE
      BY <2>3, <3>2 DEF Confirm, PayByWebhook, Enqueue
    <3>3. ASSUME NEW p \in Orders, NEW k \in 1..MaxResends, Resend(p, k) \/ AuditResend(p, k)
          PROVE  FALSE
      BY <2>3, <3>3 DEF Resend, AuditResend
    <3>4. ASSUME NEW p \in Orders, NEW k \in JobIds, Stall(p, k)
          PROVE  FALSE
      BY <2>3, <3>4 DEF Stall
    <3>5. ~ApiCrash /\ ~UNCHANGED notifVars
      BY <2>3 DEF ApiCrash, notifVars
    <3>6. QED
      BY <3>1, <3>2, <3>3, <3>4, <3>5 DEF NotifNext
  <2>5. /\ job[p][k].state = "sending"
        /\ mails' = [mails EXCEPT ![p][k] = @ + 1]
    BY <2>4 DEF Send
  <2>6. p = o /\ k = Automatic
    BY <2>1, <2>2, <2>5 DEF NotifTypeOK
  <2>7. JobInv(o, Automatic)
    BY <2>1 DEF MailInv
  <2>8. QED
    BY <2>5, <2>6, <2>7 DEF JobInv
<1>2. QED
  BY <1>1, MailInvariant, PTL DEF NotifSpec, AutomaticMailOnce

(***************************************************************************)
(* Provider event leases.                                                  *)
(***************************************************************************)

(* The workers that process the event with time left. *)
InCharge(w) == worker[w].at = "working" /\ InTime(w)

(* As long as no mark was late, who is in charge has its lease in the row;  *)
(* and nobody works on a row that is not there.                             *)
LeaseInv ==
  /\ LeaseTypeOK
  /\ \A w \in Workers : worker[w].read <= now
  /\ \A w \in Workers : worker[w].at = "working" => event # NoEvent
  /\ ~overrun =>
       \A w \in Workers : InCharge(w) =>
         event.status = "processing" /\ event.leaseUntil = worker[w].read + LeaseTime
  /\ LeaseIsExclusive

LEMMA InitLease == LeaseInit => LeaseInv
<1> SUFFICES ASSUME LeaseInit
             PROVE  LeaseInv
  OBVIOUS
<1>1. LeaseTypeOK
  <2>1. 0 \in Times /\ 0 \in 0..MaxClaims /\ 0 \in 0..Horizon
    BY LeaseAssumption DEF Times
  <2>2. QED
    BY <2>1 DEF LeaseInit, LeaseTypeOK, NoEvent
<1>2. \A w \in Workers : worker[w].at = "idle" /\ worker[w].read = 0
  BY DEF LeaseInit
<1>3. now = 0
  BY DEF LeaseInit
<1>4. QED
  BY <1>1, <1>2, <1>3 DEF LeaseInv, InCharge, LeaseIsExclusive

(* A worker goes somewhere else than to work, on a row as it was. *)
LEMMA IdlersKeepLease ==
  ASSUME LeaseInv, NEW w \in Workers, NEW where \in {"idle", "find", "update"}, Go(w, where),
         UNCHANGED <<now, event, overrun>>
  PROVE  LeaseInv'
<1>1. worker' = [worker EXCEPT ![w].at = where]
  BY DEF Go
<1>2. worker'[w].at = where /\ worker'[w].read = worker[w].read
  BY <1>1 DEF LeaseInv, LeaseTypeOK
<1>3. \A v \in Workers \ {w} : worker'[v] = worker[v]
  BY <1>1 DEF LeaseInv, LeaseTypeOK
<1>4. LeaseTypeOK'
  BY <1>1 DEF LeaseInv, LeaseTypeOK
<1>5. \A v \in Workers : worker'[v].read = worker[v].read
                      /\ (worker'[v].at = "working" => worker[v].at = "working")
  BY <1>2, <1>3
<1>6. \A v \in Workers : InCharge(v)' => InCharge(v)
  BY <1>5 DEF InCharge, InTime
<1>7. LeaseIsExclusive'
  BY <1>6 DEF LeaseInv, LeaseIsExclusive, InCharge
<1>8. QED
  BY <1>4, <1>5, <1>6, <1>7 DEF LeaseInv

(* Who claims a row with no lease in force is in charge alone. *)
LEMMA ClaimKeepsLease ==
  ASSUME LeaseInv, NEW w \in Workers, event.attempts < MaxClaims, Claimed(w), Go(w, "working"),
         UNCHANGED <<now, overrun>>, ~overrun => \A v \in Workers : ~InCharge(v)
  PROVE  LeaseInv'
<1>1. worker' = [worker EXCEPT ![w].at = "working"]
  BY DEF Go
<1>2. worker'[w].at = "working" /\ worker'[w].read = worker[w].read
  BY <1>1 DEF LeaseInv, LeaseTypeOK
<1>3. \A v \in Workers \ {w} : worker'[v] = worker[v]
  BY <1>1 DEF LeaseInv, LeaseTypeOK
<1>4. /\ event'.status = "processing"
      /\ event'.leaseUntil = worker[w].read + LeaseTime
  BY DEF Claimed
<1>5. LeaseTypeOK'
  <2>1. worker[w].read \in 0..Horizon /\ event.attempts \in 0..MaxClaims
    BY DEF LeaseInv, LeaseTypeOK
  <2>2. worker[w].read + LeaseTime \in Times /\ event.attempts + 1 \in 0..MaxClaims
    BY <2>1, LeaseAssumption DEF Times
  <2>3. QED
    BY <1>1, <2>2 DEF LeaseInv, LeaseTypeOK, Claimed
<1>6. \A v \in Workers : worker'[v].read <= now'
  BY <1>2, <1>3 DEF LeaseInv
<1>7. event' # NoEvent
  BY <1>4 DEF NoEvent
<1>8. ~overrun' => \A v \in Workers : InCharge(v)' => v = w
  BY <1>3 DEF InCharge, InTime
<1>9. LeaseIsExclusive'
  BY <1>8 DEF LeaseIsExclusive, InCharge
<1>10. QED
  BY <1>2, <1>4, <1>5, <1>6, <1>7, <1>8, <1>9 DEF LeaseInv

(* Who marks the row in time was in charge, and so nobody else is. *)
LEMMA MarkKeepsLease ==
  ASSUME LeaseInv, NEW w \in Workers, NEW status \in {"processed", "error"}, Mark(w, status)
  PROVE  LeaseInv'
<1>1. /\ worker' = [worker EXCEPT ![w].at = "idle"]
      /\ event' = [event EXCEPT !.status = status, !.leaseUntil = 0]
      /\ worker[w].at = "working"
      /\ now' = now
  BY DEF Mark, Go
<1>2. worker'[w].at = "idle" /\ worker'[w].read = worker[w].read
  BY <1>1 DEF LeaseInv, LeaseTypeOK
<1>3. \A v \in Workers \ {w} : worker'[v] = worker[v]
  BY <1>1 DEF LeaseInv, LeaseTypeOK
<1>4. LeaseTypeOK'
  <2>1. 0 \in Times
    BY LeaseAssumption DEF Times
  <2>2. overrun' \in BOOLEAN
    BY DEF Mark
  <2>3. QED
    BY <1>1, <2>1, <2>2 DEF LeaseInv, LeaseTypeOK
<1>5. event'.status = status
  BY <1>1 DEF LeaseInv, LeaseTypeOK
<1>6. event' # NoEvent
  BY <1>5 DEF NoEvent
<1>7. ~overrun' => \A v \in Workers : ~InCharge(v)'
  <2> SUFFICES ASSUME ~overrun', NEW v \in Workers, InCharge(v)'
               PROVE  FALSE
    OBVIOUS
  <2>1. ~overrun /\ InCharge(w)
    BY <1>1 DEF Mark, InCharge
  <2>2. v # w
    BY <1>2 DEF InCharge
  <2>3. InCharge(v)
    BY <1>1, <1>3, <2>2 DEF InCharge, InTime
  <2>4. QED
    BY <2>1, <2>2, <2>3 DEF LeaseInv, LeaseIsExclusive, InCharge
<1>8. LeaseIsExclusive'
  BY <1>7 DEF LeaseIsExclusive, InCharge
<1>9. \A v \in Workers : worker'[v].read <= now'
  BY <1>1, <1>2, <1>3 DEF LeaseInv
<1>10. QED
  BY <1>4, <1>6, <1>7, <1>8, <1>9 DEF LeaseInv

(* A row that can be claimed has nobody in charge. *)
LEMMA ClaimableIsFree ==
  ASSUME LeaseInv, NEW w \in Workers, Claimable(w), ~overrun
  PROVE  \A v \in Workers : ~InCharge(v)
<1> SUFFICES ASSUME NEW v \in Workers, InCharge(v)
             PROVE  FALSE
  OBVIOUS
<1>1. event.status = "processing" /\ event.leaseUntil = worker[v].read + LeaseTime
  BY DEF LeaseInv
<1>2. now < worker[v].read + LeaseTime
  BY DEF InCharge, InTime
<1>3. worker[w].read <= now /\ worker[w].read \in Nat /\ worker[v].read \in Nat /\ now \in Nat
  BY LeaseAssumption DEF LeaseInv, LeaseTypeOK
<1>4. worker[v].read + LeaseTime <= worker[w].read
  BY <1>1 DEF Claimable
<1>5. QED
  BY <1>2, <1>3, <1>4, LeaseAssumption

LEMMA StepKeepsLease == LeaseInv /\ [LeaseNext]_vars => LeaseInv'
<1> SUFFICES ASSUME LeaseInv, [LeaseNext]_vars
             PROVE  LeaseInv'
  OBVIOUS
<1>1. ASSUME NEW w \in Workers, Deliver(w)
      PROVE  LeaseInv'
  <2>1. worker' = [worker EXCEPT ![w] = [at |-> "create", read |-> now]]
    BY <1>1 DEF Deliver
  <2>2. worker'[w].at = "create" /\ worker'[w].read = now
    BY <2>1 DEF LeaseInv, LeaseTypeOK
  <2>3. \A v \in Workers \ {w} : worker'[v] = worker[v]
    BY <2>1 DEF LeaseInv, LeaseTypeOK
  <2>4. UNCHANGED <<now, event, overrun>>
    BY <1>1 DEF Deliver
  <2>5. LeaseTypeOK'
    BY <2>1, <2>4 DEF LeaseInv, LeaseTypeOK
  <2>6. \A v \in Workers : InCharge(v)' => v # w /\ InCharge(v)
    BY <2>2, <2>3, <2>4 DEF InCharge, InTime
  <2>7. LeaseIsExclusive'
    BY <2>4, <2>6 DEF LeaseInv, LeaseIsExclusive, InCharge
  <2>8. now <= now
    BY LeaseAssumption DEF LeaseInv, LeaseTypeOK
  <2>9. \A v \in Workers : worker'[v].read <= now'
    BY <2>2, <2>3, <2>4, <2>8 DEF LeaseInv
  <2>10. \A v \in Workers : worker'[v].at = "working" => event' # NoEvent
    BY <2>2, <2>3, <2>4 DEF LeaseInv
  <2>11. QED
    BY <2>3, <2>4, <2>5, <2>6, <2>7, <2>9, <2>10 DEF LeaseInv
<1>2. ASSUME NEW w \in Workers, Create(w)
      PROVE  LeaseInv'
  <2>1. CASE event = NoEvent
    <3>1. Claimed(w) /\ Go(w, "working") /\ UNCHANGED <<now, overrun>>
      BY <1>2, <2>1 DEF Create
    <3>2. event.attempts < MaxClaims
      BY <1>2, <2>1 DEF Create, NoEvent
    <3>3. \A v \in Workers : ~InCharge(v)
      BY <2>1 DEF LeaseInv, InCharge
    <3>4. QED
      BY <3>1, <3>2, <3>3, ClaimKeepsLease
  <2>2. CASE event # NoEvent
    BY <1>2, <2>2, IdlersKeepLease DEF Create
  <2>3. QED
    BY <2>1, <2>2
<1>3. ASSUME NEW w \in Workers, Find(w)
      PROVE  LeaseInv'
  BY <1>3, IdlersKeepLease DEF Find
<1>4. ASSUME NEW w \in Workers, Update(w)
      PROVE  LeaseInv'
  <2>1. CASE Claimable(w)
    BY <1>4, <2>1, ClaimableIsFree, ClaimKeepsLease DEF Update
  <2>2. CASE ~Claimable(w)
    BY <1>4, <2>2, IdlersKeepLease DEF Update
  <2>3. QED
    BY <2>1, <2>2
<1>5. ASSUME NEW w \in Workers, MarkProcessed(w) \/ MarkError(w)
      PROVE  LeaseInv'
  BY <1>5, MarkKeepsLease DEF MarkProcessed, MarkError
<1>6. ASSUME NEW w \in Workers, Crash(w)
      PROVE  LeaseInv'
  BY <1>6, IdlersKeepLease DEF Crash
<1>7. CASE Tick
  <2>1. now' = now + 1 /\ now < Horizon /\ UNCHANGED <<event, worker, overrun>>
    BY <1>7 DEF Tick
  <2>2. now \in Nat /\ \A w \in Workers : worker[w].read \in Nat
    BY LeaseAssumption DEF LeaseInv, LeaseTypeOK
  <2>3. LeaseTypeOK'
    BY <2>1, LeaseAssumption DEF LeaseInv, LeaseTypeOK
  <2>4. \A w \in Workers : worker'[w].read <= now'
    BY <2>1, <2>2 DEF LeaseInv
  <2>5. \A w \in Workers : InCharge(w)' => InCharge(w)
    BY <2>1, <2>2, LeaseAssumption DEF InCharge, InTime
  <2>6. LeaseIsExclusive'
    BY <2>1, <2>5 DEF LeaseInv, LeaseIsExclusive, InCharge
  <2>7. QED
    BY <2>1, <2>3, <2>4, <2>5, <2>6 DEF LeaseInv
<1>8. CASE UNCHANGED vars
  BY <1>8 DEF vars, LeaseInv, LeaseTypeOK, InCharge, InTime, LeaseIsExclusive
<1>9. QED
  BY <1>1, <1>2, <1>3, <1>4, <1>5, <1>6, <1>7, <1>8 DEF LeaseNext

THEOREM LeaseInvariant == LeaseSpec => []LeaseInv
BY InitLease, StepKeepsLease, PTL DEF LeaseSpec

(* For any number of workers and any delays: without a late mark, at most   *)
(* one worker with time left is at the event.                               *)
THEOREM OneWorkerInCharge == LeaseSpec => []LeaseIsExclusive
<1>1. LeaseInv => LeaseIsExclusive
  BY DEF LeaseInv
<1>2. QED
  BY <1>1, LeaseInvariant, PTL

(* Without a late mark, a processed event is never touched again. *)
THEOREM ProcessedStays == LeaseSpec => ProcessedForGood
<1> DEFINE Kept == event.status = "processed" /\ ~overrun' => event' = event
<1>1. LeaseInv /\ [LeaseNext]_vars => Kept
  <2> SUFFICES ASSUME LeaseInv, [LeaseNext]_vars, event.status = "processed", ~overrun'
               PROVE  event' = event
    OBVIOUS
  <2>1. ASSUME NEW w \in Workers, Deliver(w) \/ Find(w) \/ Crash(w)
        PROVE  event' = event
    BY <2>1 DEF Deliver, Find, Crash
  <2>2. ASSUME NEW w \in Workers, Create(w)
        PROVE  event' = event
    <3>1. event # NoEvent
      BY DEF NoEvent
    <3>2. QED
      BY <2>2, <3>1 DEF Create
  <2>3. ASSUME NEW w \in Workers, Update(w)
        PROVE  event' = event
    <3>1. ~Claimable(w)
      BY DEF Claimable
    <3>2. QED
      BY <2>3, <3>1 DEF Update
  <2>4. ASSUME NEW w \in Workers, MarkProcessed(w) \/ MarkError(w)
        PROVE  FALSE
    <3>1. ~overrun /\ InCharge(w)
      BY <2>4 DEF MarkProcessed, MarkError, Mark, InCharge
    <3>2. QED
      BY <3>1 DEF LeaseInv
  <2>5. CASE Tick \/ UNCHANGED vars
    BY <2>5 DEF Tick, vars
  <2>6. QED
    BY <2>1, <2>2, <2>3, <2>4, <2>5 DEF LeaseNext
<1>2. QED
  BY <1>1, LeaseInvariant, PTL DEF LeaseSpec, ProcessedForGood
=============================================================================
