------------------------- MODULE ProviderEventLease -------------------------
(***************************************************************************)
(* The leases under which workers process a provider's event, as ADR-0005  *)
(* describes them: one PaymentProviderEvent row, claimed for some time by  *)
(* whoever is to process it, and claimed again after an error or when the  *)
(* time is over. No route uses these functions yet; a worker here does     *)
(* what the ADR expects of their caller: it claims, works, and marks.      *)
(*                                                                         *)
(* Every call of claimProviderEvent reads the clock once and then runs its *)
(* statements one by one. The two marks update the row whoever holds it.   *)
(***************************************************************************)
EXTENDS Naturals

CONSTANTS
  Workers,
  LeaseTime,    \* 30 seconds in the code
  MaxClaims,    \* bound: attempts on the row
  Horizon       \* bound: the clock stops here

ASSUME LeaseAssumption ==
  LeaseTime \in Nat \ {0} /\ MaxClaims \in Nat /\ Horizon \in Nat

VARIABLES
  now,     \* the clock
  event,   \* the row
  worker,  \* where each worker is, and the clock it read
  overrun  \* whether a worker marked the row after its lease had run out

vars == <<now, event, worker, overrun>>

Times == 0..(Horizon + LeaseTime)

(* leaseUntil is 0 when it is NULL. *)
NoEvent == [status |-> "absent", attempts |-> 0, leaseUntil |-> 0]

LeaseTypeOK ==
  /\ now \in 0..Horizon
  /\ event \in [status : {"absent", "processing", "processed", "error"},
                attempts : 0..MaxClaims, leaseUntil : Times]
  /\ worker \in [Workers -> [at : {"idle", "create", "find", "update", "working"},
                             read : 0..Horizon]]
  /\ overrun \in BOOLEAN

LeaseInit ==
  /\ now = 0
  /\ event = NoEvent
  /\ worker = [w \in Workers |-> [at |-> "idle", read |-> 0]]
  /\ overrun = FALSE

Go(w, where) == worker' = [worker EXCEPT ![w].at = where]

-----------------------------------------------------------------------------
(* claimProviderEvent *)

Deliver(w) ==
  /\ worker[w].at = "idle"
  /\ worker' = [worker EXCEPT ![w] = [at |-> "create", read |-> now]]
  /\ UNCHANGED <<now, event, overrun>>

Claimed(w) ==
  event' = [status |-> "processing", attempts |-> event.attempts + 1,
            leaseUntil |-> worker[w].read + LeaseTime]

(* The insert, or its unique index when the row is there. *)
Create(w) ==
  /\ worker[w].at = "create"
  /\ IF event = NoEvent
     THEN MaxClaims > 0 /\ Claimed(w) /\ Go(w, "working")
     ELSE UNCHANGED event /\ Go(w, "find")
  /\ UNCHANGED <<now, overrun>>

LeaseActive(w) == event.status = "processing" /\ event.leaseUntil > worker[w].read

(* Deduped, in flight, or worth an attempt to claim it. *)
Find(w) ==
  /\ worker[w].at = "find"
  /\ Go(w, IF event.status = "processed" \/ LeaseActive(w) THEN "idle" ELSE "update")
  /\ UNCHANGED <<now, event, overrun>>

(* Mutants of Claimable: the condition of the update is left to the look-up *)
(* before it, or forgets what is processed.                                 *)
ClaimableAsFound(w) == TRUE
ClaimableOnceOver(w) == ~LeaseActive(w)

(* The WHERE of the update. *)
Claimable(w) ==
  \/ event.status = "error"
  \/ event.status = "processing" /\ event.leaseUntil <= worker[w].read

Update(w) ==
  /\ worker[w].at = "update"
  /\ IF Claimable(w)
     THEN event.attempts < MaxClaims /\ Claimed(w) /\ Go(w, "working")
     ELSE UNCHANGED event /\ Go(w, "idle")
  /\ UNCHANGED <<now, overrun>>

-----------------------------------------------------------------------------
(* The worker ends: markProviderEventProcessed, markProviderEventError, or  *)
(* a crash.                                                                 *)

InTime(w) == now < worker[w].read + LeaseTime

Mark(w, status) ==
  /\ worker[w].at = "working"
  /\ event' = [event EXCEPT !.status = status, !.leaseUntil = 0]
  /\ Go(w, "idle")
  /\ overrun' = (overrun \/ ~InTime(w))
  /\ UNCHANGED now

MarkProcessed(w) == Mark(w, "processed")

MarkError(w) == Mark(w, "error")

Crash(w) ==
  /\ worker[w].at # "idle"
  /\ Go(w, "idle")
  /\ UNCHANGED <<now, event, overrun>>

Tick ==
  /\ now < Horizon
  /\ now' = now + 1
  /\ UNCHANGED <<event, worker, overrun>>

LeaseNext ==
  \/ \E w \in Workers :
       \/ Deliver(w) \/ Create(w) \/ Find(w) \/ Update(w)
       \/ MarkProcessed(w) \/ MarkError(w) \/ Crash(w)
  \/ Tick

LeaseSpec == LeaseInit /\ [][LeaseNext]_vars

-----------------------------------------------------------------------------
(* Properties. *)

(* As long as nobody has marked the row after its time was over, a worker   *)
(* whose time is not over works alone: late claims, and claims decided on   *)
(* what was found before, do not take the event from under it.              *)
LeaseIsExclusive ==
  ~overrun =>
    \A v, w \in Workers :
      /\ worker[v].at = "working" /\ InTime(v)
      /\ worker[w].at = "working" /\ InTime(w)
      => v = w

(* ADR-0005: once processed, an event stays so and is not claimed again -   *)
(* with the same proviso: markProviderEventError writes over a processed    *)
(* row, and a worker whose lease ran out can so reopen what another did.    *)
ProcessedForGood ==
  [][event.status = "processed" /\ ~overrun' => event' = event]_vars
=============================================================================
