--------------------------- MODULE Notifications ----------------------------
(***************************************************************************)
(* The confirmation e-mails of orders. Confirm queues one job per order    *)
(* after its transaction, an operator queues further ones, and workers run *)
(* the jobs: read the order, send, record in a transaction. The queue runs *)
(* a job again whose attempt failed or whose worker died.                  *)
(***************************************************************************)
EXTENDS Naturals

CONSTANTS
  Orders,
  MaxResends,  \* bound: jobs queued by operators for an order
  MaxAttempts, \* 5 in the code
  MaxStalled   \* how often the queue takes a job from a dead worker

ASSUME NotificationsAssumption ==
  /\ MaxResends \in Nat /\ MaxAttempts \in Nat \ {0} /\ MaxStalled \in Nat

VARIABLES
  paid,       \* the orders of status paid
  confirming, \* orders whose confirm has committed and not queued
  resending,  \* resends that were queued and have no audit row yet
  audited,    \* resends with their AuditLog row
  job,        \* the queue
  sentAt,     \* orders with confirmationEmailSentAt
  mails,      \* e-mails sent, by order and job
  mailEvents  \* ORDER_CONFIRMATION_EMAIL_SENT events, by order and job

notifVars == <<paid, confirming, resending, audited, job, sentAt, mails, mailEvents>>

(* Job 0 of an order is order_paid_confirmation:<id>, the others are        *)
(* order_confirmation_resend:<id>:<time>:<nonce>.                           *)
Automatic == 0
JobIds == {Automatic} \cup 1..MaxResends

NoJob == [state |-> "none", attempts |-> 0, stalled |-> 0]

Active == {"sending", "recording", "ending"}
Finished == {"completed", "failed"}

NotifTypeOK ==
  /\ paid \subseteq Orders
  /\ confirming \subseteq paid
  /\ resending \subseteq Orders \X (1..MaxResends)
  /\ audited \subseteq Orders \X (1..MaxResends)
  /\ job \in [Orders -> [JobIds ->
       [state : {"none", "waiting"} \cup Active \cup Finished,
        attempts : 0..MaxAttempts, stalled : 0..(MaxStalled + 1)]]]
  /\ sentAt \subseteq paid
  /\ mails \in [Orders -> [JobIds -> Nat]]
  /\ mailEvents \in [Orders -> [JobIds -> Nat]]

NotifInit ==
  /\ paid = {} /\ confirming = {} /\ resending = {} /\ audited = {} /\ sentAt = {}
  /\ job = [o \in Orders |-> [k \in JobIds |-> NoJob]]
  /\ mails = [o \in Orders |-> [k \in JobIds |-> 0]]
  /\ mailEvents = [o \in Orders |-> [k \in JobIds |-> 0]]

-----------------------------------------------------------------------------
(* The API. *)

(* A confirm that pays the order, or finds it paid with the same payment    *)
(* (CheckoutApi tells when).                                                *)
Confirm(o) ==
  /\ paid' = paid \cup {o}
  /\ confirming' = confirming \cup {o}
  /\ UNCHANGED <<resending, audited, job, sentAt, mails, mailEvents>>

(* A webhook queues nothing. *)
PayByWebhook(o) ==
  /\ o \notin paid
  /\ paid' = paid \cup {o}
  /\ UNCHANGED <<confirming, resending, audited, job, sentAt, mails, mailEvents>>

(* A job whose identifier the queue knows is not added again. *)
AddJob(o, k) ==
  job' = IF job[o][k] = NoJob
         THEN [job EXCEPT ![o][k].state = "waiting"]
         ELSE job

Enqueue(o) ==
  /\ o \in confirming
  /\ AddJob(o, Automatic)
  /\ confirming' = confirming \ {o}
  /\ UNCHANGED <<paid, resending, audited, sentAt, mails, mailEvents>>

(* The queue takes the job before the audit row is written. *)
Resend(o, k) ==
  /\ o \in paid
  /\ job[o][k] = NoJob
  /\ AddJob(o, k)
  /\ resending' = resending \cup {<<o, k>>}
  /\ UNCHANGED <<paid, confirming, audited, sentAt, mails, mailEvents>>

AuditResend(o, k) ==
  /\ <<o, k>> \in resending
  /\ resending' = resending \ {<<o, k>>}
  /\ audited' = audited \cup {<<o, k>>}
  /\ UNCHANGED <<paid, confirming, job, sentAt, mails, mailEvents>>

(* The API dies: between commit and queue, or between queue and audit. *)
ApiCrash ==
  /\ confirming \cup resending # {}
  /\ confirming' = {}
  /\ resending' = {}
  /\ UNCHANGED <<paid, audited, job, sentAt, mails, mailEvents>>

-----------------------------------------------------------------------------
(* The worker. *)

Move(o, k, state) == job' = [job EXCEPT ![o][k].state = state]

(* Mutant of Retry: attempts are not counted. *)
RetryUncounted(o, k) == Move(o, k, "waiting")

(* An attempt has failed: the job waits for its next one, if it has any.    *)
Retry(o, k) ==
  job' = [job EXCEPT ![o][k].attempts = @ + 1,
                     ![o][k].state = IF job[o][k].attempts + 1 < MaxAttempts
                                     THEN "waiting" ELSE "failed"]

(* Mutants of Skips: sent orders get their automatic e-mail again, or a     *)
(* resend is left out for them as well.                                     *)
SkipsUnpaid(o, k) == o \notin paid
SkipsSent(o, k) == o \notin paid \/ o \in sentAt

Skips(o, k) ==
  \/ o \notin paid
  \/ k = Automatic /\ o \in sentAt

Take(o, k) ==
  /\ job[o][k].state = "waiting"
  /\ Move(o, k, IF Skips(o, k) THEN "completed" ELSE "sending")
  /\ UNCHANGED <<paid, confirming, resending, audited, sentAt, mails, mailEvents>>

(* The provider takes the e-mail, and its answer arrives or is lost. *)
Send(o, k) ==
  /\ job[o][k].state = "sending"
  /\ mails' = [mails EXCEPT ![o][k] = @ + 1]
  /\ Move(o, k, "recording") \/ Retry(o, k)
  /\ UNCHANGED <<paid, confirming, resending, audited, sentAt, mailEvents>>

(* Mutant of SendRefused: the refusal of the provider is taken for success. *)
RefusalIgnored(o, k) ==
  /\ job[o][k].state = "sending"
  /\ Move(o, k, "recording")
  /\ UNCHANGED <<paid, confirming, resending, audited, sentAt, mails, mailEvents>>

SendRefused(o, k) ==
  /\ job[o][k].state = "sending"
  /\ Retry(o, k)
  /\ UNCHANGED <<paid, confirming, resending, audited, sentAt, mails, mailEvents>>

Record(o, k) ==
  /\ job[o][k].state = "recording"
  /\ sentAt' = sentAt \cup {o}
  /\ mailEvents' = [mailEvents EXCEPT ![o][k] = @ + 1]
  /\ Move(o, k, "ending")
  /\ UNCHANGED <<paid, confirming, resending, audited, mails>>

RecordFails(o, k) ==
  /\ job[o][k].state = "recording"
  /\ Retry(o, k)
  /\ UNCHANGED <<paid, confirming, resending, audited, sentAt, mails, mailEvents>>

Complete(o, k) ==
  /\ job[o][k].state = "ending"
  /\ Move(o, k, "completed")
  /\ UNCHANGED <<paid, confirming, resending, audited, sentAt, mails, mailEvents>>

(* The worker dies; the queue notices that the job is stalled.              *)
Stall(o, k) ==
  /\ job[o][k].state \in Active
  /\ job' = [job EXCEPT ![o][k].stalled = @ + 1,
                        ![o][k].state = IF job[o][k].stalled < MaxStalled
                                        THEN "waiting" ELSE "failed"]
  /\ UNCHANGED <<paid, confirming, resending, audited, sentAt, mails, mailEvents>>

-----------------------------------------------------------------------------
Work(o, k) ==
  \/ Take(o, k) \/ Send(o, k) \/ SendRefused(o, k)
  \/ Record(o, k) \/ RecordFails(o, k) \/ Complete(o, k)

NotifNext ==
  \/ \E o \in Orders :
       \/ Confirm(o) \/ PayByWebhook(o) \/ Enqueue(o)
       \/ \E k \in 1..MaxResends : Resend(o, k) \/ AuditResend(o, k)
       \/ \E k \in JobIds : Work(o, k) \/ Stall(o, k)
  \/ ApiCrash

NotifSpec == NotifInit /\ [][NotifNext]_notifVars

(* Workers run: a job that waits is taken, and an attempt goes on.          *)
NotifFairSpec ==
  NotifSpec /\ \A o \in Orders : \A k \in JobIds : WF_notifVars(Work(o, k))

-----------------------------------------------------------------------------
(* Properties. *)

(* What the order and the audit say was sent was sent: no failure, retry or *)
(* dead worker marks an order, or reports an e-mail, that never left.       *)
RecordedWasSent ==
  \A o \in Orders :
    /\ o \in sentAt <=> \E k \in JobIds : mailEvents[o][k] > 0
    /\ \A k \in JobIds : mailEvents[o][k] <= mails[o][k]

(* Once the automatic confirmation is on record it is not sent again,       *)
(* whoever takes its job anew; before that, a retry may repeat it.          *)
AutomaticMailOnce ==
  [][\A o \in Orders : mails'[o][Automatic] > mails[o][Automatic] =>
       mailEvents[o][Automatic] = 0]_notifVars

(* A job is reported done only if it did something: the automatic one finds *)
(* the order mailed by itself or by a resend, and a resend, which an        *)
(* operator asked for because of the mail sent before, sends one more.      *)
CompletedWasMailed ==
  \A o \in Orders, k \in JobIds : job[o][k].state = "completed" =>
    /\ o \in sentAt
    /\ k # Automatic => mailEvents[o][k] > 0

(* Every job that was queued ends: attempts and stalls are finite.          *)
JobsEnd ==
  \A o \in Orders : \A k \in JobIds :
    job[o][k].state # "none" ~> job[o][k].state \in Finished
=============================================================================
