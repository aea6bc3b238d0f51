--------------------------- MODULE ExternalPayments --------------------------
(***************************************************************************)
(* Wallet top-ups through the payment gateway.  A request inserts a        *)
(* payment and calls the gateway inside one transaction.  The gateway      *)
(* reports by webhook, possibly more than once and with several copies at  *)
(* a time; a webhook is answered at once and processed afterwards.  Once   *)
(* an hour a job cancels payments that have been pending for a day.        *)
(*                                                                         *)
(* One server process; handlers interleave where they await.  The breaker  *)
(* in front of the gateway lives in its memory.                            *)
(***************************************************************************)
EXTENDS Integers, FiniteSets

CONSTANTS
  Payment,
  Delivery,          \* webhook requests, any of which may come again and again
  of,                \* the payment a webhook request is about
  Matchings,         \* sets of payments whose webhooks carry the id stored at
                     \* initiation: what the gateway sends is its own affair
  Outcomes,          \* what a webhook may say became of a payment
  FailureThreshold,  \* failures that open the breaker
  MaxCrashes         \* bound: restarts of the process

ASSUME ExternalAssumption ==
  /\ of \in [Delivery -> Payment] /\ Matchings \subseteq SUBSET Payment
  /\ Outcomes \cap {"unknown", "open"} = {}
  /\ FailureThreshold \in Nat \ {0}
  /\ MaxCrashes \in Nat

VARIABLES
  payment,   \* the request and, once it has committed, the row
  old,       \* rows older than a day
  gateway,   \* what the gateway knows of a payment, and what became of it there
  matching,  \* payments that a webhook finds by its id
  breaker,   \* per process: is it open, how many failures in a row
  attempt,   \* webhook_attempts: status by external id
  pc,        \* what a delivery does
  seen,      \* status it has read and will write back
  abandoned, \* history: payments whose webhook was left in progress
  batch,     \* payments the cleanup job is cancelling
  crashes

vars == <<payment, old, gateway, matching, breaker, attempt, pc, seen, abandoned,
          batch, crashes>>
paymentVars == <<payment, old, gateway, matching, breaker>>
webhookVars == <<attempt, pc, seen, abandoned>>
recordVars == <<attempt, abandoned>>
cleanupVars == <<batch, crashes>>

\* A row exists for others once its transaction has committed.
Rows == {"PENDING", "COMPLETED", "CANCELLED"}
Requests == {"NONE", "CALLING", "ACCEPTED", "REFUSED"}
Committed(p) == payment[p] \in Rows

Attempts == {"NONE", "RECEIVED", "PROCESSING", "PROCESSED", "FAILED", "RETRY_SCHEDULED"}
InProgress == {"RECEIVED", "PROCESSING"}
Handler == {"LOOK", "RESAVE", "INSERT", "REREAD", "CHECK", "REFUSE", "SCHEDULE"}
Async == {"START", "SAVE", "MARK", "MARKFAILED"}

Init ==
  /\ payment = [p \in Payment |-> "NONE"] /\ old = {}
  /\ gateway = [p \in Payment |-> "unknown"]
  /\ matching \in Matchings
  /\ breaker = [open |-> FALSE, failures |-> 0]
  /\ attempt = [p \in Payment |-> "NONE"]
  /\ pc = [d \in Delivery |-> "IDLE"]
  /\ seen = [d \in Delivery |-> "NONE"] /\ abandoned = {}
  /\ batch = {} /\ crashes = 0

-----------------------------------------------------------------------------
(* initiateExternalPayment *)

Become(p, status) == payment' = [payment EXCEPT ![p] = status]

\* The row is inserted, which nobody sees yet.  createPayment asks isOpen before
\* it calls execute, so that the branch of execute that would turn an open
\* breaker half-open is never reached.
Initiate(p) ==
  /\ payment[p] = "NONE"
  /\ ~breaker.open
  /\ Become(p, "CALLING")
  /\ UNCHANGED <<old, gateway, matching, breaker, webhookVars, cleanupVars>>

\* The payment is set to CANCELLED and saved before the error is thrown on,
\* which rolls the row back.
RollBack(p) == Become(p, "REFUSED")

BreakerRefuses(p) ==
  /\ payment[p] = "NONE"
  /\ breaker.open
  /\ RollBack(p)
  /\ UNCHANGED <<old, gateway, matching, breaker, webhookVars, cleanupVars>>

\* recordSuccess and recordFailure.  Opening sets `failures' to undefined; what
\* calls that were under way add to it compares as false.
RecordSuccess == breaker' = [breaker EXCEPT !.failures = 0]
RecordFailure ==
  breaker' = IF breaker.open THEN breaker
             ELSE LET failures == breaker.failures + 1
                      opens == failures >= FailureThreshold
                  IN [open |-> opens, failures |-> IF opens THEN 0 ELSE failures]

GatewayAccepts(p) ==
  /\ payment[p] = "CALLING"
  /\ Become(p, "ACCEPTED")
  /\ gateway' = [gateway EXCEPT ![p] = "open"]
  /\ RecordSuccess
  /\ UNCHANGED <<old, matching, webhookVars, cleanupVars>>

\* No answer, an error, or an answer without client secret.  What the gateway
\* may have kept nobody is told to pay.
GatewayFails(p) ==
  /\ payment[p] = "CALLING"
  /\ RollBack(p)
  /\ RecordFailure
  /\ UNCHANGED <<old, gateway, matching, webhookVars, cleanupVars>>

\* The reference and the gateway's answer are saved, and the transaction of
\* the controller commits before the caller learns where to pay.
Commit(p) ==
  /\ payment[p] = "ACCEPTED"
  /\ Become(p, "PENDING")
  /\ UNCHANGED <<old, gateway, matching, breaker, webhookVars, cleanupVars>>

CommitFails(p) ==
  /\ payment[p] = "ACCEPTED"
  /\ Become(p, "REFUSED")
  /\ UNCHANGED <<old, gateway, matching, breaker, webhookVars, cleanupVars>>

\* The payer pays, or fails to.
Pay(p) ==
  /\ gateway[p] = "open" /\ Committed(p)
  /\ \E outcome \in Outcomes : gateway' = [gateway EXCEPT ![p] = outcome]
  /\ UNCHANGED <<payment, old, matching, breaker, webhookVars, cleanupVars>>

-----------------------------------------------------------------------------
(* processWebhook *)

Step(d, from, to) == pc[d] = from /\ pc' = [pc EXCEPT ![d] = to]
Mark(d, status) ==
  /\ attempt' = [attempt EXCEPT ![of[d]] = status]
  /\ abandoned' = IF status \in InProgress THEN abandoned ELSE abandoned \ {of[d]}
Abandon(d) ==
  abandoned' = IF attempt'[of[d]] \in InProgress THEN abandoned \cup {of[d]} ELSE abandoned

Deliver(d) ==
  /\ Step(d, "IDLE", "LOOK")
  /\ gateway[of[d]] \in Outcomes
  /\ UNCHANGED <<paymentVars, recordVars, seen, cleanupVars>>

\* Answer without doing anything.
Known(status) == status \in {"PROCESSED", "PROCESSING"}
Answer(d, from) ==
  /\ Step(d, from, "IDLE")
  /\ UNCHANGED <<paymentVars, recordVars, seen, cleanupVars>>

LookKnown(d) ==
  /\ Known(attempt[of[d]]) \/ attempt[of[d]] = "RECEIVED"
  /\ Answer(d, "LOOK")

LookFailed(d) ==
  /\ Step(d, "LOOK", "RESAVE")
  /\ attempt[of[d]] \in {"FAILED", "RETRY_SCHEDULED"}
  /\ seen' = [seen EXCEPT ![d] = attempt[of[d]]]
  /\ UNCHANGED <<paymentVars, recordVars, cleanupVars>>

LookNew(d) ==
  /\ Step(d, "LOOK", "INSERT")
  /\ attempt[of[d]] = "NONE"
  /\ UNCHANGED <<paymentVars, recordVars, seen, cleanupVars>>

\* The whole row is written back, with one attempt more.
Resave(d) ==
  /\ Step(d, "RESAVE", "CHECK")
  /\ Mark(d, seen[d])
  /\ seen' = [seen EXCEPT ![d] = "NONE"]
  /\ UNCHANGED <<paymentVars, cleanupVars>>

\* The unique index on provider and external id.
Insert(d) ==
  /\ attempt[of[d]] = "NONE"
  /\ Step(d, "INSERT", "CHECK")
  /\ Mark(d, "RECEIVED")
  /\ UNCHANGED <<paymentVars, seen, cleanupVars>>
InsertDuplicate(d) ==
  /\ attempt[of[d]] # "NONE"
  /\ Step(d, "INSERT", "REREAD")
  /\ UNCHANGED <<paymentVars, recordVars, seen, cleanupVars>>

Reread(d) ==
  /\ ~Known(attempt[of[d]])
  /\ Step(d, "REREAD", "CHECK")
  /\ UNCHANGED <<paymentVars, recordVars, seen, cleanupVars>>
RereadKnown(d) == Known(attempt[of[d]]) /\ Answer(d, "REREAD")

\* A statement outside the try fails.  The INSERT may have been carried out although
\* its answer is lost.
EntryFails(d) ==
  /\ pc[d] \in {"LOOK", "RESAVE", "INSERT", "REREAD"}
  /\ pc' = [pc EXCEPT ![d] = "IDLE"]
  /\ UNCHANGED <<paymentVars, recordVars, seen, cleanupVars>>
InsertUnanswered(d) ==
  /\ attempt[of[d]] = "NONE"
  /\ Step(d, "INSERT", "IDLE")
  /\ attempt' = [attempt EXCEPT ![of[d]] = "RECEIVED"]
  /\ Abandon(d)
  /\ UNCHANGED <<paymentVars, seen, cleanupVars>>

\* Marked before the processing that nobody awaits.  Mutant: marked as done.
Validated_AsDone(d) ==
  /\ Step(d, "CHECK", "START")
  /\ Mark(d, "PROCESSED")
  /\ UNCHANGED <<paymentVars, seen, cleanupVars>>
Validated(d) ==
  /\ Step(d, "CHECK", "START")
  /\ Mark(d, "PROCESSING")
  /\ UNCHANGED <<paymentVars, seen, cleanupVars>>

\* A signature that does not fit: FAILED is saved, and RETRY_SCHEDULED over it.
Refuse(d) ==
  /\ Step(d, "CHECK", "SCHEDULE")
  /\ Mark(d, "FAILED")
  /\ UNCHANGED <<paymentVars, seen, cleanupVars>>

\* The save that marks it fails.
HandlerFails(d) ==
  /\ Step(d, "CHECK", "SCHEDULE")
  /\ UNCHANGED <<paymentVars, recordVars, seen, cleanupVars>>

\* Nothing ever takes up what is scheduled.  Mutant: the handler itself does.
ScheduleRetry_AtOnce(d) ==
  /\ Step(d, "SCHEDULE", "LOOK")
  /\ Mark(d, "RETRY_SCHEDULED")
  /\ UNCHANGED <<paymentVars, seen, cleanupVars>>
ScheduleRetry(d) ==
  /\ Step(d, "SCHEDULE", "IDLE")
  /\ Mark(d, "RETRY_SCHEDULED")
  /\ UNCHANGED <<paymentVars, seen, cleanupVars>>

-----------------------------------------------------------------------------
(* processWebhookAsync and processExternalPaymentCompletion *)

\* processExternalPaymentCompletion of PaymentService wraps what the webhook
\* said into a record; the one of ExternalPaymentService looks for a field
\* `success' in it.
GatewayData(p) == [status |-> gateway[p]]
Succeeds(data) == "success" \in DOMAIN data

Pending(d) == of[d] \in matching /\ payment[of[d]] = "PENDING"
CompletionRead(d) ==
  /\ Step(d, "START", "SAVE")
  /\ Pending(d)
  /\ UNCHANGED <<paymentVars, recordVars, seen, cleanupVars>>
\* No payment with this reference, or none that is pending.
CompletionIdle(d) ==
  /\ Step(d, "START", "MARK")
  /\ ~Pending(d)
  /\ UNCHANGED <<paymentVars, recordVars, seen, cleanupVars>>

CompletionSave(d) ==
  /\ Step(d, "SAVE", "MARK")
  /\ Become(of[d], IF Succeeds(GatewayData(of[d])) THEN "COMPLETED" ELSE "CANCELLED")
  /\ UNCHANGED <<old, gateway, matching, breaker, recordVars, seen, cleanupVars>>

\* Reading or saving fails.  Mutant: the error is logged and nothing else.
CompletionFails_LogOnly(d) ==
  /\ pc[d] \in {"START", "SAVE", "MARK"}
  /\ pc' = [pc EXCEPT ![d] = "IDLE"]
  /\ UNCHANGED <<paymentVars, recordVars, seen, cleanupVars>>
CompletionFails(d) ==
  /\ pc[d] \in {"START", "SAVE", "MARK"}
  /\ pc' = [pc EXCEPT ![d] = "MARKFAILED"]
  /\ UNCHANGED <<paymentVars, recordVars, seen, cleanupVars>>

MarkProcessed(d) ==
  /\ Step(d, "MARK", "IDLE")
  /\ Mark(d, "PROCESSED")
  /\ UNCHANGED <<paymentVars, seen, cleanupVars>>
MarkFailed(d) ==
  /\ Step(d, "MARKFAILED", "IDLE")
  /\ Mark(d, "FAILED")
  /\ UNCHANGED <<paymentVars, seen, cleanupVars>>

\* The statement that is to record the error fails: scheduleRetry in the catch, or
\* the look-up or the save in the catch of processWebhookAsync.  That rejection nobody
\* handles, and unless told otherwise Node ends the process: a Crash follows.
RecordFails(d) ==
  /\ pc[d] \in {"SCHEDULE", "MARKFAILED"}
  /\ pc' = [pc EXCEPT ![d] = "IDLE"]
  /\ UNCHANGED <<paymentVars, attempt, seen, cleanupVars>>
  /\ Abandon(d)

Handle(d) ==
  \/ LookKnown(d) \/ LookFailed(d) \/ LookNew(d) \/ Resave(d)
  \/ Insert(d) \/ InsertDuplicate(d) \/ Reread(d) \/ RereadKnown(d)
  \/ EntryFails(d) \/ InsertUnanswered(d)
  \/ Validated(d) \/ Refuse(d) \/ HandlerFails(d) \/ ScheduleRetry(d)
  \/ CompletionRead(d) \/ CompletionIdle(d) \/ CompletionSave(d)
  \/ CompletionFails(d) \/ MarkProcessed(d) \/ MarkFailed(d) \/ RecordFails(d)

-----------------------------------------------------------------------------
(* cleanupExpiredPayments *)

DayPasses(p) ==
  /\ Committed(p) /\ p \notin old
  /\ old' = old \cup {p}
  /\ UNCHANGED <<payment, gateway, matching, breaker, webhookVars, cleanupVars>>

\* Mutant: payments that a webhook has spoken of are left to it.
Expired_Unreported == {p \in old : payment[p] = "PENDING" /\ attempt[p] = "NONE"}
Expired == {p \in old : payment[p] = "PENDING"}

CleanupSelect ==
  /\ batch = {} /\ Expired # {}
  /\ batch' = Expired
  /\ UNCHANGED <<paymentVars, webhookVars, crashes>>

\* By id, whatever the payment is by now.  An error is logged and skipped.
CancelExpired(p) ==
  /\ p \in batch
  /\ batch' = batch \ {p}
  /\ Become(p, "CANCELLED")
  /\ UNCHANGED <<old, gateway, matching, breaker, webhookVars, crashes>>
CancelFails(p) ==
  /\ p \in batch
  /\ batch' = batch \ {p}
  /\ UNCHANGED <<paymentVars, webhookVars, crashes>>

\* The process dies: open transactions roll back, handlers are gone.
Crash ==
  /\ crashes < MaxCrashes
  /\ crashes' = crashes + 1
  /\ batch' = {}
  /\ payment' = [p \in Payment |->
       IF payment[p] \in {"CALLING", "ACCEPTED"} THEN "REFUSED" ELSE payment[p]]
  /\ breaker' = [open |-> FALSE, failures |-> 0]
  /\ pc' = [d \in Delivery |-> "IDLE"]
  /\ abandoned' = abandoned \cup {p \in Payment : attempt[p] \in InProgress}
  /\ UNCHANGED <<old, gateway, matching, attempt, seen>>

Next ==
  \/ \E p \in Payment :
       \/ Initiate(p) \/ BreakerRefuses(p) \/ GatewayAccepts(p)
       \/ GatewayFails(p) \/ Commit(p) \/ CommitFails(p) \/ Pay(p)
       \/ DayPasses(p) \/ CancelExpired(p) \/ CancelFails(p)
  \/ \E d \in Delivery : Handle(d) \/ Deliver(d)
  \/ CleanupSelect \/ Crash

Spec == Init /\ [][Next]_vars

\* Handlers run on, days pass, the job runs every hour and its updates do not
\* fail for ever.
FairSpec ==
  /\ Spec
  /\ \A d \in Delivery : WF_vars(Handle(d))
  /\ \A p \in Payment : WF_vars(DayPasses(p)) /\ SF_vars(CancelExpired(p))
  /\ WF_vars(CleanupSelect)

-----------------------------------------------------------------------------
(* Properties *)

TypeOK ==
  /\ payment \in [Payment -> Rows \cup Requests]
  /\ old \subseteq {p \in Payment : Committed(p)}
  /\ gateway \in [Payment -> {"unknown", "open"} \cup Outcomes]
  /\ matching \in Matchings
  /\ breaker \in [open : BOOLEAN, failures : 0 .. FailureThreshold - 1]
  /\ attempt \in [Payment -> Attempts]
  /\ pc \in [Delivery -> {"IDLE"} \cup Handler \cup Async]
  /\ seen \in [Delivery -> Attempts] /\ abandoned \subseteq Payment
  /\ batch \subseteq old /\ crashes \in 0 .. MaxCrashes

\* However many copies of a webhook race, fail and overwrite each other's
\* status, a webhook is on record as processed only when the payment it names
\* has been decided (WebhookService.processWebhookAsync).  Variables have their types.
ProcessedIsDecided ==
  TypeOK /\ \A p \in matching : attempt[p] = "PROCESSED" => payment[p] # "PENDING"

\* A webhook on record as received or in progress, which every further copy takes as a
\* reason to do nothing, has a handler at work on it, however many copies overwrite
\* each other's status.  It is left behind only by a process that died, an INSERT whose
\* answer was lost, or an error whose recording failed too.
StuckOnlyIfAbandoned ==
  \A p \in Payment \ abandoned : attempt[p] \in InProgress =>
    \E d \in Delivery : of[d] = p /\ pc[d] # "IDLE"

\* A pending payment does not stay so, whatever happens to its webhooks.
PendingEnds == \A p \in Payment : (payment[p] = "PENDING") ~> (payment[p] # "PENDING")

\* A webhook request and its processing end.
DeliveriesEnd == \A d \in Delivery : (pc[d] # "IDLE") ~> (pc[d] = "IDLE")
=============================================================================
