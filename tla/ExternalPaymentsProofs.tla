------------------------ MODULE ExternalPaymentsProofs ------------------------
(***************************************************************************)
(* Proofs about ExternalPayments: what a webhook record says of its        *)
(* payment and which records are left behind, for any number of payments,  *)
(* webhook copies and restarts.                                            *)
(***************************************************************************)
EXTENDS ExternalPayments, TLAPS

\* A handler at these points has yet to write the status of its webhook.
Working == {"CHECK", "SCHEDULE"} \cup Async

\* The transaction of the request committed before anybody could pay.
GatewayInv == \A p \in Payment : gateway[p] \in Outcomes => Committed(p)

\* Webhooks are about committed rows, which never become pending again.
WebhookInv ==
  /\ \A d \in Delivery : pc[d] # "IDLE" => Committed(of[d])
  /\ \A p \in Payment : attempt[p] # "NONE" => Committed(p)
  /\ \A d \in Delivery : pc[d] = "MARK" => ~Pending(d)
  /\ \A d \in Delivery : seen[d] \in {"NONE", "FAILED", "RETRY_SCHEDULED"}

\* Who wrote the status that turns other copies away is still at work.
WorkInv ==
  \A p \in Payment \ abandoned : attempt[p] \in InProgress =>
    \E d \in Delivery : of[d] = p /\ pc[d] \in Working

Inv == TypeOK /\ GatewayInv /\ WebhookInv /\ ProcessedIsDecided /\ WorkInv

LEMMA InitInv == Init => Inv
BY ExternalAssumption DEF Init, Inv, TypeOK, GatewayInv, WebhookInv, ProcessedIsDecided, WorkInv,
   Rows, Requests, Attempts, Committed, InProgress

-----------------------------------------------------------------------------
(* Types *)

LEMMA BreakerType ==
  ASSUME TypeOK, RecordFailure \/ RecordSuccess
  PROVE  breaker' \in [open : BOOLEAN, failures : 0 .. FailureThreshold - 1]
<1> DEFINE k == breaker.failures
<1>1. breaker.open \in BOOLEAN /\ k \in 0 .. FailureThreshold - 1 /\ FailureThreshold \in Nat \ {0}
  BY ExternalAssumption DEF TypeOK
<1>2. CASE RecordSuccess
  BY <1>1, <1>2 DEF TypeOK, RecordSuccess
<1>3. CASE RecordFailure
  BY <1>1, <1>3 DEF TypeOK, RecordFailure
<1> QED BY <1>2, <1>3

LEMMA PaymentTypes ==
  ASSUME TypeOK, NEW p \in Payment,
         \/ Initiate(p) \/ BreakerRefuses(p) \/ GatewayAccepts(p)
         \/ GatewayFails(p) \/ Commit(p) \/ CommitFails(p) \/ Pay(p)
         \/ DayPasses(p) \/ CancelExpired(p) \/ CancelFails(p)
  PROVE  TypeOK'
<1> USE DEF TypeOK, Committed, Rows, Requests, Become, RollBack, webhookVars, cleanupVars, paymentVars
<1>1. CASE Initiate(p) \/ BreakerRefuses(p) \/ Commit(p) \/ CommitFails(p)
  BY <1>1 DEF Initiate, BreakerRefuses, Commit, CommitFails
<1>2. CASE GatewayAccepts(p) \/ GatewayFails(p)
  BY <1>2, BreakerType DEF GatewayAccepts, GatewayFails
<1>3. CASE Pay(p) \/ DayPasses(p)
  BY <1>3 DEF Pay, DayPasses
<1>4. CASE CancelExpired(p) \/ CancelFails(p)
  BY <1>4 DEF CancelExpired, CancelFails
<1> QED BY <1>1, <1>2, <1>3, <1>4

LEMMA DeliveryTypes ==
  ASSUME TypeOK, NEW d \in Delivery, Handle(d) \/ Deliver(d)
  PROVE  TypeOK'
<1> USE ExternalAssumption DEF TypeOK, Committed, Rows, Attempts, Handler, Async, Step, Mark, Become,
      InProgress, Abandon, recordVars, webhookVars, cleanupVars, paymentVars
<1>1. CASE Deliver(d) \/ LookKnown(d) \/ LookNew(d) \/ InsertDuplicate(d) \/ Reread(d) \/ RereadKnown(d)
  BY <1>1 DEF Deliver, LookKnown, LookNew, InsertDuplicate, Reread, RereadKnown, Answer
<1>2. CASE LookFailed(d) \/ Resave(d) \/ Insert(d)
  BY <1>2 DEF LookFailed, Resave, Insert
<1>3. CASE Validated(d) \/ Refuse(d) \/ HandlerFails(d) \/ ScheduleRetry(d)
  BY <1>3 DEF Validated, Refuse, HandlerFails, ScheduleRetry
<1>4. CASE CompletionRead(d) \/ CompletionIdle(d) \/ CompletionFails(d)
  BY <1>4 DEF CompletionRead, CompletionIdle, CompletionFails
<1>5. CASE CompletionSave(d)
  BY <1>5 DEF CompletionSave
<1>6. CASE MarkProcessed(d) \/ MarkFailed(d)
  BY <1>6 DEF MarkProcessed, MarkFailed
<1>7. CASE EntryFails(d) \/ InsertUnanswered(d) \/ RecordFails(d)
  BY <1>7 DEF EntryFails, InsertUnanswered, RecordFails
<1> QED BY <1>1, <1>2, <1>3, <1>4, <1>5, <1>6, <1>7 DEF Handle

LEMMA TypeStep == TypeOK /\ [Next]_vars => TypeOK'
<1> SUFFICES ASSUME TypeOK, [Next]_vars PROVE TypeOK'
  OBVIOUS
<1>1. CASE CleanupSelect
  BY <1>1 DEF CleanupSelect, Expired, TypeOK, Committed, paymentVars, webhookVars
<1>2. CASE Crash
  BY <1>2, ExternalAssumption DEF Crash, TypeOK, Committed, Rows, Requests
<1>3. CASE UNCHANGED vars
  BY <1>3 DEF vars, TypeOK, Committed
<1> QED BY <1>1, <1>2, <1>3, PaymentTypes, DeliveryTypes DEF Next

-----------------------------------------------------------------------------
(* Rows and the gateway *)

\* A committed row stays, and once decided it stays decided.
LEMMA RowsStay ==
  ASSUME TypeOK, [Next]_vars, NEW p \in Payment, Committed(p)
  PROVE  Committed(p)' /\ (payment[p] # "PENDING" => payment'[p] # "PENDING")
<1> USE DEF TypeOK, Committed, Rows, Become, RollBack
<1>1. ASSUME NEW q \in Payment,
             \/ Initiate(q) \/ BreakerRefuses(q) \/ GatewayAccepts(q)
             \/ GatewayFails(q) \/ Commit(q) \/ CommitFails(q) \/ CancelExpired(q)
      PROVE  Committed(p)' /\ (payment[p] # "PENDING" => payment'[p] # "PENDING")
  BY <1>1 DEF Initiate, BreakerRefuses, GatewayAccepts, GatewayFails, Commit, CommitFails, CancelExpired
<1>2. ASSUME NEW q \in Payment, Pay(q) \/ DayPasses(q) \/ CancelFails(q)
      PROVE  UNCHANGED payment
  BY <1>2 DEF Pay, DayPasses, CancelFails, paymentVars
<1>3. ASSUME NEW d \in Delivery, CompletionSave(d)
      PROVE  Committed(p)' /\ (payment[p] # "PENDING" => payment'[p] # "PENDING")
  BY <1>3 DEF CompletionSave
<1>4. ASSUME NEW d \in Delivery, Handle(d) \/ Deliver(d), ~CompletionSave(d)
      PROVE  UNCHANGED payment
  BY <1>4 DEF Handle, Deliver, LookKnown, LookFailed, LookNew, Resave, Insert, InsertDuplicate,
     Reread, RereadKnown, Answer, Validated, Refuse, HandlerFails, ScheduleRetry, CompletionRead,
     CompletionIdle, CompletionFails, MarkProcessed, MarkFailed, EntryFails, InsertUnanswered,
     RecordFails, paymentVars
<1>5. CASE Crash
  BY <1>5 DEF Crash
<1>6. CASE CleanupSelect \/ UNCHANGED vars
  BY <1>6 DEF CleanupSelect, paymentVars, vars
<1> QED BY <1>1, <1>2, <1>3, <1>4, <1>5, <1>6 DEF Next

\* Deliveries do not touch what the gateway knows.
LEMMA DeliveryFrame ==
  ASSUME NEW d \in Delivery, Handle(d) \/ Deliver(d)
  PROVE  /\ UNCHANGED <<old, gateway, matching, breaker, batch, crashes>>
         /\ CompletionSave(d) \/ UNCHANGED payment
BY DEF Handle, Deliver, LookKnown, LookFailed, LookNew, Resave, Insert, InsertDuplicate,
   Reread, RereadKnown, Answer, Validated, Refuse, HandlerFails, ScheduleRetry, CompletionRead,
   CompletionIdle, CompletionSave, CompletionFails, MarkProcessed, MarkFailed, EntryFails,
   InsertUnanswered, RecordFails, paymentVars, cleanupVars

LEMMA GatewayStep == Inv /\ [Next]_vars => GatewayInv'
<1> SUFFICES ASSUME Inv, [Next]_vars, NEW p \in Payment, gateway'[p] \in Outcomes
             PROVE  Committed(p)'
  BY DEF GatewayInv
<1>0. TypeOK /\ GatewayInv
  BY DEF Inv
<1>1. CASE gateway[p] \in Outcomes
  BY <1>0, <1>1, RowsStay DEF GatewayInv
<1>2. ASSUME NEW q \in Payment, GatewayAccepts(q) \/ Pay(q) PROVE Committed(p)'
  <2>1. q # p => gateway'[p] = gateway[p]
    BY <1>0, <1>2 DEF TypeOK, GatewayAccepts, Pay
  <2>2. GatewayAccepts(p) => gateway'[p] = "open"
    BY <1>0 DEF TypeOK, GatewayAccepts
  <2>3. Pay(p) => Committed(p)'
    BY DEF Pay, Committed
  <2> QED BY <1>1, <1>2, <2>1, <2>2, <2>3, ExternalAssumption
<1>3. ASSUME NEW q \in Payment,
             \/ Initiate(q) \/ BreakerRefuses(q) \/ GatewayFails(q) \/ Commit(q)
             \/ CommitFails(q) \/ DayPasses(q) \/ CancelExpired(q) \/ CancelFails(q)
      PROVE  UNCHANGED gateway
  BY <1>3 DEF Initiate, BreakerRefuses, GatewayFails, Commit, CommitFails, DayPasses,
     CancelExpired, CancelFails, paymentVars
<1>4. CASE CleanupSelect \/ Crash \/ UNCHANGED vars
  BY <1>1, <1>4 DEF CleanupSelect, Crash, paymentVars, vars
<1> QED BY <1>1, <1>2, <1>3, <1>4, DeliveryFrame DEF Next

-----------------------------------------------------------------------------
(* Webhooks *)

\* What is not a webhook leaves records and handlers alone, but for a crash.
LEMMA PaymentFrame ==
  ASSUME NEW p \in Payment,
         \/ Initiate(p) \/ BreakerRefuses(p) \/ GatewayAccepts(p)
         \/ GatewayFails(p) \/ Commit(p) \/ CommitFails(p) \/ Pay(p)
         \/ DayPasses(p) \/ CancelExpired(p) \/ CancelFails(p)
  PROVE  UNCHANGED <<attempt, pc, seen, abandoned, matching, crashes>>
BY DEF Initiate, BreakerRefuses, GatewayAccepts, GatewayFails, Commit, CommitFails, Pay, DayPasses,
   CancelExpired, CancelFails, webhookVars, cleanupVars, paymentVars

\* What a step of a delivery writes: its own counter, the status of its own
\* webhook, and what it has read.
LEMMA DeliveryWrites ==
  ASSUME TypeOK, WebhookInv, GatewayInv, NEW d \in Delivery, Handle(d) \/ Deliver(d)
  PROVE  /\ Committed(of[d])
         /\ pc' = [pc EXCEPT ![d] = pc'[d]]
         /\ attempt' = [attempt EXCEPT ![of[d]] = attempt'[of[d]]]
         /\ \A e \in Delivery : seen'[e] \in {"NONE", "FAILED", "RETRY_SCHEDULED"}
<1> USE ExternalAssumption DEF TypeOK, WebhookInv, GatewayInv, Step, Mark, Handler, Async, recordVars
<1>0. of[d] \in Payment
  OBVIOUS
<1>1. CASE Deliver(d)
  BY <1>1 DEF Deliver
<1>2. CASE LookKnown(d) \/ LookNew(d) \/ InsertDuplicate(d) \/ Reread(d) \/ RereadKnown(d)
  BY <1>2 DEF LookKnown, LookNew, InsertDuplicate, Reread, RereadKnown, Answer
<1>3. CASE LookFailed(d) \/ Resave(d) \/ Insert(d)
  BY <1>3 DEF LookFailed, Resave, Insert
<1>4. CASE Validated(d) \/ Refuse(d) \/ HandlerFails(d) \/ ScheduleRetry(d)
  BY <1>4 DEF Validated, Refuse, HandlerFails, ScheduleRetry
<1>5. CASE CompletionRead(d) \/ CompletionIdle(d) \/ CompletionSave(d) \/ CompletionFails(d)
  BY <1>5 DEF CompletionRead, CompletionIdle, CompletionSave, CompletionFails
<1>6. CASE MarkProcessed(d) \/ MarkFailed(d)
  BY <1>6 DEF MarkProcessed, MarkFailed
<1>7. CASE EntryFails(d) \/ InsertUnanswered(d) \/ RecordFails(d)
  BY <1>7 DEF EntryFails, InsertUnanswered, RecordFails
<1> QED BY <1>1, <1>2, <1>3, <1>4, <1>5, <1>6, <1>7 DEF Handle

\* Handlers reach MARK only when there is nothing pending to decide.
LEMMA MarkIsDecided ==
  ASSUME TypeOK, WebhookInv, GatewayInv, NEW d \in Delivery, Handle(d) \/ Deliver(d), pc'[d] = "MARK"
  PROVE  of[d] \notin matching \/ payment'[of[d]] # "PENDING"
<1> USE ExternalAssumption DEF TypeOK, Step, Mark, recordVars
<1>1. CASE Deliver(d)
  BY <1>1 DEF Deliver
<1>2. CASE LookKnown(d) \/ LookNew(d) \/ InsertDuplicate(d) \/ Reread(d) \/ RereadKnown(d)
  BY <1>2 DEF LookKnown, LookNew, InsertDuplicate, Reread, RereadKnown, Answer
<1>3. CASE LookFailed(d) \/ Resave(d) \/ Insert(d)
  BY <1>3 DEF LookFailed, Resave, Insert
<1>4. CASE Validated(d) \/ Refuse(d) \/ HandlerFails(d) \/ ScheduleRetry(d)
  BY <1>4 DEF Validated, Refuse, HandlerFails, ScheduleRetry
<1>5. CASE CompletionRead(d) \/ CompletionFails(d) \/ MarkProcessed(d) \/ MarkFailed(d)
  BY <1>5 DEF CompletionRead, CompletionFails, MarkProcessed, MarkFailed
<1>6. CASE CompletionIdle(d)
  BY <1>6 DEF CompletionIdle, Pending, paymentVars
<1>7. CASE CompletionSave(d)
  BY <1>7 DEF CompletionSave, Become
<1>8. CASE EntryFails(d) \/ InsertUnanswered(d) \/ RecordFails(d)
  BY <1>8 DEF EntryFails, InsertUnanswered, RecordFails
<1> QED BY <1>1, <1>2, <1>3, <1>4, <1>5, <1>6, <1>7, <1>8 DEF Handle

LEMMA WebhookStep == Inv /\ [Next]_vars => WebhookInv'
<1> SUFFICES ASSUME Inv, [Next]_vars PROVE WebhookInv'
  OBVIOUS
<1>0. /\ TypeOK /\ WebhookInv /\ GatewayInv
      /\ \A d \in Delivery : of[d] \in Payment
  BY ExternalAssumption DEF Inv
<1>1. \A p \in Payment : Committed(p) =>
        Committed(p)' /\ (payment[p] # "PENDING" => payment'[p] # "PENDING")
  BY <1>0, RowsStay
<1>2. CASE UNCHANGED <<attempt, pc, seen, matching>>
  BY <1>0, <1>1, <1>2 DEF WebhookInv, Pending
<1>3. CASE Crash
  BY <1>0, <1>1, <1>3 DEF WebhookInv, Pending, Crash
<1>4. ASSUME NEW d \in Delivery, Handle(d) \/ Deliver(d) PROVE WebhookInv'
  <2> USE <1>0, <1>1, <1>4
  <2>1. matching' = matching
    BY DeliveryFrame
  <2>2. \A e \in Delivery : pc'[e] # "IDLE" => Committed(of[e])'
    BY DeliveryWrites DEF WebhookInv, TypeOK
  <2>3. \A p \in Payment : attempt'[p] # "NONE" => Committed(p)'
    BY DeliveryWrites DEF WebhookInv, TypeOK
  <2>4. \A e \in Delivery : pc'[e] = "MARK" => ~(of[e] \in matching /\ payment'[of[e]] = "PENDING")
    <3> TAKE e \in Delivery
    <3>1. CASE e = d
      BY <3>1, MarkIsDecided
    <3>2. CASE e # d
      BY <3>2, DeliveryWrites DEF WebhookInv, Pending, TypeOK
    <3> QED BY <3>1, <3>2
  <2>5. \A e \in Delivery : seen'[e] \in {"NONE", "FAILED", "RETRY_SCHEDULED"}
    BY DeliveryWrites
  <2> QED BY <2>1, <2>2, <2>3, <2>4, <2>5 DEF WebhookInv, Pending
<1> QED BY <1>2, <1>3, <1>4, PaymentFrame DEF Next, CleanupSelect, paymentVars, webhookVars, vars

-----------------------------------------------------------------------------
(* What a record says *)

\* PROCESSED is only ever written at MARK: what is written back was not it.
LEMMA MarksProcessed ==
  ASSUME TypeOK, WebhookInv, NEW d \in Delivery, Handle(d) \/ Deliver(d),
         attempt'[of[d]] = "PROCESSED", attempt[of[d]] # "PROCESSED"
  PROVE  pc[d] = "MARK" /\ UNCHANGED payment
<1> USE ExternalAssumption DEF TypeOK, WebhookInv, Step, Mark, recordVars, paymentVars
<1>1. CASE Deliver(d)
  BY <1>1 DEF Deliver
<1>2. CASE LookKnown(d) \/ LookNew(d) \/ InsertDuplicate(d) \/ Reread(d) \/ RereadKnown(d)
  BY <1>2 DEF LookKnown, LookNew, InsertDuplicate, Reread, RereadKnown, Answer
<1>3. CASE LookFailed(d) \/ Resave(d) \/ Insert(d)
  BY <1>3 DEF LookFailed, Resave, Insert
<1>4. CASE Validated(d) \/ Refuse(d) \/ HandlerFails(d) \/ ScheduleRetry(d)
  BY <1>4 DEF Validated, Refuse, HandlerFails, ScheduleRetry
<1>5. CASE CompletionRead(d) \/ CompletionIdle(d) \/ CompletionSave(d) \/ CompletionFails(d)
  BY <1>5 DEF CompletionRead, CompletionIdle, CompletionSave, CompletionFails
<1>6. CASE MarkProcessed(d) \/ MarkFailed(d)
  BY <1>6 DEF MarkProcessed, MarkFailed
<1>7. CASE EntryFails(d) \/ InsertUnanswered(d) \/ RecordFails(d)
  BY <1>7 DEF EntryFails, InsertUnanswered, RecordFails
<1> QED BY <1>1, <1>2, <1>3, <1>4, <1>5, <1>6, <1>7 DEF Handle

LEMMA ProcessedStep == Inv /\ [Next]_vars => ProcessedIsDecided'
<1> SUFFICES ASSUME Inv, [Next]_vars,
                    NEW p \in matching', attempt'[p] = "PROCESSED"
             PROVE  payment'[p] # "PENDING"
  BY TypeStep DEF Inv, ProcessedIsDecided
<1>p. p \in Payment
  BY TypeStep, ExternalAssumption DEF Inv, TypeOK
<1>0. TypeOK /\ WebhookInv /\ GatewayInv /\ ProcessedIsDecided
  BY DEF Inv
<1>1. attempt[p] = "PROCESSED" /\ matching' = matching => payment'[p] # "PENDING"
  BY <1>p, <1>0, RowsStay DEF WebhookInv, ProcessedIsDecided
<1>2. CASE UNCHANGED <<attempt, matching>>
  BY <1>1, <1>2
<1>3. ASSUME NEW d \in Delivery, Handle(d) \/ Deliver(d) PROVE payment'[p] # "PENDING"
  <2>1. matching' = matching
    BY <1>3, DeliveryFrame
  <2>2. CASE attempt[p] # "PROCESSED"
    <3>1. attempt'[of[d]] = "PROCESSED" /\ p = of[d]
      BY <1>p, <1>0, <1>3, <2>2, DeliveryWrites DEF TypeOK
    <3>2. pc[d] = "MARK" /\ payment' = payment
      BY <1>0, <1>3, <2>2, <3>1, MarksProcessed
    <3> QED BY <1>0, <2>1, <3>1, <3>2 DEF WebhookInv, Pending
  <2> QED BY <1>1, <2>1, <2>2
<1> QED BY <1>2, <1>3, PaymentFrame DEF Next, CleanupSelect, Crash, paymentVars, webhookVars, vars

\* Who leaves off working has written another status first, or leaves it behind.
LEMMA WorkIsHandedOn ==
  ASSUME TypeOK, WebhookInv, NEW d \in Delivery, Handle(d) \/ Deliver(d),
         attempt'[of[d]] \in InProgress, of[d] \notin abandoned'
  PROVE  /\ pc[d] \in Working => pc'[d] \in Working
         /\ attempt'[of[d]] = attempt[of[d]] \/ pc'[d] \in Working
         /\ attempt'[of[d]] = attempt[of[d]] => of[d] \notin abandoned
<1> USE ExternalAssumption DEF TypeOK, WebhookInv, Step, Mark, Working, Async, InProgress, Abandon,
      recordVars
<1>1. CASE Deliver(d)
  BY <1>1 DEF Deliver
<1>2. CASE LookKnown(d) \/ LookNew(d) \/ InsertDuplicate(d) \/ Reread(d) \/ RereadKnown(d)
  BY <1>2 DEF LookKnown, LookNew, InsertDuplicate, Reread, RereadKnown, Answer
<1>3. CASE LookFailed(d) \/ Resave(d) \/ Insert(d)
  BY <1>3 DEF LookFailed, Resave, Insert
<1>4. CASE Validated(d) \/ Refuse(d) \/ HandlerFails(d) \/ ScheduleRetry(d)
  BY <1>4 DEF Validated, Refuse, HandlerFails, ScheduleRetry
<1>5. CASE CompletionRead(d) \/ CompletionIdle(d) \/ CompletionSave(d) \/ CompletionFails(d)
  BY <1>5 DEF CompletionRead, CompletionIdle, CompletionSave, CompletionFails
<1>6. CASE MarkProcessed(d) \/ MarkFailed(d)
  BY <1>6 DEF MarkProcessed, MarkFailed
<1>7. CASE EntryFails(d) \/ InsertUnanswered(d) \/ RecordFails(d)
  BY <1>7 DEF EntryFails, InsertUnanswered, RecordFails
<1> QED BY <1>1, <1>2, <1>3, <1>4, <1>5, <1>6, <1>7 DEF Handle

\* A step of a delivery abandons, or takes up, its own webhook only.
LEMMA AbandonsItsOwn ==
  ASSUME NEW d \in Delivery, Handle(d) \/ Deliver(d)
  PROVE  \A p \in Payment : p # of[d] => (p \in abandoned' <=> p \in abandoned)
BY DEF Handle, Deliver, LookKnown, LookFailed, LookNew, Resave, Insert, InsertDuplicate,
   Reread, RereadKnown, Answer, Validated, Refuse, HandlerFails, ScheduleRetry, CompletionRead,
   CompletionIdle, CompletionSave, CompletionFails, MarkProcessed, MarkFailed, EntryFails,
   InsertUnanswered, RecordFails, Mark, Abandon, recordVars

LEMMA WorkStep == Inv /\ [Next]_vars => WorkInv'
<1> SUFFICES ASSUME Inv, [Next]_vars, NEW p \in Payment, p \notin abandoned',
                    attempt'[p] \in InProgress
             PROVE  \E d \in Delivery : of[d] = p /\ pc'[d] \in Working
  BY DEF WorkInv
<1>0. TypeOK /\ WebhookInv /\ GatewayInv /\ WorkInv
  BY DEF Inv
<1>1. CASE UNCHANGED <<attempt, pc, abandoned>>
  BY <1>0, <1>1 DEF WorkInv
<1>2. ASSUME NEW d \in Delivery, Handle(d) \/ Deliver(d)
      PROVE  \E e \in Delivery : of[e] = p /\ pc'[e] \in Working
  <2>1. CASE of[d] = p /\ pc'[d] \in Working
    BY <2>1
  <2>2. CASE ~(of[d] = p /\ pc'[d] \in Working)
    <3>1. attempt'[p] = attempt[p] /\ p \notin abandoned
      <4>1. CASE of[d] = p
        BY <1>0, <1>2, <2>2, <4>1, WorkIsHandedOn
      <4>2. CASE of[d] # p
        BY <1>0, <1>2, <4>2, DeliveryWrites, AbandonsItsOwn DEF TypeOK
      <4> QED BY <4>1, <4>2
    <3>2. PICK e \in Delivery : of[e] = p /\ pc[e] \in Working
      BY <1>0, <3>1 DEF WorkInv
    <3>3. CASE e = d
      BY <1>0, <1>2, <2>2, <3>2, <3>3, WorkIsHandedOn
    <3>4. CASE e # d
      BY <1>0, <1>2, <3>2, <3>4, DeliveryWrites DEF TypeOK
    <3> QED BY <3>3, <3>4
  <2> QED BY <2>1, <2>2
<1>3. CASE Crash
  <2>1. attempt'[p] \notin InProgress
    BY <1>3 DEF Crash
  <2> QED BY <2>1
<1> QED BY <1>1, <1>2, <1>3, PaymentFrame DEF Next, CleanupSelect, paymentVars, webhookVars, vars

-----------------------------------------------------------------------------
LEMMA AlwaysInv == Spec => []Inv
<1>1. Inv /\ [Next]_vars => Inv'
  BY TypeStep, GatewayStep, WebhookStep, ProcessedStep, WorkStep DEF Inv
<1> QED BY InitInv, <1>1, PTL DEF Spec

\* A webhook on record as processed is one whose payment has been decided:
\* handlers that race write each other's old statuses back, but that one only
\* who has found nothing pending (WebhookService.processWebhookAsync).  Rows have types.
THEOREM ExternalProcessedIsDecided == Spec => []ProcessedIsDecided
<1>1. Inv => ProcessedIsDecided
  BY DEF Inv
<1> QED BY <1>1, AlwaysInv, PTL

\* A record that turns further copies away has a handler at work on it, unless
\* the process died, or the error could not be recorded, or the answer to its INSERT
\* was lost (WebhookService.processWebhook, processWebhookAsync).
THEOREM ExternalStuckOnlyIfAbandoned == Spec => []StuckOnlyIfAbandoned
<1>1. Inv => StuckOnlyIfAbandoned
  BY DEF Inv, WorkInv, StuckOnlyIfAbandoned, Working, Async
<1> QED BY <1>1, AlwaysInv, PTL

\* What has been decided stays decided: the row of a top-up never goes back to
\* PENDING, whichever of webhook and cleanup job came second.
THEOREM ExternalDecidedForGood ==
  Spec => [][\A p \in Payment : Committed(p) =>
               Committed(p)' /\ (payment[p] # "PENDING" => payment'[p] # "PENDING")]_vars
<1>1. Inv /\ [Next]_vars => [\A p \in Payment : Committed(p) =>
               Committed(p)' /\ (payment[p] # "PENDING" => payment'[p] # "PENDING")]_vars
  BY RowsStay DEF Inv
<1> QED BY <1>1, AlwaysInv, PTL DEF Spec
=============================================================================
