# Verification of the LMS backend

TLA+ models of the backend in `src/` (NestJS, TypeORM, PostgreSQL, Redis,
BullMQ), the TLC runs that check them on small instances, and TLAPS proofs of
the properties that matter most for every instance of their constants.

Paths below are relative to the repository root; `finance/` stands for
`src/modules/finance/`, and so on for the other feature modules.

## 1. The system

An educational-centre management backend. Requests arrive over HTTP, run as
async functions of one Node process per instance (several instances may run),
and keep everything in PostgreSQL at READ COMMITTED. Redis holds caches, rate
limits and notification idempotency keys; BullMQ carries notification jobs.
A method marked `@Transactional` (nestjs-cls) runs in one database
transaction, joined by the `@Transactional` methods it awaits. A method
without the mark commits every repository call by itself. Row locks are taken
only in `findOneWithLock` of wallets and cashboxes. Everything else is
read, decide, write: what other requests do between the read and the write is
where this system is hard.

| component | state | operations | what makes it correct |
|---|---|---|---|
| payment ledger (`finance/services/payment-orchestrator`, `-creator`, `-executor`, `strategies/`, `wallet`, `cashbox`) | wallets, cashboxes, ledger entries, payments | `createAndExecutePayment` | a payment applies all its legs once or none; no overdraft beyond the floor; entries add up to balances; money is conserved; every request ends |
| payment records and refunds (`finance/services/payment.service`, `payment-refund.service`) | payment status, reversal entries | complete, cancel, refund | a payment is refunded at most once; a terminal status is final |
| external payments (`finance/services/external-payment`, `webhook`, `payment-cleanup`, `adapters/`, `circuit-breaker/`) | payments PENDING at a provider, webhook attempts | initiate, webhook, hourly cleanup | one credit per confirmed payment; webhook and cleanup do not undo each other |
| student billing (`student-billing/services`) | charges, subscriptions, class instalments | monthly, session and class charges, instalments, refund | a student is charged once per period; instalments never exceed the price |
| teacher payouts (`teacher-payouts/services`, `jobs/`) | payout records | create, pay, instalment, monthly job | a payout is paid once; status and payment agree |
| expenses (`expenses/services`) | expense status | create, update, refund | refunded at most once |
| sessions (`sessions/services`, `jobs/`) | session status, virtual sessions | create, check-in, start, cancel, finish, reschedule, cleanup job | status moves along its table; no two sessions of a group overlap |
| attendance (`attendance/services`) | one row per student and session | mark, mark all absent, statistics on finish | one row per student and session; statistics match the rows |
| classes and groups (`classes/services`) | class status, groups, enrolments, staff | status change, (bulk) enrolment | a student is in one group of a class; bulk operations report what they did |
| notifications (`notifications/`) | BullMQ jobs, idempotency keys, circuit per channel, logs | route, enqueue, send, retry | a notification is sent, and not twice; a channel's circuit recovers |
| auth (`auth/services`, `user/services/device`) | OTP tokens, refresh token hash | login, 2FA, reset, refresh, logout | a code is used once; logout ends the refresh chain |
| access control (`access-control/`, `user-profile/`, `centers/`) | roles, branch and centre access, their cache | grant, revoke, activate | cached decisions follow the rows |
| rate limiting (`rate-limit/`) | counters in Redis | check | no more than the limit per window |
| files, health, metrics, dashboard, settings, activity log | — | I/O and queries | — |

How they interact: student billing, teacher payouts, expenses, deposits and
withdrawals all pay through `createAndExecutePayment`; the refund of each goes
through `PaymentService.refundInternalPayment`; sessions finish and thereby
trigger attendance statistics, hourly payouts and notifications through
in-process events (`TypeSafeEventEmitter.emitAsync`); attendance asks student
billing whether the student has paid.

## 2. Plan

In this order, the most important behaviour first. `PROJECT.json` lists the
hazards each module is for.

Done:

1. Money movements: `AtomicLedger`, `PaymentLedger`, with proofs.
2. `StudentBilling`, on top of a payment that succeeds or fails as a unit (the
   abstraction `PaymentLedger` is shown to implement); with proofs.
3. Notification delivery: `NotificationTrigger`, `NotificationJobs`,
   `WhatsAppStatus` over `WorkQueue`, with proofs; `ChannelCircuit`.
4. `ExternalPayments`: initiation, webhooks and their retries, hourly cleanup,
   restarts; with proofs.
5. `Expenses` and `TeacherPayouts`, with the refund of an internal payment, and
   `BranchSpending`, which composes them at the cashbox they share; with proofs.
6. `Sessions`: virtual and real sessions, status changes, conflict checks,
   attendance and the cleanup job; with proofs.
7. `Enrolment`: one group per class, alone and in bulk; with proofs.

Left:

8. The lifecycle of a class and its timetable (today: refusals that enrolments
   and session requests may meet).
9. Proofs: every safety invariant, action property and refinement that a run
   checks is also a theorem, and `LedgerMoneyMoves` says how far a deadlock of
   payments in both directions reaches; what remains is the audit trail there (a late
   credit leaves a balance above its entries, and the next save closes no gap).

## 3. Modules

### AtomicLedger, PaymentLedger, MCPaymentLedger

`PaymentLedger` models `createAndExecutePayment` with every call it makes. A
request is a database transaction. `Begin` is `createPayment` and the
strategy's `validate` (a plain read, which may be stale by the time the row is
locked). Then the legs of the plan run: `LockRow` is `SELECT ... FOR UPDATE`
in `findOneWithLock`, `SaveRow` and `RefuseRow` are the second half of
`updateBalance`. `Commit` is the end of the request. `row` holds committed rows,
`draft` the lock holder's version.

* The plan of a payment is a sequence of legs (`WalletLegs`, `CashLegs`,
  `FeeLegs`): account, amount and the floor that leg is checked against.
* Legs are awaited one by one, except a wallet payment without fee, whose two
  `updateBalance` calls run under `Promise.all` (`Together`): both locks are
  asked for before either row is saved.
* `DeadlockVictim`, `RetryInAborted` and `LateCredit` follow the catch block
  of `updateBalance`. PostgreSQL aborts the victim's transaction, so an awaited
  retry fails with 25P02. Under `Promise.all` the request fails first and the
  retry, 100 ms later, runs in a transaction of its own.
* `Crash` is the loss of the process or its connection at any point.

Ledger entries are abstracted to what the properties need: per row, the sum of
its committed entries (`posted`) and the `balanceAfter` of the last (`last`).

`AtomicLedger` is what callers rely on: a payment settles in one step or not at
all. `PaymentLedger` implements it under `balance <- Balances`,
`settled <- Settled`.

### StudentBilling, MCStudentBilling

`StudentBilling` models `createMonthlySubscription`, `createSessionCharge`,
`createClassCharge`, `payClassInstallment` and `refundStudentBilling`. A request
is a transaction; `state` is where it is between two awaits, `entity` the object
it holds, `charge` and `payment` what is committed.

* `ReturnExisting`/`Begin` is the look-up by idempotency key, `CheckDuplicate`
  the look-up of an active charge and the price check, `Insert` the INSERT.
  An INSERT waits for an uncommitted row with the same key (`KeyHeld`) and fails
  on a committed one (`KeyTaken`): the unique index, which is global and not per
  student.
* `Pay` is `createAndExecutePayment` as a unit; it waits for the wallet or
  cashbox rows another payment holds. There is no fee in the model: with one, every
  payment locks the branch's wallet and instalments do not overlap here.
* TypeORM's `save` is `Reload` (a SELECT of the committed row, to which the object is
  compared), `Update` (the columns that differed, which waits for another
  transaction that has updated the row) and, at the end of the request, `Commit`. What
  differed when it was reloaded is what is written (`Written`), whatever has been
  committed in between.
* `Refund` stops where the code stops: `refundStudentBilling` reads the relation
  `charge.payments`, whose column `createPayment` does not set.

What the requests ask for (`job`) is chosen in `Init` from `Workloads`, so that
one run covers several scenarios.

### WorkQueue, NotificationTrigger

`WorkQueue` declares what the three notification queues share: how often a job
whose worker died is started again (`MaxStalls`), and `faults`, the set of things
that may go wrong in a behaviour, chosen in the initial state from `Environments`;
so a property may be stated for the behaviours in which one of them does not.

One job of the queue `notification-triggers`: audiences one after the other, a
call of `trigger` for each, its recipients concurrently, each guarded by a lock
and a key in Redis. `progress` is where a recipient is in
`NotificationRouterService`; `queue` collects what was enqueued. Faults:
resolvers, locks that time out or expire, errors of Redis, templates, `addBulk`, dying
workers. `checkAndSet` fails open (`KeyFails`): `unkeyed` is the history of the
recipients it let past without the key, and a lock that cannot be released stays.
Not modelled: the choice of channels (lock and key name the channel, so channels
do not meet) and the keys' expiry after five minutes.

### NotificationJobs

The queue `notifications`: a job is taken, sent inside the transaction that
writes its log row (`Begin`, `Accept`/`Refuse`/`Unconfirmed`,
`CommitSent`/`CommitFailed`), and completed in the queue (`Complete`). `Unconfirmed` is a
send that throws though the provider took the message: an answer after the timeout
(`adapters/whatsapp.adapter.ts:98`, `adapters/sms.adapter.ts:106`), or one without a
message id (`adapters/providers/meta-whatsapp.provider.ts:169`). `order` is the rows by
creation, of which a look-up takes the latest (`Newest`); and when the attempt fails the catch looks for a row and marks it (`Look`,
`Mark`) before it throws. The `failed` handler does the same on its own
(`OnFailedLook`, `OnFailedMark`), beside the next attempt. The look-up is by job
id or by user, so a job may find the row of another. No producer sets
`retryable` to false, so the branch that ends a job without throwing is left
out. `disturbed`, `sent` and `unlearnt` are history variables. A worker that
lives is taken to keep its job: BullMQ's lock on it does not expire meanwhile.

### ChannelCircuit

The circuit breaker of one channel: failures as ages, the state key with its
remaining life, and callers who check in two steps, since the Lua script and the
reads of the state key are separate commands. `timeSinceOpen` is computed from
the string `OPEN` and is NaN (`ResetElapsed`).

### WhatsAppStatus

The delivery reports of one message: webhooks carry stretches of Meta's reports,
possibly again, and are processed by several workers. A report is marked in
Redis (`CheckNew`), the row is looked for (`Find`, `Orphan`) and written
(`Update`). `Commit` is the sender's transaction of `NotificationJobs`: before
it the row cannot be found. `applied` and `dropped` are history variables.

The definitions and variables of the three are named apart (`TriggerNext`, `JobsNext`,
`ReportsNext`; `tries` and `deaths`, `attempts` and `stalls`, `restarts`), so that
`NotificationProofs` can extend them all.

### ExternalPayments

Wallet top-ups through the gateway, in one server process. `payment` is both the
request (`CALLING`, `ACCEPTED`, `REFUSED`: its transaction is open or was rolled
back) and, once it has committed, the row (`PENDING`, `COMPLETED`, `CANCELLED`).

* `Initiate` ... `CommitFails` are `initiateExternalPayment`: the row is inserted
  and the gateway called in one transaction. When the call fails the code sets
  the payment to CANCELLED, saves it and throws; the throw rolls the save back,
  so `RollBack` leaves no row.
* `Deliver` ... `ScheduleRetry` are `processWebhook`: look up the attempt, save
  or insert it (unique index), read it again after a violation, validate, mark it
  PROCESSING and answer. What follows is not awaited: `CompletionRead` ...
  `MarkFailed` are `processWebhookAsync` and the completion of the payment. Any statement
  may fail: inside a try (`HandlerFails`, `CompletionFails`), outside it (`EntryFails`,
  `InsertUnanswered`), and in the catch (`RecordFails`). `abandoned` is the history of
  the webhooks that were left in progress and not written since.
* `CleanupSelect` and `CancelExpired` are the hourly job: a SELECT, then an update
  by id for each payment, whatever it is by then.
* `Crash` rolls open transactions back and loses handlers and the breaker's state.

The breaker's clock is left out: `isOpen` is asked before `execute`, and `execute`
is the only place that lets an open breaker try again, so it stays open.

### Cashbox, Expenses, TeacherPayouts, BranchSpending

`Cashbox` declares the shared row: `box`, its committed balance, and `holder`, the
transaction that has locked it.

* `Expenses` is `createExpense` (key look-up, payment, INSERT under the unique
  index), `updateExpense` (read, then save of the whole object) and
  `refundExpense` with `PaymentService.refundInternalPayment`. Each request is one
  transaction, the reversal included; the payment's status is read without a lock
  (`CheckPayment`), and who changed the cashbox holds it until the end.
* `TeacherPayouts` is `createPayout`/`createClassPayout`, `payClassInstallment` and
  `updatePayoutStatus`. Here the payment commits by itself (`PayTeacher`) and the
  record, read before, is saved afterwards (`SaveInstallment`, `SaveStatus`); `Die`
  falls between them.
* Each of the two names what others may do to the box (`ExpensesOthers`,
  `PayoutsOthers`); `BranchSpending` runs them together, with each as the other's
  environment. `ExpensesSeeAnEnvironment` is the refinement that says so.

`twice` and `disturbed` are history: they name the overlaps for which the code
gives no guarantee, so that the properties can say exactly what it does guarantee.

### Sessions, MCSessions

The lessons of one group: `SessionsService`, the status endpoint of its controller,
`AttendanceService`, the two listeners that run when a session finishes, and
`SessionsCleanupJob`. A lesson of the timetable has no row until somebody needs
one; it is then *virtual* and named by its start time.

* `pc` is the statement a request is at: `Transition`, `TransitionVirtual`,
  `CreateExtra`, `Move`, `Delete` and `TakeAttendance` begin one; `Match`, `Again`,
  `Count`, `Conflict` and `Copy` are its reads; `SaveStatus`, `SaveTime`, `Insert`,
  `Remove` and `InsertMarks` its write and commit.
* `Copy` and `SaveStatus`/`SaveTime` are `BaseRepository.update`: it loads the whole row,
  changes the object, and `save` writes every column in which the object differs
  from the row it selects then; when that row is gone it is inserted again.
* The controller reads the session to look at the transition table, and the service
  reads it again. The two reads are one step for every operation whose service
  insists on the status itself; `cancelSession` does not, and keeps them apart.
* The job is three statements: insert what is overdue and not older than its look-back
  (`Window`; `ON CONFLICT DO NOTHING`), select what is stale, update it by id. Each may
  fail and ends the run (`MaterializeFails`, which keeps the chunks already inserted, and
  `RunFails`); the next run starts over.
* A slot of `Timetable` is an instant: the server and the centre are taken to agree on the
  day of an instant, which the job's enumeration of days relies on.
* One group and one teacher, so that the teacher's and the group's conflict look-up
  coincide. The class, branch and centre stay active; what would refuse a request
  there, and access and billing rules, is `Abandon`, which may happen at any
  statement. A class paid by the hour behaves as one paid by the session.

### Enrolment, MCEnrolment

`assignStudentToGroup` in bulk or alone, `removeStudentsFromGroup`, and the deletion
and restoration of groups. A request is one transaction on one connection;
`executeBulk` runs its students concurrently (`item` is where each of them is),
catches what goes wrong with one of them and answers with a report.

* `LookGroup`, `LookClass` and `LookHours` are the look-ups of an enrolment; the
  INSERT is merged with the last of them, since nobody sees it before the COMMIT.
* `Find`, `Wait` and `Leave` are a removal, whose UPDATE waits for a row that another
  transaction has written. `DeadlockVictim` is PostgreSQL ending a ring;
  any other failing statement aborts its transaction as well (`StatementFails`).
  Afterwards each statement of that transaction fails (`FailInAborted`), and its COMMIT
  rolls back without an error, so the report stands (`Answer`).
* `Refuse` is every check of a component that is not modelled: access, inactive
  profiles, centres and branches, a class that is over. Groups are deleted and
  restored in one step each.

## 4. Runs

Twelve runs. Eleven must pass; `ledger_orphan` shows where the code departs from
what its documentation says. `CHECK_DEADLOCK FALSE` where a behaviour may end; in
`StudentBilling` the end is a step of its own and deadlock is checked, in
`ChannelCircuit` time never stops. Type invariants are checked as a part of another
property (`CompletedIsCovered`, `ChannelRecovers`, `LogTellsOutcome`, `CompletedIsQueued`,
`PostedIsApplied`, `ProcessedIsDecided`), and proved where there is a proof; others are only proved (ledger, spending, sessions, enrolment).

| run | checks | shows |
|---|---|---|
| `ledger_mixed` | `NoOverdraft`, `EveryRequestEnds` | two payments in any direction, with deadlocks, late retries and crashes, never overdraw a row, and end with no lock and no pending call |
| `ledger_one_way` | `AuditTrail`, `OneWayNeverDeadlocks`, `WalletMoneyConserved`, `PaymentsAreAtomic` | three payments towards a branch never wait in a ring, settle atomically, keep the audit trail, and conserve wallet money unless a wallet payment carries a fee |
| `ledger_orphan` | `RolledBackLeavesNothing` violated | a credit whose payment was rolled back is applied later, alone |
| `billing` | `KeyPaysOnce`, `NeverOverclaims`, `CompletedIsCovered`, `EveryRequestAnswered` | a key pays once, a charge never claims more than was paid, a COMPLETED one has received its price, everybody is answered |
| `external` | `ProcessedIsDecided`, `StuckOnlyIfAbandoned`, `PendingEnds`, `DeliveriesEnd` | copies of a webhook that race, fail and overwrite each other's status never record a webhook as processed whose payment is open; one in progress has a handler, unless a restart, a lost answer or an error that could not be recorded left it behind; no payment stays pending |
| `spending` | `PaidBackOnce`, `RefundedIsPaidBack`, `KeyPaysOnce`, `NeverOverclaims`, `RecordTellsMoney`, `BoxAddsUp`, `ExpensesSeeAnEnvironment` | expenses and payouts at one cashbox: only overlapping refunds pay back twice, records claim no more than was paid, and the box adds up |
| `sessions` | `OneRowPerSlot`, `FinishedWasMarked`, `FinishedIsPaidFor`, `MarksStick`, `PastLessonsSettle` | check-ins, cancellations and the job that meet at a virtual lesson leave one row; a finished lesson was marked and is paid for, whatever stale copy was saved over it; no row stays SCHEDULED after its hour, and a lesson without a row gets one unless no run reaches it within the look-back |
| `enrolment` | `SeatsFit`, `AnswersTell`, `EveryRequestAnswered` | look-ups keep a student in one group of a class unless she is enrolled twice at one time or a group came back; bulk reports are what was committed, but for those of several whose transaction was aborted; every request is answered |
| `circuit` | `ChannelRecovers` | however often calls fail and callers are blocked, no channel stays blocked |
| `trigger` | `OneJobPerAddress`, `CompletedIsQueued`, `TriggerEnds` | one job per address and call, but for those an error of Redis let past; a completed trigger has reached everybody its templates and queue let it reach; it ends |
| `jobs` | `ResentOnlyIfUnlearnt`, `LogTellsOutcome`, `EveryJobEnds` | a message goes out again only if the queue did not learn of the last one, and no more often than attempts and restarts allow; the log of an undisturbed job is right; jobs end |
| `whatsapp` | `AppliedOnce`, `PostedIsApplied`, `WebhooksEnd` | a report is written once while Redis answers; one that nobody gave up is written; webhooks end |

### Bounds

* Ledger: two profiles, one branch and the system wallet give every kind of row.
  Amounts are chosen so that two payments of one wallet do not both fit, a fee is
  rounded, and a cash fee overdraws the branch within and beyond
  `MaxNegativeBalance`. Two requests make a deadlock and a stale validate; three
  are enough for a ring of three. With three requests in both directions the
  state space is too large for liveness; `TypeOK` and `NoOverdraft` are proved
  for any number.
* Billing: four requests on a month, a session and a class; one key shared by
  three requests of a student and one of another; instalments that together
  exceed the price; a first payment above the price and an instalment of zero.
* External: two payments; the webhook of one comes in two copies at a time, any
  number of times, that of the other is lost. A webhook finds the payment by its id
  or does not. `FailureThreshold` 1 opens the breaker (3 for Paymob in the code); one restart.
* Spending: two expenses with one key, an update and two refunds of the first; a
  class or a session whose two payments each fit but not together, also with an
  instalment against a payout set to PAID. The box holds 3 and does not cover
  everything. The proofs need none of these bounds.
* Sessions: one lesson of the timetable and one other start time, two rows, one
  student, two users in flight, three requests, four ticks; a row may be SCHEDULED
  one tick after its start, and may be checked in from its start on. The job looks back
  two ticks, so that the lesson falls due and, a tick later, out of sight. The table is
  empty, or an extra lesson is being held. Two requests and the job are enough for
  every race of two writers at a row or a slot; the proofs have no bounds.
* Enrolment: three requests; two groups of a class and one of another class that
  meets at the hour of the first; the first may be deleted and restored. Scenarios:
  three enrolments of a student; an enrolment, one that skips the warning, and a
  removal; a bulk of two; two removals in opposite orders. The removal that meets the
  deadlock has a third student, whose statement then fails.
* Circuit: three workers, threshold 2, window and reset timeout of 3 ticks
  (5, 60 s and 60 s in the code). Failures of one instant are one member of the
  set, so the threshold needs failures of two instants within the window.
* Trigger: three audiences, one of them empty; parents who share a phone and a
  student with a phone of her own; three attempts as in the code, one stall.
  `Environments`: everything but Redis may fail; everything but Redis, templates and queue;
  and Redis with locks and resolvers.
* Jobs: two jobs of one user, two attempts, retry threshold 2, one stall.
  Failing statements are checked apart from dying workers and unconfirmed sends.
* WhatsApp: two webhooks with any stretch of the reports of a message that is
  read or fails, one stall. With all faults but an unreadable Redis, with an
  unreadable Redis and early webhooks, and with crashes alone.

### Fairness

Never for a client, a fault or a crash, and weak fairness but for three actions.

* `PaymentLedger`: a request's own steps, since the event loop resumes an await
  whose query has answered, and the deadlock detector, which PostgreSQL runs
  after `deadlock_timeout`. A request blocked on a row is disabled until its
  holder ends; TLC checks that this suffices.
* `StudentBilling`: the steps of each request that has been sent.
* `ExternalPayments`: handlers run on; days pass; the cron starts the job every
  hour. Strong fairness for `CancelExpired`: a payment that is selected again
  and again is not lost to a failing update each time.
* `Sessions`: the cron starts a run every half hour, whether the last one failed or not
  (weak fairness of `MaterializeMissed`), and the statements after it do not fail in every
  run there will ever be (strong fairness of `SelectStale` and `MarkMissed`: an outage of
  the database ends). No request has to come or to go on, and time need not pass.
* `Enrolment`: the steps of a request that has begun, a free lock being granted and
  PostgreSQL's search for deadlocks included.
* `ChannelCircuit`: the clock, and each worker: `ChannelRecovers` speaks of a
  channel for which there is always a next notification.
* `NotificationTrigger`, `NotificationJobs`, `WhatsAppStatus`: the worker of a
  job, and the `failed` handlers; BullMQ restarts stalled jobs at most
  `MaxStalls` times.

### Observed while modelling, without a run of their own

Ledger and billing:

* A deadlock in `updateBalance` is never retried successfully: the retry runs in
  the aborted transaction and fails with 25P02 (`RetryInAborted`).
* A wallet payment with a fee takes the fee from the branch twice
  (`finance/strategies/wallet-payment-strategy.ts:158`; `FINANCE_MODULE_REVIEW.md:116`
  says debits equal credits), which is why `WalletMoneyConserved` excepts it.
* Without an idempotency key a month, a session or a class can be charged twice
  (`CheckDuplicate` of two requests before either commits).
* Two instalments of a class pass the check against the same total
  (`student-billing.service.ts:320`) and together exceed the price.
* One of them by wallet and one in cash, without a fee, lock no row in common. If the
  second reloads the charge before the first commits COMPLETED, its UPDATE sets the
  total alone: a COMPLETED charge whose `totalPaid` is below its price, which
  `student-charge-status.enum.ts:8` calls "Fully paid and completed". The money is
  there (`CompletedIsCovered`), the column is not.
* No student charge can be refunded (`Refund`).

External payments:

* What the gateway reports as paid is cancelled all the same: the completion looks for
  a field `success` in a record that does not have it (`Succeeds`). No reachable
  state has a COMPLETED payment.
* An open breaker stays open until the process restarts.
* "Mark payment as failed if gateway initiation fails", says a comment
  (`finance/services/external-payment.service.ts:135`), and the catch saves the payment
  as CANCELLED; it then throws on, inside the transaction of the request, so the mark
  is rolled back with the row and nothing is on record of the attempt (`RollBack`).
* The cleanup's comment speaks of EXPIRED, it writes CANCELLED; it may cancel a payment
  that a webhook decided after the SELECT (`CancelExpired`).
* An attempt may be left RECEIVED or PROCESSING (`abandoned`): by a restart, by an INSERT
  whose answer is lost, and by a `scheduleRetry` or a save in a catch that fails itself
  (`webhook.service.ts:186`, `:390`). It stays so, since every further copy takes it
  as a reason to do nothing; nothing calls the sweep over scheduled retries. The
  promise of `processWebhookAsync` is not awaited, so there a failing catch is an unhandled
  rejection, which ends a Node process that is not configured otherwise.

Expenses and payouts:

* Two refunds of an expense that overlap both pay back (`twice`); `updateExpense` writes
  PAID over REFUNDED. The second may instead take the first one's reversal for the
  transaction to reverse, since `findByPaymentId` (`cash-transaction.repository.ts:40`)
  orders nothing, and take the money out again; `Reverse` does not model that.
* Setting a class payout to PAID pays its whole price, whatever instalments were paid;
  an instalment does not look at the status; the initial payment is not compared with
  the price; no payout passes an idempotency key. These are the exceptions of
  `RecordTellsMoney`.
* The monthly job runs in every instance, and omits a class that finishes at the
  turn of the month. `createClass` swallows a failure to create the payout.

Sessions and attendance:

* The payouts of a teacher paid per student are never created: the count of students
  names a column `deletedAt` that `attendance` has not, and the error counts as 0
  (`PayoutsDue`).
* The transition table is enforced when a request looks, not when it writes: a
  cancellation may overwrite FINISHED, a finish CANCELED, the job CHECKING_IN; an
  update writes back the status it has read. A session finished twice gets two
  payouts.
* A stale save brings a deleted extra session back (`Copy`, then `SaveTime` after
  `Remove`).
* Checking in a virtual lesson takes the earliest lesson of the day whose check-in is
  open, not the one asked for (`Matching`).
* An extra session is compared with rows only: it may overlap a virtual lesson, two
  created at one time may overlap each other, and cancelled ones count as conflicts.
* A listener whose statement fails swallows the error, so the COMMIT rolls back a
  finish that is answered as done.
* Moving a lesson of the timetable frees its slot, where the job then inserts a
  MISSED row.
* The job looks back 48 hours for lessons without a row (`sessions-cleanup.job.ts:63`) and
  is not made up for: a lesson that no run reaches in that time, for an outage or because
  runs fail, never gets a row from it (the second half of `PastLessonsSettle` says so). The
  job takes the weekday of a date from the server's clock and its date from the centre's
  zone, so a centre west of the server is looked at a day off. "TODO: make it work
  correctly" stands above it (`:34`).
* `FinishedIsPaidFor` is about statements that fail. An exception of the listener that is no
  SQL error, thrown while the row is put together
  (`teacher-payouts/services/teacher-payout.service.ts:125` to `:170`), is swallowed as well
  and leaves the finish standing without a payout; that is not modelled.
* Marks may be inserted after the session was cancelled or finished; mark-all-absent
  loses its whole batch when one student is scanned meanwhile.

Enrolment and classes:

* Two enrolments of one student at one time can put her into two groups of a class
  (`raced`): no index forbids it, though a comment of `group-student.entity.ts:20`
  speaks of a unique constraint. So can deleting a group, enrolling elsewhere, and
  restoring it (`restored`), without any concurrency.
* The report of a bulk operation whose transaction was aborted, by a deadlock or a failing
  statement, claims what was rolled back (the exception of `AnswersTell`).
* The endpoint that removes one student discards the report and answers success.
* `updateGroup` compares a new timetable with neither the teacher's nor the students'
  other groups: it loads the class without its teacher. Restoring a group whose name
  is taken fails inside the bulk transaction.
* The events of an enrolment are emitted before its commit.
* A class's status is checked and written without a lock, and its grace period counts
  from `updatedAt`, so that any edit restarts it.

Notifications:

* `HALF_OPEN` is never entered; the circuit closes when its failures leave the
  window and not after the reset timeout; failures of one millisecond count once.
* A retried trigger notifies earlier audiences again under a new correlation id
  (`notification.service.ts:123`; `notifications/README.md:1007` promises otherwise).
* A job that `addBulk` could not enqueue is lost, and the trigger completes; a
  rendering error leaves the key, so a recipient with the same address is skipped
  in favour of nobody.
* With Redis failing, a recipient may get a second job of one call (`KeyFails`): that is
  the documented choice (`notifications/README.md:1012`, `:1018`).
* The provider is called before the transaction that records it commits
  (`notification-sender.service.ts:201`), and an attempt does not look whether an earlier
  one was logged as SENT. A message the provider took, but too late for the timeout, is
  logged as FAILED and sent again; hence `ResentOnlyIfUnlearnt` and no more.
* The `failed` handler marks jobs that will be retried as failed; a job may mark
  the row of another job of the same user.
* A report that overtakes the sender's commit is marked and lost; reports of
  different webhooks may set a delivered message back to sent.

## 5. Proofs

Every safety invariant, action property and refinement that a passing run checks is
proved for every value of the constants. Each proof is an invariant that implies the
property and is kept by every step; TLC checked it on the run's instance first.
Assumptions are the named `ASSUME`s of the modules, which TLC evaluates.

**`PaymentLedgerProofs`.** Settings are naturals, sentinels differ, orders are between a
branch and a profile, opening balances respect the floors; `PartyAssumption`: there
are finitely many parties. No bound on requests, accounts, orders or amounts.

* `LedgerTypeOK`: `Spec => []TypeOK`. Inductive with `Progress`, which bounds
  `done` and `taken` by the plan's length.
* `LedgerNoOverdraft`: needs the lock discipline first. `LockInv` says a row
  that nobody holds has no draft of its own, only running requests hold rows,
  the rows of taken legs are held, and the balance a request has seen is the
  draft's. With it the check in `SaveRow` is a check of the row's real balance.
* `LedgerAuditTrail`, `LedgerImplementsAtomic` and `LedgerMoneyConserved` are
  conditional on `[]NoDeadlockTogether`: no payment whose two legs run under
  `Promise.all` is caught in a deadlock. The condition is needed, since `LateCredit`
  breaks them, and the run `ledger_orphan` shows how. The refinement proof adds
  `EffectInv`: what a request has drafted is the sum of the legs it has done.
  Conservation is an invariant of the atomic ledger, carried back along the
  refinement: a settled payment's legs on wallets add up to zero unless it has a fee.
* `LedgerOneWayNeverDeadlocks`: requests that pay in cash, or from a profile's wallet to
  a branch, never wait in a ring, however many they are. A request locks rows of
  rising rank (`Rank`), and a ring would rise for ever.
  `LedgerOneWay` draws the conclusion: for such requests the three properties above
  hold with no condition on deadlocks.
* `LedgerRollsBackWhole`: under the same condition, balances are as they were as long as
  nothing has committed. The run `ledger_orphan` refutes it without the condition.
* `LedgerMoneyMoves` has no condition and says how far a deadlock reaches: a step changes
  the committed balances by one whole payment, which commits, or by one credit to the
  receiver of a payment that a deadlock has rolled back, once per request. So a
  deadlock may create money and never destroys any, and never tears a payment that
  commits. It needs `LateCallCredits`: a victim with two legs in flight holds one row
  (someone in the ring waits for it), so what is left over is the second leg, a credit.

**`Sums`** holds lemmas about `SumFunctionOnSet` of the community module `Functions`: the
recursion that defines it has a solution, and what the sum does when the set gains an
element or the function changes at a point. Each induction is the argument that
there is no smallest counterexample.

**`StudentBillingProofs`.** Finitely many requests (`RequestAssumption`), null is not a row
(`NoneAssumption`), prices are positive. No bound on requests, items, keys or
workloads. `BillingInv` says what is true of committed rows and of the objects in
flight: `EntitiesAreSound` (what a request holds is a row of its item whose status
fits its total, and whose total is backed by payments; after `save` the row need not
be one, `WrittenRow` says what is left of it), `ChargesAreKept`,
`PaymentsAreDone` (a committed payment belongs to a request that succeeded),
`KeysAreUnique` and `AnswersHaveTheKey`. `save` may write any object in flight over
the row, so a property of rows has to hold of the objects. `NeverOverclaims` compares
a total with a sum of payments, which only grows.

**`ExternalPaymentsProofs`.** The outcomes of a payment are none of `unknown` and `open`.
No bound on payments, copies, restarts or the breaker. `GatewayInv` and `WebhookInv` say
that webhooks speak of committed rows and that a handler about to mark its webhook as
processed has decided the payment; `WorkInv` that an attempt in progress which was not
abandoned has a handler that has yet to write its status. `ExternalDecidedForGood` is an action property: no row disappears, and a decided
one is never pending again.

**`BranchSpendingProofs`** covers `Expenses`, `TeacherPayouts` and `BranchSpending`. Costs
are positive, prices natural, requests well formed; `SpendingAssumption`: expenses and
payouts are finite sets. The cashbox may be changed by anybody in the ways each
component allows its environment.

* `ExpensesInv` adds to the properties `Held` (who has paid holds the row of a box
  that had enough, so the box is a natural number after the commit), `Found` (what a
  request works on exists) and `Noticed` (two refunds past the check of the
  payment's status, or one past it whose payment has been refunded since, are in
  `twice`); the last makes `PaidBackOnce` inductive.
* `NeverOverclaims` needs `Backed`: the copy a request works on never said more than
  had been paid, and what the request paid came on top. `RecordTellsMoney` needs
  `Alone`: of an undisturbed payout the copy is the row.
* `SpendingImplementsExpenses` and `SpendingImplementsPayouts`: each step of the branch
  is a step of one component and one of the other's environment. So what is proved
  of either alone holds of both together (`SpendingIsSafe`), without a further
  invariant.
* `SpendingBoxAddsUp`: a step moves the box by what it adds to one of the sums.

**`SessionsProofs`**. No bound on timetable, rows, requests, users or students (a finite
set). `SessionsInv` adds to the properties `Aimed` (what a request has found out by the
statement it is at), `CountStands` (who was counted has a mark still, since marks are
never taken back but with their row) and `CopiesSound`: a stale copy that may still be
saved satisfies what is claimed of rows. The last is the heart: `save` may write any
old copy over a row, so properties of rows hold only if they hold of all copies in
flight and stay true of them. `MarksAreKept` is an action property proved from it.

**`EnrolmentProofs`**. No bound on requests, students, groups or scenarios. `SeatsFit`
speaks of committed rows and a commit adds one, so `Seen` says that what a look-up of
an uncommitted enrolment found is still true, whatever was committed since; that needs
`OneAtATime` (an unraced student is enrolled by one request) and the history
`restored`. `AnswersTell` needs `RowsAnswered` and `Doing`, which tie rows and locks
to what a request is doing.

**`NotificationProofs`** covers the three queues. No bound on recipients, addresses,
audiences, jobs, users, attempts, webhooks, stalls or faults.

* `TriggerOneJobPerAddress`, from `KeyHolders` (who has passed by the key holds it alone,
  if not let past by an error) and `KeysStay`; locks play no part.
* `TriggerCompletedIsQueued`. `NobodyDropped` says why a recipient who stopped without
  a job does no harm: in a behaviour whose templates and queue work, somebody with the
  same address carries the key. `ServedSoFar` collects the audiences that are through.
  `CallsCounted` bounds the calls by attempts and deaths, so that a correlation id is
  new when it is taken.
* `DeliveryResentOnlyIfUnlearnt`, from `SendsCounted`: the queue has learnt of a delivery,
  is about to, or did not; and each took a start of the job, which ends with an attempt
  counted or a worker's death.
* `DeliveryLogTellsOutcome`, from `ToldSoFar` (no handler of an undisturbed job is under
  way while it is worked on, and the rows that catch and handler look up are found)
  and `RowsInOrder` (the rows in order of creation are the committed ones and those of
  open transactions, once each), which shows that the look-up finds a row.
* `WhatsAppAppliedOnce`, from `OneHand` (a marked report is in one worker's hand).
* `WhatsAppPostedIsApplied`, from `MarksAreCovered` and `BatchesAreCovered`: a report that
  is marked, or that a webhook has left behind, was written, was given up, or is in
  some worker's hand.

Only model-checked: liveness (`EveryRequestEnds`, `EveryRequestAnswered`, `PendingEnds`,
`DeliveriesEnd`, `PastLessonsSettle`, `ChannelRecovers`, `TriggerEnds`, `EveryJobEnds`,
`WebhooksEnd`), which is out of the prover's reach, and with it all of `ChannelCircuit`.

## 6. Not modelled

`PROJECT.json` lists the parts with their reasons. In short:

* The lifecycle of a class and its timetable: status changes, updates of hours, staff.
  The modules that meet it treat it as a refusal that may come at any statement.
* Auth. Codes and refresh tokens are rows that requests look up, mark and delete in
  separate statements: two requests with one code may both find it, and a refresh
  that meets a logout stores its new hash after it. What makes the part correct is
  mostly about credentials, which the models abstract from.
* Rate limiting: a window kept by one Lua script, or by a library, which Redis runs
  atomically; nothing is kept between two steps.
* Access control, profiles, centres, users, staff, levels, subjects: guarded writes of
  one row, and look-ups whose refusals the other modules allow anywhere.
* Files, health, metrics, dashboard, settings, activity log: I/O and queries.
* In the ledger: get-or-create of a wallet on first use, and payments found by
  idempotency key (`createPayment` never stores the key, so none is found). In the
  notifications: rendering, channel adapters, in-app rows, sockets, metrics and the
  per-user rate limit.

Most of the repository is what the models abstract from: DTOs, controllers, entities,
query builders, seeding, translations and documentation of endpoints. The map
therefore names a small share of the lines, those that change state or decide whether
it changes.
