--------------------------- MODULE NotificationJobs --------------------------
(***************************************************************************)
(* The queue `notifications' and its workers: NotificationProcessor takes  *)
(* a job, NotificationSenderService sends it inside a transaction that     *)
(* writes the notification log, and what fails is retried by the queue.    *)
(* The log is written from three places: the sender's transaction, the     *)
(* processor's catch, and the handler of the queue's `failed' event, which *)
(* is emitted for every failed attempt and runs beside everything else.    *)
(*                                                                         *)
(* One channel and one notification type.  A log row belongs to the job    *)
(* whose id it stores; of its columns only the status is kept.  Whether a  *)
(* send is refused by the circuit breaker or by the provider is the same   *)
(* here; ChannelCircuit models the breaker.  A worker that lives keeps its *)
(* job.  No producer of jobs sets `retryable' to false, so the branch that *)
(* gives such a job up without throwing is left out.                       *)
(***************************************************************************)
EXTENDS Integers, Sequences, SequencesExt, WorkQueue

CONSTANTS
  Job, User,
  UserOf,         \* whom a job is for
  MaxAttempts,    \* attempts of a job, by channel: 2, 3 or 4
  RetryThreshold  \* attempts after which the catch writes FAILED

NoRow == "no row"
Unread == "unread"

ASSUME JobAssumption ==
  /\ NoRow \notin Job /\ Unread \notin Job
  /\ UserOf \in [Job -> User]
  /\ {MaxAttempts, RetryThreshold} \subseteq Nat \ {0}

VARIABLES
  status,   \* of a job: in its queue, or how far its worker is
  attempts, \* failed attempts
  stalls,   \* times its worker died
  target,   \* the row the catch is about to write
  handlers, \* failed-handlers under way
  log,      \* committed status of a job's row
  order,    \* the rows by createdAt
  sent,     \* history: how often the provider took the notification
  unlearnt, \* history: how many of those the queue did not learn of
  disturbed \* history: jobs something went wrong with besides a refused send

deliveryVars == <<faults, status, attempts, stalls, target, handlers, log, order, sent, unlearnt, disturbed>>
history == <<sent, unlearnt, disturbed>>

InTransaction == {"OPEN", "ACCEPTED", "REFUSED"}
Working == InTransaction \cup {"LOGGED", "ERROR", "FOUND"}
Over(j) == status[j] \in {"COMPLETED", "FAILED"}

JobsInit ==
  /\ faults \in Environments
  /\ status = [j \in Job |-> "WAITING"]
  /\ attempts = [j \in Job |-> 0] /\ stalls = [j \in Job |-> 0]
  /\ target = [j \in Job |-> NoRow]
  /\ handlers = {}
  /\ log = [j \in Job |-> "NONE"] /\ order = <<>>
  /\ sent = [j \in Job |-> 0] /\ unlearnt = [j \in Job |-> 0]
  /\ disturbed = {}

\* The sender's UPDATE holds the row until its transaction ends.
Locked(row) == status[row] \in InTransaction /\ log[row] # "NONE"

Newest(rows) ==
  IF rows = {} THEN NoRow ELSE order[Max({i \in DOMAIN order : order[i] \in rows})]

\* The OR conditions of the query: the job's row, and any row of its user (and
\* type and channel) that waits for a retry.
Candidates(j) ==
  {k \in Job : log[k] # "NONE" /\ (k = j \/ (UserOf[k] = UserOf[j] /\ log[k] = "RETRYING"))}

\* A worker takes the job and opens the transaction: it updates the row of an
\* earlier attempt or inserts a new one.
Begin(j) ==
  /\ status[j] = "WAITING"
  /\ status' = [status EXCEPT ![j] = "OPEN"]
  /\ order' = IF log[j] = "NONE" THEN Append(order, j) ELSE order
  /\ disturbed' = IF \E h \in handlers : h.job = j THEN disturbed \cup {j} ELSE disturbed
  /\ UNCHANGED <<faults, attempts, stalls, target, handlers, log, sent, unlearnt>>

\* The provider takes the message.
Accept(j) ==
  /\ status[j] = "OPEN"
  /\ status' = [status EXCEPT ![j] = "ACCEPTED"]
  /\ sent' = [sent EXCEPT ![j] = @ + 1]
  /\ UNCHANGED <<faults, attempts, stalls, target, handlers, log, order, unlearnt, disturbed>>

\* The adapter throws: the message did not go out,
Refuse(j) ==
  /\ status[j] = "OPEN"
  /\ status' = [status EXCEPT ![j] = "REFUSED"]
  /\ UNCHANGED <<faults, attempts, stalls, target, handlers, log, order, history>>

\* or it did, and its answer came after the timeout, or named no message id.
Unconfirmed(j) ==
  /\ "PROVIDER" \in faults
  /\ status[j] = "OPEN"
  /\ status' = [status EXCEPT ![j] = "REFUSED"]
  /\ sent' = [sent EXCEPT ![j] = @ + 1]
  /\ unlearnt' = [unlearnt EXCEPT ![j] = @ + 1]
  /\ UNCHANGED <<faults, attempts, stalls, target, handlers, log, order, disturbed>>

\* Mutant: something after the commit throws, and the attempt counts as failed.
CommitSent_ThenThrow(j) ==
  /\ status[j] = "ACCEPTED"
  /\ status' = [status EXCEPT ![j] = "ERROR"]
  /\ log' = [log EXCEPT ![j] = "SENT"]
  /\ UNCHANGED <<faults, attempts, stalls, target, handlers, order, history>>
CommitSent(j) ==
  /\ status[j] = "ACCEPTED"
  /\ status' = [status EXCEPT ![j] = "LOGGED"]
  /\ log' = [log EXCEPT ![j] = "SENT"]
  /\ UNCHANGED <<faults, attempts, stalls, target, handlers, order, history>>
CommitFailed(j) ==
  /\ status[j] = "REFUSED"
  /\ status' = [status EXCEPT ![j] = "ERROR"]
  /\ log' = [log EXCEPT ![j] = "FAILED"]
  /\ UNCHANGED <<faults, attempts, stalls, target, handlers, order, history>>

\* process has returned: the queue marks the job completed.
Complete(j) ==
  /\ status[j] = "LOGGED"
  /\ status' = [status EXCEPT ![j] = "COMPLETED"]
  /\ UNCHANGED <<faults, attempts, stalls, target, handlers, log, order, history>>

\* An open transaction is gone, and with it a row it inserted; the row of an earlier
\* attempt stays.  The queue does not learn that the message went out, even if the
\* log has it.
Vanish(j) ==
  /\ order' = IF log[j] = "NONE" THEN RemoveFirst(order, j) ELSE order
  /\ unlearnt' = [unlearnt EXCEPT ![j] = IF status[j] \in {"ACCEPTED", "LOGGED"} THEN @ + 1 ELSE @]
  /\ disturbed' = disturbed \cup {j}
Abort(j) ==
  /\ "DB" \in faults
  /\ status[j] \in InTransaction
  /\ Vanish(j)
  /\ status' = [status EXCEPT ![j] = "ERROR"]
  /\ UNCHANGED <<faults, attempts, stalls, target, handlers, log, sent>>

\* The processor's catch looks for a row,
Look(j) ==
  /\ status[j] = "ERROR"
  /\ status' = [status EXCEPT ![j] = "FOUND"]
  /\ target' = [target EXCEPT ![j] = Newest(Candidates(j))]
  /\ UNCHANGED <<faults, attempts, stalls, handlers, log, order, history>>

Event(j, n) == [job |-> j, attempt |-> n, row |-> Unread]

\* writes it if it can, and throws: the queue counts the attempt and emits
\* `failed'.  Mutant: the attempt is not counted.
Write(j, row, value) ==
  \/ row = NoRow /\ UNCHANGED <<log, disturbed>>
  \/ "DB" \in faults /\ disturbed' = disturbed \cup {j} /\ UNCHANGED log
  \/ /\ row # NoRow /\ ~Locked(row)
     /\ log' = [log EXCEPT ![row] = value]
     /\ disturbed' = IF row = j THEN disturbed ELSE disturbed \cup {j, row}
Mark_Uncounted(j) ==
  /\ status[j] = "FOUND"
  /\ Write(j, target[j], "RETRYING")
  /\ status' = [status EXCEPT ![j] = "WAITING"]
  /\ target' = [target EXCEPT ![j] = NoRow]
  /\ UNCHANGED <<faults, attempts, stalls, handlers, order, sent, unlearnt>>
Mark(j) ==
  /\ status[j] = "FOUND"
  /\ Write(j, target[j], IF attempts[j] < RetryThreshold THEN "RETRYING" ELSE "FAILED")
  /\ attempts' = [attempts EXCEPT ![j] = @ + 1]
  /\ status' = [status EXCEPT ![j] = IF attempts'[j] < MaxAttempts THEN "WAITING" ELSE "FAILED"]
  /\ target' = [target EXCEPT ![j] = NoRow]
  /\ handlers' = handlers \cup {Event(j, attempts'[j])}
  /\ UNCHANGED <<faults, stalls, order, sent, unlearnt>>

\* onFailed looks for a row and marks it "as permanently failed".  Mutant: it
\* marks as the catch does.
OnFailedLook(h) ==
  /\ h.row = Unread
  /\ handlers' = (handlers \ {h}) \cup {[h EXCEPT !.row = Newest(Candidates(h.job))]}
  /\ UNCHANGED <<faults, status, attempts, stalls, target, log, order, history>>
OnFailedMark_AsCatch(h) ==
  /\ h.row # Unread
  /\ Write(h.job, h.row, IF h.attempt <= RetryThreshold THEN "RETRYING" ELSE "FAILED")
  /\ handlers' = handlers \ {h}
  /\ UNCHANGED <<faults, status, attempts, stalls, target, order, sent, unlearnt>>
OnFailedMark(h) ==
  /\ h.row # Unread
  /\ Write(h.job, h.row, "FAILED")
  /\ handlers' = handlers \ {h}
  /\ UNCHANGED <<faults, status, attempts, stalls, target, order, sent, unlearnt>>

\* The worker of a job dies.  The queue starts the job again, without counting
\* an attempt, or gives it up.
JobCrash(j) ==
  /\ "CRASH" \in faults
  /\ status[j] \in Working
  /\ Vanish(j)
  /\ stalls' = [stalls EXCEPT ![j] = @ + 1]
  /\ target' = [target EXCEPT ![j] = NoRow]
  /\ IF stalls[j] < MaxStalls
     THEN status' = [status EXCEPT ![j] = "WAITING"] /\ UNCHANGED handlers
     ELSE /\ status' = [status EXCEPT ![j] = "FAILED"]
          /\ handlers' = handlers \cup {Event(j, attempts[j])}
  /\ UNCHANGED <<faults, attempts, log, sent>>
HandlerDies(h) ==
  /\ "CRASH" \in faults
  /\ handlers' = handlers \ {h}
  /\ disturbed' = disturbed \cup {h.job}
  /\ UNCHANGED <<faults, status, attempts, stalls, target, log, order, sent, unlearnt>>

Work(j) ==
  \/ Begin(j) \/ Accept(j) \/ Refuse(j) \/ Unconfirmed(j)
  \/ CommitSent(j) \/ Complete(j) \/ CommitFailed(j) \/ Look(j) \/ Mark(j)
Handle(h) == OnFailedLook(h) \/ OnFailedMark(h)
JobsNext ==
  \/ \E j \in Job : Work(j) \/ Abort(j) \/ JobCrash(j)
  \/ \E h \in handlers : Handle(h) \/ HandlerDies(h)
JobsSpec == JobsInit /\ [][JobsNext]_deliveryVars

\* The workers and the handlers run; nothing has to succeed.
JobsFairSpec ==
  /\ JobsSpec
  /\ \A j \in Job : WF_deliveryVars(Work(j))
  /\ WF_deliveryVars(\E h \in handlers : Handle(h))

-----------------------------------------------------------------------------
(* Properties *)

LogStatus == {"NONE", "RETRYING", "SENT", "FAILED"}
JobsTypeOK ==
  /\ faults \in Environments /\ disturbed \subseteq Job
  /\ status \in [Job -> Working \cup {"WAITING", "COMPLETED", "FAILED"}]
  /\ attempts \in [Job -> 0 .. MaxAttempts] /\ stalls \in [Job -> 0 .. MaxStalls + 1]
  /\ target \in [Job -> Job \cup {NoRow}]
  /\ handlers \subseteq [job : Job, attempt : 0 .. MaxAttempts, row : Job \cup {NoRow, Unread}]
  /\ log \in [Job -> LogStatus]
  /\ IsInjective(order) /\ {k \in Job : log[k] # "NONE"} \subseteq ToSet(order)
  /\ \A j \in Job : unlearnt[j] <= sent[j]

\* A notification goes out a second time only if the queue did not learn of an
\* earlier delivery (not confirmed, rolled back, or the worker died before the queue
\* heard); and however much goes wrong, no more often than attempts and restarts allow.
ResentOnlyIfUnlearnt ==
  \A j \in Job : sent[j] <= 1 + unlearnt[j] /\ sent[j] <= MaxAttempts + MaxStalls

\* A job nothing disturbed (no rollback, no failed write, no death, no handler
\* overtaken by the next attempt, no mix-up of its row with another job's) is told by
\* its log when its handlers are through, though catch and handler both write it:
\* SENT or FAILED is what the sender saw.  And every variable has its type.
LogTellsOutcome ==
  /\ JobsTypeOK
  /\ \A j \in Job \ disturbed : (\A h \in handlers : h.job # j) =>
       /\ status[j] = "COMPLETED" => log[j] = "SENT"
       /\ status[j] = "FAILED" => log[j] = "FAILED"

\* Every job is completed or failed in the end, and its handlers end too.
EveryJobEnds == <>(handlers = {} /\ \A j \in Job : Over(j))

=============================================================================
