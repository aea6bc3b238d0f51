------------------------- MODULE NotificationTrigger -------------------------
(***************************************************************************)
(* One job of the queue `notification-triggers', from the intent to the    *)
(* jobs of the queue `notifications': NotificationTriggerProcessor walks   *)
(* the audiences of the notification type, NotificationService.trigger     *)
(* makes a call for each and treats its recipients concurrently, and       *)
(* NotificationRouterService guards every one with a lock and a key in     *)
(* Redis before it enqueues.                                               *)
(*                                                                         *)
(* One channel is modelled; lock and key name the channel, so channels do  *)
(* not meet.  An address is the phone, mail or token the channel sends to; *)
(* two users may share one.  The bound of ten concurrent recipients and    *)
(* the five minutes a key lives are taken as never reached.                *)
(***************************************************************************)
EXTENDS Integers, WorkQueue

CONSTANTS
  Recipient, Address,
  AddressOf,     \* where a user is reached
  NumAudiences,  \* audiences of the notification type, in order
  RecipientsOf,  \* the users an audience resolves to
  MaxTries       \* attempts of the trigger job

ASSUME TriggerAssumption ==
  /\ NumAudiences \in Nat \ {0} /\ MaxTries \in Nat \ {0}
  /\ AddressOf \in [Recipient -> Address]
  /\ RecipientsOf \in [1 .. NumAudiences -> SUBSET Recipient]

VARIABLES
  trigger,  \* the trigger job in its queue
  tries,    \* attempts that failed
  deaths,   \* times its worker died
  aud,      \* the audience in hand
  call,     \* correlation id of the current or last call
  progress, \* how far each recipient of the call is
  locks, keys, \* in Redis: <<call, address>>
  unkeyed,  \* history: <<call, recipient>> that an error let past the key
  queue     \* jobs enqueued: the call, the audience, the recipient

triggerVars == <<faults, trigger, tries, deaths, aud, call, progress, locks, keys, unkeyed, queue>>
redis == <<locks, keys, unkeyed>>
jobVars == <<faults, trigger, tries, deaths, aud, call>>

Phases == {"IDLE", "NEW", "LOCKED", "PASSED", "READY", "QUEUED", "SKIPPED", "FAILED", "LOST"}
SettledPhases == {"IDLE", "QUEUED", "SKIPPED", "FAILED", "LOST"}
MaxCalls == (MaxTries + MaxStalls) * NumAudiences

Nobody == [r \in Recipient |-> "IDLE"]
Id(r) == <<call, AddressOf[r]>>

TriggerInit ==
  /\ faults \in Environments
  /\ trigger = "WAITING" /\ tries = 0 /\ deaths = 0
  /\ aud = 1 /\ call = 0
  /\ progress = Nobody
  /\ locks = {} /\ keys = {} /\ unkeyed = {}
  /\ queue = {}

Start ==
  /\ trigger = "WAITING"
  /\ trigger' = "ACTIVE"
  /\ aud' = 1
  /\ UNCHANGED <<faults, tries, deaths, call, progress, redis, queue>>

InCall == \E r \in Recipient : progress[r] # "IDLE"
Between == trigger = "ACTIVE" /\ ~InCall

\* The loop goes on with the next audience or the job completes.
NextAudience ==
  IF aud < NumAudiences
  THEN aud' = aud + 1 /\ UNCHANGED trigger
  ELSE trigger' = "COMPLETED" /\ UNCHANGED aud

SkipAudience ==
  /\ Between /\ RecipientsOf[aud] = {}
  /\ NextAudience
  /\ UNCHANGED <<faults, tries, deaths, call, progress, redis, queue>>

\* trigger() makes up a correlation id of its own.  Mutant: it keeps the job's.
StartCall_OneId ==
  /\ Between /\ RecipientsOf[aud] # {}
  /\ call' = aud
  /\ progress' = [r \in Recipient |-> IF r \in RecipientsOf[aud] THEN "NEW" ELSE "IDLE"]
  /\ UNCHANGED <<faults, trigger, tries, deaths, aud, redis, queue>>
StartCall ==
  /\ Between /\ RecipientsOf[aud] # {}
  /\ call' = call + 1
  /\ progress' = [r \in Recipient |-> IF r \in RecipientsOf[aud] THEN "NEW" ELSE "IDLE"]
  /\ UNCHANGED <<faults, trigger, tries, deaths, aud, redis, queue>>

\* resolveIntent throws, or trigger finds an invalid recipient: its exception
\* carries no errorCode, so it is retried like any other.  Mutant: the attempt is
\* not counted.
AttemptFails_Uncounted ==
  /\ "RESOLVE" \in faults /\ Between
  /\ trigger' = "WAITING"
  /\ UNCHANGED <<faults, tries, deaths, aud, call, progress, redis, queue>>
AttemptFails ==
  /\ "RESOLVE" \in faults /\ Between
  /\ tries' = tries + 1
  /\ trigger' = IF tries + 1 < MaxTries THEN "WAITING" ELSE "FAILED"
  /\ UNCHANGED <<faults, deaths, aud, call, progress, redis, queue>>

\* resolveIntent throws an error with one of the codes that are not retried.
GiveUp ==
  /\ "RESOLVE" \in faults /\ Between
  /\ trigger' = "REJECTED"
  /\ UNCHANGED <<faults, tries, deaths, aud, call, progress, redis, queue>>

Move(r, from, to) ==
  /\ trigger = "ACTIVE"
  /\ progress[r] = from
  /\ progress' = [progress EXCEPT ![r] = to]
  /\ UNCHANGED jobVars

\* acquireLock: SET NX.  A lock that is held means somebody else is at work.
AcquireLock(r) ==
  /\ Id(r) \notin locks
  /\ Move(r, "NEW", "LOCKED")
  /\ locks' = locks \cup {Id(r)}
  /\ UNCHANGED <<keys, unkeyed, queue>>
SkipLocked(r) ==
  /\ Id(r) \in locks
  /\ Move(r, "NEW", "SKIPPED")
  /\ UNCHANGED <<redis, queue>>

\* A lock that times out, or whose SET fails, counts as acquired.
LockTimesOut(r) ==
  /\ "LOCK" \in faults
  /\ Move(r, "NEW", "LOCKED")
  /\ UNCHANGED <<redis, queue>>

\* releaseLock: a DEL that fails is logged, and the lock is left to expire.
ReleaseLock(r) ==
  \/ locks' = locks \ {Id(r)}
  \/ "REDIS" \in faults /\ UNCHANGED locks

\* checkAndSet: SET NX.  Mutant: the key is read, and set by markSent after the
\* notification went out.
PassKey_ReadsOnly(r) ==
  /\ Id(r) \notin keys
  /\ Move(r, "LOCKED", "PASSED")
  /\ UNCHANGED <<redis, queue>>
PassKey(r) ==
  /\ Id(r) \notin keys
  /\ Move(r, "LOCKED", "PASSED")
  /\ keys' = keys \cup {Id(r)}
  /\ UNCHANGED <<locks, unkeyed, queue>>

\* The SET fails, before or after Redis has done it: the notification is allowed,
\* whether the key was there or not.
KeyFails(r) ==
  /\ "REDIS" \in faults
  /\ Move(r, "LOCKED", "PASSED")
  /\ keys' \in {keys, keys \cup {Id(r)}}
  /\ unkeyed' = unkeyed \cup {<<call, r>>}
  /\ UNCHANGED <<locks, queue>>
SkipKnown(r) ==
  /\ Id(r) \in keys
  /\ Move(r, "LOCKED", "SKIPPED")
  /\ ReleaseLock(r)
  /\ UNCHANGED <<keys, unkeyed, queue>>

\* Render the template, build the payload.  What goes wrong here leaves the lock
\* and the key behind.
Render(r) ==
  /\ Move(r, "PASSED", "READY")
  /\ UNCHANGED <<redis, queue>>
RenderError(r) ==
  /\ "RENDER" \in faults
  /\ Move(r, "PASSED", "FAILED")
  /\ UNCHANGED <<redis, queue>>

\* addBulk; the locks are released whether it succeeds or not.
Enqueue(r) ==
  /\ Move(r, "READY", "QUEUED")
  /\ queue' = queue \cup {[call |-> call, aud |-> aud, recipient |-> r]}
  /\ ReleaseLock(r)
  /\ UNCHANGED <<keys, unkeyed>>
EnqueueError(r) ==
  /\ "ENQUEUE" \in faults
  /\ Move(r, "READY", "LOST")
  /\ ReleaseLock(r)
  /\ UNCHANGED <<keys, unkeyed, queue>>

\* All recipients are settled; what became of them does not matter to the loop.
EndCall ==
  /\ trigger = "ACTIVE" /\ InCall
  /\ \A r \in Recipient : progress[r] \in SettledPhases
  /\ progress' = Nobody
  /\ NextAudience
  /\ UNCHANGED <<faults, tries, deaths, call, redis, queue>>

\* The worker dies; the queue notices and starts the job again, at most
\* MaxStalls times.
TriggerCrash ==
  /\ "CRASH" \in faults
  /\ trigger = "ACTIVE"
  /\ deaths' = deaths + 1
  /\ trigger' = IF deaths < MaxStalls THEN "WAITING" ELSE "FAILED"
  /\ progress' = Nobody
  /\ UNCHANGED <<faults, tries, aud, call, redis, queue>>

ExpireLock ==
  /\ "LOCK" \in faults
  /\ \E l \in locks : locks' = locks \ {l}
  /\ UNCHANGED <<jobVars, progress, keys, unkeyed, queue>>

Treat(r) ==
  \/ AcquireLock(r) \/ SkipLocked(r) \/ LockTimesOut(r)
  \/ PassKey(r) \/ KeyFails(r) \/ SkipKnown(r)
  \/ Render(r) \/ RenderError(r)
  \/ Enqueue(r) \/ EnqueueError(r)
TriggerProcess ==
  \/ Start \/ SkipAudience \/ StartCall \/ EndCall
  \/ \E r \in Recipient : Treat(r)
TriggerNext == TriggerProcess \/ AttemptFails \/ GiveUp \/ TriggerCrash \/ ExpireLock
TriggerSpec == TriggerInit /\ [][TriggerNext]_triggerVars

\* A worker that runs goes on; nothing has to fail.
TriggerFairSpec == TriggerSpec /\ WF_triggerVars(TriggerProcess)

-----------------------------------------------------------------------------
(* Properties *)

TriggerOver == trigger \in {"COMPLETED", "REJECTED", "FAILED"}

TriggerTypeOK ==
  /\ faults \in Environments
  /\ trigger \in {"WAITING", "ACTIVE", "COMPLETED", "REJECTED", "FAILED"}
  /\ tries \in 0 .. MaxTries /\ deaths \in 0 .. MaxStalls + 1
  /\ aud \in 1 .. NumAudiences /\ call \in 0 .. MaxCalls
  /\ progress \in [Recipient -> Phases]
  /\ {locks, keys} \subseteq SUBSET ((1 .. MaxCalls) \X Address)
  /\ unkeyed \subseteq (1 .. MaxCalls) \X Recipient
  /\ queue \subseteq [call : 1 .. MaxCalls, aud : 1 .. NumAudiences, recipient : Recipient]

\* Of the jobs of one call for one address, at most one has passed by its key,
\* though recipients are treated concurrently and the lock may fail them all: a
\* second job takes an error of checkAndSet, which fails open by design.
OneJobPerAddress ==
  \A p, q \in queue :
    /\ p.call = q.call /\ AddressOf[p.recipient] = AddressOf[q.recipient]
    /\ {<<p.call, p.recipient>>, <<q.call, q.recipient>>} \cap unkeyed = {}
    => p = q

ServedIn(a, r) ==
  \E q \in queue : q.aud = a /\ AddressOf[q.recipient] = AddressOf[r]

\* With templates and a queue that work, a trigger job that completes has enqueued
\* a job for the address of everyone it was for, whatever retries, restarts and
\* lost locks it took: no key of an earlier attempt stands in its way. Types hold.
CompletedIsQueued ==
  TriggerTypeOK /\ (trigger = "COMPLETED" /\ {"RENDER", "ENQUEUE"} \cap faults = {} =>
    \A a \in 1 .. NumAudiences : \A r \in RecipientsOf[a] : ServedIn(a, r))

\* The trigger job does not go on for ever: failing resolvers, dying workers and
\* recipients that wait for each other notwithstanding.
TriggerEnds == <>TriggerOver
=============================================================================
