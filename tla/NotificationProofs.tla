------------------------- MODULE NotificationProofs -------------------------
(***************************************************************************)
(* What the three stages of a notification guarantee for any recipients,   *)
(* jobs, webhooks and faults.  NotificationTrigger: recipients of a call   *)
(* who share an address get one job, and a trigger job that completes has  *)
(* enqueued a job for everyone.  WhatsAppStatus: a report is written at    *)
(* most once, and is written unless it was given up.  NotificationJobs: a  *)
(* job goes out again only for a record that was rolled back, and the log  *)
(* of an undisturbed job ends with its outcome.                            *)
(***************************************************************************)
EXTENDS NotificationTrigger, NotificationJobs, WhatsAppStatus, WellFoundedInduction, TLAPS

-----------------------------------------------------------------------------
(* NotificationTrigger: the key lets one recipient of an address through *)
(* What carries OneJobPerAddress is the key alone: locks may time out or *)
(* expire and correlation ids may repeat.                                *)

\* Recipients that are beyond the key and have not enqueued yet.
Passed(r) == progress[r] \in {"PASSED", "READY"}

ProgressType == progress \in [Recipient -> Phases]

\* Of these, those that no error let through; and the jobs of such recipients.
ByKey(r) == Passed(r) /\ <<call, r>> \notin unkeyed
JobsByKey == {q \in queue : <<q.call, q.recipient>> \notin unkeyed}

\* The key that let an enqueued job through is never taken back.
KeysStay == \A q \in JobsByKey : <<q.call, AddressOf[q.recipient]>> \in keys

\* Whoever is beyond the key by its means holds it alone, and before any such job
\* for its address.
KeyHolders ==
  \A r \in Recipient : ByKey(r) =>
    /\ Id(r) \in keys
    /\ \A s \in Recipient : ByKey(s) /\ AddressOf[s] = AddressOf[r] => s = r
    /\ \A q \in JobsByKey : ~(q.call = call /\ AddressOf[q.recipient] = AddressOf[r])

KeyInv == ProgressType /\ KeysStay /\ KeyHolders /\ OneJobPerAddress

-----------------------------------------------------------------------------
LEMMA InitKeyInv == TriggerInit => KeyInv
  BY DEF TriggerInit, KeyInv, ProgressType, KeysStay, KeyHolders, OneJobPerAddress,
         Nobody, Phases, Passed, ByKey, JobsByKey

\* A step that leaves the keys and the jobs alone, and lets nobody past the key.
LEMMA QuietTriggerStep ==
  ASSUME KeyInv, keys' = keys, unkeyed' = unkeyed, queue' = queue, ProgressType',
         \A r \in Recipient : Passed(r)' => Passed(r) /\ call' = call
  PROVE  KeyInv'
<1>1. KeysStay' /\ OneJobPerAddress'
  BY DEF KeyInv, KeysStay, JobsByKey, OneJobPerAddress
<1>2. KeyHolders'
  BY DEF KeyInv, KeyHolders, ByKey, JobsByKey, Id
<1> QED
  BY <1>1, <1>2 DEF KeyInv

\* A move of one recipient leaves the others where they are.
LEMMA OneMoves ==
  ASSUME KeyInv, NEW r \in Recipient, NEW from, NEW to \in Phases, Move(r, from, to)
  PROVE  /\ call' = call /\ ProgressType'
         /\ progress[r] = from /\ progress'[r] = to
         /\ \A s \in Recipient : s # r => progress'[s] = progress[s]
  BY DEF KeyInv, ProgressType, Move, jobVars

LEMMA QuietMove ==
  ASSUME KeyInv, NEW r \in Recipient, NEW from, NEW to \in Phases, Move(r, from, to),
         keys' = keys, unkeyed' = unkeyed, queue' = queue,
         to \in {"PASSED", "READY"} => from \in {"PASSED", "READY"}
  PROVE  KeyInv'
<1>1. \A s \in Recipient : Passed(s)' => Passed(s) /\ call' = call
  BY OneMoves DEF Passed
<1> QED
  BY <1>1, OneMoves, QuietTriggerStep

\* The recipient that sets a missing key is the first of its address.
LEMMA PassKeyKeeps ==
  ASSUME KeyInv, NEW r \in Recipient, PassKey(r)
  PROVE  KeyInv'
<1>1. /\ call' = call /\ ProgressType' /\ unkeyed' = unkeyed
      /\ \A s \in Recipient : s # r => (ByKey(s)' <=> ByKey(s))
  BY OneMoves DEF PassKey, Phases, Passed, ByKey
<1>2. keys' = keys \cup {Id(r)} /\ JobsByKey' = JobsByKey /\ Id(r) \notin keys
  BY <1>1 DEF PassKey, JobsByKey
<1>3. \A s \in Recipient : ByKey(s) => AddressOf[s] # AddressOf[r]
  BY <1>2 DEF KeyInv, KeyHolders, Id
<1>4. \A q \in JobsByKey : ~(q.call = call /\ AddressOf[q.recipient] = AddressOf[r])
  BY <1>2 DEF KeyInv, KeysStay, Id
<1>5. KeyHolders'
  BY <1>1, <1>2, <1>3, <1>4 DEF KeyInv, KeyHolders, Id
<1>6. OneJobPerAddress'
  BY <1>1 DEF PassKey, KeyInv, OneJobPerAddress
<1> QED
  BY <1>1, <1>2, <1>5, <1>6 DEF KeyInv, KeysStay

\* Whom an error lets through no longer counts.
LEMMA KeyFailsKeeps ==
  ASSUME KeyInv, NEW r \in Recipient, KeyFails(r)
  PROVE  KeyInv'
<1>1. /\ call' = call /\ ProgressType' /\ keys \subseteq keys' /\ queue' = queue
      /\ unkeyed' = unkeyed \cup {<<call, r>>}
      /\ \A s \in Recipient : s # r => progress'[s] = progress[s]
  BY OneMoves DEF KeyFails, Phases
<1>2. \A s \in Recipient : ByKey(s)' => ByKey(s)
  BY <1>1 DEF ByKey, Passed
<1>3. JobsByKey' \subseteq JobsByKey
  BY <1>1 DEF JobsByKey
<1>4. KeyHolders'
  BY <1>1, <1>2, <1>3 DEF KeyInv, KeyHolders, Id
<1>5. KeysStay'
  BY <1>1, <1>3 DEF KeyInv, KeysStay
<1>6. OneJobPerAddress'
  BY <1>1 DEF KeyInv, OneJobPerAddress
<1> QED
  BY <1>1, <1>4, <1>5, <1>6 DEF KeyInv

\* The only holder of a key enqueues the only job for it.
LEMMA EnqueueKeeps ==
  ASSUME KeyInv, NEW r \in Recipient, Enqueue(r)
  PROVE  KeyInv'
<1> DEFINE job == [call |-> call, aud |-> aud, recipient |-> r]
<1>1. /\ call' = call /\ ProgressType' /\ Passed(r) /\ ~Passed(r)'
      /\ \A s \in Recipient : s # r => (Passed(s)' <=> Passed(s))
  BY OneMoves DEF Enqueue, Phases, Passed
<1>2. keys' = keys /\ unkeyed' = unkeyed /\ queue' = queue \cup {job}
  BY DEF Enqueue
<1>3. job.call = call /\ job.recipient = r
  OBVIOUS
<1> HIDE DEF job
<1>4. \A s \in Recipient : ByKey(s)' => ByKey(s) /\ s # r
  BY <1>1, <1>2 DEF ByKey
<1>5. JobsByKey' = IF ByKey(r) THEN JobsByKey \cup {job} ELSE JobsByKey
  BY <1>1, <1>2, <1>3 DEF JobsByKey, ByKey
<1>6. ByKey(r) =>
        /\ Id(r) \in keys
        /\ \A s \in Recipient : ByKey(s) /\ AddressOf[s] = AddressOf[r] => s = r
        /\ \A q \in JobsByKey : ~(q.call = call /\ AddressOf[q.recipient] = AddressOf[r])
  BY DEF KeyInv, KeyHolders
<1>7. KeysStay'
  BY <1>2, <1>3, <1>5, <1>6 DEF KeyInv, KeysStay, Id
<1>8. KeyHolders'
  BY <1>1, <1>2, <1>3, <1>4, <1>5, <1>6 DEF KeyInv, KeyHolders, Id
<1>9. OneJobPerAddress'
  <2> SUFFICES ASSUME NEW p \in queue', NEW q \in queue', p.call = q.call,
                      AddressOf[p.recipient] = AddressOf[q.recipient],
                      {<<p.call, p.recipient>>, <<q.call, q.recipient>>} \cap unkeyed = {}
               PROVE  p = q
    BY <1>2 DEF OneJobPerAddress
  <2>1. p \in JobsByKey' /\ q \in JobsByKey'
    BY <1>2 DEF JobsByKey
  <2>2. \A x, y \in JobsByKey : x.call = y.call /\ AddressOf[x.recipient] = AddressOf[y.recipient]
          => x = y
    BY DEF KeyInv, OneJobPerAddress, JobsByKey
  <2> QED
    BY <1>3, <1>5, <1>6, <2>1, <2>2
<1> QED
  BY <1>1, <1>7, <1>8, <1>9 DEF KeyInv

LEMMA TreatKeeps ==
  ASSUME KeyInv, NEW r \in Recipient, Treat(r)
  PROVE  KeyInv'
<1> USE DEF Phases
<1>1. CASE AcquireLock(r)  BY <1>1, QuietMove DEF AcquireLock
<1>2. CASE SkipLocked(r)   BY <1>2, QuietMove DEF SkipLocked, redis
<1>3. CASE LockTimesOut(r) BY <1>3, QuietMove DEF LockTimesOut, redis
<1>4. CASE PassKey(r)      BY <1>4, PassKeyKeeps
<1>5. CASE SkipKnown(r)    BY <1>5, QuietMove DEF SkipKnown
<1>10. CASE KeyFails(r)    BY <1>10, KeyFailsKeeps
<1>6. CASE Render(r)       BY <1>6, QuietMove DEF Render, redis
<1>7. CASE RenderError(r)  BY <1>7, QuietMove DEF RenderError, redis
<1>8. CASE Enqueue(r)      BY <1>8, EnqueueKeeps
<1>9. CASE EnqueueError(r) BY <1>9, QuietMove DEF EnqueueError
<1> QED
  BY <1>1, <1>2, <1>3, <1>4, <1>5, <1>6, <1>7, <1>8, <1>9, <1>10 DEF Treat

LEMMA NextKeyInv ==
  ASSUME KeyInv, [TriggerNext]_triggerVars
  PROVE  KeyInv'
<1> USE DEF KeyInv, ProgressType, Passed, redis
<1>1. CASE Start        BY <1>1, QuietTriggerStep DEF Start
<1>2. CASE SkipAudience BY <1>2, QuietTriggerStep DEF SkipAudience
<1>3. CASE StartCall    BY <1>3, QuietTriggerStep DEF StartCall, Phases
<1>4. CASE EndCall      BY <1>4, QuietTriggerStep DEF EndCall, Nobody, Phases
<1>5. CASE \E r \in Recipient : Treat(r)
  BY <1>5, TreatKeeps
<1>6. CASE AttemptFails BY <1>6, QuietTriggerStep DEF AttemptFails
<1>7. CASE GiveUp       BY <1>7, QuietTriggerStep DEF GiveUp
<1>8. CASE TriggerCrash        BY <1>8, QuietTriggerStep DEF TriggerCrash, Nobody, Phases
<1>9. CASE ExpireLock   BY <1>9, QuietTriggerStep DEF ExpireLock, jobVars
<1>10. CASE UNCHANGED triggerVars
  BY <1>10, QuietTriggerStep DEF triggerVars
<1> QED
  BY <1>1, <1>2, <1>3, <1>4, <1>5, <1>6, <1>7, <1>8, <1>9, <1>10 DEF TriggerNext, TriggerProcess

\* NotificationIdempotencyCacheService.checkAndSet: however recipients of a call
\* interleave, and whichever locks fail them, those who share an address get one
\* job between them, and another only for each whom an error let past the key.
THEOREM TriggerOneJobPerAddress == TriggerSpec => []OneJobPerAddress
<1>1. KeyInv /\ [TriggerNext]_triggerVars => KeyInv'
  BY NextKeyInv
<1>2. KeyInv => OneJobPerAddress
  BY DEF KeyInv
<1> QED
  BY InitKeyInv, <1>1, <1>2, PTL DEF TriggerSpec

-----------------------------------------------------------------------------
(* NotificationTrigger: a job that completes has enqueued a job for everyone *)

\* No attempt that may still come or go on has run out of calls.
CallsCounted ==
  /\ trigger \in {"WAITING", "ACTIVE"} => tries < MaxTries /\ deaths <= MaxStalls
  /\ trigger = "WAITING" => call <= (tries + deaths) * NumAudiences
  /\ trigger = "ACTIVE" =>
       call <= (tries + deaths) * NumAudiences + (IF InCall THEN aud ELSE aud - 1)

\* A call treats the recipients of its audience, under an id no earlier call had.
CallInHand ==
  /\ \A id \in locks \cup keys : id[1] <= call
  /\ InCall =>
       /\ trigger = "ACTIVE" /\ call > 0
       /\ \A r \in Recipient : progress[r] # "IDLE" <=> r \in RecipientsOf[aud]

\* With templates and queue that work, whoever is skipped is skipped for somebody
\* with his address who still goes on or has enqueued: the holder of the lock, or
\* of the key.
Clean == {"RENDER", "ENQUEUE"} \cap faults = {}
Keyed(s) == progress[s] \in {"PASSED", "READY", "QUEUED"}
Carries(s) == progress[s] = "LOCKED" \/ Keyed(s)
For(s, r) == AddressOf[s] = AddressOf[r]
NobodyDropped ==
  Clean /\ InCall => \A r \in Recipient :
    /\ progress[r] \notin {"FAILED", "LOST"}
    /\ Id(r) \in locks \/ progress[r] = "SKIPPED" =>
         \E s \in Recipient : For(s, r) /\ Carries(s)
    /\ Id(r) \in keys => \E s \in Recipient : For(s, r) /\ Keyed(s)
    /\ progress[r] = "QUEUED" => ServedIn(aud, r)

\* The audiences the loop has left behind are served.
Served(last) == \A a \in 1 .. last : \A r \in RecipientsOf[a] : ServedIn(a, r)
ServedSoFar ==
  Clean => /\ trigger = "ACTIVE" => Served(aud - 1)
           /\ trigger = "COMPLETED" => Served(NumAudiences)

TriggerInv ==
  KeyInv /\ TriggerTypeOK /\ CallsCounted /\ CallInHand /\ NobodyDropped /\ ServedSoFar

LEMMA InitTriggerInv == TriggerInit => TriggerInv
<1> SUFFICES ASSUME TriggerInit PROVE TriggerInv
  OBVIOUS
<1>1. TriggerTypeOK
  <2>1. MaxCalls \in Nat
    BY TriggerAssumption, QueueAssumption DEF MaxCalls
  <2> QED
    BY <2>1, TriggerAssumption, QueueAssumption DEF TriggerInit, TriggerTypeOK, Nobody, Phases
<1>2. ~InCall
  BY DEF TriggerInit, InCall, Nobody
<1>3. CallsCounted
  BY TriggerAssumption, QueueAssumption DEF TriggerInit, CallsCounted
<1> QED
  BY InitKeyInv, <1>1, <1>2, <1>3
     DEF TriggerInit, TriggerInv, CallInHand, NobodyDropped, ServedSoFar

\* What the recipients of one call may still use is within the bound.
LEMMA CallsLeft ==
  ASSUME TriggerTypeOK, CallsCounted, trigger = "ACTIVE"
  PROVE  /\ (tries + deaths) * NumAudiences + aud <= (tries + deaths + 1) * NumAudiences
         /\ (tries + deaths + 1) * NumAudiences <= MaxCalls
         /\ (tries + deaths) * NumAudiences \in Nat /\ MaxCalls \in Nat
<1>1. PICK x, n, m : x = tries + deaths /\ n = NumAudiences /\ m = MaxTries + MaxStalls
  OBVIOUS
<1>2. /\ x \in Nat /\ n \in Nat /\ m \in Nat /\ x + 1 <= m
      /\ aud \in 1 .. n
  BY <1>1, TriggerAssumption, QueueAssumption DEF TriggerTypeOK, CallsCounted
<1>3. \A y, z \in Nat : (y + z) * n = y * n + z * n /\ y * n \in Nat
  BY <1>2
<1>4. (x + 1) * n = x * n + n /\ x * n \in Nat
  BY <1>2, <1>3
<1>5. PICK d \in Nat : m = (x + 1) + d
  <2>1. m - (x + 1) \in Nat /\ m = (x + 1) + (m - (x + 1))
    BY <1>2
  <2> QED
    BY <2>1
<1>6. m * n = (x + 1) * n + d * n /\ d * n \in Nat /\ (x + 1) * n \in Nat
  BY <1>2, <1>3, <1>5
<1> QED
  BY <1>1, <1>2, <1>4, <1>6 DEF MaxCalls

\* The job goes on to another attempt, or it is over.
LEMMA AttemptEnds ==
  ASSUME TriggerInv, trigger = "ACTIVE", ~InCall',
         tries' + deaths' = tries + deaths + 1,
         tries' \in 0 .. MaxTries, deaths' \in 0 .. MaxStalls + 1,
         trigger' \in {"WAITING", "FAILED"},
         trigger' = "WAITING" => tries' < MaxTries /\ deaths' <= MaxStalls,
         progress' \in [Recipient -> Phases],
         UNCHANGED <<faults, aud, call, locks, keys, unkeyed, queue>>
  PROVE  /\ TriggerTypeOK' /\ CallsCounted' /\ CallInHand' /\ NobodyDropped' /\ ServedSoFar'
<1>1. TriggerTypeOK'
  BY DEF TriggerInv, TriggerTypeOK, MaxCalls
<1>2. CallsCounted'
  <2>1. call <= (tries + deaths + 1) * NumAudiences
    <3>1. call <= (tries + deaths) * NumAudiences + aud
      BY CallsLeft, TriggerAssumption DEF TriggerInv, CallsCounted, TriggerTypeOK
    <3>2. PICK x, y : x = (tries + deaths) * NumAudiences /\ y = (tries + deaths + 1) * NumAudiences
      OBVIOUS
    <3>3. x \in Nat /\ y <= MaxCalls /\ x + aud <= y /\ call <= x + aud /\ y \in Int
      BY <3>1, <3>2, CallsLeft, TriggerAssumption DEF TriggerInv, TriggerTypeOK
    <3> QED
      BY <3>2, <3>3, TriggerAssumption DEF TriggerInv, TriggerTypeOK
  <2> QED
    BY <2>1 DEF CallsCounted
<1>3. CallInHand'
  BY DEF TriggerInv, CallInHand
<1>4. NobodyDropped' /\ ServedSoFar'
  BY DEF NobodyDropped, ServedSoFar
<1> QED
  BY <1>1, <1>2, <1>3, <1>4

\* The loop goes on to the next audience when the one in hand is served.
LEMMA AudienceEnds ==
  ASSUME TriggerInv, trigger = "ACTIVE", ~InCall', NextAudience,
         progress' \in [Recipient -> Phases],
         UNCHANGED <<faults, tries, deaths, call, locks, keys, unkeyed, queue>>,
         Clean => \A r \in RecipientsOf[aud] : ServedIn(aud, r)
  PROVE  TriggerTypeOK' /\ CallsCounted' /\ CallInHand' /\ NobodyDropped' /\ ServedSoFar'
<1>1. aud \in 1 .. NumAudiences /\ NumAudiences \in Nat
  BY TriggerAssumption DEF TriggerInv, TriggerTypeOK
<1>2. TriggerTypeOK'
  BY <1>1 DEF TriggerInv, TriggerTypeOK, MaxCalls, NextAudience
<1>3. CallsCounted'
  <2>1. PICK x : x = (tries + deaths) * NumAudiences
    OBVIOUS
  <2>2. x \in Nat /\ call \in Int /\ call <= x + aud
    BY <1>1, <2>1, CallsLeft DEF TriggerInv, CallsCounted, TriggerTypeOK
  <2>3. aud' \in Int /\ (trigger' = "ACTIVE" => call' <= x + (aud' - 1))
    BY <1>1, <2>2 DEF NextAudience
  <2> QED
    BY <2>1, <2>3 DEF CallsCounted, TriggerInv, NextAudience
<1>4. CallInHand'
  BY DEF TriggerInv, CallInHand
<1>5. NobodyDropped'
  BY DEF NobodyDropped
<1>6. ServedSoFar'
  <2> SUFFICES ASSUME Clean
               PROVE  /\ trigger' = "ACTIVE" =>
                           \A a \in 1 .. aud' - 1 : \A r \in RecipientsOf[a] : ServedIn(a, r)'
                      /\ trigger' = "COMPLETED" =>
                           \A a \in 1 .. NumAudiences : \A r \in RecipientsOf[a] : ServedIn(a, r)'
    BY DEF ServedSoFar, Served, Clean
  <2>1. \A a, r : ServedIn(a, r)' <=> ServedIn(a, r)
    BY DEF ServedIn
  <2>2. ASSUME NEW a \in 1 .. aud, NEW r \in RecipientsOf[a] PROVE ServedIn(a, r)
    <3>1. CASE a = aud
      BY <3>1, <2>2
    <3>2. CASE a \in 1 .. aud - 1
      BY <3>2, <2>2 DEF TriggerInv, ServedSoFar, Served
    <3> QED
      BY <1>1, <3>1, <3>2
  <2>3. CASE aud < NumAudiences
    <3>1. aud' - 1 = aud /\ trigger' = "ACTIVE"
      BY <1>1, <2>3 DEF NextAudience
    <3> QED
      BY <2>1, <2>2, <3>1
  <2>4. CASE ~(aud < NumAudiences)
    <3>1. NumAudiences = aud /\ trigger' = "COMPLETED"
      BY <1>1, <2>4 DEF NextAudience
    <3> QED
      BY <2>1, <2>2, <3>1
  <2> QED
    BY <2>3, <2>4
<1> QED
  BY <1>2, <1>3, <1>4, <1>5, <1>6

\* What a step of one recipient is to the call it belongs to.
LEMMA TreatFrame ==
  ASSUME TriggerInv, NEW r \in Recipient, Treat(r)
  PROVE  /\ UNCHANGED jobVars /\ trigger = "ACTIVE" /\ InCall /\ InCall'
         /\ progress' \in [Recipient -> Phases]
         /\ progress[r] # "IDLE" /\ progress'[r] # "IDLE"
         /\ \A s \in Recipient : s # r => progress'[s] = progress[s]
         /\ locks' \subseteq locks \cup {Id(r)} /\ keys' \subseteq keys \cup {Id(r)}
         /\ queue' \subseteq queue \cup {[call |-> call, aud |-> aud, recipient |-> r]}
         /\ unkeyed' \subseteq unkeyed \cup {<<call, r>>}
         /\ queue \subseteq queue'
<1>1. PICK from, to : Move(r, from, to) /\ from # "IDLE" /\ to # "IDLE" /\ to \in Phases
  BY DEF Treat, AcquireLock, SkipLocked, LockTimesOut, PassKey, KeyFails, SkipKnown, Render,
         RenderError, Enqueue, EnqueueError, Phases
<1>2. /\ UNCHANGED jobVars /\ trigger = "ACTIVE"
      /\ progress' \in [Recipient -> Phases]
      /\ progress[r] # "IDLE" /\ progress'[r] # "IDLE"
      /\ \A s \in Recipient : s # r => progress'[s] = progress[s]
  BY <1>1 DEF Move, TriggerInv, TriggerTypeOK
<1>3. InCall /\ InCall'
  BY <1>2 DEF InCall
<1>4. /\ locks' \subseteq locks \cup {Id(r)} /\ keys' \subseteq keys \cup {Id(r)}
      /\ queue' \subseteq queue \cup {[call |-> call, aud |-> aud, recipient |-> r]}
      /\ unkeyed' \subseteq unkeyed \cup {<<call, r>>}
      /\ queue \subseteq queue'
  BY DEF Treat, AcquireLock, SkipLocked, LockTimesOut, PassKey, KeyFails, SkipKnown, Render,
         RenderError, Enqueue, EnqueueError, ReleaseLock, redis
<1> QED
  BY <1>2, <1>3, <1>4

\* Whoever somebody is skipped for goes on being carried: by himself, or by the
\* holder of the key he has met.
LEMMA CarryOn ==
  ASSUME TriggerInv, NEW r \in Recipient, Treat(r), Clean,
         progress'[r] \notin {"FAILED", "LOST"},
         Keyed(r) => Keyed(r)',
         Carries(r) => Carries(r)' \/ \E s \in Recipient : s # r /\ For(s, r) /\ Keyed(s),
         \A p \in Recipient : Id(p) \in locks' => Id(p) \in locks \/ (For(r, p) /\ Carries(r)'),
         \A p \in Recipient : Id(p) \in keys' => Id(p) \in keys \/ (For(r, p) /\ Keyed(r)'),
         progress'[r] = "SKIPPED" =>
           progress[r] = "SKIPPED" \/ \E s \in Recipient : s # r /\ For(s, r) /\ Carries(s),
         progress'[r] = "QUEUED" => ServedIn(aud, r)'
  PROVE  NobodyDropped'
<1>1. /\ call' = call /\ aud' = aud /\ faults' = faults /\ InCall /\ queue \subseteq queue'
      /\ \A s \in Recipient : s # r => progress'[s] = progress[s]
  BY TreatFrame DEF jobVars
<1>2. \A a, p : ServedIn(a, p) => ServedIn(a, p)'
  BY <1>1 DEF ServedIn
<1>3. \A s \in Recipient : Keyed(s) => Keyed(s)'
  BY <1>1 DEF Keyed
<1>4. \A s \in Recipient : s # r => (Carries(s) <=> Carries(s)')
  BY <1>1 DEF Carries, Keyed
<1>5. \A s, p \in Recipient : For(s, p) /\ Carries(s) => \E q \in Recipient : For(q, p) /\ Carries(q)'
  BY <1>3, <1>4 DEF For, Carries
<1>6. \A p \in Recipient : Id(p)' = Id(p)
  BY <1>1 DEF Id
<1>7. NobodyDropped
  BY DEF TriggerInv
<1> SUFFICES ASSUME NEW p \in Recipient
             PROVE  /\ progress'[p] \notin {"FAILED", "LOST"}
                    /\ Id(p) \in locks' \/ progress'[p] = "SKIPPED" =>
                         \E s \in Recipient : For(s, p) /\ Carries(s)'
                    /\ Id(p) \in keys' => \E s \in Recipient : For(s, p) /\ Keyed(s)'
                    /\ progress'[p] = "QUEUED" => ServedIn(aud, p)'
  BY <1>1, <1>6 DEF NobodyDropped, For
<1>8. progress'[p] \notin {"FAILED", "LOST"}
  BY <1>1, <1>7 DEF NobodyDropped
<1>9. ASSUME Id(p) \in locks' PROVE \E s \in Recipient : For(s, p) /\ Carries(s)'
  BY <1>1, <1>5, <1>7, <1>9 DEF NobodyDropped
<1>10. ASSUME progress'[p] = "SKIPPED" PROVE \E s \in Recipient : For(s, p) /\ Carries(s)'
  <2>1. CASE progress[p] = "SKIPPED"
    BY <1>1, <1>5, <1>7, <2>1 DEF NobodyDropped
  <2>2. CASE progress[p] # "SKIPPED"
    <3>1. p = r
      BY <1>1, <1>10, <2>2
    <3> QED
      BY <1>4, <1>10, <2>2, <3>1
  <2> QED
    BY <2>1, <2>2
<1>11. ASSUME Id(p) \in keys' PROVE \E s \in Recipient : For(s, p) /\ Keyed(s)'
  BY <1>1, <1>3, <1>7, <1>11 DEF NobodyDropped
<1>12. progress'[p] = "QUEUED" => ServedIn(aud, p)'
  BY <1>1, <1>2, <1>7 DEF NobodyDropped
<1> QED
  BY <1>8, <1>9, <1>10, <1>11, <1>12

LEMMA TreatDropsNobody ==
  ASSUME TriggerInv, NEW r \in Recipient, Treat(r)
  PROVE  NobodyDropped'
<1>1. CASE ~Clean
  BY <1>1, TreatFrame DEF NobodyDropped, Clean, jobVars
<1>2. CASE Clean
  <2>1. "RENDER" \notin faults /\ "ENQUEUE" \notin faults
    BY <1>2 DEF Clean
  <2>2. NobodyDropped /\ InCall /\ progress \in [Recipient -> Phases] /\ For(r, r)
    BY TreatFrame DEF TriggerInv, TriggerTypeOK, For
  <2>3. \A p \in Recipient : Id(p) = Id(r) => For(r, p)
    BY DEF Id, For
  <2> USE DEF Move, Keyed, Carries
  <2>4. CASE AcquireLock(r)
    BY <1>2, <2>2, <2>3, <2>4, CarryOn DEF AcquireLock
  <2>5. CASE SkipLocked(r)
    <3>1. \E s \in Recipient : For(s, r) /\ Carries(s)
      BY <1>2, <2>2, <2>5 DEF SkipLocked, NobodyDropped
    <3>2. \E s \in Recipient : s # r /\ For(s, r) /\ Carries(s)
      BY <2>5, <3>1 DEF SkipLocked
    <3> QED
      BY <1>2, <2>2, <2>5, <3>2, CarryOn DEF SkipLocked, redis
  <2>6. CASE LockTimesOut(r)
    BY <1>2, <2>2, <2>6, CarryOn DEF LockTimesOut, redis
  <2>7. CASE PassKey(r)
    BY <1>2, <2>2, <2>3, <2>7, CarryOn DEF PassKey
  <2>11. CASE KeyFails(r)
    BY <1>2, <2>2, <2>3, <2>11, CarryOn DEF KeyFails
  <2>8. CASE SkipKnown(r)
    <3>1. \E s \in Recipient : For(s, r) /\ Keyed(s)
      BY <1>2, <2>2, <2>8 DEF SkipKnown, NobodyDropped
    <3>2. \E s \in Recipient : s # r /\ For(s, r) /\ Keyed(s)
      BY <2>8, <3>1 DEF SkipKnown
    <3> QED
      BY <1>2, <2>2, <2>8, <3>2, CarryOn DEF SkipKnown, ReleaseLock
  <2>9. CASE Render(r)
    BY <1>2, <2>2, <2>9, CarryOn DEF Render, redis
  <2>10. CASE Enqueue(r)
    <3>1. ServedIn(aud, r)'
      <4> DEFINE job == [call |-> call, aud |-> aud, recipient |-> r]
      <4>1. job \in queue' /\ job.aud = aud /\ job.recipient = r
        BY <2>10 DEF Enqueue
      <4>2. aud' = aud
        BY TreatFrame DEF jobVars
      <4> HIDE DEF job
      <4> QED
        BY <4>1, <4>2 DEF ServedIn
    <3> QED
      BY <1>2, <2>2, <2>10, <3>1, CarryOn DEF Enqueue, ReleaseLock
  <2> QED
    BY <2>1, <2>4, <2>5, <2>6, <2>7, <2>8, <2>9, <2>10, <2>11 DEF Treat, RenderError, EnqueueError
<1> QED
  BY <1>1, <1>2

LEMMA TreatTriggerInv ==
  ASSUME TriggerInv, NEW r \in Recipient, Treat(r)
  PROVE  TriggerTypeOK' /\ CallsCounted' /\ CallInHand' /\ NobodyDropped' /\ ServedSoFar'
<1>1. /\ faults' = faults /\ trigger' = trigger /\ tries' = tries /\ deaths' = deaths
      /\ aud' = aud /\ call' = call /\ InCall /\ InCall' /\ trigger = "ACTIVE"
      /\ progress' \in [Recipient -> Phases]
      /\ progress[r] # "IDLE" /\ progress'[r] # "IDLE"
      /\ \A s \in Recipient : s # r => progress'[s] = progress[s]
  BY TreatFrame DEF jobVars
<1>2. call \in 1 .. MaxCalls /\ aud \in 1 .. NumAudiences /\ Id(r) \in (1 .. MaxCalls) \X Address
  <2>1. call \in 1 .. MaxCalls
    BY <1>1, CallsLeft DEF TriggerInv, TriggerTypeOK, CallInHand
  <2> QED
    BY <2>1, TriggerAssumption DEF TriggerInv, TriggerTypeOK, Id
<1>3. TriggerTypeOK'
  <2>1. locks' \subseteq (1 .. MaxCalls) \X Address /\ keys' \subseteq (1 .. MaxCalls) \X Address
    BY <1>2, TreatFrame DEF TriggerInv, TriggerTypeOK
  <2>2. /\ queue' \subseteq [call : 1 .. MaxCalls, aud : 1 .. NumAudiences, recipient : Recipient]
        /\ unkeyed' \subseteq (1 .. MaxCalls) \X Recipient
    BY <1>2, TreatFrame DEF TriggerInv, TriggerTypeOK
  <2> QED
    BY <1>1, <2>1, <2>2 DEF TriggerInv, TriggerTypeOK, MaxCalls
<1>4. CallsCounted'
  BY <1>1 DEF TriggerInv, CallsCounted
<1>5. CallInHand'
  <2>1. \A id \in locks' \cup keys' : id[1] <= call
    BY <1>1, <1>2, TreatFrame DEF TriggerInv, TriggerTypeOK, CallInHand, Id
  <2> QED
    BY <1>1, <2>1 DEF TriggerInv, CallInHand
<1>6. ServedSoFar'
  <2>1. \A a, p : ServedIn(a, p) => ServedIn(a, p)'
    BY TreatFrame DEF ServedIn
  <2> QED
    BY <1>1, <2>1 DEF TriggerInv, ServedSoFar, Served, Clean
<1> QED
  BY <1>3, <1>4, <1>5, <1>6, TreatDropsNobody

\* A call starts under a new id: no lock and no key stands in anybody's way.
LEMMA StartCallInv ==
  ASSUME TriggerInv, StartCall
  PROVE  TriggerTypeOK' /\ CallsCounted' /\ CallInHand' /\ NobodyDropped' /\ ServedSoFar'
<1>1. /\ trigger = "ACTIVE" /\ ~InCall /\ RecipientsOf[aud] # {} /\ call' = call + 1
      /\ progress' = [r \in Recipient |-> IF r \in RecipientsOf[aud] THEN "NEW" ELSE "IDLE"]
      /\ UNCHANGED <<faults, trigger, tries, deaths, aud, locks, keys, unkeyed, queue>>
  BY DEF StartCall, Between, redis
<1>2. call \in Nat /\ aud \in 1 .. NumAudiences /\ RecipientsOf[aud] \subseteq Recipient
  BY TriggerAssumption DEF TriggerInv, TriggerTypeOK
<1>3. InCall'
  BY <1>1, <1>2 DEF InCall
<1>4. PICK x, y : x = (tries + deaths) * NumAudiences /\ y = (tries + deaths + 1) * NumAudiences
  OBVIOUS
<1>5. /\ x \in Nat /\ x + aud <= y /\ y <= MaxCalls /\ MaxCalls \in Nat
      /\ call <= x + (aud - 1)
  BY <1>1, <1>4, CallsLeft DEF TriggerInv, CallsCounted
<1>6. y \in Int
  BY <1>4, TriggerAssumption DEF TriggerInv, TriggerTypeOK
<1>7. call + 1 <= x + aud /\ call' \in 0 .. MaxCalls /\ NumAudiences \in Nat
  BY <1>1, <1>2, <1>5, <1>6, TriggerAssumption
<1>8. TriggerTypeOK'
  BY <1>1, <1>7 DEF TriggerInv, TriggerTypeOK, MaxCalls, Phases
<1>9. CallsCounted'
  BY <1>1, <1>3, <1>4, <1>7 DEF TriggerInv, CallsCounted
<1>10. \A id \in locks \cup keys : id[1] \in Int /\ id[1] <= call
  BY DEF TriggerInv, TriggerTypeOK, CallInHand
<1>11. CallInHand'
  BY <1>1, <1>2, <1>3, <1>10 DEF CallInHand
<1>12. NobodyDropped'
  <2>1. \A r \in Recipient : Id(r)' \notin locks' /\ Id(r)' \notin keys'
    BY <1>1, <1>2, <1>10 DEF Id
  <2>2. \A r \in Recipient : progress'[r] \in {"NEW", "IDLE"}
    BY <1>1
  <2> QED
    BY <2>1, <2>2 DEF NobodyDropped
<1>13. ServedSoFar'
  BY <1>1 DEF TriggerInv, ServedSoFar, Served, ServedIn, Clean
<1> QED
  BY <1>8, <1>9, <1>11, <1>12, <1>13

\* All recipients of the call have come to an end: whoever was skipped shares the
\* address of one who has enqueued.
LEMMA CallServes ==
  ASSUME TriggerInv, EndCall, Clean, NEW r \in RecipientsOf[aud]
  PROVE  ServedIn(aud, r)
<1>1. /\ InCall /\ trigger = "ACTIVE" /\ r \in Recipient
      /\ \A s \in Recipient : progress[s] \in SettledPhases
      /\ NobodyDropped
  BY TriggerAssumption DEF EndCall, TriggerInv, TriggerTypeOK
<1>2. progress[r] \in {"QUEUED", "SKIPPED"}
  BY <1>1 DEF NobodyDropped, TriggerInv, CallInHand, SettledPhases
<1>3. \A s \in Recipient : Carries(s) => progress[s] = "QUEUED"
  BY <1>1 DEF Carries, Keyed, SettledPhases
<1>4. PICK s \in Recipient : For(s, r) /\ progress[s] = "QUEUED"
  BY <1>1, <1>2, <1>3 DEF NobodyDropped, For
<1>5. ServedIn(aud, s)
  BY <1>1, <1>4 DEF NobodyDropped
<1> QED
  BY <1>4, <1>5 DEF ServedIn, For

LEMMA NextTriggerInv == TriggerInv /\ [TriggerNext]_triggerVars => TriggerInv'
<1> SUFFICES ASSUME TriggerInv, [TriggerNext]_triggerVars PROVE TriggerInv'
  OBVIOUS
<1>1. KeyInv'
  BY NextKeyInv DEF TriggerInv
<1>2. TriggerTypeOK /\ CallsCounted /\ CallInHand /\ NobodyDropped /\ ServedSoFar
  BY DEF TriggerInv
<1> SUFFICES TriggerTypeOK' /\ CallsCounted' /\ CallInHand' /\ NobodyDropped' /\ ServedSoFar'
  BY <1>1 DEF TriggerInv
<1>3. CASE Start
  <2>1. /\ trigger = "WAITING" /\ trigger' = "ACTIVE" /\ aud' = 1
        /\ UNCHANGED <<faults, tries, deaths, call, progress, locks, keys, unkeyed, queue>>
    BY <1>3 DEF Start, redis
  <2>2. ~InCall /\ ~InCall'
    BY <1>2, <2>1 DEF CallInHand, InCall
  <2>3. TriggerTypeOK'
    BY <1>2, <2>1, TriggerAssumption DEF TriggerTypeOK, MaxCalls
  <2>4. CallsCounted'
    <3>1. PICK x : x = (tries + deaths) * NumAudiences
      OBVIOUS
    <3>2. x \in Int
      BY <1>2, <3>1, TriggerAssumption DEF TriggerTypeOK
    <3>3. call <= x /\ x = x + (1 - 1)
      BY <1>2, <2>1, <3>1, <3>2 DEF CallsCounted
    <3> QED
      BY <1>2, <2>1, <2>2, <3>1, <3>3 DEF CallsCounted
  <2>5. CallInHand' /\ NobodyDropped'
    BY <1>2, <2>1, <2>2 DEF CallInHand, NobodyDropped
  <2>6. ServedSoFar'
    BY <2>1 DEF ServedSoFar, Served
  <2> QED
    BY <2>3, <2>4, <2>5, <2>6
<1>4. CASE SkipAudience
  <2>1. /\ trigger = "ACTIVE" /\ ~InCall' /\ NextAudience /\ RecipientsOf[aud] = {}
        /\ progress' \in [Recipient -> Phases]
        /\ UNCHANGED <<faults, tries, deaths, call, locks, keys, unkeyed, queue>>
    BY <1>2, <1>4 DEF SkipAudience, Between, InCall, redis, TriggerTypeOK
  <2> QED
    BY <2>1, AudienceEnds
<1>5. CASE StartCall
  BY <1>5, StartCallInv
<1>6. CASE EndCall
  <2>1. /\ trigger = "ACTIVE" /\ ~InCall' /\ NextAudience
        /\ progress' \in [Recipient -> Phases]
        /\ UNCHANGED <<faults, tries, deaths, call, locks, keys, unkeyed, queue>>
    BY <1>6 DEF EndCall, InCall, Nobody, redis, Phases
  <2> QED
    BY <1>6, <2>1, CallServes, AudienceEnds
<1>7. CASE \E r \in Recipient : Treat(r)
  BY <1>7, TreatTriggerInv
<1>8. CASE AttemptFails
  <2>1. /\ trigger = "ACTIVE" /\ ~InCall' /\ tries' = tries + 1 /\ deaths' = deaths
        /\ trigger' = IF tries + 1 < MaxTries THEN "WAITING" ELSE "FAILED"
        /\ UNCHANGED <<faults, aud, call, progress, locks, keys, unkeyed, queue>>
    BY <1>8 DEF AttemptFails, Between, InCall, redis
  <2>2. /\ tries' + deaths' = tries + deaths + 1
        /\ tries' \in 0 .. MaxTries /\ deaths' \in 0 .. MaxStalls + 1
        /\ trigger' \in {"WAITING", "FAILED"}
        /\ trigger' = "WAITING" => tries' < MaxTries /\ deaths' <= MaxStalls
        /\ progress' \in [Recipient -> Phases]
    BY <1>2, <2>1, TriggerAssumption, QueueAssumption DEF TriggerTypeOK, CallsCounted
  <2> QED
    BY <2>1, <2>2, AttemptEnds
<1>9. CASE GiveUp
  <2>1. /\ trigger' = "REJECTED" /\ ~InCall'
        /\ UNCHANGED <<faults, tries, deaths, aud, call, progress, locks, keys, unkeyed, queue>>
    BY <1>9 DEF GiveUp, Between, InCall, redis
  <2>2. TriggerTypeOK' /\ CallsCounted' /\ CallInHand' /\ NobodyDropped' /\ ServedSoFar'
    BY <1>2, <2>1 DEF TriggerTypeOK, MaxCalls, CallsCounted, CallInHand, NobodyDropped, ServedSoFar
  <2> QED
    BY <2>2
<1>10. CASE TriggerCrash
  <2>1. /\ trigger = "ACTIVE" /\ ~InCall' /\ tries' = tries /\ deaths' = deaths + 1
        /\ trigger' = IF deaths < MaxStalls THEN "WAITING" ELSE "FAILED"
        /\ progress' \in [Recipient -> Phases]
        /\ UNCHANGED <<faults, aud, call, locks, keys, unkeyed, queue>>
    BY <1>10 DEF TriggerCrash, InCall, Nobody, redis, Phases
  <2>2. /\ tries' + deaths' = tries + deaths + 1
        /\ tries' \in 0 .. MaxTries /\ deaths' \in 0 .. MaxStalls + 1
        /\ trigger' \in {"WAITING", "FAILED"}
        /\ trigger' = "WAITING" => tries' < MaxTries /\ deaths' <= MaxStalls
    BY <1>2, <2>1, TriggerAssumption, QueueAssumption DEF TriggerTypeOK, CallsCounted
  <2> QED
    BY <2>1, <2>2, AttemptEnds
<1>11. CASE ExpireLock \/ UNCHANGED triggerVars
  <2>1. /\ UNCHANGED <<faults, trigger, tries, deaths, aud, call, progress, keys, unkeyed, queue>>
        /\ locks' \subseteq locks
    BY <1>11 DEF ExpireLock, jobVars, triggerVars
  <2>2. InCall' <=> InCall
    BY <2>1 DEF InCall
  <2>3. TriggerTypeOK' /\ CallsCounted' /\ CallInHand'
    BY <1>2, <2>1, <2>2 DEF TriggerTypeOK, MaxCalls, CallsCounted, CallInHand
  <2>4. NobodyDropped' /\ ServedSoFar'
    BY <1>2, <2>1, <2>2
       DEF NobodyDropped, ServedSoFar, Served, ServedIn, Clean, Carries, Keyed, Id
  <2> QED
    BY <2>3, <2>4
<1> QED
  BY <1>1, <1>3, <1>4, <1>5, <1>6, <1>7, <1>8, <1>9, <1>10, <1>11
     DEF TriggerNext, TriggerProcess

\* NotificationTriggerProcessor, NotificationService.trigger and the router: a
\* trigger job that completes while templates and queue work has enqueued a job for
\* the address of everyone it was for; and variables have their types.
THEOREM TriggerCompletedIsQueued == TriggerSpec => []CompletedIsQueued
<1>1. TriggerInv => CompletedIsQueued
  BY DEF TriggerInv, CompletedIsQueued, ServedSoFar, Served, Clean
<1> QED
  BY InitTriggerInv, NextTriggerInv, <1>1, PTL DEF TriggerSpec

-----------------------------------------------------------------------------
(* WhatsAppStatus: a report is in one hand *)

\* Workers that have marked the report in hand and not settled it.
Busy(w) == pc[w] \in {"CHECKED", "FOUND"}

WebhookState == {"NONE", "NEXT", "CHECKED", "FOUND", "DONE", "DEAD"}

\* A worker at work has a report of its batch in hand.
Types ==
  /\ reported \in Seq(Report)
  /\ batch \in [Webhook -> Seq(Report)] /\ pos \in [Webhook -> Nat]
  /\ pc \in [Webhook -> WebhookState]
  /\ applied \in [Report -> Nat]
  /\ \A w \in Webhook :
       /\ pc[w] = "NONE" => pos[w] = 0
       /\ pc[w] \in {"NEXT", "CHECKED", "FOUND"} => pos[w] < Len(batch[w])

\* While marks can be read: a report is marked before it is taken in hand, is in
\* one hand only, and not written before that hand lets go of it.
OneHand ==
  "REDIS" \notin faults =>
    /\ \A r \in Report : applied[r] > 0 => r \in marks
    /\ \A w \in Webhook : Busy(w) => Current(w) \in marks /\ applied[Current(w)] = 0
    /\ \A v, w \in Webhook : Busy(v) /\ Busy(w) /\ Current(v) = Current(w) => v = w

HandInv == Types /\ OneHand /\ AppliedOnce

-----------------------------------------------------------------------------
LEMMA InitHandInv == ReportsInit => HandInv
  BY DEF ReportsInit, HandInv, Types, OneHand, AppliedOnce, WebhookState, Busy

LEMMA CurrentType ==
  ASSUME Types, NEW w \in Webhook, pc[w] \in {"NEXT", "CHECKED", "FOUND"}
  PROVE  Current(w) \in Report
<1>1. batch[w] \in Seq(Report) /\ pos[w] \in Nat /\ pos[w] < Len(batch[w])
  BY DEF Types
<1>2. pos[w] + 1 \in 1 .. Len(batch[w])
  BY <1>1
<1> QED
  BY <1>1, <1>2 DEF Current

\* What one worker does to its own job keeps the types.
LEMMA StepTypes ==
  ASSUME Types, [ReportsNext]_reportVars
  PROVE  Types'
<1> USE DEF Types, WebhookState
<1>1. CASE Commit  BY <1>1 DEF Commit
<1>2. CASE Happen  BY <1>2 DEF Happen
<1>3. CASE \E w \in Webhook : Post(w)
  <2>1. PICK w \in Webhook : Post(w)
    BY <1>3
  <2>2. PICK i, j \in DOMAIN reported :
          i <= j /\ batch' = [batch EXCEPT ![w] = SubSeq(reported, i, j)]
    BY <2>1 DEF Post
  <2>3. SubSeq(reported, i, j) \in Seq(Report) /\ Len(SubSeq(reported, i, j)) > 0
    BY <2>2
  <2> QED
    BY <2>1, <2>2, <2>3 DEF Post
<1>4. ASSUME NEW w \in Webhook, Process(w) \/ WebhookCrash(w)
      PROVE  Types'
  <2> USE DEF Settle
  <2>1. CASE CheckNew(w)   BY <2>1 DEF CheckNew
  <2>2. CASE CheckKnown(w) BY <2>2 DEF CheckKnown
  <2>3. CASE CheckFails(w) BY <2>3 DEF CheckFails
  <2>4. CASE Find(w)       BY <2>4 DEF Find
  <2>5. CASE Orphan(w)     BY <2>5 DEF Orphan
  <2>6. CASE Update(w)
    <3>1. Current(w) \in Report
      BY <2>6, CurrentType DEF Update
    <3>2. applied' \in [Report -> Nat]
      BY <2>6, <3>1 DEF Update
    <3>3. reported' = reported /\ batch' = batch /\ Settle(w)
      BY <2>6 DEF Update
    <3> QED
      BY <3>2, <3>3, <2>6 DEF Update
  <2>7. CASE Swallow(w)    BY <2>7 DEF Swallow
  <2>8. CASE WebhookCrash(w)      BY <2>8 DEF WebhookCrash
  <2> QED
    BY <1>4, <2>1, <2>2, <2>3, <2>4, <2>5, <2>6, <2>7, <2>8 DEF Process
<1>5. CASE UNCHANGED reportVars  BY <1>5 DEF reportVars
<1> QED
  BY <1>1, <1>2, <1>3, <1>4, <1>5 DEF ReportsNext

\* A step that writes nothing, keeps the marks and takes nothing into a hand.
LEMMA QuietReportStep ==
  ASSUME HandInv, Types', faults' = faults, marks' = marks, applied' = applied,
         \A w \in Webhook : Busy(w)' => Busy(w) /\ Current(w)' = Current(w)
  PROVE  HandInv'
<1>1. OneHand'
  BY DEF HandInv, OneHand
<1> QED
  BY <1>1 DEF HandInv, AppliedOnce

\* A worker that settles its report lets go of it; the others keep theirs.
LEMMA SettleOne ==
  ASSUME Types, NEW w \in Webhook, Settle(w), batch' = batch
  PROVE  /\ ~Busy(w)'
         /\ \A v \in Webhook \ {w} : (Busy(v)' <=> Busy(v)) /\ Current(v)' = Current(v)
  BY DEF Types, Settle, Busy, Current

LEMMA CheckNewKeeps ==
  ASSUME HandInv, Types', NEW w \in Webhook, CheckNew(w)
  PROVE  HandInv'
<1>1. /\ faults' = faults /\ applied' = applied /\ marks' = marks \cup {Current(w)}
      /\ Current(w) \notin marks
      /\ \A v \in Webhook : Current(v)' = Current(v)
      /\ \A v \in Webhook \ {w} : Busy(v)' <=> Busy(v)
  BY DEF CheckNew, KeyOf, Current, Busy, HandInv, Types
<1>2. Current(w) \in Report
  BY CurrentType DEF CheckNew, HandInv
<1>3. "REDIS" \notin faults => applied[Current(w)] = 0
  BY <1>1, <1>2 DEF HandInv, Types, OneHand
<1>4. OneHand'
  BY <1>1, <1>3 DEF HandInv, OneHand
<1> QED
  BY <1>1, <1>4 DEF HandInv, AppliedOnce

LEMMA UpdateKeeps ==
  ASSUME HandInv, Types', NEW w \in Webhook, Update(w)
  PROVE  HandInv'
<1>1. /\ faults' = faults /\ marks' = marks /\ Busy(w) /\ Settle(w) /\ batch' = batch
      /\ applied' = [applied EXCEPT ![Current(w)] = @ + 1]
  BY DEF Update, Busy
<1>2. Current(w) \in Report
  BY CurrentType DEF Update, HandInv
<1>3. /\ ~Busy(w)'
      /\ \A v \in Webhook \ {w} : (Busy(v)' <=> Busy(v)) /\ Current(v)' = Current(v)
  BY <1>1, SettleOne DEF HandInv
<1>4. \A r \in Report : applied'[r] = IF r = Current(w) THEN applied[r] + 1 ELSE applied[r]
  BY <1>1 DEF HandInv, Types
<1>5. OneHand'
  <2> SUFFICES ASSUME "REDIS" \notin faults PROVE OneHand'
    BY <1>1 DEF OneHand
  <2>1. \A r \in Report : applied'[r] > 0 => r \in marks'
    BY <1>1, <1>4 DEF HandInv, OneHand
  <2>2. ASSUME NEW v \in Webhook, Busy(v)'
        PROVE  Current(v)' \in marks' /\ applied'[Current(v)'] = 0
    <3>1. v # w /\ Busy(v) /\ Current(v)' = Current(v)
      BY <1>3, <2>2
    <3>2. Current(v) # Current(w)
      BY <1>1, <3>1 DEF HandInv, OneHand
    <3>3. Current(v) \in Report
      BY <3>1, CurrentType DEF Busy, HandInv
    <3> QED
      BY <1>1, <1>4, <3>1, <3>2, <3>3 DEF HandInv, OneHand
  <2>3. \A v, u \in Webhook : Busy(v)' /\ Busy(u)' /\ Current(v)' = Current(u)' => v = u
    BY <1>3 DEF HandInv, OneHand
  <2> QED
    BY <2>1, <2>2, <2>3 DEF OneHand
<1>6. AppliedOnce'
  BY <1>1, <1>2, <1>4 DEF HandInv, Types, OneHand, AppliedOnce
<1> QED
  BY <1>5, <1>6 DEF HandInv

LEMMA NextHandInv ==
  ASSUME HandInv, [ReportsNext]_reportVars
  PROVE  HandInv'
<1> Types'
  BY StepTypes DEF HandInv
<1>1. ASSUME Commit \/ Happen \/ UNCHANGED reportVars \/ \E w \in Webhook : Post(w)
      PROVE  HandInv'
  <2>1. /\ faults' = faults /\ marks' = marks /\ applied' = applied
        /\ \A w \in Webhook : Busy(w)' => Busy(w) /\ Current(w)' = Current(w)
    BY <1>1 DEF Commit, Happen, Post, reportVars, Busy, Current, HandInv, Types
  <2> QED
    BY <2>1, QuietReportStep
<1>2. ASSUME NEW w \in Webhook, Process(w) \/ WebhookCrash(w)
      PROVE  HandInv'
  <2>1. CASE CheckNew(w)   BY <2>1, CheckNewKeeps
  <2>2. CASE CheckKnown(w) \/ Orphan(w) \/ Swallow(w)
    BY <2>2, SettleOne, QuietReportStep DEF CheckKnown, Orphan, Swallow, HandInv
  <2>3. CASE CheckFails(w)
    BY <2>3 DEF CheckFails, HandInv, OneHand, AppliedOnce
  <2>4. CASE Find(w)
    BY <2>4, QuietReportStep DEF Find, Busy, Current, HandInv, Types
  <2>5. CASE Update(w)     BY <2>5, UpdateKeeps
  <2>6. CASE WebhookCrash(w)
    BY <2>6, QuietReportStep DEF WebhookCrash, Busy, Current, HandInv, Types
  <2> QED
    BY <1>2, <2>1, <2>2, <2>3, <2>4, <2>5, <2>6 DEF Process
<1> QED
  BY <1>1, <1>2 DEF ReportsNext

\* However many webhooks repeat a report, on however many workers, with whatever
\* crashes and failing updates, its row is written for it at most once while Redis
\* can be read (WhatsAppWebhookIdempotencyService.checkAndMarkProcessed).
THEOREM WhatsAppAppliedOnce == ReportsSpec => []AppliedOnce
<1>1. HandInv /\ [ReportsNext]_reportVars => HandInv'
  BY NextHandInv
<1>2. HandInv => AppliedOnce
  BY DEF HandInv
<1> QED
  BY InitHandInv, <1>1, <1>2, PTL DEF ReportsSpec

-----------------------------------------------------------------------------
(* WhatsAppStatus: what is not given up is written *)

\* The remaining types, and what they rest on.
ReportTypes ==
  /\ faults \in Environments /\ dropped \subseteq Report /\ marks \subseteq Report
  /\ row \in {"UNCOMMITTED", "SENT", "DELIVERED", "FAILED"}
  /\ \E h \in Histories : IsPrefix(reported, h)
  /\ restarts \in [Webhook -> 0 .. MaxStalls + 1]
  /\ \A w \in Webhook :
       /\ pos[w] <= Len(batch[w])
       /\ pc[w] = "NONE" => batch[w] = <<>>
       /\ pc[w] # "DEAD" => restarts[w] <= MaxStalls

\* A report is written, given up, or in a hand.
Covered(r) ==
  r \in dropped \/ applied[r] > 0 \/ \E w \in Webhook : Busy(w) /\ Current(w) = r

\* So is every report with a mark, and every report a webhook has left behind.
MarksAreCovered == \A r \in marks : Covered(r)
BatchesAreCovered ==
  \A w \in Webhook : \A i \in 1 .. Len(batch[w]) :
    i <= pos[w] \/ pc[w] \in {"DONE", "DEAD"} => Covered(batch[w][i])

ReportInv == HandInv /\ ReportTypes /\ MarksAreCovered /\ BatchesAreCovered

LEMMA InitReportInv == ReportsInit => ReportInv
<1> SUFFICES ASSUME ReportsInit PROVE ReportInv
  OBVIOUS
<1>1. \E h \in Histories : IsPrefix(reported, h)
  <2>1. IsPrefix(<<>>, <<"sent", "failed">>)
    BY DEF IsPrefix
  <2> QED
    BY <2>1 DEF ReportsInit, Histories
<1>2. ReportTypes
  BY <1>1, QueueAssumption DEF ReportsInit, ReportTypes
<1> QED
  BY <1>2, InitHandInv DEF ReportsInit, ReportInv, MarksAreCovered, BatchesAreCovered

\* What became of a report stays known when its row is written or it is given up.
LEMMA CoveredStays ==
  ASSUME Types, Types', dropped \subseteq dropped',
         \A r \in Report : applied[r] > 0 => applied'[r] > 0,
         \A w \in Webhook : Busy(w) =>
           \/ Busy(w)' /\ Current(w)' = Current(w)
           \/ Current(w) \in dropped' \/ applied'[Current(w)] > 0
  PROVE  \A r \in Report : Covered(r) => Covered(r)'
  BY DEF Covered

\* A worker that settles a covered report leaves only covered ones behind.
LEMMA SettleCovers ==
  ASSUME ReportInv, Types', NEW w \in Webhook, pc[w] \in {"NEXT", "CHECKED", "FOUND"},
         Settle(w), batch' = batch, NEW c, c = Current(w), Covered(c)',
         \A r \in Report : Covered(r) => Covered(r)'
  PROVE  BatchesAreCovered'
<1>1. \A v \in Webhook : batch[v] \in Seq(Report) /\ pos[v] \in Nat
  BY DEF ReportInv, HandInv, Types
<1>2. /\ pos'[w] = pos[w] + 1 /\ pc'[w] = IF pos[w] + 1 < Len(batch[w]) THEN "NEXT" ELSE "DONE"
      /\ \A v \in Webhook : v # w => pos'[v] = pos[v] /\ pc'[v] = pc[v]
  BY DEF Settle, ReportInv, HandInv, Types
<1>3. pos[w] < Len(batch[w])
  BY DEF ReportInv, HandInv, Types
<1> SUFFICES ASSUME NEW v \in Webhook, NEW i \in 1 .. Len(batch[v]),
                    i <= pos'[v] \/ pc'[v] \in {"DONE", "DEAD"}
             PROVE  Covered(batch[v][i])'
  BY DEF BatchesAreCovered
<1>4. batch[v][i] \in Report
  BY <1>1
<1>5. CASE v # w
  BY <1>2, <1>4, <1>5 DEF ReportInv, BatchesAreCovered
<1>6. CASE v = w
  <2>1. i <= pos[w] + 1
    BY <1>1, <1>2, <1>3, <1>6
  <2>2. CASE i <= pos[w]
    BY <1>4, <1>6, <2>2 DEF ReportInv, BatchesAreCovered
  <2>3. CASE i = pos[w] + 1
    BY <1>6, <2>3 DEF Current
  <2> QED
    BY <1>1, <2>1, <2>2, <2>3
<1> QED
  BY <1>5, <1>6

LEMMA StepReportTypes ==
  ASSUME ReportInv, Types', [ReportsNext]_reportVars
  PROVE  ReportTypes'
<1>1. Types /\ ReportTypes
  BY DEF ReportInv, HandInv
<1> USE DEF Types, ReportTypes
<1>2. CASE Commit
  BY <1>1, <1>2 DEF Commit
<1>3. CASE Happen
  BY <1>1, <1>3 DEF Happen
<1>4. ASSUME NEW w \in Webhook, Post(w) PROVE ReportTypes'
  <2>1. /\ UNCHANGED <<faults, row, reported, marks, pos, restarts, dropped>>
        /\ pc[w] = "NONE" /\ pc' = [pc EXCEPT ![w] = "NEXT"]
        /\ \A v \in Webhook : v # w => batch'[v] = batch[v]
    BY <1>1, <1>4 DEF Post
  <2>2. pos[w] = 0 /\ Len(batch'[w]) >= 0
    BY <1>1, <2>1
  <2> QED
    BY <1>1, <2>1, <2>2
<1>5. ASSUME NEW w \in Webhook, Process(w)
      PROVE  ReportTypes'
  <2>1. pc[w] \in {"NEXT", "CHECKED", "FOUND"}
    BY <1>5 DEF Process, CheckNew, CheckKnown, CheckFails, Find, Orphan, Update, Swallow
  <2>2. Current(w) \in Report /\ KeyOf(Current(w)) \in Report
    BY <1>1, <2>1, CurrentType DEF KeyOf
  <2>3. UNCHANGED <<faults, reported, batch, restarts>>
    BY <1>5 DEF Process, CheckNew, CheckKnown, CheckFails, Find, Orphan, Update, Swallow
  <2>4. dropped' \subseteq Report /\ marks' \subseteq Report
    BY <1>1, <1>5, <2>2 DEF Process, CheckNew, CheckKnown, CheckFails, Find, Orphan, Update, Swallow
  <2>5. row' \in {"UNCOMMITTED", "SENT", "DELIVERED", "FAILED"}
    BY <1>1, <1>5, <2>2
       DEF Process, CheckNew, CheckKnown, CheckFails, Find, Orphan, Update, Swallow, RowStatus, Report
  <2>6. \A v \in Webhook : v # w => pos'[v] = pos[v] /\ pc'[v] = pc[v]
    BY <1>1, <1>5
       DEF Process, CheckNew, CheckKnown, CheckFails, Find, Orphan, Update, Swallow, Settle
  <2>7. pc'[w] \in {"NEXT", "CHECKED", "FOUND", "DONE"} /\ pos'[w] <= Len(batch[w])
    <3>1. pos[w] \in Nat /\ pos[w] < Len(batch[w]) /\ Len(batch[w]) \in Nat
      BY <1>1, <2>1
    <3>2. CASE Settle(w)
      BY <1>1, <3>1, <3>2 DEF Settle
    <3>3. CASE CheckNew(w) \/ CheckFails(w) \/ Find(w)
      BY <1>1, <3>1, <3>3 DEF CheckNew, CheckFails, Find
    <3> QED
      BY <1>5, <3>2, <3>3 DEF Process, CheckKnown, Orphan, Update, Swallow
  <2> QED
    BY <1>1, <2>1, <2>3, <2>4, <2>5, <2>6, <2>7
<1>6. ASSUME NEW w \in Webhook, WebhookCrash(w)
      PROVE  ReportTypes'
  <2>1. pc[w] \in {"NEXT", "CHECKED", "FOUND"} /\ Current(w) \in Report
    BY <1>1, <1>6, CurrentType DEF WebhookCrash
  <2>2. Ahead(w) \subseteq Report
    <3>1. batch[w] \in Seq(Report) /\ pos[w] \in Nat
      BY <1>1
    <3>2. SubSeq(batch[w], pos[w] + 1, Len(batch[w])) \in Seq(Report)
      BY <3>1
    <3>3. \A q \in Seq(Report) : \A i \in DOMAIN q : q[i] \in Report
      OBVIOUS
    <3> QED
      BY <3>2, <3>3 DEF Ahead, ToSet
  <2>3. dropped' \subseteq Report
    BY <1>1, <1>6, <2>1, <2>2 DEF WebhookCrash, InHand
  <2>4. /\ UNCHANGED <<faults, row, reported, marks, batch>>
        /\ restarts' = [restarts EXCEPT ![w] = restarts[w] + 1]
        /\ pos' = [pos EXCEPT ![w] = 0]
        /\ pc' = [pc EXCEPT ![w] = IF restarts[w] < MaxStalls THEN "NEXT" ELSE "DEAD"]
    BY <1>6 DEF WebhookCrash
  <2>5. restarts[w] \in Nat /\ restarts[w] <= MaxStalls /\ MaxStalls \in Nat /\ Len(batch[w]) >= 0
    BY <1>1, <2>1, QueueAssumption
  <2> QED
    BY <1>1, <2>1, <2>3, <2>4, <2>5
<1>7. CASE UNCHANGED reportVars
  BY <1>1, <1>7 DEF reportVars
<1> QED
  BY <1>2, <1>3, <1>4, <1>5, <1>6, <1>7 DEF ReportsNext

\* What a tail of a sequence holds.
LEMMA TailHolds ==
  ASSUME NEW S, NEW s \in Seq(S), NEW n \in Nat, NEW i \in 1 .. Len(s), n < i
  PROVE  s[i] \in ToSet(SubSeq(s, n + 1, Len(s)))
<1>1. PICK q : q = SubSeq(s, n + 1, Len(s))
  OBVIOUS
<1>2. PICK k : k = i - n
  OBVIOUS
<1>3. Len(q) = Len(s) - n /\ k \in 1 .. Len(q) /\ q \in Seq(S)
  BY <1>1, <1>2
<1>4. q[k] = s[i]
  BY <1>1, <1>2, <1>3
<1>5. k \in DOMAIN q
  BY <1>3
<1> QED
  BY <1>1, <1>4, <1>5 DEF ToSet

\* A worker takes a report in hand only with its mark set or unreadable, and lets
\* go of it only when it was written or given up.
LEMMA StepCovered ==
  ASSUME ReportInv, Types', [ReportsNext]_reportVars
  PROVE  MarksAreCovered' /\ BatchesAreCovered'
<1>1. Types /\ marks \subseteq Report /\ MarksAreCovered /\ BatchesAreCovered
  BY DEF ReportInv, HandInv, ReportTypes
<1>2. \A w \in Webhook : batch[w] \in Seq(Report) /\ \A i \in 1 .. Len(batch[w]) : batch[w][i] \in Report
  <2>1. \A q \in Seq(Report) : \A i \in 1 .. Len(q) : q[i] \in Report
    OBVIOUS
  <2> QED
    BY <1>1, <2>1 DEF Types
\* A step after which no webhook has left more behind.
<1>3. ASSUME \A r \in Report : Covered(r) => Covered(r)',
             \A r \in marks' : r \in marks \/ Covered(r)',
             \A w \in Webhook : /\ batch'[w] = batch[w] \/ (pos'[w] = 0 /\ pc'[w] = "NEXT")
                                /\ pos'[w] <= pos[w]
                                /\ pc'[w] \in {"DONE", "DEAD"} => pc[w] \in {"DONE", "DEAD"}
      PROVE  MarksAreCovered' /\ BatchesAreCovered'
  <2>1. MarksAreCovered'
    BY <1>1, <1>3 DEF MarksAreCovered
  <2>2. BatchesAreCovered'
    <3> SUFFICES ASSUME NEW v \in Webhook, NEW i \in 1 .. Len(batch'[v]),
                        i <= pos'[v] \/ pc'[v] \in {"DONE", "DEAD"},
                        NEW r, r = batch'[v][i]
                 PROVE  Covered(r)'
      BY DEF BatchesAreCovered
    <3>1. batch'[v] = batch[v] /\ (i <= pos[v] \/ pc[v] \in {"DONE", "DEAD"})
      BY <1>1, <1>3 DEF Types
    <3> QED
      BY <1>1, <1>2, <1>3, <3>1 DEF BatchesAreCovered, Types
  <2> QED
    BY <2>1, <2>2
<1>4. ASSUME Commit \/ Happen \/ UNCHANGED reportVars \/ \E w \in Webhook : Post(w)
      PROVE  MarksAreCovered' /\ BatchesAreCovered'
  <2>1. /\ dropped' = dropped /\ applied' = applied /\ marks' = marks
        /\ \A w \in Webhook : Busy(w) => Busy(w)' /\ Current(w)' = Current(w)
    BY <1>1, <1>4 DEF Commit, Happen, Post, reportVars, Busy, Current, Types
  <2>2. \A w \in Webhook : /\ batch'[w] = batch[w] \/ (pos'[w] = 0 /\ pc'[w] = "NEXT")
                           /\ pos'[w] <= pos[w]
                           /\ pc'[w] \in {"DONE", "DEAD"} => pc[w] \in {"DONE", "DEAD"}
    <3>1. pos' = pos /\ \A w \in Webhook : pos[w] <= pos[w]
      BY <1>1, <1>4 DEF Commit, Happen, Post, reportVars, Types
    <3>2. CASE Commit \/ Happen \/ UNCHANGED reportVars
      <4>1. batch' = batch /\ pc' = pc
        BY <3>2 DEF Commit, Happen, reportVars
      <4> QED
        BY <3>1, <4>1
    <3>3. CASE \E u \in Webhook : Post(u)
      <4>1. PICK u \in Webhook : Post(u)
        BY <3>3
      <4>2. pc[u] = "NONE" /\ pos[u] = 0 /\ pc' = [pc EXCEPT ![u] = "NEXT"]
        BY <1>1, <4>1 DEF Post, Types
      <4>3. \A w \in Webhook \ {u} : batch'[w] = batch[w]
        BY <1>1, <4>1 DEF Post, Types
      <4> QED
        BY <1>1, <3>1, <4>2, <4>3 DEF Types
    <3> QED
      BY <1>4, <3>2, <3>3
  <2> QED
    BY <1>1, <1>3, <2>1, <2>2, CoveredStays
<1>5. ASSUME NEW w \in Webhook, CheckNew(w) \/ CheckFails(w) \/ Find(w)
      PROVE  MarksAreCovered' /\ BatchesAreCovered'
  <2>1. /\ dropped' = dropped /\ applied' = applied /\ batch' = batch /\ pos' = pos
        /\ marks' = marks \/ marks' = marks \cup {Current(w)}
        /\ Busy(w)' /\ pc[w] \in {"NEXT", "CHECKED", "FOUND"}
        /\ \A v \in Webhook : v # w => pc'[v] = pc[v]
    BY <1>1, <1>5 DEF CheckNew, CheckFails, Find, KeyOf, Busy, Types
  <2>2. \A v \in Webhook : Current(v)' = Current(v)
    BY <2>1 DEF Current
  <2>3. \A v \in Webhook : Busy(v) => Busy(v)' /\ Current(v)' = Current(v)
    BY <2>1, <2>2 DEF Busy
  <2>4. \A r \in Report : Covered(r) => Covered(r)'
    BY <1>1, <2>1, <2>3, CoveredStays
  <2>5. \A r \in marks' : r \in marks \/ Covered(r)'
    BY <2>1, <2>2 DEF Covered
  <2> QED
    BY <1>1, <1>3, <2>1, <2>4, <2>5 DEF Types, Busy
<1>6. ASSUME NEW w \in Webhook, CheckKnown(w) \/ Orphan(w) \/ Update(w) \/ Swallow(w)
      PROVE  MarksAreCovered' /\ BatchesAreCovered'
  <2>1. PICK c : c = Current(w)
    OBVIOUS
  <2>2. /\ pc[w] \in {"NEXT", "CHECKED", "FOUND"} /\ Settle(w) /\ batch' = batch /\ marks' = marks
        /\ dropped \subseteq dropped'
    BY <1>6 DEF CheckKnown, Orphan, Update, Swallow
  <2>3. c \in Report
    BY <1>1, <2>1, <2>2, CurrentType
  <2>4. \A r \in Report : applied[r] > 0 => applied'[r] > 0
    <3>1. applied' = applied \/ applied' = [applied EXCEPT ![c] = applied[c] + 1]
      BY <1>6, <2>1 DEF CheckKnown, Orphan, Update, Swallow
    <3>2. \A r \in Report : applied[r] \in Nat
      BY <1>1 DEF Types
    <3> SUFFICES ASSUME NEW r \in Report, applied[r] > 0 PROVE applied'[r] > 0
      OBVIOUS
    <3>3. applied \in [Report -> Nat]
      BY <1>1 DEF Types
    <3>4. applied'[r] = applied[r] \/ applied'[r] = applied[r] + 1
      BY <2>3, <3>1, <3>3
    <3> QED
      BY <3>2, <3>4
  <2>5. Busy(w) => c \in dropped' \/ applied'[c] > 0
    BY <1>1, <1>6, <2>1, <2>3 DEF CheckKnown, Orphan, Update, Swallow, Types, Busy
  <2>6. \A v \in Webhook : v # w => (Busy(v) => Busy(v)' /\ Current(v)' = Current(v))
    BY <1>1, <2>2, SettleOne
  <2>7. \A r \in Report : Covered(r) => Covered(r)'
    BY <1>1, <2>1, <2>2, <2>4, <2>5, <2>6, CoveredStays
  <2>8. Covered(c)'
    <3>1. CASE CheckKnown(w)
      BY <1>1, <2>1, <2>3, <2>7, <3>1 DEF CheckKnown, KeyOf, MarksAreCovered
    <3>2. CASE ~CheckKnown(w)
      <4>1. Busy(w)
        BY <1>6, <3>2 DEF Orphan, Update, Swallow, Busy
      <4> QED
        BY <2>5, <4>1 DEF Covered
    <3> QED
      BY <3>1, <3>2
  <2>9. MarksAreCovered'
    BY <1>1, <2>2, <2>7 DEF MarksAreCovered
  <2> QED
    BY <2>1, <2>2, <2>7, <2>8, <2>9, SettleCovers
<1>7. ASSUME NEW w \in Webhook, WebhookCrash(w)
      PROVE  MarksAreCovered' /\ BatchesAreCovered'
  <2>1. /\ pc[w] \in {"NEXT", "CHECKED", "FOUND"} /\ applied' = applied /\ marks' = marks
        /\ batch' = batch /\ pos' = [pos EXCEPT ![w] = 0]
        /\ pc' = [pc EXCEPT ![w] = IF restarts[w] < MaxStalls THEN "NEXT" ELSE "DEAD"]
        /\ dropped' = dropped \cup InHand(w) \cup (IF restarts[w] < MaxStalls THEN {} ELSE Ahead(w))
    BY <1>7 DEF WebhookCrash
  <2>2. Busy(w) => Current(w) \in dropped'
    BY <2>1 DEF InHand, Busy
  <2>3. \A v \in Webhook : v # w => (Busy(v) => Busy(v)' /\ Current(v)' = Current(v))
    BY <1>1, <2>1 DEF Busy, Current, Types
  <2>4. \A r \in Report : Covered(r) => Covered(r)'
    BY <1>1, <2>1, <2>2, <2>3, CoveredStays
  <2>5. CASE restarts[w] < MaxStalls
    BY <1>1, <1>3, <2>1, <2>4, <2>5 DEF Types
  <2>6. CASE ~(restarts[w] < MaxStalls)
    <3>1. MarksAreCovered'
      BY <1>1, <2>1, <2>4 DEF MarksAreCovered
    <3>2. BatchesAreCovered'
      <4> SUFFICES ASSUME NEW v \in Webhook, NEW i \in 1 .. Len(batch[v]),
                          i <= pos'[v] \/ pc'[v] \in {"DONE", "DEAD"},
                          NEW r, r = batch[v][i]
                   PROVE  Covered(r)'
        BY <2>1 DEF BatchesAreCovered
      <4>1. r \in Report
        BY <1>2
      <4>2. CASE v # w
        BY <1>1, <2>1, <2>4, <4>1, <4>2 DEF BatchesAreCovered, Types
      <4>3. CASE v = w /\ i <= pos[w]
        BY <1>1, <2>4, <4>1, <4>3 DEF BatchesAreCovered
      <4>4. CASE v = w /\ ~(i <= pos[w])
        <5>1. r \in Ahead(w)
          BY <1>1, <4>4, TailHolds DEF Ahead, Types
        <5>2. r \in dropped'
          BY <2>1, <2>6, <5>1
        <5> QED
          BY <5>2 DEF Covered
      <4> QED
        BY <4>2, <4>3, <4>4
    <3> QED
      BY <3>1, <3>2
  <2> QED
    BY <2>5, <2>6
<1> QED
  BY <1>4, <1>5, <1>6, <1>7 DEF ReportsNext, Process

LEMMA NextReportInv == ReportInv /\ [ReportsNext]_reportVars => ReportInv'
<1> SUFFICES ASSUME ReportInv, [ReportsNext]_reportVars PROVE ReportInv'
  OBVIOUS
<1>1. HandInv' /\ Types'
  BY NextHandInv DEF ReportInv, HandInv
<1> QED
  BY <1>1, StepReportTypes, StepCovered DEF ReportInv

\* WhatsAppWebhookService.processStatusUpdates: when the webhooks are through, every
\* report they carried and did not give up was written to its row, though a mark
\* makes all but one of them skip it; and variables have their types.
THEOREM WhatsAppPostedIsApplied == ReportsSpec => []PostedIsApplied
<1>1. ASSUME ReportInv PROVE ReportsTypeOK
  BY <1>1 DEF ReportInv, HandInv, Types, ReportTypes, ReportsTypeOK
<1>2. ASSUME ReportInv, Settled, NEW r \in Posted \ dropped PROVE applied[r] > 0
  <2>0. PICK w \in Webhook : r \in ToSet(batch[w])
    BY DEF Posted
  <2>1. PICK i \in DOMAIN batch[w] : r = batch[w][i]
    BY <2>0 DEF ToSet
  <2>2. batch[w] \in Seq(Report) /\ i \in 1 .. Len(batch[w])
    BY <1>2, <2>1 DEF ReportInv, HandInv, Types
  <2>3. pc[w] \in {"DONE", "DEAD"}
    BY <1>2, <2>2 DEF Settled, ReportInv, ReportTypes
  <2>4. Covered(r)
    BY <1>2, <2>1, <2>2, <2>3 DEF ReportInv, BatchesAreCovered
  <2>5. \A v \in Webhook : ~Busy(v)
    BY <1>2 DEF Settled, Busy
  <2> QED
    BY <1>2, <2>4, <2>5 DEF Covered
<1>3. ReportInv => PostedIsApplied
  BY <1>1, <1>2 DEF PostedIsApplied
<1> QED
  BY InitReportInv, NextReportInv, <1>3, PTL DEF ReportsSpec
-----------------------------------------------------------------------------
(* NotificationJobs: the latest row, and taking a row back *)

LEMMA LeastNat ==
  ASSUME NEW S \in SUBSET Nat, S # {}
  PROVE  \E m \in S : \A k \in S : m <= k
<1>1. \E m \in S : \A k \in S : ~(<<k, m>> \in OpToRel(<, Nat))
  BY NatLessThanWellFounded, WFMin
<1>2. PICK m \in S : \A k \in S : ~(<<k, m>> \in OpToRel(<, Nat))
  BY <1>1
<1>3. \A k \in S : ~(k < m)
  BY <1>2 DEF OpToRel
<1> QED
  BY <1>3

LEMMA GreatestIndex ==
  ASSUME NEW n \in Nat, NEW S \in SUBSET (1 .. n), S # {}
  PROVE  Max(S) \in S
<1> DEFINE Back == {n - i : i \in S}
<1>1. Back \in SUBSET Nat /\ Back # {}
  <2>1. \A i \in S : n - i \in Nat
    OBVIOUS
  <2> QED BY <2>1
<1>2. PICK d \in Back : \A e \in Back : d <= e
  <2> HIDE DEF Back
  <2> QED BY <1>1, LeastNat
<1>3. PICK m \in S : d = n - m
  OBVIOUS
<1>4. \A k \in S : n - m <= n - k
  BY <1>2, <1>3
<1>5. \A k \in S : m >= k
  BY <1>4
<1> QED
  BY <1>5 DEF Max

LEMMA LatestRow ==
  ASSUME order \in Seq(Job), NEW rows, rows \subseteq ToSet(order)
  PROVE  /\ rows = {} => Newest(rows) = NoRow
         /\ rows # {} => Newest(rows) \in rows
<1> SUFFICES ASSUME rows # {} PROVE Newest(rows) \in rows
  BY DEF Newest
<1> DEFINE At == {i \in DOMAIN order : order[i] \in rows}
<1>1. At \in SUBSET (1 .. Len(order)) /\ Len(order) \in Nat /\ At # {}
  BY DEF ToSet
<1>2. Max(At) \in At
  <2> HIDE DEF At
  <2> QED BY <1>1, GreatestIndex
<1>3. Newest(rows) = order[Max(At)]
  BY DEF Newest
<1>4. order[Max(At)] \in rows
  BY <1>2
<1> QED
  BY <1>3, <1>4

LEMMA FirstIndex ==
  ASSUME NEW s \in Seq(Job), NEW e \in ToSet(s)
  PROVE  \E i \in 1 .. Len(s) : s[i] = e /\ RemoveFirst(s, e) = RemoveAt(s, i)
<1> DEFINE At == {i \in 1 .. Len(s) : s[i] = e}
<1>1. At \in SUBSET Nat /\ At # {}
  BY DEF ToSet
<1>2. Min(At) \in At
  <2>1. PICK m \in At : \A k \in At : m <= k
    <3> HIDE DEF At
    <3> QED BY <1>1, LeastNat
  <2> HIDE DEF At
  <2> QED BY <2>1 DEF Min
<1>3. RemoveFirst(s, e) = RemoveAt(s, Min(At))
  BY <1>1 DEF RemoveFirst, SelectInSeq
<1> QED
  BY <1>2, <1>3

LEMMA RowTakenBack ==
  ASSUME NEW s \in Seq(Job), IsInjective(s), NEW e \in ToSet(s), NEW t, t = RemoveFirst(s, e)
  PROVE  t \in Seq(Job) /\ IsInjective(t) /\ ToSet(t) = ToSet(s) \ {e}
<1>1. PICK i \in 1 .. Len(s) : s[i] = e /\ t = RemoveAt(s, i)
  BY FirstIndex
<1>2. /\ t \in Seq(Job) /\ Len(t) = Len(s) - 1
      /\ \A k \in 1 .. Len(t) : t[k] = IF k < i THEN s[k] ELSE s[k + 1]
  <2>1. PICK a, b : a = SubSeq(s, 1, i - 1) /\ b = SubSeq(s, i + 1, Len(s))
    OBVIOUS
  <2>2. /\ a \in Seq(Job) /\ Len(a) = i - 1
        /\ \A k \in 1 .. Len(a) : a[k] = s[k]
    BY <2>1
  <2>3. /\ b \in Seq(Job) /\ Len(b) = Len(s) - i
        /\ \A k \in 1 .. Len(b) : b[k] = s[k + i]
    BY <2>1
  <2>4. t = a \o b
    BY <1>1, <2>1 DEF RemoveAt
  <2>5. t \in Seq(Job) /\ Len(t) = Len(s) - 1
    <3>1. a \in Seq(Job) /\ b \in Seq(Job)
      BY <2>2, <2>3
    <3>2. a \o b \in Seq(Job)
      BY <3>1
    <3>3. Len(a \o b) = Len(a) + Len(b)
      BY <3>1
    <3> QED
      BY <2>2, <2>3, <2>4, <3>2, <3>3
  <2>6. ASSUME NEW k \in 1 .. Len(t) PROVE t[k] = IF k < i THEN s[k] ELSE s[k + 1]
    <3>1. CASE k < i
      BY <2>2, <2>3, <2>4, <2>5, <3>1
    <3>2. CASE ~(k < i)
      <4>1. PICK m : m = k - Len(a)
        OBVIOUS
      <4>2. m \in 1 .. Len(b) /\ m + i = k + 1
        BY <2>2, <2>3, <2>5, <3>2, <4>1
      <4>3. t[k] = b[m]
        BY <2>2, <2>3, <2>4, <2>5, <3>2, <4>1
      <4>4. b[m] = s[k + 1]
        BY <2>3, <4>2
      <4> QED
        BY <3>2, <4>3, <4>4
    <3> QED
      BY <3>1, <3>2
  <2> QED
    BY <2>5, <2>6
<1>3. IsInjective(t)
  <2> SUFFICES ASSUME NEW k \in 1 .. Len(t), NEW m \in 1 .. Len(t), t[k] = t[m] PROVE k = m
    BY <1>2 DEF IsInjective
  <2>1. PICK x, y : x = (IF k < i THEN k ELSE k + 1) /\ y = (IF m < i THEN m ELSE m + 1)
    OBVIOUS
  <2>2. x \in 1 .. Len(s) /\ y \in 1 .. Len(s) /\ t[k] = s[x] /\ t[m] = s[y]
    BY <1>2, <2>1
  <2>3. x = y
    <3>1. \A v, z \in 1 .. Len(s) : s[v] = s[z] => v = z
      BY DEF IsInjective
    <3> QED
      BY <2>2, <3>1
  <2> QED
    BY <2>1, <2>3
<1>4. ToSet(t) \subseteq ToSet(s) \ {e}
  BY <1>1, <1>2 DEF ToSet, IsInjective
<1>5. ASSUME NEW x \in ToSet(s) \ {e} PROVE x \in ToSet(t)
  <2>1. PICK m \in 1 .. Len(s) : s[m] = x
    BY DEF ToSet
  <2>2. PICK k : k = IF m < i THEN m ELSE m - 1
    OBVIOUS
  <2>3. k \in 1 .. Len(t) /\ t[k] = x
    BY <1>1, <1>2, <1>5, <2>1, <2>2
  <2> QED
    BY <1>2, <2>3 DEF ToSet
<1> QED
  BY <1>2, <1>3, <1>4, <1>5

-----------------------------------------------------------------------------
(* NotificationJobs: one delivery for each record of it, and the log at the end *)

\* The queue has learnt of a delivery, or is about to, or did not; and each took a
\* start of the job, which ends with an attempt counted or a worker's death.
Taken == {"ACCEPTED", "LOGGED", "COMPLETED"}
SendsCounted ==
  /\ sent \in [Job -> Nat] /\ unlearnt \in [Job -> Nat]
  /\ \A j \in Job : sent[j] = unlearnt[j] + IF status[j] \in Taken THEN 1 ELSE 0
  /\ \A j \in Job :
       sent[j] <= attempts[j] + stalls[j]
                  + IF status[j] \in {"WAITING", "OPEN", "FAILED"} THEN 0 ELSE 1

JobStatus == Working \cup {"WAITING", "COMPLETED", "FAILED"}
JobTypes ==
  /\ faults \in Environments /\ disturbed \subseteq Job
  /\ status \in [Job -> JobStatus]
  /\ attempts \in [Job -> 0 .. MaxAttempts] /\ stalls \in [Job -> 0 .. MaxStalls + 1]
  /\ target \in [Job -> Job \cup {NoRow}]
  /\ handlers \subseteq [job : Job, attempt : 0 .. MaxAttempts, row : Job \cup {NoRow, Unread}]
  /\ log \in [Job -> LogStatus]
  /\ \A j \in Job :
       /\ attempts[j] + stalls[j] <= MaxAttempts + MaxStalls
       /\ status[j] # "FAILED" => attempts[j] < MaxAttempts /\ stalls[j] <= MaxStalls

\* A row that was committed stays; what catch and handler are about to write is one.
RowsStay ==
  /\ \A j \in Job : target[j] # NoRow => log[target[j]] # "NONE"
  /\ \A h \in handlers : h.row \in Job => log[h.row] # "NONE"

\* The rows are those committed and those of the open transactions.
Rows == {k \in Job : log[k] # "NONE" \/ status[k] \in InTransaction}
RowsInOrder == order \in Seq(Job) /\ IsInjective(order) /\ ToSet(order) = Rows

\* What the log tells of an undisturbed job on its way: nobody handles a failure of
\* it while it is worked on, and the rows that are looked up are found.
Handled(j) == \E h \in handlers : h.job = j
ToldSoFar ==
  /\ \A j \in Job \ disturbed :
       /\ status[j] \in Working \cup {"COMPLETED"} => ~Handled(j)
       /\ status[j] \in {"LOGGED", "COMPLETED"} => log[j] = "SENT"
       /\ status[j] \in {"ERROR", "FOUND", "FAILED"} \/ Handled(j) => log[j] # "NONE"
       /\ status[j] = "FOUND" => target[j] # NoRow
       /\ status[j] = "FAILED" => Handled(j) \/ log[j] = "FAILED"
  /\ \A h \in handlers : h.job \notin disturbed => h.row # NoRow

JobsInv == SendsCounted /\ JobTypes /\ RowsStay /\ RowsInOrder /\ ToldSoFar
LEMMA InitJobsInv == JobsInit => JobsInv
<1> SUFFICES ASSUME JobsInit PROVE JobsInv
  OBVIOUS
<1>1. SendsCounted
  BY DEF JobsInit, SendsCounted, Taken
<1>2. JobTypes
  BY JobAssumption, QueueAssumption DEF JobsInit, JobTypes, JobStatus, LogStatus, Over
<1>3. RowsStay /\ ToldSoFar
  BY DEF JobsInit, RowsStay, ToldSoFar, Handled, Working, InTransaction
<1>4. RowsInOrder
  <2>1. order = <<>> /\ Rows = {}
    BY DEF JobsInit, Rows, InTransaction
  <2> QED
    BY <2>1 DEF RowsInOrder, ToSet, IsInjective
<1> QED
  BY <1>1, <1>2, <1>3, <1>4 DEF JobsInv

-----------------------------------------------------------------------------
(* What the steps find and write *)

LEMMA RowFound ==
  ASSUME JobsInv, NEW j \in Job, NEW r, r = Newest(Candidates(j))
  PROVE  /\ r \in Job \cup {NoRow}
         /\ r \in Job => log[r] # "NONE"
         /\ log[j] # "NONE" => r \in Job
<1>1. PICK rows : rows = Candidates(j)
  OBVIOUS
<1>2. /\ rows \subseteq Job /\ \A k \in rows : log[k] # "NONE"
      /\ log[j] # "NONE" => j \in rows
  BY <1>1 DEF Candidates
<1>3. rows \subseteq ToSet(order) /\ order \in Seq(Job)
  BY <1>2 DEF JobsInv, RowsInOrder, Rows
<1>4. /\ rows = {} => r = NoRow
      /\ rows # {} => r \in rows
  BY <1>1, <1>3, LatestRow
<1> QED
  BY <1>2, <1>4, JobAssumption

LEMMA RowWritten ==
  ASSUME JobsInv, NEW j \in Job, NEW r \in Job \cup {NoRow}, r \in Job => log[r] # "NONE",
         NEW value \in {"RETRYING", "FAILED"}, Write(j, r, value)
  PROVE  /\ disturbed \subseteq disturbed' /\ disturbed' \subseteq Job
         /\ log' \in [Job -> LogStatus]
         /\ \A k \in Job : log'[k] = "NONE" <=> log[k] = "NONE"
         /\ \A k \in Job \ disturbed' : k # j => log'[k] = log[k]
         /\ j \notin disturbed' /\ r # NoRow => log'[j] = value
<1>1. disturbed \subseteq Job /\ log \in [Job -> LogStatus]
  BY DEF JobsInv, JobTypes
<1>2. CASE r = NoRow /\ UNCHANGED <<log, disturbed>>
  BY <1>1, <1>2
<1>3. CASE disturbed' = disturbed \cup {j} /\ UNCHANGED log
  BY <1>1, <1>3
<1>4. CASE /\ r # NoRow /\ log' = [log EXCEPT ![r] = value]
           /\ disturbed' = IF r = j THEN disturbed ELSE disturbed \cup {j, r}
  BY <1>1, <1>4 DEF LogStatus
<1> QED
  BY <1>2, <1>3, <1>4 DEF Write

\* A step of a job inside its transaction or between two attempts, which leaves the
\* rows alone.
LEMMA OrderStays ==
  ASSUME JobsInv, order' = order, Rows' = Rows
  PROVE  RowsInOrder'
  BY DEF JobsInv, RowsInOrder

LEMMA RowVanishes ==
  ASSUME JobsInv, NEW j \in Job, status[j] \in Working, Vanish(j), log' = log,
         NEW x \in {"ERROR", "WAITING", "FAILED"}, status' = [status EXCEPT ![j] = x]
  PROVE  RowsInOrder'
<1>1. /\ order \in Seq(Job) /\ IsInjective(order) /\ ToSet(order) = Rows
      /\ status \in [Job -> JobStatus]
  BY DEF JobsInv, RowsInOrder, JobTypes
<1>2. Rows' = IF log[j] = "NONE" THEN Rows \ {j} ELSE Rows
  BY <1>1 DEF Rows, InTransaction
<1>3. CASE log[j] # "NONE"
  BY <1>2, <1>3, OrderStays DEF Vanish
<1>4. CASE log[j] = "NONE" /\ j \in Rows
  <2>1. order' = RemoveFirst(order, j)
    BY <1>4 DEF Vanish
  <2>2. PICK t : t = RemoveFirst(order, j)
    OBVIOUS
  <2>3. t \in Seq(Job) /\ IsInjective(t) /\ ToSet(t) = ToSet(order) \ {j}
    BY <1>1, <1>4, <2>2, RowTakenBack
  <2>4. order' = t
    BY <2>1, <2>2
  <2> QED
    BY <1>1, <1>2, <1>4, <2>3, <2>4 DEF RowsInOrder
<1>5. CASE log[j] = "NONE" /\ j \notin Rows
  <2>1. ~ \E i \in 1 .. Len(order) : order[i] = j
    BY <1>1, <1>5 DEF ToSet
  <2>2. order' = order
    BY <1>5, <2>1 DEF Vanish, RemoveFirst
  <2> QED
    BY <1>2, <1>5, <2>2, OrderStays
<1> QED
  BY <1>3, <1>4, <1>5

-----------------------------------------------------------------------------
LEMMA NextSendsCounted == JobsInv /\ [JobsNext]_deliveryVars => SendsCounted'
<1> SUFFICES ASSUME JobsInv, [JobsNext]_deliveryVars PROVE SendsCounted'
  OBVIOUS
<1>1. /\ SendsCounted /\ status \in [Job -> JobStatus]
      /\ attempts \in [Job -> Nat] /\ stalls \in [Job -> Nat]
  BY JobAssumption, QueueAssumption DEF JobsInv, JobTypes
<1> USE DEF SendsCounted, Taken
\* A step of a run that sends nothing.
<1>2. ASSUME NEW j \in Job, NEW x, status' = [status EXCEPT ![j] = x],
             (x \in Taken) <=> (status[j] \in Taken),
             x \in {"WAITING", "OPEN", "FAILED"} => status[j] \in {"WAITING", "OPEN", "FAILED"},
             UNCHANGED <<sent, unlearnt, attempts, stalls>>
      PROVE  SendsCounted'
  BY <1>1, <1>2
<1>3. ASSUME NEW j \in Job, Work(j) PROVE SendsCounted'
  <2>1. CASE Accept(j)
    BY <1>1, <2>1 DEF Accept
  <2>2. CASE Begin(j)
    BY <1>2, <2>2 DEF Begin
  <2>3. CASE Refuse(j)
    BY <1>2, <2>3 DEF Refuse, history
  <2>4. CASE Unconfirmed(j)
    BY <1>1, <2>4 DEF Unconfirmed
  <2>5. CASE CommitSent(j)
    BY <1>2, <2>5 DEF CommitSent, history
  <2>6. CASE Complete(j)
    BY <1>2, <2>6 DEF Complete, history
  <2>7. CASE CommitFailed(j)
    BY <1>2, <2>7 DEF CommitFailed, history
  <2>8. CASE Look(j)
    BY <1>2, <2>8 DEF Look, history
  <2>9. CASE Mark(j)
    <3>1. PICK x \in {"WAITING", "FAILED"} : status' = [status EXCEPT ![j] = x]
      BY <2>9 DEF Mark
    <3>2. /\ status[j] = "FOUND" /\ attempts' = [attempts EXCEPT ![j] = attempts[j] + 1]
          /\ UNCHANGED <<stalls, sent, unlearnt>>
      BY <2>9 DEF Mark
    <3> QED
      BY <1>1, <3>1, <3>2
  <2> QED
    BY <1>3, <2>1, <2>2, <2>3, <2>4, <2>5, <2>6, <2>7, <2>8, <2>9 DEF Work
<1>4. ASSUME NEW j \in Job, Abort(j) \/ JobCrash(j) PROVE SendsCounted'
  <2>1. /\ status[j] \in Working /\ sent' = sent
        /\ unlearnt' = [unlearnt EXCEPT ![j] =
             IF status[j] \in {"ACCEPTED", "LOGGED"} THEN unlearnt[j] + 1 ELSE unlearnt[j]]
    BY <1>4 DEF Abort, JobCrash, Vanish, Working
  <2>2. status[j] # "COMPLETED"
    BY <2>1 DEF Working, InTransaction
  <2>3. CASE Abort(j)
    BY <1>1, <2>1, <2>2, <2>3 DEF Abort
  <2>4. CASE JobCrash(j)
    <3>1. PICK x \in {"WAITING", "FAILED"} : status' = [status EXCEPT ![j] = x]
      BY <2>4 DEF JobCrash
    <3>2. stalls' = [stalls EXCEPT ![j] = stalls[j] + 1] /\ attempts' = attempts
      BY <2>4 DEF JobCrash
    <3> QED
      BY <1>1, <2>1, <2>2, <3>1, <3>2
  <2> QED
    BY <1>4, <2>3, <2>4
<1>5. CASE \/ \E h \in handlers : Handle(h) \/ HandlerDies(h)
           \/ UNCHANGED deliveryVars
  <2>1. UNCHANGED <<status, attempts, stalls, sent, unlearnt>>
    BY <1>5 DEF Handle, OnFailedLook, OnFailedMark, HandlerDies, deliveryVars, history
  <2> QED
    BY <1>1, <2>1
<1> QED
  BY <1>3, <1>4, <1>5 DEF JobsNext
\* What Mark and OnFailedMark do to the rows.
LEMMA MarkDoes ==
  ASSUME JobsInv, NEW j \in Job, Mark(j)
  PROVE  /\ disturbed \subseteq disturbed' /\ disturbed' \subseteq Job
         /\ log' \in [Job -> LogStatus]
         /\ \A k \in Job : log'[k] = "NONE" <=> log[k] = "NONE"
         /\ \A k \in Job \ disturbed' : k # j => log'[k] = log[k]
<1>1. /\ target[j] \in Job \cup {NoRow}
      /\ target[j] \in Job => log[target[j]] # "NONE"
  BY JobAssumption DEF JobsInv, JobTypes, RowsStay
<1>2. PICK value \in {"RETRYING", "FAILED"} : Write(j, target[j], value)
  BY DEF Mark
<1> QED
  BY <1>1, <1>2, RowWritten

LEMMA OnFailedMarkDoes ==
  ASSUME JobsInv, NEW h \in handlers, OnFailedMark(h)
  PROVE  /\ disturbed \subseteq disturbed' /\ disturbed' \subseteq Job
         /\ log' \in [Job -> LogStatus]
         /\ \A k \in Job : log'[k] = "NONE" <=> log[k] = "NONE"
         /\ \A k \in Job \ disturbed' : k # h.job => log'[k] = log[k]
         /\ h.job \notin disturbed' /\ h.row # NoRow => log'[h.job] = "FAILED"
<1>1. h.job \in Job /\ h.row \in Job \cup {NoRow, Unread}
  BY DEF JobsInv, JobTypes
<1>2. h.row \in Job \cup {NoRow} /\ (h.row \in Job => log[h.row] # "NONE")
  BY <1>1 DEF OnFailedMark, JobsInv, RowsStay
<1>3. Write(h.job, h.row, "FAILED")
  BY DEF OnFailedMark
<1> QED
  BY <1>1, <1>2, <1>3, RowWritten

\* The handler that has looked for its row.
LEMMA OnFailedLookDoes ==
  ASSUME JobsInv, NEW h \in handlers, OnFailedLook(h)
  PROVE  \E g : /\ handlers' = (handlers \ {h}) \cup {g}
                /\ g \in [job : Job, attempt : 0 .. MaxAttempts, row : Job \cup {NoRow, Unread}]
                /\ g.job = h.job
                /\ g.row \in Job => log[g.row] # "NONE"
                /\ log[h.job] # "NONE" => g.row \in Job
<1>1. h \in [job : Job, attempt : 0 .. MaxAttempts, row : Job \cup {NoRow, Unread}]
  BY DEF JobsInv, JobTypes
<1>2. PICK r : r = Newest(Candidates(h.job))
  OBVIOUS
<1>3. /\ r \in Job \cup {NoRow}
      /\ r \in Job => log[r] # "NONE"
      /\ log[h.job] # "NONE" => r \in Job
  BY <1>1, <1>2, RowFound
<1>4. PICK g : g = [h EXCEPT !.row = r]
  OBVIOUS
<1>5. /\ g \in [job : Job, attempt : 0 .. MaxAttempts, row : Job \cup {NoRow, Unread}]
      /\ g.job = h.job /\ g.row = r
  BY <1>1, <1>3, <1>4
<1>6. handlers' = (handlers \ {h}) \cup {g}
  BY <1>2, <1>4 DEF OnFailedLook
<1> QED
  BY <1>3, <1>5, <1>6

LEMMA NextJobTypes == JobsInv /\ [JobsNext]_deliveryVars => JobTypes'
<1> SUFFICES ASSUME JobsInv, [JobsNext]_deliveryVars PROVE JobTypes'
  OBVIOUS
<1>1. JobTypes /\ MaxAttempts \in Nat \ {0} /\ MaxStalls \in Nat
  BY JobAssumption, QueueAssumption DEF JobsInv
<1> USE DEF JobTypes, JobStatus, Working, InTransaction
<1>2. ASSUME NEW j \in Job, Begin(j) \/ Accept(j) \/ Refuse(j) \/ Unconfirmed(j) PROVE JobTypes'
  BY <1>1, <1>2 DEF Begin, Accept, Refuse, Unconfirmed, history
<1>3. ASSUME NEW j \in Job, CommitSent(j) \/ Complete(j) \/ CommitFailed(j) PROVE JobTypes'
  BY <1>1, <1>3 DEF CommitSent, Complete, CommitFailed, LogStatus, history
<1>4. ASSUME NEW j \in Job, Look(j) PROVE JobTypes'
  <2>1. PICK r : r = Newest(Candidates(j))
    OBVIOUS
  <2>2. r \in Job \cup {NoRow}
    BY <2>1, RowFound
  <2>3. target' = [target EXCEPT ![j] = r]
    BY <1>4, <2>1 DEF Look
  <2> QED
    BY <1>1, <1>4, <2>2, <2>3 DEF Look, history
<1>5. ASSUME NEW j \in Job, Mark(j) PROVE JobTypes'
  <2>1. disturbed' \subseteq Job /\ log' \in [Job -> LogStatus]
    BY <1>5, MarkDoes
  <2>2. PICK n : n = attempts[j] + 1
    OBVIOUS
  <2>3. n \in 0 .. MaxAttempts /\ attempts' = [attempts EXCEPT ![j] = n]
    BY <1>1, <1>5, <2>2 DEF Mark
  <2>4. attempts'[j] = n
    BY <1>1, <2>3
  <2>5. /\ status' = [status EXCEPT ![j] = IF n < MaxAttempts THEN "WAITING" ELSE "FAILED"]
        /\ handlers' = handlers \cup {[job |-> j, attempt |-> n, row |-> Unread]}
        /\ target' = [target EXCEPT ![j] = NoRow]
        /\ UNCHANGED <<faults, stalls>>
    BY <1>5, <2>4 DEF Mark, Event
  <2>6. handlers' \subseteq [job : Job, attempt : 0 .. MaxAttempts, row : Job \cup {NoRow, Unread}]
    BY <1>1, <2>3, <2>5
  <2>7. \A k \in Job :
          /\ attempts'[k] + stalls'[k] <= MaxAttempts + MaxStalls
          /\ status'[k] # "FAILED" => attempts'[k] < MaxAttempts /\ stalls'[k] <= MaxStalls
    <3>1. status[j] = "FOUND"
      BY <1>5 DEF Mark
    <3> QED
      BY <1>1, <2>2, <2>3, <2>5, <3>1
  <2> QED
    BY <1>1, <2>1, <2>3, <2>5, <2>6, <2>7
<1>6. ASSUME NEW j \in Job, Abort(j) PROVE JobTypes'
  BY <1>1, <1>6 DEF Abort, Vanish
<1>7. ASSUME NEW j \in Job, JobCrash(j) PROVE JobTypes'
  <2>1. /\ status[j] \in Working
        /\ disturbed' = disturbed \cup {j}
        /\ stalls' = [stalls EXCEPT ![j] = stalls[j] + 1]
        /\ target' = [target EXCEPT ![j] = NoRow]
        /\ status' = [status EXCEPT ![j] = IF stalls[j] < MaxStalls THEN "WAITING" ELSE "FAILED"]
        /\ UNCHANGED <<faults, attempts, log>>
    BY <1>7 DEF JobCrash, Vanish
  <2>2. stalls[j] \in Nat /\ stalls[j] <= MaxStalls
    BY <1>1, <2>1
  <2>3. handlers' = handlers \/ handlers' = handlers \cup {[job |-> j, attempt |-> attempts[j], row |-> Unread]}
    BY <1>7 DEF JobCrash, Event
  <2>4. handlers' \subseteq [job : Job, attempt : 0 .. MaxAttempts, row : Job \cup {NoRow, Unread}]
    BY <1>1, <2>3
  <2>5. stalls' \in [Job -> 0 .. MaxStalls + 1]
    BY <1>1, <2>1, <2>2
  <2>6. \A k \in Job :
          /\ attempts'[k] + stalls'[k] <= MaxAttempts + MaxStalls
          /\ status'[k] # "FAILED" => attempts'[k] < MaxAttempts /\ stalls'[k] <= MaxStalls
    BY <1>1, <2>1, <2>2
  <2> QED
    BY <1>1, <2>1, <2>4, <2>5, <2>6
<1>8. ASSUME NEW h \in handlers, OnFailedLook(h) PROVE JobTypes'
  <2>1. handlers' \subseteq [job : Job, attempt : 0 .. MaxAttempts, row : Job \cup {NoRow, Unread}]
    BY <1>1, <1>8, OnFailedLookDoes
  <2> QED
    BY <1>1, <1>8, <2>1 DEF OnFailedLook, history
<1>9. ASSUME NEW h \in handlers, OnFailedMark(h) PROVE JobTypes'
  <2>1. disturbed' \subseteq Job /\ log' \in [Job -> LogStatus]
    BY <1>9, OnFailedMarkDoes
  <2> QED
    BY <1>1, <1>9, <2>1 DEF OnFailedMark
<1>10. ASSUME NEW h \in handlers, HandlerDies(h) PROVE JobTypes'
  BY <1>1, <1>10 DEF HandlerDies
<1>11. CASE UNCHANGED deliveryVars
  BY <1>1, <1>11 DEF deliveryVars
<1> QED
  BY <1>2, <1>3, <1>4, <1>5, <1>6, <1>7, <1>8, <1>9, <1>10, <1>11 DEF JobsNext, Work, Handle
LEMMA NextRows == JobsInv /\ [JobsNext]_deliveryVars => RowsStay' /\ RowsInOrder'
<1> SUFFICES ASSUME JobsInv, [JobsNext]_deliveryVars PROVE RowsStay' /\ RowsInOrder'
  OBVIOUS
<1>1. RowsStay /\ RowsInOrder /\ JobTypes
  BY DEF JobsInv
<1>2. NoRow \notin Job /\ Unread \notin Job
  BY JobAssumption
\* Committed rows stay, and nothing new is about to be written.
<1>3. ASSUME \A k \in Job : log[k] # "NONE" => log'[k] # "NONE",
             \A j \in Job : target'[j] = target[j] \/ target'[j] = NoRow,
             \A h \in handlers' : h \in handlers \/ h.row = Unread
      PROVE  RowsStay'
  BY <1>1, <1>2, <1>3 DEF RowsStay, JobTypes
<1>4. ASSUME NEW j \in Job, Begin(j) PROVE RowsStay' /\ RowsInOrder'
  <2>1. RowsStay'
    BY <1>3, <1>4 DEF Begin
  <2>2. status[j] = "WAITING" /\ status' = [status EXCEPT ![j] = "OPEN"] /\ log' = log
    BY <1>4 DEF Begin
  <2>3. Rows' = Rows \cup {j}
    BY <1>1, <2>2 DEF Rows, InTransaction, JobTypes
  <2>4. CASE log[j] # "NONE"
    <3>1. order' = order
      BY <1>4, <2>4 DEF Begin
    <3>2. j \in Rows
      BY <2>4 DEF Rows
    <3> QED
      BY <2>1, <2>3, <3>1, <3>2, OrderStays
  <2>5. CASE log[j] = "NONE"
    <3>1. j \notin Rows
      BY <2>2, <2>5 DEF Rows, InTransaction
    <3>2. PICK t : t = Append(order, j)
      OBVIOUS
    <3>3. order \in Seq(Job) /\ IsInjective(order) /\ ToSet(order) = Rows
      BY <1>1 DEF RowsInOrder
    <3>4. /\ t \in Seq(Job) /\ Len(t) = Len(order) + 1
          /\ \A k \in 1 .. Len(order) : t[k] = order[k]
          /\ t[Len(t)] = j
      BY <3>2, <3>3
    <3>5. ToSet(t) = ToSet(order) \cup {j}
      BY <3>3, <3>4 DEF ToSet
    <3>6. IsInjective(t)
      <4>1. \A k \in 1 .. Len(order) : order[k] # j
        BY <3>1, <3>3 DEF ToSet
      <4>2. \A k, m \in 1 .. Len(order) : order[k] = order[m] => k = m
        BY <3>3 DEF IsInjective
      <4>3. \A k, m \in 1 .. Len(t) : t[k] = t[m] => k = m
        BY <3>3, <3>4, <4>1, <4>2
      <4> QED
        BY <3>4, <4>3 DEF IsInjective
    <3>7. order' = t
      BY <1>4, <2>5, <3>2 DEF Begin
    <3> QED
      BY <2>1, <2>3, <3>3, <3>4, <3>5, <3>6, <3>7 DEF RowsInOrder
  <2> QED
    BY <2>4, <2>5
<1>5. ASSUME NEW j \in Job, Accept(j) \/ Refuse(j) \/ Unconfirmed(j) \/ Complete(j)
      PROVE  RowsStay' /\ RowsInOrder'
  <2>1. Rows' = Rows
    BY <1>1, <1>5 DEF Rows, InTransaction, JobTypes, Accept, Refuse, Unconfirmed, Complete
  <2> QED
    BY <1>3, <1>5, <2>1, OrderStays DEF Accept, Refuse, Unconfirmed, Complete
<1>6. ASSUME NEW j \in Job, CommitSent(j) \/ CommitFailed(j) PROVE RowsStay' /\ RowsInOrder'
  <2>1. Rows' = Rows
    BY <1>1, <1>6 DEF Rows, InTransaction, JobTypes, CommitSent, CommitFailed
  <2>2. \A k \in Job : log[k] # "NONE" => log'[k] # "NONE"
    BY <1>1, <1>6 DEF JobTypes, CommitSent, CommitFailed
  <2> QED
    BY <1>3, <1>6, <2>1, <2>2, OrderStays DEF CommitSent, CommitFailed
<1>7. ASSUME NEW j \in Job, Look(j) PROVE RowsStay' /\ RowsInOrder'
  <2>1. Rows' = Rows
    BY <1>1, <1>7 DEF Rows, InTransaction, JobTypes, Look
  <2>2. PICK r : r = Newest(Candidates(j))
    OBVIOUS
  <2>3. r \in Job \cup {NoRow} /\ (r \in Job => log[r] # "NONE")
    BY <2>2, RowFound
  <2>4. target' = [target EXCEPT ![j] = r] /\ log' = log /\ handlers' = handlers /\ order' = order
    BY <1>7, <2>2 DEF Look
  <2>5. RowsStay'
    BY <1>1, <1>2, <2>3, <2>4 DEF RowsStay, JobTypes
  <2> QED
    BY <2>1, <2>4, <2>5, OrderStays
<1>8. ASSUME NEW j \in Job, Mark(j) PROVE RowsStay' /\ RowsInOrder'
  <2>1. \A k \in Job : log'[k] = "NONE" <=> log[k] = "NONE"
    BY <1>8, MarkDoes
  <2>2. /\ status[j] = "FOUND" /\ order' = order
        /\ target' = [target EXCEPT ![j] = NoRow]
        /\ handlers' = handlers \cup {Event(j, attempts'[j])}
    BY <1>8 DEF Mark
  <2>3. PICK x \in {"WAITING", "FAILED"} : status' = [status EXCEPT ![j] = x]
    BY <1>8 DEF Mark
  <2>4. Rows' = Rows
    BY <1>1, <2>1, <2>2, <2>3 DEF Rows, InTransaction, JobTypes
  <2>5. \A h \in handlers' : h \in handlers \/ h.row = Unread
    BY <2>2 DEF Event
  <2>6. \A k \in Job : target'[k] = target[k] \/ target'[k] = NoRow
    BY <1>1, <2>2 DEF JobTypes
  <2> QED
    BY <1>3, <2>1, <2>2, <2>4, <2>5, <2>6, OrderStays
<1>9. ASSUME NEW j \in Job, Abort(j) PROVE RowsStay' /\ RowsInOrder'
  <2>1. RowsStay'
    BY <1>3, <1>9 DEF Abort
  <2>2. status[j] \in Working /\ Vanish(j) /\ log' = log /\ status' = [status EXCEPT ![j] = "ERROR"]
    BY <1>9 DEF Abort, Working
  <2>3. RowsInOrder'
    BY <2>2, RowVanishes
  <2> QED
    BY <2>1, <2>3
<1>10. ASSUME NEW j \in Job, JobCrash(j) PROVE RowsStay' /\ RowsInOrder'
  <2>1. /\ status[j] \in Working /\ Vanish(j) /\ log' = log
        /\ target' = [target EXCEPT ![j] = NoRow]
        /\ handlers' = handlers \/ handlers' = handlers \cup {Event(j, attempts[j])}
    BY <1>10 DEF JobCrash
  <2>2. PICK x \in {"WAITING", "FAILED"} : status' = [status EXCEPT ![j] = x]
    BY <1>10 DEF JobCrash
  <2>3. RowsInOrder'
    BY <2>1, <2>2, RowVanishes
  <2>4. \A h \in handlers' : h \in handlers \/ h.row = Unread
    BY <2>1 DEF Event
  <2>5. \A k \in Job : target'[k] = target[k] \/ target'[k] = NoRow
    BY <1>1, <2>1 DEF JobTypes
  <2> QED
    BY <1>3, <2>1, <2>3, <2>4, <2>5
<1>11. ASSUME NEW h \in handlers, OnFailedLook(h) PROVE RowsStay' /\ RowsInOrder'
  <2>1. PICK g : handlers' = (handlers \ {h}) \cup {g} /\ (g.row \in Job => log[g.row] # "NONE")
    BY <1>11, OnFailedLookDoes
  <2>2. UNCHANGED <<status, target, log, order>>
    BY <1>11 DEF OnFailedLook
  <2>3. RowsStay'
    BY <1>1, <2>1, <2>2 DEF RowsStay
  <2> QED
    BY <2>2, <2>3, OrderStays DEF Rows
<1>12. ASSUME NEW h \in handlers, OnFailedMark(h) PROVE RowsStay' /\ RowsInOrder'
  <2>1. \A k \in Job : log'[k] = "NONE" <=> log[k] = "NONE"
    BY <1>12, OnFailedMarkDoes
  <2>2. handlers' = handlers \ {h} /\ UNCHANGED <<status, target, order>>
    BY <1>12 DEF OnFailedMark
  <2>3. Rows' = Rows
    BY <2>1, <2>2 DEF Rows
  <2> QED
    BY <1>3, <2>1, <2>2, <2>3, OrderStays
<1>13. ASSUME NEW h \in handlers, HandlerDies(h) PROVE RowsStay' /\ RowsInOrder'
  <2>1. handlers' = handlers \ {h} /\ UNCHANGED <<status, target, log, order>>
    BY <1>13 DEF HandlerDies
  <2>2. Rows' = Rows
    BY <2>1 DEF Rows
  <2> QED
    BY <1>3, <2>1, <2>2, OrderStays
<1>14. CASE UNCHANGED deliveryVars
  BY <1>3, <1>14, OrderStays DEF deliveryVars, Rows
<1> QED
  BY <1>4, <1>5, <1>6, <1>7, <1>8, <1>9, <1>10, <1>11, <1>12, <1>13, <1>14
  DEF JobsNext, Work, Handle
\* What the log tells of one job.
Told(j) ==
  /\ status[j] \in Working \cup {"COMPLETED"} => ~Handled(j)
  /\ status[j] \in {"LOGGED", "COMPLETED"} => log[j] = "SENT"
  /\ status[j] \in {"ERROR", "FOUND", "FAILED"} \/ Handled(j) => log[j] # "NONE"
  /\ status[j] = "FOUND" => target[j] # NoRow
  /\ status[j] = "FAILED" => Handled(j) \/ log[j] = "FAILED"
  /\ \A h \in handlers : h.job = j => h.row # NoRow

LEMMA ToldByJob ==
  ASSUME handlers \subseteq [job : Job, attempt : 0 .. MaxAttempts, row : Job \cup {NoRow, Unread}]
  PROVE  ToldSoFar <=> \A j \in Job \ disturbed : Told(j)
  BY DEF ToldSoFar, Told

LEMMA NextTold == JobsInv /\ JobTypes' /\ [JobsNext]_deliveryVars => ToldSoFar'
<1> SUFFICES ASSUME JobsInv, JobTypes', [JobsNext]_deliveryVars,
                    NEW k \in Job, k \notin disturbed'
             PROVE  Told(k)'
  BY DEF JobTypes, ToldSoFar, Told
<1>1. JobTypes /\ RowsStay /\ (k \notin disturbed => Told(k))
  BY ToldByJob DEF JobsInv, JobTypes
<1>2. NoRow \notin Job /\ Unread \notin Job /\ NoRow # Unread
  BY JobAssumption DEF NoRow, Unread
\* A step that is about other jobs.
<1>3. ASSUME Told(k), status'[k] = status[k], target'[k] = target[k], log'[k] = log[k],
             \A h \in handlers : h.job = k => h \in handlers',
             \A h \in handlers' : h.job = k => h \in handlers
      PROVE  Told(k)'
  BY <1>3 DEF Told, Handled
<1>4. ASSUME NEW j \in Job, Begin(j) PROVE Told(k)'
  <2>1. CASE j # k
    BY <1>1, <1>3, <1>4, <2>1 DEF Begin, JobTypes
  <2>2. CASE j = k
    <3>1. /\ ~Handled(k) /\ k \notin disturbed
          /\ handlers' = handlers /\ status' = [status EXCEPT ![k] = "OPEN"]
      BY <1>4, <2>2 DEF Begin, Handled
    <3> QED
      BY <1>1, <3>1 DEF Told, Handled, JobTypes
  <2> QED
    BY <2>1, <2>2
<1>5. ASSUME NEW j \in Job,
             \/ Accept(j) \/ Refuse(j) \/ Unconfirmed(j)
             \/ CommitSent(j) \/ Complete(j) \/ CommitFailed(j)
      PROVE  Told(k)'
  <2> USE DEF Accept, Refuse, Unconfirmed, CommitSent, Complete, CommitFailed
  <2>1. handlers' = handlers /\ disturbed' = disturbed /\ target' = target
    BY <1>5 DEF history
  <2>2. CASE j # k
    BY <1>1, <1>3, <1>5, <2>1, <2>2 DEF JobTypes
  <2>3. CASE j = k
    <3>1. ~Handled(k)
      BY <1>1, <1>5, <2>1, <2>3 DEF Told, Working, InTransaction
    <3>2. \/ status'[k] \in {"ACCEPTED", "REFUSED"}
          \/ status'[k] \in {"LOGGED", "COMPLETED"} /\ log'[k] = "SENT"
          \/ status'[k] = "ERROR" /\ log'[k] = "FAILED"
      BY <1>1, <1>5, <2>1, <2>3 DEF Told, JobTypes
    <3> QED
      BY <2>1, <3>1, <3>2 DEF Told, Handled
  <2> QED
    BY <2>2, <2>3
<1>6. ASSUME NEW j \in Job, Look(j) PROVE Told(k)'
  <2>1. handlers' = handlers /\ disturbed' = disturbed /\ log' = log
    BY <1>6 DEF Look, history
  <2>2. CASE j # k
    BY <1>1, <1>3, <1>6, <2>1, <2>2 DEF Look, JobTypes
  <2>3. CASE j = k
    <3>1. PICK r : r = Newest(Candidates(k))
      OBVIOUS
    <3>2. ~Handled(k) /\ log[k] # "NONE"
      BY <1>1, <1>6, <2>1, <2>3 DEF Told, Look, Working
    <3>3. r \in Job
      BY <3>1, <3>2, RowFound
    <3>4. status'[k] = "FOUND" /\ target'[k] = r
      BY <1>1, <1>6, <2>3, <3>1 DEF Look, JobTypes
    <3> QED
      BY <1>2, <2>1, <3>2, <3>3, <3>4 DEF Told, Handled
  <2> QED
    BY <2>2, <2>3
<1>7. ASSUME NEW j \in Job, Mark(j) PROVE Told(k)'
  <2>1. /\ disturbed \subseteq disturbed'
        /\ log'[k] = "NONE" <=> log[k] = "NONE"
        /\ k # j => log'[k] = log[k]
    BY <1>7, MarkDoes
  <2>2. PICK n : n = attempts'[j]
    OBVIOUS
  <2>3. PICK x \in {"WAITING", "FAILED"} : status' = [status EXCEPT ![j] = x]
    BY <1>7 DEF Mark
  <2>4. /\ handlers' = handlers \cup {[job |-> j, attempt |-> n, row |-> Unread]}
        /\ target' = [target EXCEPT ![j] = NoRow] /\ status[j] = "FOUND"
    BY <1>7, <2>2 DEF Mark, Event
  <2>5. CASE j # k
    BY <1>1, <1>3, <2>1, <2>3, <2>4, <2>5 DEF JobTypes
  <2>6. CASE j = k
    <3>1. Told(k) /\ log[k] # "NONE" /\ ~Handled(k)
      BY <1>1, <2>1, <2>4, <2>6 DEF Told, Working
    <3>2. log'[k] # "NONE" /\ status'[k] = x
      BY <1>1, <2>1, <2>3, <2>6, <3>1 DEF JobTypes
    <3>3. Handled(k)'
      <4>1. PICK e : e = [job |-> j, attempt |-> n, row |-> Unread]
        OBVIOUS
      <4>2. e \in handlers' /\ e.job = k
        BY <2>4, <2>6, <4>1
      <4> QED
        BY <4>2 DEF Handled
    <3>4. \A h \in handlers' : h.job = k => h.row # NoRow
      BY <1>2, <2>4, <2>6, <3>1 DEF Handled
    <3> QED
      BY <3>2, <3>3, <3>4 DEF Told, Working, InTransaction
  <2> QED
    BY <2>5, <2>6
<1>8. ASSUME NEW j \in Job, Abort(j) \/ JobCrash(j) PROVE Told(k)'
  <2>1. /\ j # k /\ k \notin disturbed /\ log' = log
        /\ \A h \in handlers : h \in handlers'
        /\ \A h \in handlers' : h \in handlers \/ h.job = j
    BY <1>8 DEF Abort, JobCrash, Vanish, Event
  <2>2. status'[k] = status[k] /\ target'[k] = target[k]
    BY <1>1, <1>8, <2>1 DEF Abort, JobCrash, JobTypes
  <2> QED
    BY <1>1, <1>3, <2>1, <2>2
<1>9. ASSUME NEW h \in handlers, OnFailedLook(h) PROVE Told(k)'
  <2>1. PICK g : /\ handlers' = (handlers \ {h}) \cup {g} /\ g.job = h.job
                 /\ log[h.job] # "NONE" => g.row \in Job
    BY <1>9, OnFailedLookDoes
  <2>2. UNCHANGED <<status, target, log, disturbed>>
    BY <1>9 DEF OnFailedLook, history
  <2>3. Told(k)
    BY <1>1, <2>2
  <2>4. Handled(k)' <=> Handled(k)
    BY <2>1 DEF Handled
  <2>5. h.job = k => log[k] # "NONE"
    BY <2>3 DEF Told, Handled
  <2>6. \A f \in handlers' : f.job = k => f.row # NoRow
    BY <1>2, <2>1, <2>3, <2>5 DEF Told
  <2> QED
    BY <2>2, <2>3, <2>4, <2>6 DEF Told
<1>10. ASSUME NEW h \in handlers, OnFailedMark(h) PROVE Told(k)'
  <2>1. /\ disturbed \subseteq disturbed'
        /\ log'[k] = "NONE" <=> log[k] = "NONE"
        /\ k # h.job => log'[k] = log[k]
        /\ k = h.job /\ h.row # NoRow => log'[k] = "FAILED"
    BY <1>10, OnFailedMarkDoes
  <2>2. handlers' = handlers \ {h} /\ UNCHANGED <<status, target>>
    BY <1>10 DEF OnFailedMark
  <2>3. Told(k)
    BY <1>1, <2>1
  <2>4. CASE h.job # k
    BY <1>3, <2>1, <2>2, <2>3, <2>4
  <2>5. CASE h.job = k
    <3>1. /\ log'[k] = "FAILED" /\ log[k] # "NONE"
          /\ status[k] \notin {"LOGGED", "COMPLETED"}
      BY <2>1, <2>3, <2>5 DEF Told, Handled, Working
    <3>2. Handled(k)' => Handled(k)
      BY <2>2 DEF Handled
    <3> QED
      BY <2>2, <2>3, <3>1, <3>2 DEF Told
  <2> QED
    BY <2>4, <2>5
<1>11. ASSUME NEW h \in handlers, HandlerDies(h) PROVE Told(k)'
  BY <1>1, <1>3, <1>11 DEF HandlerDies
<1>12. CASE UNCHANGED deliveryVars
  BY <1>1, <1>3, <1>12 DEF deliveryVars
<1> QED
  BY <1>4, <1>5, <1>6, <1>7, <1>8, <1>9, <1>10, <1>11, <1>12 DEF JobsNext, Work, Handle

LEMMA JobsInvariant == JobsSpec => []JobsInv
<1>1. JobsInv /\ [JobsNext]_deliveryVars => JobsInv'
  BY NextSendsCounted, NextJobTypes, NextRows, NextTold DEF JobsInv
<1> QED
  BY InitJobsInv, <1>1, PTL DEF JobsSpec

\* NotificationSenderService sends inside the transaction that logs: a job goes out a
\* second time only if the queue did not learn of an earlier delivery, and never more
\* often than its attempts and restarts allow.
THEOREM DeliveryResentOnlyIfUnlearnt == JobsSpec => []ResentOnlyIfUnlearnt
<1>1. JobsInv => ResentOnlyIfUnlearnt
  <2> SUFFICES ASSUME JobsInv, NEW j \in Job
               PROVE  sent[j] <= 1 + unlearnt[j] /\ sent[j] <= MaxAttempts + MaxStalls
    BY DEF ResentOnlyIfUnlearnt
  <2>1. /\ sent[j] \in Nat /\ unlearnt[j] \in Nat /\ attempts[j] \in Nat /\ stalls[j] \in Nat
        /\ MaxAttempts \in Nat /\ MaxStalls \in Nat
    BY JobAssumption, QueueAssumption DEF JobsInv, SendsCounted, JobTypes
  <2>2. sent[j] <= 1 + unlearnt[j]
    BY <2>1 DEF JobsInv, SendsCounted
  <2>3. sent[j] <= MaxAttempts + MaxStalls
    BY <2>1 DEF JobsInv, SendsCounted, JobTypes
  <2> QED
    BY <2>2, <2>3
<1> QED
  BY JobsInvariant, <1>1, PTL

\* NotificationProcessor.process and onFailed both write the log: for a job that
\* nothing disturbed it ends with the outcome; and every variable has its type.
THEOREM DeliveryLogTellsOutcome == JobsSpec => []LogTellsOutcome
<1>1. JobsInv => JobsTypeOK
  <2> SUFFICES ASSUME JobsInv PROVE JobsTypeOK
    OBVIOUS
  <2>1. {k \in Job : log[k] # "NONE"} \subseteq ToSet(order) /\ IsInjective(order)
    BY DEF JobsInv, RowsInOrder, Rows
  <2>2. \A j \in Job : unlearnt[j] <= sent[j]
    BY DEF JobsInv, SendsCounted
  <2> QED
    BY <2>1, <2>2 DEF JobsInv, JobTypes, JobStatus, JobsTypeOK
<1>2. JobsInv => LogTellsOutcome
  BY <1>1 DEF JobsInv, ToldSoFar, Handled, LogTellsOutcome
<1> QED
  BY JobsInvariant, <1>2, PTL
=============================================================================
