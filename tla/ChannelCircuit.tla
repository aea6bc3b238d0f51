---------------------------- MODULE ChannelCircuit ---------------------------
(***************************************************************************)
(* NotificationCircuitBreakerService for one channel: a ZSET of failure    *)
(* timestamps and a state key in Redis, shared by all workers.             *)
(*                                                                         *)
(* Time is relative: a failure is its age, a key its remaining time to     *)
(* live.  A check is two steps, the Lua script that counts failures in the *)
(* window and the read of the state key, and workers interleave between    *)
(* them.  The ZSET's own expiry only removes failures the window has       *)
(* already left, and the key `:timestamp' is written but never read; both  *)
(* are left out.                                                           *)
(***************************************************************************)
EXTENDS Integers, FiniteSets

CONSTANTS
  Caller,       \* workers that send through the channel
  Threshold,    \* errorThreshold
  Window,       \* windowSeconds
  ResetTimeout, \* resetTimeoutSeconds
  RedisFails,   \* whether Redis may fail to answer
  AdminResets   \* whether an administrator may reset the channel

ASSUME ConfigAssumption ==
  /\ Threshold \in Nat \ {0} /\ Window \in Nat \ {0} /\ ResetTimeout \in Nat \ {0}
  /\ RedisFails \in BOOLEAN /\ AdminResets \in BOOLEAN

VARIABLES
  failures, \* ages of the members of the ZSET; age Window is "too old to count"
  key,      \* the state key
  ttl,      \* time the state key has left
  pc,       \* what a caller is doing
  seen      \* the state a caller's last check returned

vars == <<failures, key, ttl, pc, seen>>

CircuitState == {"CLOSED", "OPEN", "HALF_OPEN"}
Ages == 0 .. Window

Init ==
  /\ failures = {}
  /\ key = "ABSENT" /\ ttl = 0
  /\ pc = [c \in Caller |-> "IDLE"]
  /\ seen = [c \in Caller |-> "CLOSED"]

Return(c, state) ==
  /\ seen' = [seen EXCEPT ![c] = state]
  /\ pc' = [pc EXCEPT ![c] = IF state = "OPEN" THEN "IDLE" ELSE "CALLING"]
SetKey(value) == key' = value /\ ttl' = ResetTimeout
DelKey == key' = "ABSENT" /\ ttl' = 0

\* shouldOpenCircuit: drop the failures outside the window, count the rest.
InWindow == {a \in failures : a < Window}
Evaluate(c) ==
  /\ pc[c] = "IDLE"
  /\ failures' = InWindow
  /\ pc' = [pc EXCEPT ![c] = IF Cardinality(InWindow) >= Threshold THEN "OVER" ELSE "UNDER"]
  /\ UNCHANGED <<key, ttl, seen>>

\* timeSinceOpen is now - parseInt("OPEN"), NaN, and no comparison with NaN holds.
ResetElapsed == FALSE

\* Mutant: a blocked request counts as another failure.
Decide_CountsBlocked(c) ==
  /\ pc[c] = "OVER"
  /\ Return(c, "OPEN") /\ SetKey("OPEN")
  /\ failures' = failures \cup {0}

\* The rest of getCircuitState above the threshold.  Reading a missing key and
\* setting it is one step: whoever comes in between sets it to the same value.
Decide(c) ==
  /\ pc[c] = "OVER"
  /\ CASE key = "OPEN" /\ ResetElapsed -> Return(c, "HALF_OPEN") /\ SetKey("HALF_OPEN")
       [] key = "OPEN" /\ ~ResetElapsed -> Return(c, "OPEN") /\ UNCHANGED <<key, ttl>>
       [] key = "HALF_OPEN" -> Return(c, "HALF_OPEN") /\ UNCHANGED <<key, ttl>>
       [] key = "ABSENT" -> Return(c, "OPEN") /\ SetKey("OPEN")
  /\ UNCHANGED failures

\* The rest of getCircuitState below the threshold.
Close(c) ==
  /\ pc[c] = "UNDER"
  /\ Return(c, "CLOSED") /\ DelKey
  /\ UNCHANGED failures

\* Redis does not answer.  The script's error counts as "below the threshold"; an
\* error of the rest allows the request.
ScriptFails(c) ==
  /\ RedisFails
  /\ pc[c] = "IDLE"
  /\ pc' = [pc EXCEPT ![c] = "UNDER"]
  /\ UNCHANGED <<failures, key, ttl, seen>>
CheckFails(c) ==
  /\ RedisFails
  /\ pc[c] \in {"OVER", "UNDER"}
  /\ Return(c, "CLOSED")
  /\ UNCHANGED <<failures, key, ttl>>

\* The operation under executeWithCircuitBreaker succeeds; a probe that succeeds
\* closes the circuit.
Succeed(c) ==
  /\ pc[c] = "CALLING"
  /\ pc' = [pc EXCEPT ![c] = "IDLE"]
  /\ IF seen[c] = "HALF_OPEN" THEN failures' = {} /\ DelKey
                              ELSE UNCHANGED <<failures, key, ttl>>
  /\ UNCHANGED seen

\* It throws: recordFailure adds the current time to the ZSET, as score and as
\* member, so failures of one instant are one member.
Fail(c) ==
  /\ pc[c] = "CALLING"
  /\ pc' = [pc EXCEPT ![c] = "IDLE"]
  /\ failures' = failures \cup {0}
  /\ IF seen[c] = "HALF_OPEN" THEN SetKey("OPEN") ELSE UNCHANGED <<key, ttl>>
  /\ UNCHANGED seen

\* It throws and Redis does not answer: the failure is not recorded.
FailUnrecorded(c) ==
  /\ RedisFails
  /\ pc[c] = "CALLING"
  /\ pc' = [pc EXCEPT ![c] = "IDLE"]
  /\ UNCHANGED <<failures, key, ttl, seen>>

\* reset(), behind the monitoring controller.
Reset ==
  /\ AdminResets
  /\ failures' = {} /\ DelKey
  /\ UNCHANGED <<pc, seen>>

Tick ==
  /\ failures' = {IF a < Window THEN a + 1 ELSE a : a \in failures}
  /\ ttl' = IF ttl > 0 THEN ttl - 1 ELSE 0
  /\ key' = IF ttl > 1 THEN key ELSE "ABSENT"
  /\ UNCHANGED <<pc, seen>>

Step(c) ==
  \/ Evaluate(c) \/ ScriptFails(c)
  \/ Decide(c) \/ Close(c) \/ CheckFails(c)
  \/ Succeed(c) \/ Fail(c) \/ FailUnrecorded(c)
Next == Tick \/ Reset \/ \E c \in Caller : Step(c)
Spec == Init /\ [][Next]_vars

\* Time passes, and there is always a next notification for the channel.
FairSpec == Spec /\ WF_vars(Tick) /\ \A c \in Caller : WF_vars(Step(c))

-----------------------------------------------------------------------------
(* Properties *)

TypeOK ==
  /\ failures \subseteq Ages
  /\ key \in {"ABSENT", "OPEN", "HALF_OPEN"} /\ ttl \in 0 .. ResetTimeout
  /\ pc \in [Caller -> {"IDLE", "OVER", "UNDER", "CALLING"}]
  /\ seen \in [Caller -> CircuitState]

\* A channel is never blocked for good: however often its calls fail, and
\* although blocked callers keep asking, it is called again and again.  And its
\* types hold.
ChannelRecovers == []TypeOK /\ []<>(\E c \in Caller : pc[c] = "CALLING")
=============================================================================
