------------------------------ MODULE WorkQueue -----------------------------
(* What the queues of the notifications have in common.  A job whose worker   *)
(* died is started again, at most MaxStalls times; and what may go wrong in a *)
(* behaviour, one of the sets in Environments, is settled when it starts.     *)
EXTENDS Integers

CONSTANTS
  MaxStalls,     \* how often the queue restarts a job whose worker died
  Environments   \* what may go wrong in a behaviour, one set of faults each

VARIABLE faults  \* what may go wrong

\* NotificationTrigger: an audience may fail to resolve or to validate; a lock may
\* time out, or expire while it is held; Redis may answer with an error; a recipient
\* may fail between its key and its job; addBulk may fail.  NotificationJobs: a
\* statement or a commit may fail; the provider may take a message and not confirm it.
\* WhatsAppStatus: a webhook may come before the sender commits; the mark may not
\* be readable; looking for the row or updating it may fail.  Any worker may die.
Faults ==
  {"RESOLVE", "LOCK", "RENDER", "ENQUEUE", "DB", "PROVIDER", "EARLY", "REDIS", "UPDATE",
   "CRASH"}

ASSUME QueueAssumption == MaxStalls \in Nat /\ Environments \subseteq SUBSET Faults
=============================================================================
