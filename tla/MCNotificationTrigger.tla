------------------------ MODULE MCNotificationTrigger ------------------------
(* Small instances of NotificationTrigger for TLC. *)
EXTENDS NotificationTrigger, TLC

CONSTANTS mother, father, student, home, own

\* The parents share a phone; the student is in both audiences.
Phones == mother :> home @@ father :> home @@ student :> own
StudentThenParents == <<{student}, {}, {mother, father}>>

SomeFaults == 
  {Faults \ {"REDIS"}, {"RESOLVE", "LOCK", "CRASH"}, {"LOCK", "REDIS", "RESOLVE"}}
=============================================================================
