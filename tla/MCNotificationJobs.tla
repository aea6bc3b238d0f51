-------------------------- MODULE MCNotificationJobs -------------------------
(* Small instances of NotificationJobs for TLC. *)
EXTENDS NotificationJobs, TLC

CONSTANTS j1, j2, ann, bob

OneUser == j1 :> ann @@ j2 :> ann
SomeFaults == {{"DB"}, {"PROVIDER", "CRASH"}}
=============================================================================
