--------------------------- MODULE MCWhatsAppStatus --------------------------
(* Small instances of WhatsAppStatus for TLC. *)
EXTENDS WhatsAppStatus

CONSTANTS w1, w2

SomeFaults == {Faults \ {"REDIS"}, {"EARLY", "REDIS"}, {"CRASH"}}
=============================================================================
