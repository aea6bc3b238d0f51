--------------------------- MODULE MCChannelCircuit --------------------------
(* Small instances of ChannelCircuit for TLC. *)
EXTENDS ChannelCircuit

CONSTANTS w1, w2, w3
=============================================================================
