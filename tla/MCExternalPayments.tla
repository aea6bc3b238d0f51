-------------------------- MODULE MCExternalPayments --------------------------
(* A small instance of ExternalPayments for TLC: the webhook of one payment   *)
(* comes in two copies at a time, that of the other is lost.                  *)
EXTENDS ExternalPayments

CONSTANTS p1, p2, d1, d2, completed

BothOfOne == [d \in Delivery |-> p1]
SomeMatch == {{p1}, {}}
=============================================================================
