---------------------------- MODULE AtomicLedger ----------------------------
(***************************************************************************)
(* What the finance module promises of a payment request: it settles in    *)
(* one step or not at all.  Settling applies the net effect of its order   *)
(* to the balances, once, and never leaves an account the order touches    *)
(* below that account's floor.  A request that does not settle leaves      *)
(* nothing behind.                                                         *)
(*                                                                         *)
(* PaymentLedger, where a request is a database transaction that takes its *)
(* row locks one by one among other requests, is shown to implement this.  *)
(***************************************************************************)
EXTENDS Integers

CONSTANTS
  Tx,                   \* payment requests, one database transaction each
  Account,              \* wallet and cashbox rows
  Orders,               \* what a request may ask for
  NoOrder,              \* the request has not settled
  Opening,              \* [Account -> Int], balances before the first request
  Net(_, _),            \* Net(o, a): what order o does to account a
  Floor(_),             \* the lowest balance account a may ever show
  Payable(_)            \* orders that may settle at all

VARIABLES
  balance,              \* [Account -> Int]
  settled               \* [Tx -> Orders \cup {NoOrder}]

vars == <<balance, settled>>

Init ==
  /\ balance = Opening
  /\ settled = [t \in Tx |-> NoOrder]

Settle(t, o) ==
  /\ settled[t] = NoOrder
  /\ Payable(o)
  /\ settled' = [settled EXCEPT ![t] = o]
  /\ balance' = [a \in Account |-> balance[a] + Net(o, a)]
  /\ \A a \in Account : balance'[a] >= Floor(a)

Next == \E t \in Tx, o \in Orders : Settle(t, o)

Spec == Init /\ [][Next]_vars
=============================================================================
