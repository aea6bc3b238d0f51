-------------------------- MODULE MCBranchSpending ---------------------------
(* A small instance of BranchSpending for TLC.  Two expenses with one key, an *)
(* update and two refunds of the first; and a class or a session whose two    *)
(* payments each fit, but not together.                                       *)
EXTENDS BranchSpending, TLC

CONSTANTS e1, e2, update, refund1, refund2, class, session, r1, r2, r3, k

Cost == (e1 :> 2) @@ (e2 :> 2)
SameKey == [e \in Expense |-> k]
ChangeKinds == [c \in Change |-> IF c = update THEN "update" ELSE "refund"]
OfFirst == [c \in Change |-> e1]

Units == (class :> "CLASS") @@ (session :> "SESSION")
Prices == [o \in Payout |-> 2]
Asks(what, of, money) == [kind |-> what, payout |-> of, amount |-> money]
SomeWorkloads ==
  { (r1 :> Asks("record", class, 1)) @@ (r2 :> Asks("installment", class, 1))
      @@ (r3 :> Asks("installment", class, 1)),
    (r1 :> Asks("record", session, 0)) @@ (r2 :> Asks("pay", session, 0))
      @@ (r3 :> Asks("pay", session, 0)),
    (r1 :> Asks("record", class, 0)) @@ (r2 :> Asks("installment", class, 2))
      @@ (r3 :> Asks("pay", class, 0)) }
=============================================================================
