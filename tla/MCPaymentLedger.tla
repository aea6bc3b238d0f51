--------------------------- MODULE MCPaymentLedger --------------------------
(* Small instances of PaymentLedger for TLC. *)
EXTENDS PaymentLedger, TLC

CONSTANTS t1, t2, t3, ali, sara, main

RequestSymmetry == Permutations(Tx)

Pay(method, from, to, amount, reason) ==
  [method |-> method, sender |-> from, receiver |-> to,
   amount |-> amount, reason |-> reason]

\* Money on its way to a branch or out of a cashbox: students pay (with fee),
\* staff deposit, a teacher is paid in cash.
OneWayOrders ==
  { Pay("WALLET", ali, main, 4, "CLASS_FEE"),
    Pay("WALLET", sara, main, 4, "MONTHLY_FEE"),
    Pay("CASH", sara, main, 4, "SESSION_FEE"),
    Pay("WALLET", ali, main, 2, "BRANCH_DEPOSIT"),
    Pay("CASH", main, ali, 3, "TEACHER_PAYOUT") }

\* Staff also withdraw from the branch wallet, and some amounts make no sense.
MixedOrders ==
  { Pay("WALLET", ali, main, 4, "CLASS_FEE"),
    Pay("CASH", ali, main, 4, "SESSION_FEE"),
    Pay("WALLET", main, ali, 3, "BRANCH_WITHDRAWAL"),
    Pay("WALLET", ali, main, 2, "BRANCH_DEPOSIT"),
    Pay("CASH", main, ali, 3, "TEACHER_PAYOUT"),
    Pay("CASH", ali, main, 0, "BRANCH_DEPOSIT"),
    Pay("WALLET", main, ali, -1, "BRANCH_WITHDRAWAL") }

DepositAndWithdrawal ==
  { o \in MixedOrders : o.reason \in {"BRANCH_DEPOSIT", "BRANCH_WITHDRAWAL"} }

SomeMoney == [a \in Account |->
  CASE a = Wallet(ali) -> 5 [] a = Wallet(main) -> 3
    [] a = Cashbox(main) -> 3 [] OTHER -> 0]
TwoStudents == [a \in Account |->
  CASE a \in {Wallet(ali), Wallet(sara)} -> 5 [] OTHER -> 0]

\* FINANCE_MODULE_REVIEW.md:186, "Proper error handling and rollback": with
\* every request answered and none committed, all balances are as they were.
RolledBackLeavesNothing ==
  (\A t \in Tx : state[t] \in {"IDLE", "ABORTED"}) => Balances = [a \in Account |-> Opening[a]]
=============================================================================
