------------------------------- MODULE Cashbox -------------------------------
(* The cashbox of a branch: one row, which whoever changes it locks until the *)
(* end of the transaction (CashboxService.updateBalance, findOneWithLock).    *)
CONSTANT Nobody
VARIABLES
  box,      \* committed balance
  holder    \* who holds the row
=============================================================================
