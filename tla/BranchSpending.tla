---------------------------- MODULE BranchSpending ----------------------------
(***************************************************************************)
(* Expenses and teacher payouts of one branch, which share its cashbox.    *)
(* To either component the other is its environment.                       *)
(***************************************************************************)
EXTENDS Expenses, TeacherPayouts, Functions, FiniteSets

CONSTANT Opening   \* what is in the box at first

ASSUME SpendingAssumption ==
  Opening \in Nat /\ IsFiniteSet(Expense) /\ IsFiniteSet(Payout)

spendingVars == <<expensesVars, job, payoutVars>>

Init == box = Opening /\ ExpensesInit /\ PayoutsInit

SpendOn(r) == ExpenseDo(r) /\ UNCHANGED <<job, payoutVars>>
PayFor(r) == PayoutDo(r) /\ UNCHANGED <<job, expenseVars>>
DieIn(r) == Die(r) /\ UNCHANGED <<job, expenseVars>>

Next ==
  \/ \E r \in ExpenseRequest : SpendOn(r)
  \/ \E r \in PayRequest : PayFor(r) \/ DieIn(r)

Spec == Init /\ [][Next]_spendingVars

-----------------------------------------------------------------------------
(* Properties *)

TypeOK == ExpensesTypeOK /\ PayoutsTypeOK

Spent == [e \in Expense |-> IF payment[e] = "NONE" THEN 0 ELSE Amount[e]]
BroughtBack == [e \in Expense |-> reversed[e] * Amount[e]]

\* The cashbox holds what it held, less what completed payments of expenses and
\* payouts took, and what reversals brought back: no payment or reversal of the
\* two components is lost when they meet at the row.
BoxAddsUp ==
  box = Opening - SumFunctionOnSet(Spent, Expense)
                + SumFunctionOnSet(BroughtBack, Expense)
                - SumFunctionOnSet(paid, Payout)

\* Whatever payouts do to the cashbox is what expenses allow others to do, and
\* they never touch it while a transaction of an expense holds its row.
ExpensesSeeAnEnvironment == ExpensesSpec
=============================================================================
