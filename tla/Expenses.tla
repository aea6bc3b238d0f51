------------------------------- MODULE Expenses -------------------------------
(***************************************************************************)
(* Expenses of a branch, paid in cash from its cashbox: createExpense,     *)
(* updateExpense and refundExpense.  Each request is one transaction, and  *)
(* the payment, or its reversal, is part of it: who has changed the        *)
(* cashbox holds its row until the end.                                    *)
(***************************************************************************)
EXTENDS Integers, Cashbox

CONSTANTS
  Expense,      \* requests to create an expense, each with an id of its own
  Amount,       \* what it costs
  KeyOf, NoKey, \* its idempotency key
  Change,       \* requests to update or to refund an expense
  changeKind, changeOf \* which, and of which expense

ASSUME ExpensesAssumption ==
  /\ Amount \in [Expense -> Nat \ {0}]
  /\ changeKind \in [Change -> {"update", "refund"}] /\ changeOf \in [Change -> Expense]
  /\ Expense \cap Change = {} /\ Nobody \notin Expense \cup Change

VARIABLES
  expense,  \* committed status of an expense
  payment,  \* committed status of its payment
  reversed, \* how many times its cash transaction has been reversed
  expensePc, \* where a request is
  twice     \* history: expenses of which a refund found the payment completed
            \* that another refund was already reversing

expenseVars == <<expense, payment, reversed, expensePc, twice>>
expensesVars == <<expenseVars, box, holder>>

ExpenseRequest == Expense \cup Change
ExpenseStep(r, from, to) == expensePc[r] = from /\ expensePc' = [expensePc EXCEPT ![r] = to]

ExpensesInit ==
  /\ expense = [e \in Expense |-> "NONE"] /\ payment = [e \in Expense |-> "NONE"]
  /\ reversed = [e \in Expense |-> 0]
  /\ box \in Nat /\ holder = Nobody
  /\ expensePc = [r \in ExpenseRequest |-> "READY"] /\ twice = {}

Unchanged == UNCHANGED <<expense, payment, reversed, box, twice>>
Leave(r, from, to) == ExpenseStep(r, from, to) /\ Unchanged /\ UNCHANGED holder

-----------------------------------------------------------------------------
(* createExpense *)

KeyTaken(e) ==
  KeyOf[e] # NoKey /\ \E f \in Expense \ {e} : KeyOf[f] = KeyOf[e] /\ expense[f] # "NONE"

ReturnExisting(e) == KeyTaken(e) /\ Leave(e, "READY", "DONE")
LookUp(e) == ~KeyTaken(e) /\ Leave(e, "READY", "PAYING")

\* The strategy's check, and the one of updateBalance under the lock.
PayExpense(e) ==
  /\ holder = Nobody /\ box >= Amount[e]
  /\ holder' = e
  /\ ExpenseStep(e, "PAYING", "PAID") /\ Unchanged
ExpenseRefused(e) == box < Amount[e] /\ Leave(e, "PAYING", "REFUSED")

\* The row is inserted with its key and the transaction commits.  Mutant: the
\* key is not stored with the expense.
InsertCommits_AnyKey(e) ==
  /\ ExpenseStep(e, "PAID", "DONE")
  /\ expense' = [expense EXCEPT ![e] = "PAID"]
  /\ payment' = [payment EXCEPT ![e] = "COMPLETED"]
  /\ box' = box - Amount[e] /\ holder' = Nobody
  /\ UNCHANGED <<reversed, twice>>
InsertCommits(e) ==
  /\ ~KeyTaken(e)
  /\ ExpenseStep(e, "PAID", "DONE")
  /\ expense' = [expense EXCEPT ![e] = "PAID"]
  /\ payment' = [payment EXCEPT ![e] = "COMPLETED"]
  /\ box' = box - Amount[e] /\ holder' = Nobody
  /\ UNCHANGED <<reversed, twice>>

\* Anything that fails, the unique index on the key included, takes the payment
\* or the reversal back.
\* Mutant: payment or reversal had committed by itself.
RollBack_MoneyMoved(r) ==
  /\ holder = r
  /\ holder' = Nobody
  /\ box' = IF r \in Expense THEN box - Amount[r] ELSE box + Amount[changeOf[r]]
  /\ expensePc' = [expensePc EXCEPT ![r] = "REFUSED"]
  /\ UNCHANGED <<expense, payment, reversed, twice>>
RollBack(r) ==
  /\ holder = r
  /\ holder' = Nobody
  /\ expensePc' = [expensePc EXCEPT ![r] = "REFUSED"] /\ Unchanged

-----------------------------------------------------------------------------
(* refundExpense and PaymentService.refundInternalPayment *)

Is(r, k) == r \in Change /\ changeKind[r] = k

ReadPaid(r) ==
  /\ Is(r, "refund") /\ expense[changeOf[r]] = "PAID"
  /\ Leave(r, "READY", "CHECKING")
RefundRefused(r) ==
  /\ Is(r, "refund") /\ expense[changeOf[r]] = "REFUNDED"
  /\ Leave(r, "READY", "REFUSED")

\* The payment is read without a lock.
Reversing(e) == {r \in Change : changeOf[r] = e /\ expensePc[r] \in {"REVERSING", "REVERSED"}}

\* Mutant: the status of the payment is not looked at.
CheckPayment_Any(r) ==
  /\ ExpenseStep(r, "CHECKING", "REVERSING")
  /\ twice' = IF Reversing(changeOf[r]) = {} THEN twice ELSE twice \cup {changeOf[r]}
  /\ UNCHANGED <<expense, payment, reversed, box, holder>>
CheckPayment(r) ==
  /\ payment[changeOf[r]] = "COMPLETED"
  /\ ExpenseStep(r, "CHECKING", "REVERSING")
  /\ twice' = IF Reversing(changeOf[r]) = {} THEN twice ELSE twice \cup {changeOf[r]}
  /\ UNCHANGED <<expense, payment, reversed, box, holder>>
NotCompleted(r) ==
  /\ r \in Change /\ payment[changeOf[r]] # "COMPLETED"
  /\ Leave(r, "CHECKING", "REFUSED")

\* reverseCashTransaction: the other direction, under the lock of the cashbox.
Reverse(r) ==
  /\ holder = Nobody
  /\ holder' = r
  /\ ExpenseStep(r, "REVERSING", "REVERSED") /\ Unchanged

\* Mutant: the payment keeps its status.
RefundCommits_PaymentKept(r) ==
  /\ ExpenseStep(r, "REVERSED", "DONE")
  /\ reversed' = [reversed EXCEPT ![changeOf[r]] = @ + 1]
  /\ expense' = [expense EXCEPT ![changeOf[r]] = "REFUNDED"]
  /\ box' = box + Amount[changeOf[r]] /\ holder' = Nobody
  /\ UNCHANGED <<payment, twice>>
RefundCommits(r) ==
  /\ ExpenseStep(r, "REVERSED", "DONE")
  /\ reversed' = [reversed EXCEPT ![changeOf[r]] = @ + 1]
  /\ payment' = [payment EXCEPT ![changeOf[r]] = "REFUNDED"]
  /\ expense' = [expense EXCEPT ![changeOf[r]] = "REFUNDED"]
  /\ box' = box + Amount[changeOf[r]] /\ holder' = Nobody
  /\ UNCHANGED twice

-----------------------------------------------------------------------------
(* updateExpense *)

ReadForUpdate(r) ==
  /\ Is(r, "update") /\ expense[changeOf[r]] = "PAID"
  /\ Leave(r, "READY", "SAVING")
UpdateRefused(r) ==
  /\ Is(r, "update") /\ expense[changeOf[r]] = "REFUNDED"
  /\ Leave(r, "READY", "REFUSED")

\* All of the object is saved, with the status it was read with.
Save(r) ==
  /\ ExpenseStep(r, "SAVING", "DONE")
  /\ expense' = [expense EXCEPT ![changeOf[r]] = "PAID"]
  /\ UNCHANGED <<payment, reversed, box, holder, twice>>

ExpenseDo(r) ==
  \/ /\ r \in Expense
     /\ \/ ReturnExisting(r) \/ LookUp(r) \/ PayExpense(r) \/ ExpenseRefused(r)
        \/ InsertCommits(r)
  \/ /\ r \in Change
     /\ \/ ReadPaid(r) \/ RefundRefused(r) \/ CheckPayment(r) \/ NotCompleted(r)
        \/ Reverse(r) \/ RefundCommits(r)
        \/ ReadForUpdate(r) \/ UpdateRefused(r) \/ Save(r)
  \/ RollBack(r)

ExpensesOwn == \E r \in ExpenseRequest : ExpenseDo(r)

\* Others use the cashbox when nobody holds its row.
ExpensesOthers == holder = Nobody /\ box' \in Nat /\ UNCHANGED <<expenseVars, holder>>

ExpensesSpec == ExpensesInit /\ [][ExpensesOwn \/ ExpensesOthers]_expensesVars

-----------------------------------------------------------------------------
(* Properties *)

States == {"READY", "DONE", "REFUSED", "PAYING", "PAID", "CHECKING", "REVERSING", "REVERSED", "SAVING"}
ExpensesTypeOK ==
  /\ expense \in [Expense -> {"NONE", "PAID", "REFUNDED"}]
  /\ payment \in [Expense -> {"NONE", "COMPLETED", "REFUNDED"}]
  /\ reversed \in [Expense -> Nat] /\ box \in Nat
  /\ holder \in ExpenseRequest \cup {Nobody}
  /\ expensePc \in [ExpenseRequest -> States] /\ twice \subseteq Expense

\* An expense is paid back at most once, even when an update that had read it
\* before writes its status back to PAID and it is refunded again: the status of
\* the payment stops the second refund.  The exception is two refunds of which
\* the second reads the payment before the first has committed.
PaidBackOnce == \A e \in Expense : reversed[e] > 1 => e \in twice

\* The expense, its payment and the cashbox tell the same: what is refunded has
\* been paid back, and what is not paid back has a completed payment.
RefundedIsPaidBack ==
  \A e \in Expense :
    /\ expense[e] = "REFUNDED" => reversed[e] > 0
    /\ payment[e] = "REFUNDED" <=> reversed[e] > 0
    /\ expense[e] = "NONE" <=> payment[e] = "NONE"

\* A key pays once (createExpense with an idempotency key).
KeyPaysOnce ==
  \A e, f \in Expense :
    e # f /\ KeyOf[e] = KeyOf[f] /\ KeyOf[e] # NoKey =>
      payment[e] = "NONE" \/ payment[f] = "NONE"
=============================================================================
