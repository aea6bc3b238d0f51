------------------------- MODULE BranchSpendingProofs -------------------------
(***************************************************************************)
(* Proofs about what a branch spends, for any number of expenses, payouts, *)
(* prices and requests.  First expenses and payouts each alone, whatever   *)
(* else happens to the cashbox; then both together, each of which is the   *)
(* environment of the other, so that what is proved of each alone holds of *)
(* the branch; and last that the cashbox adds up, which is of both.        *)
(***************************************************************************)
EXTENDS BranchSpending, Sums

-----------------------------------------------------------------------------
(***************************************************************************)
(* Expenses: an expense is paid back at most once unless two refunds       *)
(* overlap, expense and payment agree, and a key pays once.                *)
(***************************************************************************)
\* A request that changes an expense has found it; an expense whose request has
\* not ended does not exist yet.
Found ==
  /\ \A r \in Change : expensePc[r] \in {"CHECKING", "REVERSING", "REVERSED", "SAVING"} =>
       payment[changeOf[r]] # "NONE"
  /\ \A e \in Expense :
       /\ expensePc[e] \in {"READY", "PAYING", "PAID"} => expense[e] = "NONE"
       /\ payment[e] = "NONE" => reversed[e] = 0

\* Who is reversing a payment that is refunded already, or that another is
\* reversing, has been noticed.
Noticed ==
  /\ \A r \in Change : expensePc[r] \in {"REVERSING", "REVERSED"} /\ payment[changeOf[r]] = "REFUNDED"
       => changeOf[r] \in twice
  /\ \A r, q \in Change : r # q /\ changeOf[r] = changeOf[q]
       /\ expensePc[r] \in {"REVERSING", "REVERSED"} /\ expensePc[q] \in {"REVERSING", "REVERSED"}
       => changeOf[r] \in twice

\* Who has paid holds the row of a cashbox that had enough.
Held ==
  /\ \A e \in Expense : expensePc[e] = "PAID" => holder = e /\ box >= Amount[e]
  /\ \A r \in Change : expensePc[r] = "REVERSED" => holder = r

ExpensesInv == ExpensesTypeOK /\ Held /\ Found /\ Noticed /\ PaidBackOnce /\ RefundedIsPaidBack /\ KeyPaysOnce

LEMMA ExpensesInitInv == ExpensesInit => ExpensesInv
BY ExpensesAssumption
   DEF ExpensesInit, ExpensesInv, ExpensesTypeOK, Held, Found, Noticed, PaidBackOnce, RefundedIsPaidBack, KeyPaysOnce,
       ExpenseRequest, States

\* A step that only moves a request on, to where it needs not have found or
\* noticed more than before.
LEMMA CreateInv ==
  ASSUME ExpensesInv, NEW e \in Expense,
         ReturnExisting(e) \/ LookUp(e) \/ PayExpense(e) \/ ExpenseRefused(e) \/ InsertCommits(e)
  PROVE  ExpensesInv'
<1> USE ExpensesAssumption
    DEF ExpensesInv, ExpensesTypeOK, Held, Found, Noticed, PaidBackOnce, RefundedIsPaidBack, KeyPaysOnce,
        ExpenseRequest, States, ExpenseStep
<1>1. CASE ReturnExisting(e)
  BY <1>1 DEF ReturnExisting, Leave, Unchanged
<1>2. CASE LookUp(e)
  BY <1>2 DEF LookUp, Leave, Unchanged
<1>3. CASE PayExpense(e)
  BY <1>3 DEF PayExpense, Unchanged
<1>4. CASE ExpenseRefused(e)
  BY <1>4 DEF ExpenseRefused, Leave, Unchanged
<1>5. CASE InsertCommits(e)
  <2> USE <1>5 DEF InsertCommits
  <2>1. expense[e] = "NONE" /\ payment[e] = "NONE" /\ reversed[e] = 0
    OBVIOUS
  <2>2. ExpensesTypeOK'
    <3>1. box - Amount[e] \in Nat
      OBVIOUS
    <3> QED BY <3>1
  <2>7. Held'
    OBVIOUS
  <2>3. Found' BY <2>1, <2>2
  <2>4. Noticed' BY <2>1, <2>2
  <2>5. PaidBackOnce' /\ RefundedIsPaidBack' BY <2>1, <2>2
  <2>6. KeyPaysOnce' BY <2>1, <2>2 DEF KeyTaken
  <2> QED BY <2>2, <2>3, <2>4, <2>5, <2>6, <2>7
<1> QED BY <1>1, <1>2, <1>3, <1>4, <1>5

\* A request to update or to refund.
LEMMA RefundInv ==
  ASSUME ExpensesInv, NEW r \in Change,
         ReadPaid(r) \/ RefundRefused(r) \/ CheckPayment(r) \/ NotCompleted(r)
           \/ Reverse(r) \/ RefundCommits(r)
  PROVE  ExpensesInv'
<1> USE ExpensesAssumption
    DEF ExpensesInv, ExpensesTypeOK, Held, Found, Noticed, PaidBackOnce, RefundedIsPaidBack, KeyPaysOnce,
        ExpenseRequest, States, ExpenseStep
<1>1. CASE ReadPaid(r)
  BY <1>1 DEF ReadPaid, Is, Leave, Unchanged
<1>2. CASE RefundRefused(r)
  BY <1>2 DEF RefundRefused, Is, Leave, Unchanged
<1>3. CASE CheckPayment(r)
  <2> USE <1>3 DEF CheckPayment, Reversing
  <2>1. ExpensesTypeOK' /\ Held' /\ Found'
    OBVIOUS
  <2>2. Noticed' BY <2>1
  <2>3. PaidBackOnce' /\ RefundedIsPaidBack' /\ KeyPaysOnce' BY <2>1
  <2> QED BY <2>1, <2>2, <2>3
<1>4. CASE NotCompleted(r)
  BY <1>4 DEF NotCompleted, Leave, Unchanged
<1>5. CASE Reverse(r)
  BY <1>5 DEF Reverse, Unchanged
<1>6. CASE RefundCommits(r)
  <2> USE <1>6 DEF RefundCommits
  <2> DEFINE e == changeOf[r]
  <2>1. e \in Expense /\ payment[e] \in {"COMPLETED", "REFUNDED"}
    OBVIOUS
  <2>2. ExpensesTypeOK' /\ Held'
    <3>1. box + Amount[e] \in Nat /\ reversed[e] + 1 \in Nat
      BY <2>1
    <3> QED BY <2>1, <3>1
  <2>3. Found' BY <2>1, <2>2
  <2>4. Noticed' BY <2>1, <2>2
  <2>5. reversed[e] > 0 => e \in twice
    BY <2>1
  <2>6. PaidBackOnce' BY <2>1, <2>2, <2>5
  <2>7. RefundedIsPaidBack' BY <2>1, <2>2
  <2>8. KeyPaysOnce' BY <2>1, <2>2
  <2> QED BY <2>2, <2>3, <2>4, <2>6, <2>7, <2>8
<1> QED BY <1>1, <1>2, <1>3, <1>4, <1>5, <1>6

LEMMA UpdateInv ==
  ASSUME ExpensesInv, NEW r \in Change, ReadForUpdate(r) \/ UpdateRefused(r) \/ Save(r)
  PROVE  ExpensesInv'
<1> USE ExpensesAssumption
    DEF ExpensesInv, ExpensesTypeOK, Held, Found, Noticed, PaidBackOnce, RefundedIsPaidBack, KeyPaysOnce,
        ExpenseRequest, States, ExpenseStep
<1>1. CASE ReadForUpdate(r)
  BY <1>1 DEF ReadForUpdate, Is, Leave, Unchanged
<1>2. CASE UpdateRefused(r)
  BY <1>2 DEF UpdateRefused, Is, Leave, Unchanged
<1>3. CASE Save(r)
  <2> USE <1>3 DEF Save
  <2>1. payment[changeOf[r]] # "NONE" /\ expense[changeOf[r]] # "NONE"
    OBVIOUS
  <2>2. ExpensesTypeOK' /\ Held'
    OBVIOUS
  <2>3. Found' /\ Noticed' BY <2>1, <2>2
  <2>4. PaidBackOnce' /\ RefundedIsPaidBack' /\ KeyPaysOnce' BY <2>1, <2>2
  <2> QED BY <2>2, <2>3, <2>4
<1> QED BY <1>1, <1>2, <1>3

LEMMA RollBackInv ==
  ASSUME ExpensesInv, NEW r \in ExpenseRequest, RollBack(r)
  PROVE  ExpensesInv'
BY ExpensesAssumption
   DEF RollBack, Unchanged, ExpensesInv, ExpensesTypeOK, Held, Found, Noticed, PaidBackOnce,
       RefundedIsPaidBack, KeyPaysOnce, ExpenseRequest, States, ExpenseStep

LEMMA OthersInv == ExpensesInv /\ ExpensesOthers => ExpensesInv'
BY ExpensesAssumption
   DEF ExpensesOthers, expenseVars, ExpensesInv, ExpensesTypeOK, Held, Found, Noticed, PaidBackOnce,
       RefundedIsPaidBack, KeyPaysOnce, ExpenseRequest, States

LEMMA ExpensesStepInv == ExpensesInv /\ [ExpensesOwn \/ ExpensesOthers]_expensesVars => ExpensesInv'
<1> SUFFICES ASSUME ExpensesInv, [ExpensesOwn \/ ExpensesOthers]_expensesVars PROVE ExpensesInv'
  OBVIOUS
<1>1. CASE ExpensesOwn
  <2>1. PICK r \in ExpenseRequest : ExpenseDo(r)
    BY <1>1 DEF ExpensesOwn
  <2>2. CASE RollBack(r)
    BY <2>2, RollBackInv
  <2>3. CASE r \in Expense /\ ~RollBack(r)
    BY <2>1, <2>3, CreateInv, ExpensesAssumption DEF ExpenseDo
  <2>4. CASE r \in Change /\ ~RollBack(r)
    BY <2>1, <2>4, RefundInv, UpdateInv, ExpensesAssumption DEF ExpenseDo
  <2> QED BY <2>2, <2>3, <2>4 DEF ExpenseRequest
<1>2. CASE ExpensesOthers
  BY <1>2, OthersInv
<1>3. CASE UNCHANGED expensesVars
  BY <1>3
     DEF expensesVars, expenseVars, ExpensesInv, ExpensesTypeOK, Held, Found, Noticed, PaidBackOnce,
         RefundedIsPaidBack, KeyPaysOnce, Reversing
<1> QED BY <1>1, <1>2, <1>3

LEMMA ExpensesInvariant == ExpensesSpec => []ExpensesInv
BY ExpensesInitInv, ExpensesStepInv, PTL DEF ExpensesSpec

-----------------------------------------------------------------------------
\* An expense is paid back at most once, unless two refunds of it overlap
\* (refundExpense, whatever updateExpense writes back).
THEOREM ExpensesPaidBackOnce == ExpensesSpec => []PaidBackOnce
<1>1. ExpensesInv => PaidBackOnce
  BY DEF ExpensesInv
<1> QED BY <1>1, ExpensesInvariant, PTL

\* Expense, payment and reversals agree in every state, for all costs and keys.
THEOREM ExpensesRefundedIsPaidBack == ExpensesSpec => []RefundedIsPaidBack
<1>1. ExpensesInv => RefundedIsPaidBack
  BY DEF ExpensesInv
<1> QED BY <1>1, ExpensesInvariant, PTL

\* A key pays for one expense (createExpense and the unique index on the key).
THEOREM ExpensesKeyPaysOnce == ExpensesSpec => []KeyPaysOnce
<1>1. ExpensesInv => KeyPaysOnce
  BY DEF ExpensesInv
<1> QED BY <1>1, ExpensesInvariant, PTL

-----------------------------------------------------------------------------
(***************************************************************************)
(* Payouts: a record never claims more than was paid, and tells what was   *)
(* paid of a payout that nothing has disturbed.                            *)
(***************************************************************************)
On(r) == job[r].payout
Active(r) == payoutPc[r] \in {"PAYING", "SAVING"}

\* What an active request has read was never more than had been paid, and what
\* it has paid itself has come on top of that.
Backed ==
  /\ \A r \in PayRequest : Active(r) => copy[r].totalPaid <= paid[On(r)]
  /\ \A r \in PayRequest : payoutPc[r] = "SAVING" =>
       IF job[r].kind = "pay" THEN paid[On(r)] >= Price[On(r)]
                              ELSE Total(r) <= paid[On(r)]

PayoutsInv == PayoutsTypeOK /\ Backed /\ NeverOverclaims

LEMMA PayoutsInitInv == PayoutsInit => PayoutsInv
BY DEF PayoutsInit, PayoutsInv, PayoutsTypeOK, Backed, NeverOverclaims, Row, NoRow, Status, Active

LEMMA PayoutsStepInv == PayoutsInv /\ [PayoutsOwn \/ PayoutsOthers]_payoutsVars => PayoutsInv'
<1> SUFFICES ASSUME PayoutsInv, [PayoutsOwn \/ PayoutsOthers]_payoutsVars PROVE PayoutsInv'
  OBVIOUS
<1> USE PayoutsAssumption
    DEF PayoutsInv, PayoutsTypeOK, Backed, NeverOverclaims, Row, NoRow, Status, Active, On, Job, PayoutStep, Total
<1>1. CASE PayoutsOwn
  <2>1. PICK r \in PayRequest : (PayoutDo(r) \/ Die(r)) /\ UNCHANGED job
    BY <1>1 DEF PayoutsOwn
  <2> job[r] \in Job /\ On(r) \in Payout
    OBVIOUS
  <2>2. CASE Record(r)
    <3>1. NewRow(On(r)) \in Row /\ NewRow(On(r)).totalPaid = 0 /\ NewRow(On(r)).status # "PAID"
      BY DEF NewRow
    <3>2. PayoutsTypeOK'
      BY <2>1, <2>2, <3>1 DEF Record
    <3>3. Backed'
      BY <2>1, <2>2, <3>1, <3>2 DEF Record
    <3>4. NeverOverclaims'
      BY <2>1, <2>2, <3>1, <3>2 DEF Record
    <3> QED BY <3>2, <3>3, <3>4
  <2>3. CASE Read(r)
    BY <2>1, <2>3 DEF Read, Disturb
  <2>4. CASE ReadRefused(r)
    BY <2>1, <2>4 DEF ReadRefused, Refuse
  <2>5. CASE PayTeacher(r)
    <3>1. Due(r) \in Nat /\ box - Due(r) \in Nat /\ paid[On(r)] + Due(r) \in Nat
      BY <2>5 DEF PayTeacher, Due
    <3>2. PayoutsTypeOK'
      BY <2>1, <2>5, <3>1 DEF PayTeacher
    <3>3. \A o \in Payout : paid[o] \in Nat /\ paid'[o] \in Nat /\ paid[o] <= paid'[o]
      BY <2>5, <3>1 DEF PayTeacher
    <3>4. \A q \in PayRequest : /\ job[q] \in Job /\ On(q) \in Payout /\ Price[On(q)] \in Nat
                             /\ copy[q].totalPaid \in Nat /\ job[q].amount \in Nat
      OBVIOUS
    <3>5. ASSUME NEW q \in PayRequest, Active(q)'
          PROVE  copy[q].totalPaid <= paid'[On(q)]
      BY <2>1, <2>5, <3>3, <3>4, <3>5 DEF PayTeacher
    <3>6. ASSUME NEW q \in PayRequest, payoutPc'[q] = "SAVING"
          PROVE  IF job[q].kind = "pay" THEN paid'[On(q)] >= Price[On(q)]
                                        ELSE Total(q) <= paid'[On(q)]
      <4>1. CASE q = r
        <5>1. paid'[On(r)] = paid[On(r)] + Due(r) /\ copy[r].totalPaid <= paid[On(r)]
          BY <2>5, <3>1 DEF PayTeacher
        <5> QED BY <3>3, <3>4, <4>1, <5>1 DEF Due
      <4>2. CASE q # r
        BY <2>5, <3>3, <3>4, <3>6, <4>2 DEF PayTeacher
      <4> QED BY <4>1, <4>2
    <3>7. Backed'
      BY <2>1, <2>5, <3>5, <3>6 DEF PayTeacher
    <3>8. NeverOverclaims'
      BY <2>5, <3>2, <3>3 DEF PayTeacher
    <3> QED BY <3>2, <3>7, <3>8
  <2>6. CASE PayoutRefused(r)
    BY <2>1, <2>6 DEF PayoutRefused, Refuse
  <2>7. CASE SaveInstallment(r)
    <3>1. Result(r) \in Row /\ Result(r).totalPaid <= paid[On(r)]
            /\ (Result(r).status = "PAID" => paid[On(r)] >= Price[On(r)])
      BY <2>7 DEF SaveInstallment, Result
    <3>2. PayoutsTypeOK'
      BY <2>1, <2>7, <3>1 DEF SaveInstallment
    <3>3. Backed'
      BY <2>1, <2>7, <3>1, <3>2 DEF SaveInstallment
    <3>4. NeverOverclaims'
      BY <2>1, <2>7, <3>1, <3>2 DEF SaveInstallment
    <3> QED BY <3>2, <3>3, <3>4
  <2>8. CASE SaveStatus(r)
    BY <2>1, <2>8 DEF SaveStatus
  <2>9. CASE Die(r)
    BY <2>1, <2>9 DEF Die, Disturb
  <2> QED BY <2>1, <2>2, <2>3, <2>4, <2>5, <2>6, <2>7, <2>8, <2>9 DEF PayoutDo
<1>2. CASE PayoutsOthers
  BY <1>2 DEF PayoutsOthers, payoutVars
<1>3. CASE UNCHANGED payoutsVars
  BY <1>3 DEF payoutsVars, payoutVars
<1> QED BY <1>1, <1>2, <1>3

LEMMA PayoutsInvariant == PayoutsSpec => []PayoutsInv
BY PayoutsInitInv, PayoutsStepInv, PTL DEF PayoutsSpec

\* No instalment, change of status or overtaken save makes a record claim more
\* than the payments that refer to it (executeInstallmentPayment, updatePayoutStatus).
THEOREM PayoutsNeverOverclaim == PayoutsSpec => []NeverOverclaims
<1>1. PayoutsInv => NeverOverclaims
  BY DEF PayoutsInv
<1> QED BY <1>1, PayoutsInvariant, PTL

-----------------------------------------------------------------------------
\* What the record of a payout says has been paid.
Recorded(o) == IF Unit[o] = "SESSION" /\ payout[o].status = "PAID"
               THEN Price[o] ELSE payout[o].totalPaid
Exempt(o) == \E r \in PayRequest : job[r].kind = "record" /\ job[r].amount > Price[o]

\* Only classes are paid in parts, and only what exists is worked on.
Parts ==
  /\ \A r \in PayRequest : Active(r) =>
       /\ payout[On(r)] # NoRow
       /\ job[r].kind # "pay" => Unit[On(r)] = "CLASS"
  /\ \A o \in Payout : Unit[o] = "SESSION" => payout[o].totalPaid = 0
  /\ \A o \in Payout : payout[o] = NoRow => paid[o] = 0

\* A payout that nothing has disturbed: one request at a time is at work, on a copy
\* that is the row, and what it has paid is what the record lacks.
Alone ==
  \A o \in Payout \ disturbed :
    /\ \A r, q \in PayRequest : Active(r) /\ Active(q) /\ On(r) = o /\ On(q) = o => r = q
    /\ \A r \in PayRequest : Active(r) /\ On(r) = o =>
         /\ copy[r] = payout[o]
         /\ job[r].kind = "pay" => Unit[o] = "SESSION" /\ payout[o].status # "PAID"
         /\ Recorded(o) + Due(r) <= Price[o] \/ Exempt(o)
    /\ \A r \in PayRequest : On(r) = o /\ payoutPc[r] = "SAVING" => paid[o] = Recorded(o) + Due(r)
    /\ ~InWork(o) => paid[o] = Recorded(o)
    /\ paid[o] <= Price[o] \/ Exempt(o)

JInv == PayoutsInv /\ Parts /\ Alone

LEMMA InitJInv == PayoutsInit => JInv
BY PayoutsInitInv, PayoutsAssumption
   DEF PayoutsInit, JInv, Parts, Alone, Recorded, Exempt, InWork, Active, On, NoRow

LEMMA StepParts == PayoutsInv /\ Parts /\ [PayoutsOwn \/ PayoutsOthers]_payoutsVars => Parts'
<1> SUFFICES ASSUME PayoutsInv, Parts, [PayoutsOwn \/ PayoutsOthers]_payoutsVars PROVE Parts'
  OBVIOUS
<1> USE PayoutsAssumption
    DEF PayoutsInv, PayoutsTypeOK, Parts, Row, NoRow, Status, Active, On, Job, PayoutStep
<1>1. CASE PayoutsOwn
  <2>1. PICK r \in PayRequest : (PayoutDo(r) \/ Die(r)) /\ UNCHANGED job
    BY <1>1 DEF PayoutsOwn
  <2> job[r] \in Job /\ On(r) \in Payout
    OBVIOUS
  <2>2. CASE Record(r)
    BY <2>1, <2>2 DEF Record, NewRow
  <2>3. CASE Read(r)
    BY <2>1, <2>3 DEF Read, Exists, MayPay, Fits
  <2>4. CASE ReadRefused(r)
    BY <2>1, <2>4 DEF ReadRefused, Refuse
  <2>5. CASE PayTeacher(r)
    BY <2>1, <2>5 DEF PayTeacher
  <2>6. CASE PayoutRefused(r)
    BY <2>1, <2>6 DEF PayoutRefused, Refuse
  <2>7. CASE SaveInstallment(r)
    BY <2>1, <2>7 DEF SaveInstallment, Result
  <2>8. CASE SaveStatus(r)
    BY <2>1, <2>8 DEF SaveStatus
  <2>9. CASE Die(r)
    BY <2>1, <2>9 DEF Die
  <2> QED BY <2>1, <2>2, <2>3, <2>4, <2>5, <2>6, <2>7, <2>8, <2>9 DEF PayoutDo
<1>2. CASE PayoutsOthers
  BY <1>2 DEF PayoutsOthers, payoutVars
<1>3. CASE UNCHANGED payoutsVars
  BY <1>3 DEF payoutsVars, payoutVars
<1> QED BY <1>1, <1>2, <1>3

LEMMA StepAlone == JInv /\ [PayoutsOwn \/ PayoutsOthers]_payoutsVars => Alone'
<1> SUFFICES ASSUME JInv, [PayoutsOwn \/ PayoutsOthers]_payoutsVars PROVE Alone'
  OBVIOUS
<1> USE PayoutsAssumption
    DEF JInv, PayoutsInv, PayoutsTypeOK, Parts, Alone, Recorded, Exempt, InWork, Row, NoRow, Status, Active,
        On, Job, PayoutStep, Due
<1>1. CASE PayoutsOwn
  <2>1. PICK r \in PayRequest : (PayoutDo(r) \/ Die(r)) /\ UNCHANGED job
    BY <1>1 DEF PayoutsOwn
  <2> job[r] \in Job /\ On(r) \in Payout
    OBVIOUS
  <2>2. CASE Record(r)
    BY <2>1, <2>2 DEF Record, NewRow
  <2>3. CASE Read(r)
    BY <2>1, <2>3 DEF Read, Exists, MayPay, Fits, Disturb, Busy
  <2>4. CASE ReadRefused(r)
    BY <2>1, <2>4 DEF ReadRefused, Refuse
  <2>5. CASE PayTeacher(r)
    BY <2>1, <2>5 DEF PayTeacher
  <2>6. CASE PayoutRefused(r)
    BY <2>1, <2>6 DEF PayoutRefused, Refuse
  <2>7. CASE SaveInstallment(r)
    BY <2>1, <2>7 DEF SaveInstallment, Result, Total
  <2>8. CASE SaveStatus(r)
    BY <2>1, <2>8 DEF SaveStatus
  <2>9. CASE Die(r)
    BY <2>1, <2>9 DEF Die, Disturb
  <2> QED BY <2>1, <2>2, <2>3, <2>4, <2>5, <2>6, <2>7, <2>8, <2>9 DEF PayoutDo
<1>2. CASE PayoutsOthers
  BY <1>2 DEF PayoutsOthers, payoutVars
<1>3. CASE UNCHANGED payoutsVars
  BY <1>3 DEF payoutsVars, payoutVars
<1> QED BY <1>1, <1>2, <1>3

LEMMA UndisturbedInvariant == PayoutsSpec => []JInv
<1>1. JInv /\ [PayoutsOwn \/ PayoutsOthers]_payoutsVars => JInv'
  BY PayoutsStepInv, StepParts, StepAlone DEF JInv
<1> QED BY <1>1, InitJInv, PTL DEF PayoutsSpec

\* Of a payout that one request at a time has dealt with, none of which died after
\* its payment, the record says what has been paid, and that is not more than its
\* price.
THEOREM PayoutsRecordTellsMoney == PayoutsSpec => []RecordTellsMoney
<1>1. JInv => RecordTellsMoney
  BY DEF JInv, Alone, RecordTellsMoney, Recorded, Exempt
<1> QED BY <1>1, UndisturbedInvariant, PTL

-----------------------------------------------------------------------------
(***************************************************************************)
(* Both: what one of them does is what the other allows its environment.   *)
(***************************************************************************)
BothInv == ExpensesInv /\ PayoutsInv

\* A step of the branch is one of expenses, or one they allow others.
LEMMA StepOfExpenses ==
  BothInv /\ [Next]_spendingVars => [ExpensesOwn \/ ExpensesOthers]_expensesVars
<1> SUFFICES ASSUME BothInv, [Next]_spendingVars
             PROVE  ExpensesOwn \/ ExpensesOthers \/ UNCHANGED expensesVars
  BY DEF expensesVars
<1>1. CASE \E r \in ExpenseRequest : SpendOn(r)
  BY <1>1 DEF SpendOn, ExpensesOwn
<1>2. ASSUME NEW r \in PayRequest, PayFor(r) PROVE ExpensesOthers \/ UNCHANGED expensesVars
  <2>1. CASE PayTeacher(r)
    <3>1. job[r] \in Job /\ box \in Nat
      BY PayoutsAssumption DEF BothInv, PayoutsInv, PayoutsTypeOK
    <3>2. Due(r) \in Nat
      BY <3>1, PayoutsAssumption DEF Due, Job
    <3>3. box' \in Nat
      BY <2>1, <3>1, <3>2 DEF PayTeacher
    <3> QED BY <1>2, <2>1, <3>3 DEF PayFor, PayTeacher, ExpensesOthers
  <2>2. CASE ~PayTeacher(r)
    BY <1>2, <2>2 DEF PayFor, PayoutDo, Record, Read, ReadRefused, PayoutRefused, Refuse,
                      SaveInstallment, SaveStatus, expensesVars
  <2> QED BY <2>1, <2>2
<1>3. ASSUME NEW r \in PayRequest, DieIn(r) PROVE UNCHANGED expensesVars
  BY <1>3 DEF DieIn, Die, expensesVars
<1>4. CASE UNCHANGED spendingVars
  BY <1>4 DEF spendingVars
<1> QED BY <1>1, <1>2, <1>3, <1>4 DEF Next

\* And it is a step of payouts, or one they allow others.
LEMMA StepOfPayouts ==
  BothInv /\ ExpensesInv' /\ [Next]_spendingVars => [PayoutsOwn \/ PayoutsOthers]_payoutsVars
<1> SUFFICES ASSUME BothInv, ExpensesInv', [Next]_spendingVars
             PROVE  PayoutsOwn \/ PayoutsOthers \/ UNCHANGED payoutsVars
  BY DEF payoutsVars
<1>1. CASE \E r \in ExpenseRequest : SpendOn(r)
  <2>1. box' \in Nat
    BY DEF ExpensesInv, ExpensesTypeOK
  <2> QED BY <1>1, <2>1 DEF SpendOn, PayoutsOthers
<1>2. CASE \E r \in PayRequest : PayFor(r) \/ DieIn(r)
  BY <1>2 DEF PayFor, DieIn, PayoutsOwn
<1>3. CASE UNCHANGED spendingVars
  BY <1>3 DEF spendingVars, expensesVars, payoutsVars
<1> QED BY <1>1, <1>2, <1>3 DEF Next

LEMMA ExpensesStay == BothInv /\ [Next]_spendingVars => ExpensesInv'
BY StepOfExpenses, ExpensesStepInv DEF BothInv

LEMMA BothStart == Init => BothInv
BY ExpensesInitInv, PayoutsInitInv DEF Init, BothInv

LEMMA BothStay == BothInv /\ [Next]_spendingVars => BothInv'
BY ExpensesStay, StepOfPayouts, PayoutsStepInv DEF BothInv

LEMMA BothAlways == Spec => []BothInv
BY BothStart, BothStay, PTL DEF Spec

-----------------------------------------------------------------------------
\* Both components keep their types at a shared cashbox: in particular it is
\* never overdrawn (CashboxService.updateBalance).
THEOREM SpendingTypeOK == Spec => []TypeOK
<1>1. BothInv => TypeOK
  BY DEF BothInv, ExpensesInv, PayoutsInv, TypeOK
<1> QED BY <1>1, BothAlways, PTL

\* Payouts are an environment that expenses can live with: they use the cashbox
\* when no transaction of an expense holds its row.
THEOREM SpendingImplementsExpenses == Spec => ExpensesSeeAnEnvironment
<1>1. Init => ExpensesInit
  BY DEF Init
<1> QED BY <1>1, StepOfExpenses, BothAlways, PTL DEF Spec, ExpensesSpec, ExpensesSeeAnEnvironment

\* And expenses are one for payouts.
THEOREM SpendingImplementsPayouts == Spec => PayoutsSpec
<1>1. Init => PayoutsInit
  BY DEF Init
<1> QED BY <1>1, StepOfPayouts, ExpensesStay, BothAlways, PTL DEF Spec, PayoutsSpec

\* What holds of each alone, holds of the branch.
COROLLARY SpendingIsSafe ==
  Spec => [](PaidBackOnce /\ RefundedIsPaidBack /\ KeyPaysOnce /\ NeverOverclaims /\ RecordTellsMoney)
<1>1. ExpensesSeeAnEnvironment => []PaidBackOnce /\ []RefundedIsPaidBack /\ []KeyPaysOnce
  BY ExpensesPaidBackOnce, ExpensesRefundedIsPaidBack, ExpensesKeyPaysOnce DEF ExpensesSeeAnEnvironment
<1> QED BY <1>1, SpendingImplementsExpenses, SpendingImplementsPayouts,
           PayoutsNeverOverclaim, PayoutsRecordTellsMoney, PTL

-----------------------------------------------------------------------------
(***************************************************************************)
(* The cashbox adds up.  A step moves money of one expense or one payout,  *)
(* so one of the three sums changes at one point, by what the box changes. *)
(***************************************************************************)
LEMMA SumsAreInts ==
  ASSUME BothInv
  PROVE  /\ \A e \in Expense : Spent[e] \in Int /\ BroughtBack[e] \in Int
         /\ \A o \in Payout : paid[o] \in Int
         /\ SumFunctionOnSet(Spent, Expense) \in Int
         /\ SumFunctionOnSet(BroughtBack, Expense) \in Int
         /\ SumFunctionOnSet(paid, Payout) \in Int
<1>1. \A e \in Expense : Amount[e] \in Nat /\ reversed[e] \in Nat
  BY ExpensesAssumption DEF BothInv, ExpensesInv, ExpensesTypeOK
<1>2. \A e \in Expense : reversed[e] * Amount[e] \in Int
  BY <1>1
<1>3. \A e \in Expense : Spent[e] \in Int /\ BroughtBack[e] \in Int
  BY <1>1, <1>2 DEF Spent, BroughtBack
<1>4. \A o \in Payout : paid[o] \in Int
  BY DEF BothInv, PayoutsInv, PayoutsTypeOK
<1> QED BY <1>3, <1>4, SpendingAssumption, SumInt

LEMMA BoxStart == Init => BoxAddsUp
<1> SUFFICES ASSUME Init PROVE BoxAddsUp
  OBVIOUS
<1>1. \A e \in Expense : Spent[e] = 0 /\ BroughtBack[e] = 0
  BY ExpensesAssumption DEF Init, ExpensesInit, Spent, BroughtBack
<1>2. \A o \in Payout : paid[o] = 0
  BY DEF Init, PayoutsInit
<1>3. /\ SumFunctionOnSet(Spent, Expense) = 0
      /\ SumFunctionOnSet(BroughtBack, Expense) = 0
      /\ SumFunctionOnSet(paid, Payout) = 0
  BY <1>1, <1>2, SumZero, SpendingAssumption
<1> QED BY <1>3, SpendingAssumption DEF Init, BoxAddsUp

\* A payment of an expense commits: it had none before.
LEMMA BoxOnInsert ==
  ASSUME BothInv, BothInv', BoxAddsUp, NEW e \in Expense, InsertCommits(e), UNCHANGED paid
  PROVE  BoxAddsUp'
<1>1. PICK f, g : f = Spent /\ g = Spent'
  OBVIOUS
<1>2. payment[e] = "NONE" /\ Amount[e] \in Nat
  BY ExpensesAssumption DEF InsertCommits, ExpenseStep, BothInv, ExpensesInv, Found, RefundedIsPaidBack
<1>3. f[e] = 0 /\ g[e] = Amount[e] /\ \A s \in Expense : s # e => g[s] = f[s]
  BY <1>1, <1>2 DEF InsertCommits, Spent, BothInv, ExpensesInv, ExpensesTypeOK
<1>4. SumFunctionOnSet(g, Expense) = SumFunctionOnSet(f, Expense) + (g[e] - f[e])
  <2>1. (\A s \in Expense : f[s] \in Int) /\ g[e] \in Int
    BY <1>1, <1>2, <1>3, SumsAreInts
  <2> QED BY <1>3, <2>1, SumChange, SpendingAssumption
<1>5. BroughtBack' = BroughtBack /\ box' = box - Amount[e] /\ paid' = paid
  BY DEF InsertCommits, BroughtBack
<1>6. box \in Int /\ Opening \in Int
  BY SpendingAssumption DEF BothInv, ExpensesInv, ExpensesTypeOK
<1> QED BY <1>1, <1>2, <1>3, <1>4, <1>5, <1>6, SumsAreInts DEF BoxAddsUp

\* A reversal commits: the payment stays one that was made.
LEMMA BoxOnRefund ==
  ASSUME BothInv, BothInv', BoxAddsUp, NEW r \in Change, RefundCommits(r), UNCHANGED paid
  PROVE  BoxAddsUp'
<1> DEFINE e == changeOf[r]
<1>1. PICK f, g : f = BroughtBack /\ g = BroughtBack'
  OBVIOUS
<1>2. e \in Expense /\ Amount[e] \in Nat /\ payment[e] # "NONE" /\ reversed[e] \in Nat
  <2>1. expensePc[r] = "REVERSED"
    BY DEF RefundCommits, ExpenseStep
  <2>2. e \in Expense /\ Amount[e] \in Nat /\ reversed[e] \in Nat
    BY ExpensesAssumption DEF BothInv, ExpensesInv, ExpensesTypeOK
  <2>3. payment[e] # "NONE"
    BY <2>1 DEF BothInv, ExpensesInv, Found
  <2> QED BY <2>2, <2>3
<1>3. f[e] = reversed[e] * Amount[e] /\ g[e] = (reversed[e] + 1) * Amount[e]
  BY <1>1, <1>2 DEF RefundCommits, BroughtBack, BothInv, ExpensesInv, ExpensesTypeOK
<1>4. \A s \in Expense : s # e => g[s] = f[s]
  BY <1>1, <1>2 DEF RefundCommits, BroughtBack, BothInv, ExpensesInv, ExpensesTypeOK
<1>5. g[e] - f[e] = Amount[e] /\ g[e] \in Int
  BY <1>2, <1>3
<1>6. SumFunctionOnSet(g, Expense) = SumFunctionOnSet(f, Expense) + (g[e] - f[e])
  <2>1. \A s \in Expense : f[s] \in Int
    BY <1>1, SumsAreInts
  <2> QED BY <1>2, <1>4, <1>5, <2>1, SumChange, SpendingAssumption
<1>7. Spent' = Spent /\ box' = box + Amount[e] /\ paid' = paid
  BY <1>2 DEF RefundCommits, Spent, BothInv, ExpensesInv, ExpensesTypeOK
<1>8. box \in Int /\ Opening \in Int
  BY SpendingAssumption DEF BothInv, ExpensesInv, ExpensesTypeOK
<1> QED BY <1>1, <1>2, <1>5, <1>6, <1>7, <1>8, SumsAreInts DEF BoxAddsUp

\* A payment to a teacher.
LEMMA BoxOnPay ==
  ASSUME BothInv, BothInv', BoxAddsUp, NEW r \in PayRequest, PayTeacher(r), UNCHANGED <<job, expenseVars>>
  PROVE  BoxAddsUp'
<1> DEFINE o == job[r].payout
<1>1. PICK f, g : f = paid /\ g = paid'
  OBVIOUS
<1>2. o \in Payout /\ Due(r) \in Nat /\ f \in [Payout -> Nat]
  BY <1>1, PayoutsAssumption DEF Due, Job, BothInv, PayoutsInv, PayoutsTypeOK
<1>3. g[o] = f[o] + Due(r) /\ \A s \in Payout : s # o => g[s] = f[s]
  BY <1>1, <1>2 DEF PayTeacher
<1>4. SumFunctionOnSet(g, Payout) = SumFunctionOnSet(f, Payout) + (g[o] - f[o])
  <2>1. (\A s \in Payout : f[s] \in Int) /\ g[o] \in Int
    BY <1>2, <1>3
  <2> QED BY <1>2, <1>3, <2>1, SumChange, SpendingAssumption
<1>5. Spent' = Spent /\ BroughtBack' = BroughtBack /\ box' = box - Due(r)
  BY DEF PayTeacher, Spent, BroughtBack, expenseVars
<1>6. box \in Int /\ Opening \in Int /\ f[o] \in Int
  BY <1>2, SpendingAssumption DEF BothInv, ExpensesInv, ExpensesTypeOK
<1> QED BY <1>1, <1>2, <1>3, <1>4, <1>5, <1>6, SumsAreInts DEF BoxAddsUp

LEMMA BoxStep == BothInv /\ BoxAddsUp /\ [Next]_spendingVars => BoxAddsUp'
<1> SUFFICES ASSUME BothInv, BoxAddsUp, [Next]_spendingVars PROVE BoxAddsUp'
  OBVIOUS
<1>0. BothInv'
  BY BothStay
<1>1. ASSUME UNCHANGED <<box, payment, reversed, paid>> PROVE BoxAddsUp'
  BY <1>1 DEF BoxAddsUp, Spent, BroughtBack
<1>2. ASSUME NEW r \in ExpenseRequest, SpendOn(r) PROVE BoxAddsUp'
  <2>1. CASE r \in Expense /\ InsertCommits(r)
    BY <1>0, <1>2, <2>1, BoxOnInsert DEF SpendOn, payoutVars
  <2>2. CASE r \in Change /\ RefundCommits(r)
    BY <1>0, <1>2, <2>2, BoxOnRefund DEF SpendOn, payoutVars
  <2>3. CASE ~(r \in Expense /\ InsertCommits(r)) /\ ~(r \in Change /\ RefundCommits(r))
    <3>1. UNCHANGED <<box, payment, reversed, paid>>
      BY <1>2, <2>3 DEF SpendOn, ExpenseDo, ReturnExisting, LookUp, PayExpense, ExpenseRefused,
         ReadPaid, RefundRefused, CheckPayment, NotCompleted, Reverse, ReadForUpdate, UpdateRefused,
         Save, RollBack, Leave, Unchanged, payoutVars
    <3> QED BY <1>1, <3>1
  <2> QED BY <2>1, <2>2, <2>3
<1>3. ASSUME NEW r \in PayRequest, PayFor(r) \/ DieIn(r) PROVE BoxAddsUp'
  <2>1. CASE PayTeacher(r)
    BY <1>0, <1>3, <2>1, BoxOnPay DEF PayFor, DieIn
  <2>2. CASE ~PayTeacher(r)
    <3>1. UNCHANGED <<box, payment, reversed, paid>>
      BY <1>3, <2>2 DEF PayFor, DieIn, PayoutDo, Record, Read, ReadRefused, PayoutRefused, Refuse,
         SaveInstallment, SaveStatus, Die, expenseVars
    <3> QED BY <1>1, <3>1
  <2> QED BY <2>1, <2>2
<1>4. CASE UNCHANGED spendingVars
  BY <1>1, <1>4 DEF spendingVars, expensesVars, expenseVars, payoutVars
<1> QED BY <1>2, <1>3, <1>4 DEF Next

\* No payment and no reversal is lost at the cashbox: it holds what it held at
\* first, less all that was paid from it, and what reversals brought back
\* (CashboxService.updateBalance under the lock of the row).
THEOREM SpendingBoxAddsUp == Spec => []BoxAddsUp
BY BoxStart, BoxStep, BothAlways, PTL DEF Spec
=============================================================================
