---------------------------- MODULE TeacherPayouts ----------------------------
(***************************************************************************)
(* What a branch owes its teachers: records made by listeners and jobs,    *)
(* instalments on a class, and payouts set to PAID.  No endpoint or job of *)
(* payouts is a transaction: the payment commits by itself, and the        *)
(* record, read before it, is saved after it.                              *)
(*                                                                         *)
(* createClassPayout within createClass is the exception: record and       *)
(* initial payment commit with the class, and a failing statement takes    *)
(* all of it back although the error is caught.  The steps below, one      *)
(* commit each, admit that outcome and the states in between.              *)
(*                                                                         *)
(* The branch pays in cash, from the box it pays its expenses from; from   *)
(* its wallet it would be the same with another row.                       *)
(***************************************************************************)
EXTENDS Integers, Cashbox

CONSTANTS
  Payout,
  Unit,     \* SESSION stands for every unit that is paid at once
  Price,    \* unit price times unit count
  PayRequest,
  PayWorkloads \* what they may ask for: a kind, a payout, and the amount of an
               \* instalment or of a record's initial payment, which may be 0

\* A record is made by a listener; pay is a change of the status to PAID.
Job == [kind : {"record", "installment", "pay"}, payout : Payout, amount : Nat]

ASSUME PayoutsAssumption ==
  /\ Unit \in [Payout -> {"CLASS", "SESSION"}] /\ Price \in [Payout -> Nat]
  /\ PayWorkloads \subseteq [PayRequest -> Job]

VARIABLES
  job,       \* what a request asks for
  payout,    \* the committed row: status and totalPaid
  paid,      \* what payments that refer to it have really moved
  copy,      \* the row a request works on
  payoutPc,  \* where a request is
  disturbed  \* history: two requests met, one died after its payment, a class was
             \* set to PAID by hand

payoutVars == <<payout, paid, copy, payoutPc, disturbed>>
payoutsVars == <<job, payoutVars, box, holder>>

Status == {"PENDING", "INSTALLMENT", "PAID"}
Row == [status : Status, totalPaid : Nat]
NoRow == [status |-> "NONE", totalPaid |-> 0]
Due(r) == IF job[r].kind = "pay" THEN Price[job[r].payout] ELSE job[r].amount

PayoutsInit ==
  /\ job \in PayWorkloads
  /\ payout = [o \in Payout |-> NoRow] /\ paid = [o \in Payout |-> 0]
  /\ copy = [r \in PayRequest |-> NoRow] /\ payoutPc = [r \in PayRequest |-> "READY"]
  /\ box \in Nat /\ disturbed = {}

PayoutStep(r, from, to) == payoutPc[r] = from /\ payoutPc' = [payoutPc EXCEPT ![r] = to]
Disturb(r, when) == disturbed' = IF when THEN disturbed \cup {job[r].payout} ELSE disturbed
Busy(r) == \E q \in PayRequest \ {r} : job[q].payout = job[r].payout /\ payoutPc[q] \in {"PAYING", "SAVING"}
Refuse(r, from) ==
  /\ PayoutStep(r, from, "REFUSED")
  /\ UNCHANGED <<payout, paid, copy, box, holder, disturbed>>

-----------------------------------------------------------------------------
(* createPayout and createClassPayout *)

NewRow(o) == [status |-> IF Unit[o] = "CLASS" THEN "INSTALLMENT" ELSE "PENDING", totalPaid |-> 0]
Record(r) ==
  LET o == job[r].payout IN
  /\ job[r].kind = "record" /\ payout[o] = NoRow
  /\ PayoutStep(r, "READY", IF Unit[o] = "CLASS" /\ job[r].amount > 0 THEN "PAYING" ELSE "DONE")
  /\ payout' = [payout EXCEPT ![o] = NewRow(o)]
  /\ copy' = [copy EXCEPT ![r] = NewRow(o)]
  /\ UNCHANGED <<paid, box, holder, disturbed>>

-----------------------------------------------------------------------------
(* payClassInstallment and updatePayoutStatus *)

\* Whatever the status.
Fits(r) ==
  /\ Unit[job[r].payout] = "CLASS"
  /\ job[r].amount > 0 /\ job[r].amount <= Price[job[r].payout] - payout[job[r].payout].totalPaid

\* Mutant: what has been paid is not subtracted from the price.
MayPay_AnyTotal(r) ==
  \/ /\ job[r].kind = "installment" /\ Unit[job[r].payout] = "CLASS"
     /\ job[r].amount > 0 /\ job[r].amount <= Price[job[r].payout]
  \/ job[r].kind = "pay" /\ payout[job[r].payout].status # "PAID"
MayPay(r) ==
  \/ job[r].kind = "installment" /\ Fits(r)
  \/ job[r].kind = "pay" /\ payout[job[r].payout].status # "PAID"

Exists(r) == job[r].kind # "record" /\ payout[job[r].payout] # NoRow
Read(r) ==
  /\ Exists(r) /\ MayPay(r)
  /\ PayoutStep(r, "READY", "PAYING")
  /\ copy' = [copy EXCEPT ![r] = payout[job[r].payout]]
  /\ Disturb(r, Busy(r) \/ (job[r].kind = "pay" /\ Unit[job[r].payout] = "CLASS"))
  /\ UNCHANGED <<payout, paid, box, holder>>
ReadRefused(r) == Exists(r) /\ ~MayPay(r) /\ Refuse(r, "READY")

\* createAndExecutePayment, which commits by itself.  Mutant: nobody
\* waits for the row of the cashbox.
PayTeacher_Unlocked(r) ==
  /\ box >= Due(r)
  /\ PayoutStep(r, "PAYING", "SAVING")
  /\ box' = box - Due(r)
  /\ paid' = [paid EXCEPT ![job[r].payout] = @ + Due(r)]
  /\ UNCHANGED <<payout, copy, holder, disturbed>>
PayTeacher(r) ==
  /\ holder = Nobody /\ box >= Due(r)
  /\ PayoutStep(r, "PAYING", "SAVING")
  /\ box' = box - Due(r)
  /\ paid' = [paid EXCEPT ![job[r].payout] = @ + Due(r)]
  /\ UNCHANGED <<payout, copy, holder, disturbed>>
PayoutRefused(r) == box < Due(r) /\ Refuse(r, "PAYING")

-----------------------------------------------------------------------------
(* The rest of executeInstallmentPayment: the object is saved as it is. *)

Total(r) == copy[r].totalPaid + job[r].amount

\* Mutant: the record is taken to be paid in full.
Result_Price(r) ==
  [status |-> IF Total(r) >= Price[job[r].payout] THEN "PAID" ELSE "INSTALLMENT",
   totalPaid |-> Price[job[r].payout]]
Result(r) ==
  [status |-> IF Total(r) >= Price[job[r].payout] THEN "PAID" ELSE "INSTALLMENT",
   totalPaid |-> Total(r)]

SaveInstallment(r) ==
  /\ job[r].kind # "pay"
  /\ PayoutStep(r, "SAVING", "DONE")
  /\ payout' = [payout EXCEPT ![job[r].payout] = Result(r)]
  /\ UNCHANGED <<paid, copy, box, holder, disturbed>>

\* An update of the status alone.
SaveStatus(r) ==
  /\ job[r].kind = "pay"
  /\ PayoutStep(r, "SAVING", "DONE")
  /\ payout' = [payout EXCEPT ![job[r].payout] = [status |-> "PAID", totalPaid |-> @.totalPaid]]
  /\ UNCHANGED <<paid, copy, box, holder, disturbed>>

\* A statement fails or the process dies.
Die(r) ==
  /\ payoutPc[r] \in {"PAYING", "SAVING"}
  /\ payoutPc' = [payoutPc EXCEPT ![r] = "REFUSED"]
  /\ Disturb(r, payoutPc[r] = "SAVING")
  /\ UNCHANGED <<payout, paid, copy, box, holder>>

PayoutDo(r) ==
  \/ Record(r) \/ Read(r) \/ ReadRefused(r) \/ PayTeacher(r) \/ PayoutRefused(r)
  \/ SaveInstallment(r) \/ SaveStatus(r)
PayoutsOwn == (\E r \in PayRequest : PayoutDo(r) \/ Die(r)) /\ UNCHANGED job

\* Others use the cashbox.
PayoutsOthers == box' \in Nat /\ UNCHANGED <<job, payoutVars>>

PayoutsSpec == PayoutsInit /\ [][PayoutsOwn \/ PayoutsOthers]_payoutsVars

-----------------------------------------------------------------------------
(* Properties *)

PayoutsTypeOK ==
  /\ job \in PayWorkloads
  /\ payout \in [Payout -> Row \cup {NoRow}] /\ paid \in [Payout -> Nat]
  /\ copy \in [PayRequest -> Row \cup {NoRow}]
  /\ payoutPc \in [PayRequest -> {"READY", "PAYING", "SAVING", "DONE", "REFUSED"}]
  /\ box \in Nat /\ disturbed \subseteq Payout

\* However requests overtake each other or die, a record never claims more than
\* has been paid, and a payout that is PAID has been paid in full.
NeverOverclaims ==
  \A o \in Payout :
    /\ payout[o].totalPaid <= paid[o]
    /\ payout[o].status = "PAID" => paid[o] >= Price[o]

\* A payout that one request at a time has dealt with, none of which died after
\* its payment, and which is not a class set to PAID by hand: the record says
\* what has been paid, which is not more than the price.
InWork(o) == \E r \in PayRequest : job[r].payout = o /\ payoutPc[r] = "SAVING"
RecordTellsMoney ==
  \A o \in Payout \ disturbed : ~InWork(o) =>
    /\ paid[o] = IF Unit[o] = "SESSION" /\ payout[o].status = "PAID"
                 THEN Price[o] ELSE payout[o].totalPaid
    /\ paid[o] <= Price[o] \/ \E r \in PayRequest : job[r].kind = "record" /\ job[r].amount > Price[o]
=============================================================================
