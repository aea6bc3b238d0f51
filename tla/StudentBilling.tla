---------------------------- MODULE StudentBilling ---------------------------
(***************************************************************************)
(* StudentBillingService: monthly subscriptions, session and class         *)
(* charges, instalments of a class charge, and refunds.                    *)
(*                                                                         *)
(* A request is one database transaction at READ COMMITTED that locks no   *)
(* charge row: it reads, decides, pays and saves what it has read, changed *)
(* where it means to change it.  What it writes is seen by others when it  *)
(* commits.  Two things make requests wait for each other: the unique      *)
(* index on idempotencyKey, whose second INSERT waits for the first        *)
(* transaction to end, and the rows it writes: those a payment locks       *)
(* (PaymentLedger) and the charge its UPDATE changes, held until the       *)
(* transaction ends.  Where there is no fee, payments by wallet and in     *)
(* cash have no row in common and overlap.                                 *)
(*                                                                         *)
(* The payment is a unit that succeeds or is refused: AtomicLedger.        *)
(* A charge is identified by the request that created it.                  *)
(***************************************************************************)
EXTENDS Integers, FiniteSets, Functions

CONSTANTS
  Request,   \* requests
  Workloads, \* what the requests may ask for, one job each
  Item,      \* what is sold: a month, a session or a class, to one student
  KindOf,    \* the type of the charge for an item
  StudentOf, \* the student an item is sold to
  Price,     \* the price of an item
  NoKey,     \* sentinel: no idempotency key
  None       \* sentinel: no row, no answer

Kinds == {"SUBSCRIPTION", "SESSION", "CLASS"}
Methods == {"WALLET", "CASH"}
Statuses == {"PENDING", "COMPLETED", "INSTALLMENT", "REFUNDED"}

ASSUME ItemAssumption ==
  /\ KindOf \in [Item -> Kinds]
  /\ Price \in [Item -> Nat \ {0}]
ASSUME JobAssumption ==
  \A w \in Workloads, q \in Request :
    /\ w[q].what \in {"CREATE", "INSTALMENT", "REFUND"}
    /\ w[q].item \in Item
    /\ w[q].method \in Methods
    /\ w[q].amount \in Int

\* A charge row, when the requests ask for w.
RowTypeOf(w) ==
  [item : Item, key : {w[q].key : q \in Request} \cup {NoKey},
   amount : Int, totalPaid : Int, status : Statuses]
\* referenceId is the charge a payment names; studentCharge is the column of the
\* relation Payment.studentCharge, which createPayment does not set.
PaymentType ==
  [referenceId : Request, amount : Int, studentCharge : Request \cup {None}]
EntityTypeOf(w) == [id : Request, row : RowTypeOf(w)]

ASSUME RequestAssumption == IsFiniteSet(Request)
\* null is not a row.
ASSUME NoneAssumption ==
  /\ None \notin Request /\ None \notin PaymentType
  /\ \A w \in Workloads : None \notin RowTypeOf(w) /\ None \notin EntityTypeOf(w)

VARIABLES
  job,     \* what each request asks for
  charge,  \* committed charges, by the request that created them
  payment, \* committed payments, by the request that made them
  state,   \* how far a request is
  entity,  \* the charge object a request works with, and its id
  columns, \* the columns its UPDATE sets
  answer   \* the charge a request returned, or its error

vars == <<job, charge, payment, state, entity, columns, answer>>

RowType == RowTypeOf(job)
\* A request has locked the rows of its payment, then its charge as well.
Holding == {"SAVE", "UPDATE", "COMMIT"}
States == {"NEW", "CHECK", "INSERT", "PAY", "DONE", "FAILED"} \cup Holding
Columns == {"totalPaid", "status"}
Errors == {"refused", "duplicate", "notFound", "exceeds", "paymentFailed",
           "refundPaymentNotFound", "alreadyRefunded"}

Creates(q) == job[q].what = "CREATE"
Kind(q) == KindOf[job[q].item]
\* Subscriptions and sessions cost what the class strategy says, the first
\* payment of a class charge and an instalment what the client says.
Amount(q) ==
  IF Creates(q) /\ Kind(q) # "CLASS" THEN Price[job[q].item] ELSE job[q].amount

\* Rows the payment of q locks: the student's and the branch's wallet, or the
\* branch's cashbox.  One branch, and no fee: a fee locks the branch's wallet too,
\* so that all payments wait for each other.
RowsOf(q) ==
  IF job[q].method = "WALLET"
    THEN {<<"wallet", StudentOf[job[q].item]>>, <<"wallet", "branch">>}
    ELSE {<<"cashbox", "branch">>}

Committed == {c \in Request : charge[c] # None}
Active(row) ==
  \/ row.status = "COMPLETED"
  \/ KindOf[row.item] = "CLASS" /\ row.status = "INSTALLMENT"
ActiveCharges(i) == {c \in Committed : charge[c].item = i /\ Active(charge[c])}

Open(q) == state[q] \notin {"DONE", "FAILED"}
\* Requests whose INSERT is not committed yet.
Uncommitted == {q \in Request : Creates(q) /\ state[q] \in {"PAY"} \cup Holding}

-----------------------------------------------------------------------------
Init ==
  /\ job \in Workloads
  /\ charge = [q \in Request |-> None]
  /\ payment = [q \in Request |-> None]
  /\ state = [q \in Request |-> "NEW"]
  /\ entity = [q \in Request |-> None]
  /\ columns = [q \in Request |-> {}]
  /\ answer = [q \in Request |-> None]

Goto(q, s) == state' = [state EXCEPT ![q] = s] /\ UNCHANGED job
Forget(q) ==
  /\ entity' = [entity EXCEPT ![q] = None]
  /\ columns' = [columns EXCEPT ![q] = {}]
Holds(q, c, row) == entity' = [entity EXCEPT ![q] = [id |-> c, row |-> row]]

\* The transaction ends without a trace, by an exception or by a crash.
Rollback(q, error) ==
  /\ Goto(q, "FAILED")
  /\ answer' = [answer EXCEPT ![q] = error]
  /\ Forget(q)
  /\ UNCHANGED <<charge, payment>>

Return(q, c) ==
  /\ Goto(q, "DONE")
  /\ answer' = [answer EXCEPT ![q] = c]
  /\ Forget(q)

\* The student is inactive, the class does not sell this kind of charge, the
\* actor may not act on it, or the connection is lost.
Fail(q) == Open(q) /\ Rollback(q, "refused")

\* findByIdempotencyKey.
SameKey(q) ==
  {c \in Committed : /\ job[q].key # NoKey
                     /\ charge[c].key = job[q].key
                     /\ StudentOf[charge[c].item] = StudentOf[job[q].item]}

ReturnExisting(q) ==
  /\ Creates(q) /\ state[q] = "NEW"
  /\ \E c \in SameKey(q) : Return(q, c)
  /\ UNCHANGED <<charge, payment>>

Begin(q) ==
  /\ Creates(q) /\ state[q] = "NEW"
  /\ SameKey(q) = {}
  /\ Goto(q, "CHECK")
  /\ UNCHANGED <<charge, payment, entity, columns, answer>>

\* The item is already charged, or the first payment exceeds the price.
RefuseDuplicate(q) ==
  /\ Creates(q) /\ state[q] = "CHECK"
  /\ ActiveCharges(job[q].item) # {} \/ Amount(q) > Price[job[q].item]
  /\ Rollback(q, "duplicate")

CheckDuplicate(q) ==
  /\ Creates(q) /\ state[q] = "CHECK"
  /\ ActiveCharges(job[q].item) = {}
  /\ Amount(q) <= Price[job[q].item]
  /\ Goto(q, "INSERT")
  /\ UNCHANGED <<charge, payment, entity, columns, answer>>

\* A subscription or session charge is inserted PENDING and completed after its
\* payment; a class charge is inserted as it is to stay.
NewRow(q) ==
  LET class == Kind(q) = "CLASS"
      full  == Amount(q) = Price[job[q].item]
  IN [item |-> job[q].item, key |-> job[q].key, amount |-> Price[job[q].item],
      totalPaid |-> IF class THEN Amount(q) ELSE 0,
      status |-> IF ~class THEN "PENDING"
                 ELSE IF full THEN "COMPLETED" ELSE "INSTALLMENT"]

\* The unique index: an INSERT waits for an uncommitted row with its key, and
\* fails once such a row is committed, whoever's it is.
KeyHeld(q)  == job[q].key # NoKey /\ \E r \in Uncommitted : job[r].key = job[q].key
KeyTaken(q) == job[q].key # NoKey /\ \E c \in Committed : charge[c].key = job[q].key

\* Mutant: no unique index on idempotencyKey.
Insert_NoUniqueIndex(q) ==
  /\ state[q] = "INSERT"
  /\ Goto(q, "PAY")
  /\ Holds(q, q, NewRow(q))
  /\ UNCHANGED <<charge, payment, columns, answer>>

Insert(q) ==
  /\ state[q] = "INSERT"
  /\ ~KeyHeld(q) /\ ~KeyTaken(q)
  /\ Goto(q, "PAY")
  /\ Holds(q, q, NewRow(q))
  /\ UNCHANGED <<charge, payment, columns, answer>>

\* Mutant: the violation of the unique index is swallowed and the insert retried.
RefuseInsert_Retried(q) ==
  /\ state[q] = "INSERT" /\ KeyTaken(q)
  /\ UNCHANGED vars

RefuseInsert(q) ==
  /\ state[q] = "INSERT"
  /\ ~KeyHeld(q) /\ KeyTaken(q)
  /\ Rollback(q, "refused")

\* Mutant: the new total is assigned to the object before the payment is made,
\* and the amount is added again afterwards.
FindInstalment_AddsFirst(q) ==
  /\ job[q].what = "INSTALMENT" /\ state[q] = "NEW"
  /\ \E c \in ActiveCharges(job[q].item) :
       /\ charge[c].status = "INSTALLMENT"
       /\ charge[c].totalPaid + Amount(q) <= charge[c].amount
       /\ Holds(q, c, [charge[c] EXCEPT !.totalPaid = @ + Amount(q)])
  /\ Goto(q, "PAY")
  /\ UNCHANGED <<charge, payment, columns, answer>>

\* payClassInstallment reads the charge and checks the new total against what it
\* has read.
FindInstalment(q) ==
  /\ job[q].what = "INSTALMENT" /\ state[q] = "NEW"
  /\ \E c \in ActiveCharges(job[q].item) :
       /\ charge[c].status = "INSTALLMENT"
       /\ charge[c].totalPaid + Amount(q) <= charge[c].amount
       /\ Holds(q, c, charge[c])
  /\ Goto(q, "PAY")
  /\ UNCHANGED <<charge, payment, columns, answer>>

RefuseInstalment(q) ==
  /\ job[q].what = "INSTALMENT" /\ state[q] = "NEW"
  /\ \/ ActiveCharges(job[q].item) = {} /\ Rollback(q, "notFound")
     \/ \E c \in ActiveCharges(job[q].item) :
          /\ \/ charge[c].status = "COMPLETED"
             \/ charge[c].totalPaid + Amount(q) > charge[c].amount
          /\ Rollback(q, "exceeds")

\* createAndExecutePayment: waits for the rows another payment has locked.
RowsFree(q) ==
  \A r \in Request \ {q} : state[r] \in Holding => RowsOf(r) \cap RowsOf(q) = {}

Pay(q) ==
  /\ state[q] = "PAY" /\ RowsFree(q)
  /\ Amount(q) > 0
  /\ Goto(q, "SAVE")
  /\ UNCHANGED <<charge, payment, entity, columns, answer>>

\* What the request saves: its own copy of the charge with the payment added.
Paid(q) ==
  LET row   == entity[q].row
      total == row.totalPaid + Amount(q)
  IN IF Creates(q)
       THEN IF Kind(q) = "CLASS" THEN row
            ELSE [row EXCEPT !.status = "COMPLETED", !.totalPaid = row.amount]
       ELSE [row EXCEPT !.totalPaid = total,
                        !.status = IF total = row.amount THEN "COMPLETED" ELSE @]

\* Mutant: the outcome of the payment is not looked at.
RefusePayment_Ignored(q) ==
  /\ state[q] = "PAY" /\ RowsFree(q)
  /\ charge' = [charge EXCEPT ![entity[q].id] = Paid(q)]
  /\ Return(q, entity[q].id)
  /\ UNCHANGED payment

\* The amount is not positive, or the balance does not suffice.
RefusePayment(q) ==
  /\ state[q] = "PAY" /\ RowsFree(q)
  /\ Rollback(q, "paymentFailed")

\* createPayment names the charge as referenceId and leaves the relation empty.
PaymentRow(q) ==
  [referenceId |-> entity[q].id, amount |-> Amount(q), studentCharge |-> None]

\* save() reads the row again, as it is committed now, and compares.  The total
\* is a number where the driver returns a string: it always differs.
Reload(q) ==
  /\ state[q] = "SAVE"
  /\ LET c == entity[q].id
         differs == Creates(q) \/ charge[c].status # Paid(q).status
     IN columns' = [columns EXCEPT ![q] = {"totalPaid"} \cup {n \in {"status"} : differs}]
  /\ Goto(q, "UPDATE")
  /\ UNCHANGED <<charge, payment, entity, answer>>

\* The UPDATE waits for another transaction that has updated the charge.
ChargeFree(q) ==
  \A r \in Request \ {q} : state[r] = "COMMIT" => entity[r].id # entity[q].id

Update(q) ==
  /\ state[q] = "UPDATE" /\ ChargeFree(q)
  /\ Goto(q, "COMMIT")
  /\ UNCHANGED <<charge, payment, entity, columns, answer>>

\* The row afterwards: the columns of the UPDATE are the object's, the others are
\* as whoever committed last has left them.
Written(q) ==
  IF Creates(q) THEN Paid(q)
  ELSE [charge[entity[q].id] EXCEPT
          !.totalPaid = Paid(q).totalPaid,
          !.status = IF "status" \in columns[q] THEN Paid(q).status ELSE @]

Commit(q) ==
  /\ state[q] = "COMMIT"
  /\ charge' = [charge EXCEPT ![entity[q].id] = Written(q)]
  /\ payment' = [payment EXCEPT ![q] = PaymentRow(q)]
  /\ Return(q, entity[q].id)

\* refundStudentBilling up to its check of charge.payments.  The relation loads
\* the payments whose studentCharge column is the charge; no payment has it set,
\* and the handler never gets further.
PaymentsOf(c) == {p \in Request : payment[p] # None /\ payment[p].studentCharge = c}

Refund(q) ==
  /\ job[q].what = "REFUND" /\ state[q] = "NEW"
  /\ \E c \in Committed :
       /\ charge[c].item = job[q].item
       /\ PaymentsOf(c) = {}
       /\ Rollback(q, "refundPaymentNotFound")

Finished == \A q \in Request : state[q] \in {"DONE", "FAILED"}
Done == Finished /\ UNCHANGED vars

Step(q) ==
  \/ ReturnExisting(q) \/ Begin(q) \/ RefuseDuplicate(q) \/ CheckDuplicate(q)
  \/ Insert(q) \/ RefuseInsert(q)
  \/ FindInstalment(q) \/ RefuseInstalment(q)
  \/ Pay(q) \/ RefusePayment(q) \/ Reload(q) \/ Update(q) \/ Commit(q)
  \/ Refund(q)

Next == Done \/ \E q \in Request : Step(q) \/ Fail(q)

Spec == Init /\ [][Next]_vars

\* A request the server runs goes on; a lock or key it waits for is released
\* when its holder ends.  Whether a client ever asks is left open for refunds,
\* which need a charge to name.
FairSpec == Spec /\ \A q \in Request : WF_vars(Step(q))

-----------------------------------------------------------------------------
(* Properties *)

TypeOK ==
  /\ job \in Workloads
  /\ charge \in [Request -> RowType \cup {None}]
  /\ payment \in [Request -> PaymentType \cup {None}]
  /\ state \in [Request -> States]
  /\ entity \in [Request -> EntityTypeOf(job) \cup {None}]
  /\ columns \in [Request -> SUBSET Columns]
  /\ answer \in [Request -> Request \cup Errors \cup {None}]

\* student-charges.repository.ts:113, "Used to prevent duplicate charge creation
\* on retries": of all requests with one key, at most one ever pays, and those
\* of one student that succeed return the same charge.
KeyPaysOnce ==
  \A q, r \in Request :
    (q # r /\ Creates(q) /\ Creates(r) /\ job[q].key = job[r].key /\ job[q].key # NoKey) =>
      /\ payment[q] = None \/ payment[r] = None
      /\ (state[q] = "DONE" /\ state[r] = "DONE") => answer[q] = answer[r]

\* What the payments made for a charge add up to.
Received(c) ==
  SumFunctionOnSet([p \in Request |->
    IF payment[p] # None /\ payment[p].referenceId = c THEN payment[p].amount ELSE 0], Request)

\* A charge never claims more than was paid for it, however copies of it were
\* saved over each other, and none is left without the payment it was made with.
NeverOverclaims == \A c \in Committed : charge[c].totalPaid <= Received(c)

\* Rows have their types, and a charge is COMPLETED only if the payments made for
\* it cover its price: an UPDATE of the total alone may leave the status of
\* another request beside it, but no mixture gives away what is not paid for.
CompletedIsCovered ==
  TypeOK /\ \A c \in Committed :
    /\ charge[c].status \in {"COMPLETED", "INSTALLMENT"}
    /\ charge[c].status = "COMPLETED" => Received(c) >= charge[c].amount

\* Every request a client has sent is answered, whatever it had to wait for.
EveryRequestAnswered ==
  \A q \in Request : job[q].what # "REFUND" => <>(state[q] \in {"DONE", "FAILED"})
=============================================================================
