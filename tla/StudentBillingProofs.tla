------------------------ MODULE StudentBillingProofs ------------------------
(***************************************************************************)
(* What StudentBilling guarantees for every set of requests, items, prices *)
(* and jobs: a key pays once, a COMPLETED charge has received its price,   *)
(* and no charge claims more than was paid for it.                         *)
(***************************************************************************)
EXTENDS StudentBilling, Sums

-----------------------------------------------------------------------------
(* The inductive invariant *)

\* A committed charge was made by a request that is done; overwriting the row
\* keeps its key and its price.
ChargesAreKept ==
  \A c \in Committed :
    /\ Creates(c) /\ state[c] = "DONE"
    /\ charge[c].key = job[c].key
    /\ charge[c].amount = Price[job[c].item]

\* The request works with a charge of its own, or with a copy of a committed one
\* that claimed no more than was received when it was read, nor than is now.
CopyIsSound(q, c, row) ==
  /\ c \in Committed
  /\ row.key = job[c].key
  /\ row.amount = Price[job[c].item]
  /\ row.status = "INSTALLMENT"
  /\ row.totalPaid + Amount(q) <= row.amount
  /\ row.totalPaid <= Received(c)

EntitySound(q, s, e) ==
  /\ e # None <=> s \in {"PAY"} \cup Holding
  /\ s \in {"CHECK", "INSERT"} => Creates(q)
  /\ s \in {"INSERT", "PAY"} \cup Holding /\ Creates(q) => Amount(q) <= Price[job[q].item]
  /\ s \in {"PAY"} \cup Holding =>
       IF Creates(q) THEN e = [id |-> q, row |-> NewRow(q)] ELSE CopyIsSound(q, e.id, e.row)
  /\ s \in Holding => Amount(q) > 0
EntitiesAreSound == \A q \in Request : EntitySound(q, state[q], entity[q])

\* A payment is committed together with its charge.
PaymentsAreDone ==
  \A q \in Request : payment[q] # None =>
    /\ state[q] = "DONE" /\ payment[q].amount > 0
    /\ Creates(q) => charge[q] # None

\* The unique index on idempotencyKey covers rows that are not committed yet.
Inserted == {q \in Request : Creates(q) /\ (state[q] \in {"PAY"} \cup Holding \/ charge[q] # None)}
KeysAreUnique ==
  \A q, r \in Inserted : job[q].key = job[r].key /\ job[q].key # NoKey => q = r

AnswersHaveTheKey ==
  \A q \in Request : Creates(q) /\ state[q] = "DONE" =>
    answer[q] \in Committed /\ job[answer[q]].key = job[q].key

BillingInv ==
  /\ TypeOK /\ ChargesAreKept /\ EntitiesAreSound /\ PaymentsAreDone
  /\ KeysAreUnique /\ AnswersHaveTheKey
  /\ CompletedIsCovered /\ NeverOverclaims

-----------------------------------------------------------------------------
(* Types *)

LEMMA JobType ==
  ASSUME job \in Workloads
  PROVE  \A q \in Request :
           /\ job[q].what \in {"CREATE", "INSTALMENT", "REFUND"}
           /\ job[q].item \in Item /\ job[q].amount \in Int
           /\ Kind(q) \in Kinds
           /\ Price[job[q].item] \in Nat /\ Price[job[q].item] > 0
           /\ Amount(q) \in Int
  BY JobAssumption, ItemAssumption DEF Kind, Amount

LEMMA NewRowType ==
  ASSUME job \in Workloads, NEW q \in Request
  PROVE  /\ NewRow(q) \in RowType
         /\ [id |-> q, row |-> NewRow(q)] \in EntityTypeOf(job)
<1>1. NewRow(q) \in RowType
  <2>1. /\ job[q].item \in Item /\ Price[job[q].item] \in Int /\ Amount(q) \in Int
        /\ job[q].key \in {job[r].key : r \in Request}
    BY JobType
  <2> QED
    BY <2>1 DEF NewRow, RowType, RowTypeOf, Statuses
<1> QED
  BY <1>1 DEF EntityTypeOf, RowType

\* No row is the sentinel.
LEMMA NoneIsNoRow ==
  ASSUME job \in Workloads
  PROVE  None \notin RowType /\ None \notin EntityTypeOf(job) /\ None \notin PaymentType
  BY NoneAssumption DEF RowType

LEMMA CommittedRows ==
  ASSUME TypeOK, NEW c \in Committed
  PROVE  /\ c \in Request /\ charge[c] \in RowType
         /\ charge[c].item \in Item /\ charge[c].status \in Statuses
         /\ charge[c].amount \in Int /\ charge[c].totalPaid \in Int
  BY DEF TypeOK, Committed, RowType, RowTypeOf

\* Only the payments are looked at to see what a charge received.
PaidTo(p, c) ==
  [q \in Request |-> IF p[q] # None /\ p[q].referenceId = c THEN p[q].amount ELSE 0]

LEMMA ReceivedType ==
  ASSUME TypeOK, NEW c
  PROVE  Received(c) \in Int
<1>1. PICK f : f = PaidTo(payment, c)
  OBVIOUS
<1>2. \A q \in Request : f[q] \in Int
  BY <1>1 DEF PaidTo, TypeOK, PaymentType
<1>3. SumFunctionOnSet(f, Request) \in Int
  BY <1>2, RequestAssumption, SumInt
<1> QED
  BY <1>1, <1>3 DEF Received, PaidTo

LEMMA InitBillingInv == Init => BillingInv
<1> SUFFICES ASSUME Init PROVE BillingInv
  OBVIOUS
<1>1. TypeOK
  BY DEF Init, TypeOK, States
<1>2. Committed = {} /\ Inserted = {}
  BY DEF Init, Committed, Inserted, Holding
<1>3. EntitiesAreSound /\ PaymentsAreDone /\ AnswersHaveTheKey
  BY DEF Init, EntitiesAreSound, EntitySound, PaymentsAreDone, AnswersHaveTheKey, Holding
<1> QED
  BY <1>1, <1>2, <1>3 DEF BillingInv, ChargesAreKept, KeysAreUnique, CompletedIsCovered, NeverOverclaims

-----------------------------------------------------------------------------
(* Steps that commit nothing *)

\* Request q goes on to s, with e in its hands and a to return.
Quiet(q, s, e, a) ==
  /\ state' = [state EXCEPT ![q] = s]
  /\ entity' = [entity EXCEPT ![q] = e]
  /\ answer' = [answer EXCEPT ![q] = a]
  /\ columns' \in [Request -> SUBSET Columns]
  /\ UNCHANGED <<job, charge, payment>>

\* What the invariant asks of such a step.
Sound(q, s, e, a) ==
  /\ Open(q) /\ s \in States
  /\ e \in EntityTypeOf(job) \cup {None} /\ a \in Request \cup Errors \cup {None}
  /\ EntitySound(q, s, e)
  /\ s \in {"PAY"} \cup Holding /\ Creates(q) =>
       \/ state[q] \in {"PAY"} \cup Holding
       \/ \A r \in Inserted : job[q].key = job[r].key => job[q].key = NoKey
  /\ s = "DONE" /\ Creates(q) => a \in Committed /\ job[a].key = job[q].key

LEMMA QuietKeeps ==
  ASSUME BillingInv, NEW q \in Request, NEW s, NEW e, NEW a, Quiet(q, s, e, a), Sound(q, s, e, a)
  PROVE  BillingInv'
<1>1. /\ job' = job /\ charge' = charge /\ payment' = payment
      /\ \A r \in Request :
           /\ state'[r] = IF r = q THEN s ELSE state[r]
           /\ entity'[r] = IF r = q THEN e ELSE entity[r]
           /\ answer'[r] = IF r = q THEN a ELSE answer[r]
  BY DEF Quiet, BillingInv, TypeOK
<1>2. /\ Committed' = Committed
      /\ \A r \in Request : /\ Creates(r)' = Creates(r) /\ Amount(r)' = Amount(r)
                            /\ NewRow(r)' = NewRow(r) /\ Received(r)' = Received(r)
  BY <1>1 DEF Committed, Creates, Amount, NewRow, Kind, Received
<1>3. TypeOK'
  <2>1. RowType' = RowType
    BY <1>1 DEF RowType
  <2> QED
    BY <1>1, <2>1 DEF Quiet, Sound, BillingInv, TypeOK
<1>4. ASSUME NEW r \in Request, NEW t, NEW f
      PROVE  EntitySound(r, t, f)' <=> EntitySound(r, t, f)
  BY <1>1, <1>2 DEF EntitySound, CopyIsSound, Received
<1>5. ChargesAreKept'
  BY <1>1, <1>2 DEF BillingInv, ChargesAreKept, Sound, Open, Committed
<1>6. EntitiesAreSound'
  <2>1. ASSUME NEW r \in Request PROVE EntitySound(r, state'[r], entity'[r])
    BY <1>1 DEF BillingInv, EntitiesAreSound, Sound
  <2> QED
    BY <1>4, <2>1 DEF EntitiesAreSound
<1>7. PaymentsAreDone'
  BY <1>1, <1>2 DEF BillingInv, PaymentsAreDone, Sound, Open
<1>8. KeysAreUnique'
  <2>1. Inserted' = {r \in Request : Creates(r) /\ (state'[r] \in {"PAY"} \cup Holding \/ charge[r] # None)}
    BY <1>1, <1>2 DEF Inserted
  <2>2. \A r \in Inserted' : r # q => r \in Inserted
    BY <1>1, <2>1 DEF Inserted
  <2>3. q \in Inserted' => q \in Inserted \/ \A r \in Inserted : job[q].key = job[r].key => job[q].key = NoKey
    BY <1>1, <2>1 DEF Inserted, Sound
  <2>4. KeysAreUnique
    BY DEF BillingInv
  <2>5. \A x, y \in Inserted' : job[x].key = job[y].key /\ job[x].key # NoKey => x = y
    BY <2>2, <2>3, <2>4 DEF KeysAreUnique
  <2> QED
    BY <1>1, <2>5 DEF KeysAreUnique
<1>9. AnswersHaveTheKey'
  BY <1>1, <1>2 DEF BillingInv, AnswersHaveTheKey, Sound
<1>10. CompletedIsCovered' /\ NeverOverclaims'
  BY <1>1, <1>2, <1>3 DEF BillingInv, CompletedIsCovered, NeverOverclaims, Committed
<1> QED
  BY <1>3, <1>5, <1>6, <1>7, <1>8, <1>9, <1>10 DEF BillingInv

LEMMA RollbackKeeps ==
  ASSUME BillingInv, NEW q \in Request, Open(q), NEW error \in Errors, Rollback(q, error)
  PROVE  BillingInv'
<1>1. Quiet(q, "FAILED", None, error)
  BY DEF Rollback, Goto, Quiet, Forget, BillingInv, TypeOK
<1>2. Sound(q, "FAILED", None, error)
  BY DEF Sound, EntitySound, States, Holding
<1> QED
  BY <1>1, <1>2, QuietKeeps

LEMMA NewKeeps ==
  ASSUME BillingInv, NEW q \in Request, ReturnExisting(q) \/ Begin(q)
  PROVE  BillingInv'
<1>1. /\ Creates(q) /\ state[q] = "NEW" /\ entity[q] = None
      /\ entity \in [Request -> EntityTypeOf(job) \cup {None}]
      /\ answer \in [Request -> Request \cup Errors \cup {None}]
  BY DEF ReturnExisting, Begin, BillingInv, TypeOK, EntitiesAreSound, EntitySound, Holding
<1>2. ASSUME NEW c \in SameKey(q), Return(q, c), UNCHANGED <<charge, payment>>
      PROVE  BillingInv'
  <2>1. c \in Committed /\ c \in Request /\ job[c].key = job[q].key
    BY <1>2 DEF SameKey, Committed, BillingInv, ChargesAreKept
  <2>2. Quiet(q, "DONE", None, c)
    BY <1>2 DEF Return, Goto, Quiet, Forget, BillingInv, TypeOK
  <2>3. Sound(q, "DONE", None, c)
    BY <1>1, <2>1 DEF Sound, EntitySound, States, Open, Holding
  <2> QED
    BY <2>2, <2>3, QuietKeeps
<1>3. CASE Begin(q)
  <2>1. Quiet(q, "CHECK", None, answer[q])
    BY <1>1, <1>3 DEF Begin, Goto, Quiet, BillingInv, TypeOK
  <2>2. Sound(q, "CHECK", None, answer[q])
    BY <1>1 DEF Sound, EntitySound, States, Open, Holding
  <2> QED
    BY <2>1, <2>2, QuietKeeps
<1> QED
  BY <1>2, <1>3 DEF ReturnExisting

LEMMA CheckKeeps ==
  ASSUME BillingInv, NEW q \in Request, CheckDuplicate(q)
  PROVE  BillingInv'
<1>1. /\ Creates(q) /\ state[q] = "CHECK" /\ entity[q] = None
      /\ Amount(q) <= Price[job[q].item]
      /\ entity \in [Request -> EntityTypeOf(job) \cup {None}]
      /\ answer \in [Request -> Request \cup Errors \cup {None}]
  BY DEF CheckDuplicate, BillingInv, TypeOK, EntitiesAreSound, EntitySound, Holding
<1>2. Quiet(q, "INSERT", None, answer[q])
  BY <1>1 DEF CheckDuplicate, Goto, Quiet, BillingInv, TypeOK
<1>3. Sound(q, "INSERT", None, answer[q])
  BY <1>1 DEF Sound, EntitySound, States, Open, Holding
<1> QED
  BY <1>2, <1>3, QuietKeeps

\* The unique index lets an INSERT through when nobody has its key.
LEMMA InsertKeeps ==
  ASSUME BillingInv, NEW q \in Request, Insert(q)
  PROVE  BillingInv'
<1>1. /\ Creates(q) /\ state[q] = "INSERT" /\ Amount(q) <= Price[job[q].item]
      /\ answer \in [Request -> Request \cup Errors \cup {None}]
      /\ job \in Workloads
  BY DEF Insert, BillingInv, TypeOK, EntitiesAreSound, EntitySound
<1>2. Quiet(q, "PAY", [id |-> q, row |-> NewRow(q)], answer[q])
  BY <1>1 DEF Insert, Goto, Holds, Quiet, BillingInv, TypeOK
<1>3. ASSUME NEW r \in Inserted, job[q].key = job[r].key, job[q].key # NoKey
      PROVE  FALSE
  <2>1. CASE state[r] \in {"PAY"} \cup Holding
    BY <1>3, <2>1 DEF Insert, KeyHeld, Uncommitted, Inserted
  <2>2. CASE charge[r] # None
    <3>1. r \in Committed /\ charge[r].key = job[r].key
      BY <2>2 DEF Inserted, Committed, BillingInv, ChargesAreKept
    <3> QED
      BY <1>3, <3>1 DEF Insert, KeyTaken
  <2> QED
    BY <2>1, <2>2 DEF Inserted
<1>4. /\ [id |-> q, row |-> NewRow(q)] \in EntityTypeOf(job)
      /\ [id |-> q, row |-> NewRow(q)] # None
  BY <1>1, NewRowType, NoneIsNoRow
<1>5. Sound(q, "PAY", [id |-> q, row |-> NewRow(q)], answer[q])
  BY <1>1, <1>3, <1>4 DEF Sound, EntitySound, States, Open, Holding
<1> QED
  BY <1>2, <1>5, QuietKeeps

\* payClassInstallment starts from a copy that is sound when it is read.
LEMMA FindKeeps ==
  ASSUME BillingInv, NEW q \in Request, FindInstalment(q)
  PROVE  BillingInv'
<1>1. PICK c \in ActiveCharges(job[q].item) :
        /\ charge[c].status = "INSTALLMENT"
        /\ charge[c].totalPaid + Amount(q) <= charge[c].amount
        /\ Holds(q, c, charge[c])
  BY DEF FindInstalment
<1>2. /\ ~Creates(q) /\ state[q] = "NEW" /\ c \in Committed /\ c \in Request
      /\ answer \in [Request -> Request \cup Errors \cup {None}]
      /\ job \in Workloads
  BY DEF FindInstalment, Creates, ActiveCharges, Committed, BillingInv, TypeOK
<1>3. PICK e : e = [id |-> c, row |-> charge[c]]
  OBVIOUS
<1>4. e \in EntityTypeOf(job) /\ e # None /\ e.id = c /\ e.row = charge[c]
  BY <1>2, <1>3, CommittedRows, NoneIsNoRow DEF EntityTypeOf, RowType, BillingInv
<1>5. Quiet(q, "PAY", e, answer[q])
  BY <1>1, <1>2, <1>3 DEF FindInstalment, Goto, Holds, Quiet, BillingInv, TypeOK
<1>6. CopyIsSound(q, e.id, e.row)
  BY <1>1, <1>2, <1>4 DEF CopyIsSound, BillingInv, ChargesAreKept, NeverOverclaims
<1>7. Sound(q, "PAY", e, answer[q])
  BY <1>2, <1>4, <1>6 DEF Sound, EntitySound, States, Open, Holding
<1> QED
  BY <1>5, <1>7, QuietKeeps

LEMMA PayKeeps ==
  ASSUME BillingInv, NEW q \in Request, Pay(q)
  PROVE  BillingInv'
<1>1. /\ state[q] = "PAY" /\ Amount(q) > 0 /\ EntitySound(q, "PAY", entity[q])
      /\ entity \in [Request -> EntityTypeOf(job) \cup {None}]
      /\ answer \in [Request -> Request \cup Errors \cup {None}]
  BY DEF Pay, BillingInv, TypeOK, EntitiesAreSound
<1>2. Quiet(q, "SAVE", entity[q], answer[q])
  BY <1>1 DEF Pay, Goto, Quiet, BillingInv, TypeOK
<1>3. Sound(q, "SAVE", entity[q], answer[q])
  BY <1>1 DEF Sound, EntitySound, States, Holding, Open
<1> QED
  BY <1>2, <1>3, QuietKeeps

\* Between the payment and the COMMIT nothing changes that others see.
LEMMA SaveKeeps ==
  ASSUME BillingInv, NEW q \in Request, Reload(q) \/ Update(q)
  PROVE  BillingInv'
<1>1. PICK s \in {"UPDATE", "COMMIT"} : Goto(q, s)
  BY DEF Reload, Update
<1>2. /\ state[q] \in {"SAVE", "UPDATE"} /\ EntitySound(q, state[q], entity[q])
      /\ entity \in [Request -> EntityTypeOf(job) \cup {None}]
      /\ answer \in [Request -> Request \cup Errors \cup {None}]
      /\ columns \in [Request -> SUBSET Columns]
  BY DEF Reload, Update, BillingInv, TypeOK, EntitiesAreSound
<1>3. columns' \in [Request -> SUBSET Columns]
  BY <1>2 DEF Reload, Update, Columns
<1>4. Quiet(q, s, entity[q], answer[q])
  BY <1>1, <1>2, <1>3 DEF Reload, Update, Goto, Quiet
<1>5. Sound(q, s, entity[q], answer[q])
  BY <1>2 DEF Sound, EntitySound, States, Holding, Open
<1> QED
  BY <1>4, <1>5, QuietKeeps

-----------------------------------------------------------------------------
(* The step that commits *)

\* The object is a settled row, its key and price are the charge's, and it claims
\* no more than the charge received before and this payment.
LEMMA PaidRow ==
  ASSUME BillingInv, NEW q \in Request, state[q] \in Holding
  PROVE  /\ entity[q].id \in Request /\ Creates(entity[q].id)
         /\ Creates(q) => entity[q].id = q
         /\ ~Creates(q) => entity[q].id \in Committed
         /\ Paid(q) \in RowType
         /\ Paid(q).key = job[entity[q].id].key
         /\ Paid(q).amount = Price[job[entity[q].id].item]
         /\ Paid(q).status \in {"COMPLETED", "INSTALLMENT"}
         /\ Paid(q).status = "COMPLETED" <=> Paid(q).totalPaid = Paid(q).amount
         /\ Paid(q).totalPaid <= Received(entity[q].id) + Amount(q)
<1>1. /\ EntitySound(q, state[q], entity[q]) /\ entity[q] # None
      /\ entity[q] \in EntityTypeOf(job) \cup {None} /\ job \in Workloads
  BY DEF BillingInv, EntitiesAreSound, EntitySound, TypeOK
<1>2. PICK c, row : c = entity[q].id /\ row = entity[q].row
  OBVIOUS
<1>3. /\ c \in Request /\ row \in RowType
      /\ row.item \in Item /\ row.key \in {job[r].key : r \in Request} \cup {NoKey}
      /\ row.amount \in Int /\ row.totalPaid \in Int /\ row.status \in Statuses
      /\ row = [item |-> row.item, key |-> row.key, amount |-> row.amount,
                totalPaid |-> row.totalPaid, status |-> row.status]
  BY <1>1, <1>2 DEF EntityTypeOf, RowType, RowTypeOf
<1>4. Amount(q) \in Int /\ Amount(q) > 0
  BY <1>1, JobType DEF EntitySound
<1>5. Received(c) \in Int /\ Received(c) >= 0
  <2>1. PICK f : f = PaidTo(payment, c)
    OBVIOUS
  <2>2. \A r \in Request : f[r] \in Nat
    BY <2>1 DEF PaidTo, BillingInv, TypeOK, PaymentType, PaymentsAreDone
  <2>3. SumFunctionOnSet(f, Request) \in Nat
    BY <2>2, RequestAssumption, SumNat
  <2> QED
    BY <2>1, <2>3 DEF Received, PaidTo
<1>6. CASE Creates(q)
  <2>1. c = q /\ row = NewRow(q) /\ Amount(q) <= Price[job[q].item]
    BY <1>1, <1>2, <1>6 DEF EntitySound
  <2>2. /\ row.amount = Price[job[q].item] /\ row.key = job[q].key
        /\ Kind(q) = "CLASS" =>
             /\ row.totalPaid = Amount(q)
             /\ row.status = IF Amount(q) = Price[job[q].item] THEN "COMPLETED" ELSE "INSTALLMENT"
    BY <2>1 DEF NewRow
  <2>3. CASE Kind(q) = "CLASS"
    <3>1. Paid(q) = row
      BY <1>2, <1>6, <2>3 DEF Paid
    <3> QED
      BY <1>2, <1>3, <1>4, <1>5, <1>6, <2>1, <2>2, <2>3, <3>1
  <2>4. CASE Kind(q) # "CLASS"
    <3>1. Paid(q) = [item |-> row.item, key |-> row.key, amount |-> row.amount,
                     totalPaid |-> row.amount, status |-> "COMPLETED"]
      BY <1>2, <1>3, <1>6, <2>4 DEF Paid
    <3>2. Paid(q) \in RowType
      BY <1>3, <3>1 DEF RowType, RowTypeOf, Statuses
    <3>3. Amount(q) = row.amount
      BY <1>6, <2>2, <2>4 DEF Amount
    <3>4. /\ Paid(q).key = row.key /\ Paid(q).status = "COMPLETED"
          /\ Paid(q).totalPaid = row.amount /\ Paid(q).amount = row.amount
      BY <3>1
    <3> QED
      BY <1>2, <1>3, <1>5, <1>6, <2>1, <2>2, <3>2, <3>3, <3>4
  <2> QED
    BY <2>3, <2>4
<1>7. CASE ~Creates(q)
  <2>1. CopyIsSound(q, c, row)
    BY <1>1, <1>2, <1>7 DEF EntitySound
  <2>2. /\ c \in Committed /\ Creates(c) /\ row.key = job[c].key /\ row.status = "INSTALLMENT"
        /\ row.amount = Price[job[c].item]
        /\ row.totalPaid + Amount(q) <= row.amount /\ row.totalPaid <= Received(c)
    BY <2>1 DEF CopyIsSound, BillingInv, ChargesAreKept
  <2>3. PICK total \in Int : total = row.totalPaid + Amount(q)
    BY <1>3, <1>4
  <2>4. Paid(q) = [item |-> row.item, key |-> row.key, amount |-> row.amount,
                   totalPaid |-> total,
                   status |-> IF total = row.amount THEN "COMPLETED" ELSE "INSTALLMENT"]
    BY <1>2, <1>3, <1>7, <2>2, <2>3 DEF Paid
  <2>5. Paid(q) \in RowType
    BY <1>3, <2>4 DEF RowType, RowTypeOf, Statuses
  <2>6. /\ Paid(q).key = row.key /\ Paid(q).amount = row.amount /\ Paid(q).totalPaid = total
        /\ Paid(q).status = IF total = row.amount THEN "COMPLETED" ELSE "INSTALLMENT"
    BY <2>4
  <2> QED
    BY <1>2, <1>3, <1>4, <1>5, <1>7, <2>2, <2>3, <2>5, <2>6
<1> QED
  BY <1>6, <1>7

\* So is the row it is written over: its total is the object's, its status the
\* object's or what a COMPLETED charge had already received its price for.
LEMMA WrittenRow ==
  ASSUME BillingInv, NEW q \in Request, state[q] \in Holding
  PROVE  /\ Written(q) \in RowType
         /\ Written(q).key = job[entity[q].id].key
         /\ Written(q).amount = Price[job[entity[q].id].item]
         /\ Written(q).totalPaid = Paid(q).totalPaid
         /\ Written(q).status \in {"COMPLETED", "INSTALLMENT"}
         /\ Written(q).status = "COMPLETED" =>
              Written(q).amount <= Received(entity[q].id) + Amount(q)
<1>1. PICK c, paid : c = entity[q].id /\ paid = Paid(q)
  OBVIOUS
<1>2. /\ c \in Request /\ Creates(c) /\ paid \in RowType /\ paid.key = job[c].key
      /\ ~Creates(q) => c \in Committed
      /\ paid.amount = Price[job[c].item] /\ paid.status \in {"COMPLETED", "INSTALLMENT"}
      /\ paid.status = "COMPLETED" <=> paid.totalPaid = paid.amount
      /\ paid.totalPaid <= Received(c) + Amount(q)
      /\ paid.totalPaid \in Int
  BY <1>1, PaidRow DEF RowType, RowTypeOf
<1>3. /\ Amount(q) \in Int /\ Amount(q) > 0 /\ Received(c) \in Int
      /\ Price[job[c].item] \in Int
  BY <1>2, JobType, ReceivedType DEF BillingInv, TypeOK, EntitiesAreSound, EntitySound
<1>4. CASE Creates(q)
  BY <1>1, <1>2, <1>3, <1>4 DEF Written
<1>5. CASE ~Creates(q)
  <2>1. PICK row : row = charge[c]
    OBVIOUS
  <2>2. /\ c \in Committed /\ row.key = job[c].key /\ row.amount = Price[job[c].item]
        /\ row.status \in {"COMPLETED", "INSTALLMENT"}
        /\ row.status = "COMPLETED" => Received(c) >= row.amount
    BY <1>2, <1>5, <2>1 DEF BillingInv, ChargesAreKept, CompletedIsCovered
  <2>3. /\ row.item \in Item /\ row.key \in {job[r].key : r \in Request} \cup {NoKey}
        /\ row.amount \in Int
        /\ row = [item |-> row.item, key |-> row.key, amount |-> row.amount,
                  totalPaid |-> row.totalPaid, status |-> row.status]
    BY <2>1, <2>2 DEF BillingInv, TypeOK, Committed, RowType, RowTypeOf
  <2>4. PICK status \in {paid.status, row.status} :
          Written(q) = [item |-> row.item, key |-> row.key, amount |-> row.amount,
                        totalPaid |-> paid.totalPaid, status |-> status]
    BY <1>1, <1>5, <2>1, <2>3 DEF Written
  <2>5. Written(q) \in RowType
    BY <1>2, <2>2, <2>3, <2>4 DEF RowType, RowTypeOf, Statuses
  <2>6. /\ Written(q).key = row.key /\ Written(q).amount = row.amount
        /\ Written(q).totalPaid = paid.totalPaid /\ Written(q).status = status
    BY <2>4
  <2>7. status = "COMPLETED" => row.amount <= Received(c) + Amount(q)
    BY <1>2, <1>3, <2>2
  <2> QED
    BY <1>1, <1>2, <2>2, <2>5, <2>6, <2>7
<1> QED
  BY <1>4, <1>5

\* The payment is added to what the charge received.
LEMMA CommitReceives ==
  ASSUME BillingInv, NEW q \in Request, Commit(q), NEW c
  PROVE  Received(c)' = Received(c) + (IF c = entity[q].id THEN Amount(q) ELSE 0)
<1>1. PICK f, g : f = PaidTo(payment, c) /\ g = PaidTo(payment', c)
  OBVIOUS
<1>2. payment[q] = None
  BY DEF Commit, BillingInv, PaymentsAreDone
<1>3. PaymentRow(q) \in PaymentType
  BY PaidRow, JobType DEF Commit, Holding, PaymentRow, PaymentType, BillingInv, TypeOK
<1>4. PaymentRow(q) # None
  BY <1>3, NoneIsNoRow DEF BillingInv, TypeOK
<1>5. /\ payment'[q] = PaymentRow(q)
      /\ \A r \in Request : r # q => payment'[r] = payment[r]
  BY DEF Commit, BillingInv, TypeOK
<1>6. /\ \A r \in Request : f[r] \in Int
      /\ \A r \in Request : r # q => g[r] = f[r]
      /\ f[q] = 0
  BY <1>1, <1>2, <1>5 DEF PaidTo, BillingInv, TypeOK, PaymentType
<1>7. g[q] = IF c = entity[q].id THEN Amount(q) ELSE 0
  BY <1>1, <1>4, <1>5 DEF PaidTo, PaymentRow
<1>8. Amount(q) \in Int
  BY JobType DEF BillingInv, TypeOK
<1>9. SumFunctionOnSet(g, Request) = SumFunctionOnSet(f, Request) + (g[q] - f[q])
  BY <1>6, <1>7, <1>8, RequestAssumption, SumChange
<1>10. /\ Received(c)' = SumFunctionOnSet(g, Request)
       /\ Received(c) = SumFunctionOnSet(f, Request)
  BY <1>1 DEF Received, PaidTo
<1>11. SumFunctionOnSet(f, Request) \in Int
  BY <1>6, RequestAssumption, SumInt
<1> QED
  BY <1>6, <1>7, <1>8, <1>9, <1>10, <1>11

LEMMA CommitKeeps ==
  ASSUME BillingInv, NEW q \in Request, Commit(q)
  PROVE  BillingInv'
<1>1. PICK c, saved, paid : c = entity[q].id /\ saved = Written(q) /\ paid = PaymentRow(q)
  OBVIOUS
<1>2. /\ state[q] = "COMMIT" /\ job' = job
      /\ \A r \in Request :
           /\ state'[r] = IF r = q THEN "DONE" ELSE state[r]
           /\ entity'[r] = IF r = q THEN None ELSE entity[r]
           /\ answer'[r] = IF r = q THEN c ELSE answer[r]
           /\ charge'[r] = IF r = c THEN saved ELSE charge[r]
           /\ payment'[r] = IF r = q THEN paid ELSE payment[r]
  BY <1>1 DEF Commit, Return, Goto, BillingInv, TypeOK, Committed, Forget
<1>3. /\ c \in Request /\ Creates(c) /\ saved \in RowType /\ saved.key = job[c].key
      /\ Creates(q) => c = q
      /\ ~Creates(q) => c \in Committed
      /\ saved.status \in {"COMPLETED", "INSTALLMENT"}
      /\ saved.amount = Price[job[c].item]
      /\ saved.status = "COMPLETED" => saved.amount <= Received(c) + Amount(q)
      /\ saved.totalPaid <= Received(c) + Amount(q)
  BY <1>1, <1>2, PaidRow, WrittenRow DEF Holding
<1>4. paid \in PaymentType /\ paid.amount = Amount(q) /\ Amount(q) \in Int /\ Amount(q) > 0
  <2>1. Amount(q) \in Int /\ Amount(q) > 0
    BY <1>2, JobType DEF BillingInv, TypeOK, EntitiesAreSound, EntitySound, Holding
  <2> QED
    BY <1>1, <1>3, <2>1 DEF PaymentRow, PaymentType
<1>5. saved # None /\ paid # None
  BY <1>3, <1>4, NoneIsNoRow DEF BillingInv, TypeOK
<1>6. Committed' = Committed \cup {c}
  BY <1>2, <1>3, <1>5 DEF Committed
<1>7. \A r \in Request : /\ Creates(r)' = Creates(r) /\ Amount(r)' = Amount(r)
                         /\ NewRow(r)' = NewRow(r)
  BY <1>2 DEF Creates, Amount, NewRow, Kind
<1>8. \A r : /\ Received(r) \in Int
             /\ Received(r)' = Received(r) + (IF r = c THEN Amount(q) ELSE 0)
  BY <1>1, CommitReceives, ReceivedType DEF BillingInv
<1>9. TypeOK'
  <2>1. RowType' = RowType
    BY <1>2 DEF RowType
  <2>2. charge' \in [Request -> RowType \cup {None}]
    BY <1>1, <1>3 DEF Commit, BillingInv, TypeOK
  <2>3. payment' \in [Request -> PaymentType \cup {None}]
    BY <1>1, <1>4 DEF Commit, BillingInv, TypeOK
  <2>4. state' \in [Request -> States] /\ job' \in Workloads
    BY <1>2 DEF Commit, Return, Goto, States, BillingInv, TypeOK
  <2>5. entity' \in [Request -> EntityTypeOf(job) \cup {None}]
    BY DEF Commit, Return, BillingInv, TypeOK, Forget
  <2>6. answer' \in [Request -> Request \cup Errors \cup {None}]
    BY <1>1, <1>3 DEF Commit, Return, BillingInv, TypeOK
  <2>7. columns' \in [Request -> SUBSET Columns]
    BY DEF Commit, Return, Forget, BillingInv, TypeOK
  <2> QED
    BY <1>2, <2>1, <2>2, <2>3, <2>4, <2>5, <2>6, <2>7 DEF TypeOK
<1>10. ChargesAreKept'
  <2>1. ASSUME NEW r \in Committed' 
        PROVE  /\ Creates(r) /\ state'[r] = "DONE" /\ charge'[r].key = job[r].key
               /\ charge'[r].amount = Price[job[r].item]
    <3>1. r \in Request
      BY <1>3, <1>6, <2>1 DEF Committed
    <3>2. CASE r = c
      BY <1>2, <1>3, <3>2 DEF BillingInv, ChargesAreKept
    <3>3. CASE r # c
      BY <1>2, <1>6, <2>1, <3>1, <3>3 DEF BillingInv, ChargesAreKept
    <3> QED
      BY <3>2, <3>3
  <2> QED
    BY <1>2, <1>6, <1>3, <1>7, <2>1 DEF ChargesAreKept, Committed
<1>11. EntitiesAreSound'
  <2>1. ASSUME NEW r \in Request, NEW s, NEW e, EntitySound(r, s, e),
               e # None => e.row.totalPaid \in Int
        PROVE  EntitySound(r, s, e)'
    <3>1. ASSUME NEW d, NEW row, row.totalPaid \in Int, CopyIsSound(r, d, row)
          PROVE  CopyIsSound(r, d, row)'
      <4>1. Received(d) <= Received(d)' /\ Received(d)' \in Int
        BY <1>4, <1>8
      <4>2. row.totalPaid <= Received(d)'
        <5>1. row.totalPaid <= Received(d)
          BY <3>1 DEF CopyIsSound
        <5> QED
          BY <1>8, <3>1, <4>1, <5>1
      <4> QED
        BY <1>2, <1>6, <1>7, <3>1, <4>2 DEF CopyIsSound
    <3> QED
      BY <1>2, <1>7, <2>1, <3>1 DEF EntitySound
  <2>2. ASSUME NEW r \in Request
        PROVE  /\ EntitySound(r, state'[r], entity'[r])
               /\ entity'[r] # None => entity'[r].row.totalPaid \in Int
    <3>1. entity[r] # None => entity[r].row.totalPaid \in Int
      BY DEF BillingInv, TypeOK, EntityTypeOf, RowTypeOf
    <3> QED
      BY <1>2, <3>1 DEF BillingInv, EntitiesAreSound, EntitySound, Holding
  <2> QED
    BY <2>1, <2>2 DEF EntitiesAreSound
<1>12. PaymentsAreDone'
  BY <1>2, <1>3, <1>4, <1>5, <1>7 DEF BillingInv, PaymentsAreDone
<1>13. KeysAreUnique'
  <2>1. Inserted' \subseteq Inserted
    <3>1. Inserted' = {r \in Request : Creates(r) /\ (state'[r] \in {"PAY"} \cup Holding \/ charge'[r] # None)}
      BY <1>7 DEF Inserted
    <3> QED
      BY <1>2, <1>3, <3>1 DEF Inserted, Committed, Holding
  <2> QED
    BY <1>2, <2>1 DEF BillingInv, KeysAreUnique
<1>14. AnswersHaveTheKey'
  BY <1>2, <1>3, <1>6, <1>7 DEF BillingInv, AnswersHaveTheKey
<1>15. CompletedIsCovered'
  <2>1. ASSUME NEW r \in Committed'
        PROVE  /\ charge'[r].status \in {"COMPLETED", "INSTALLMENT"}
               /\ charge'[r].status = "COMPLETED" => Received(r)' >= charge'[r].amount
    <3>1. r \in Request /\ (r = c \/ r \in Committed)
      BY <1>3, <1>6, <2>1 DEF Committed
    <3>2. CASE r = c
      BY <1>2, <1>3, <1>8, <3>2
    <3>3. CASE r # c
      <4>1. charge'[r] = charge[r] /\ Received(r)' = Received(r) /\ r \in Committed
        BY <1>2, <1>8, <3>1, <3>3
      <4> QED
        BY <4>1 DEF BillingInv, CompletedIsCovered
    <3> QED
      BY <3>2, <3>3
  <2> QED
    BY <1>9, <2>1 DEF CompletedIsCovered
<1>16. NeverOverclaims'
  <2>1. ASSUME NEW r \in Committed' PROVE charge'[r].totalPaid <= Received(r)'
    <3>1. r \in Request /\ (r = c \/ r \in Committed)
      BY <1>3, <1>6, <2>1 DEF Committed
    <3>2. CASE r = c
      BY <1>2, <1>3, <1>8, <3>2
    <3>3. CASE r # c
      <4>1. charge'[r] = charge[r] /\ Received(r)' = Received(r) /\ r \in Committed
        BY <1>2, <1>8, <3>1, <3>3
      <4> QED
        BY <4>1 DEF BillingInv, NeverOverclaims
    <3> QED
      BY <3>2, <3>3
  <2> QED
    BY <2>1 DEF NeverOverclaims
<1> QED
  BY <1>9, <1>10, <1>11, <1>12, <1>13, <1>14, <1>15, <1>16 DEF BillingInv

-----------------------------------------------------------------------------
(* The invariant is kept *)

LEMMA NextBillingInv == BillingInv /\ [Next]_vars => BillingInv'
<1> SUFFICES ASSUME BillingInv, [Next]_vars PROVE BillingInv'
  OBVIOUS
<1>1. CASE UNCHANGED vars
  <2>1. UNCHANGED <<job, charge, payment, state, entity, columns, answer>>
    BY <1>1 DEF vars
  <2>2. Committed' = Committed /\ \A c : Received(c)' = Received(c)
    BY <2>1 DEF Committed, Received
  <2>3. TypeOK' /\ ChargesAreKept' /\ PaymentsAreDone' /\ AnswersHaveTheKey'
    BY <2>1, <2>2 DEF BillingInv, TypeOK, RowType, ChargesAreKept, PaymentsAreDone,
       AnswersHaveTheKey, Creates
  <2>4. EntitiesAreSound'
    <3>1. ASSUME NEW q \in Request PROVE EntitySound(q, state[q], entity[q])'
      BY <2>1, <2>2 DEF BillingInv, EntitiesAreSound, EntitySound, CopyIsSound,
         Creates, Amount, Kind, NewRow
    <3> QED
      BY <3>1 DEF EntitiesAreSound
  <2>5. KeysAreUnique'
    BY <2>1 DEF BillingInv, KeysAreUnique, Inserted, Creates
  <2>6. CompletedIsCovered' /\ NeverOverclaims'
    BY <2>1, <2>2, <2>3 DEF BillingInv, CompletedIsCovered, NeverOverclaims
  <2> QED
    BY <2>3, <2>4, <2>5, <2>6 DEF BillingInv
<1>2. ASSUME NEW q \in Request, NEW error \in Errors, Open(q), Rollback(q, error)
      PROVE  BillingInv'
  BY <1>2, RollbackKeeps
<1>3. ASSUME NEW q \in Request,
             \/ RefuseDuplicate(q) \/ RefuseInsert(q) \/ RefuseInstalment(q)
             \/ RefusePayment(q) \/ Refund(q) \/ Fail(q)
      PROVE  BillingInv'
  <2>1. Open(q) /\ \E error \in Errors : Rollback(q, error)
    BY <1>3 DEF RefuseDuplicate, RefuseInsert, RefuseInstalment, RefusePayment, Refund, Fail,
                Open, Errors
  <2> QED
    BY <1>2, <2>1
<1>4. ASSUME NEW q \in Request, Step(q) PROVE BillingInv'
  BY <1>3, <1>4, NewKeeps, CheckKeeps, InsertKeeps, FindKeeps, PayKeeps, SaveKeeps, CommitKeeps DEF Step
<1> QED
  BY <1>1, <1>3, <1>4 DEF Next, Done

\* student-charges.repository.ts:113, the unique index on idempotencyKey: however
\* requests with one key interleave, at most one of them pays, and those that
\* succeed return the same charge.
THEOREM BillingKeyPaysOnce == Spec => []KeyPaysOnce
<1>1. ASSUME BillingInv PROVE KeyPaysOnce
  <2> SUFFICES ASSUME NEW q \in Request, NEW r \in Request, q # r, Creates(q), Creates(r),
                      job[q].key = job[r].key, job[q].key # NoKey
               PROVE  /\ payment[q] = None \/ payment[r] = None
                      /\ (state[q] = "DONE" /\ state[r] = "DONE") => answer[q] = answer[r]
    BY DEF KeyPaysOnce
  <2>1. payment[q] = None \/ payment[r] = None
    BY <1>1 DEF BillingInv, PaymentsAreDone, KeysAreUnique, Inserted
  <2>2. ASSUME state[q] = "DONE", state[r] = "DONE" PROVE answer[q] = answer[r]
    <3>1. /\ answer[q] \in Committed /\ answer[r] \in Committed
          /\ job[answer[q]].key = job[q].key /\ job[answer[r]].key = job[r].key
      BY <1>1, <2>2 DEF BillingInv, AnswersHaveTheKey
    <3>2. \A c \in Committed : c \in Inserted
      BY <1>1 DEF BillingInv, ChargesAreKept, Inserted, Committed
    <3> QED
      BY <1>1, <3>1, <3>2 DEF BillingInv, KeysAreUnique
  <2> QED
    BY <2>1, <2>2
<1> QED
  BY <1>1, InitBillingInv, NextBillingInv, PTL DEF Spec

\* student-charge-status.enum.ts:8, "Fully paid and completed": a charge is COMPLETED
\* only if the payments made for it cover its price, whatever columns of it
\* overlapping requests have written over each other.
THEOREM BillingCompletedIsCovered == Spec => []CompletedIsCovered
<1>1. BillingInv => CompletedIsCovered
  BY DEF BillingInv
<1> QED
  BY <1>1, InitBillingInv, NextBillingInv, PTL DEF Spec

\* payClassInstallment and the charge handlers: a charge never claims more than
\* the payments made for it add up to.
THEOREM BillingNeverOverclaims == Spec => []NeverOverclaims
<1>1. BillingInv => NeverOverclaims
  BY DEF BillingInv
<1> QED
  BY <1>1, InitBillingInv, NextBillingInv, PTL DEF Spec
=============================================================================
