---------------------------- MODULE PaymentLedger ---------------------------
(***************************************************************************)
(* PaymentOrchestratorService.createAndExecutePayment and everything it    *)
(* calls: PaymentCreatorService, PaymentExecutorService, the wallet and    *)
(* the cash strategy, WalletService.updateBalance and                      *)
(* CashboxService.updateBalance.                                           *)
(*                                                                         *)
(* A request t is one database transaction at READ COMMITTED.  It          *)
(* validates the sender's balance with a plain read, then applies the legs *)
(* of its plan: SELECT ... FOR UPDATE on the row, check the new balance,   *)
(* save.  Row locks are held until the transaction ends.  `row' holds the  *)
(* committed rows, `draft' the version the lock holder has written and     *)
(* nobody else can read.                                                   *)
(*                                                                         *)
(* Legs are awaited one after the other, but for a wallet payment without  *)
(* fee, whose two updateBalance calls run under Promise.all: both row      *)
(* locks are asked for before either row is saved, and when one call fails *)
(* the other is not waited for.                                            *)
(*                                                                         *)
(* Amounts are in the smallest currency unit.  Wallet and cashbox rows     *)
(* exist from the start; creating one on first use is not modelled here.   *)
(***************************************************************************)
EXTENDS Integers, Sequences, FiniteSets, Functions

CONSTANTS
  Tx,                   \* requests
  User, Branch, System, \* owners of wallets; a branch owns a cashbox as well
  Orders,               \* the payments a request may ask for
  FeesPercentage,       \* settings: fee on student payments
  MaxNegativeBalance,   \* settings: how far a cash fee may overdraw a branch
  Opening,              \* balances before the first request
  Free, NoOrder         \* sentinels: no lock holder, no order

Party    == User \cup Branch \cup {System}
Wallet(p)  == <<"wallet", p>>
Cashbox(b) == <<"cashbox", b>>
Account  == {Wallet(p) : p \in Party} \cup {Cashbox(b) : b \in Branch}

StudentFees == {"SESSION_FEE", "MONTHLY_FEE", "CLASS_FEE"}
Reasons == StudentFees \cup {"BRANCH_DEPOSIT", "BRANCH_WITHDRAWAL", "TEACHER_PAYOUT"}
OrderType ==
  [method : {"WALLET", "CASH"}, sender : Party, receiver : Party,
   amount : Int, reason : Reasons]

\* The lowest balance a row may ever show: only the debit of a cash payment's
\* fee from a branch wallet is given an allowance.
Floor(a) == IF \E b \in Branch : a = Wallet(b) THEN -MaxNegativeBalance ELSE 0

\* A wallet's owner has a type, and a profile, a branch or the system is its id.
ASSUME PartyAssumption ==
  /\ User \cap Branch = {} /\ System \notin User \cup Branch
  /\ IsFiniteSet(User) /\ IsFiniteSet(Branch)
ASSUME SettingsAssumption ==
  /\ FeesPercentage \in Nat
  /\ MaxNegativeBalance \in Nat
ASSUME SentinelAssumption == Free \notin Tx /\ NoOrder \notin Orders
\* Every caller pays between a branch and a profile; student fees go to the branch.
ASSUME OrdersAssumption ==
  /\ Orders \subseteq OrderType
  /\ \A o \in Orders : o.sender # o.receiver
  /\ \A o \in Orders : o.reason \in StudentFees => o.receiver \in Branch
ASSUME OpeningAssumption ==
  /\ Opening \in [Account -> Int]
  /\ \A a \in Account : Opening[a] >= Floor(a)

-----------------------------------------------------------------------------
(* Fees and legs *)

\* amount * percentage / 100, rounded half up to the currency unit.
CalculateFee(amount) ==
  IF FeesPercentage <= 0 THEN 0 ELSE (amount * FeesPercentage + 50) \div 100

FeeAmount(o) == IF o.reason \in StudentFees THEN CalculateFee(o.amount) ELSE 0
NetAmount(o) == o.amount - FeeAmount(o)
HasFeeAmount(o) == FeeAmount(o) # 0

\* One call of updateBalance: add `amount' to `account' unless that leaves it
\* below `floor'.
Leg(account, amount, floor) ==
  [account |-> account, amount |-> amount, floor |-> floor]
LegType == [account : Account, amount : Int, floor : {0, -MaxNegativeBalance}]

WalletLegs(o) ==
  IF HasFeeAmount(o)
    THEN << Leg(Wallet(o.sender), -o.amount, 0),
            Leg(Wallet(o.receiver), NetAmount(o), 0),
            Leg(Wallet(o.receiver), -FeeAmount(o), 0),
            Leg(Wallet(System), FeeAmount(o), 0) >>
    ELSE << Leg(Wallet(o.sender), -o.amount, 0),
            Leg(Wallet(o.receiver), o.amount, 0) >>

\* Mutants: the system is credited before the branch is debited; the system is
\* not credited at all.
FeeLegs_SystemFirst(o) ==
  IF HasFeeAmount(o)
    THEN << Leg(Wallet(System), FeeAmount(o), 0),
            Leg(Wallet(o.receiver), -FeeAmount(o), -MaxNegativeBalance) >>
    ELSE << >>
FeeLegs_DebitOnly(o) ==
  IF HasFeeAmount(o)
    THEN << Leg(Wallet(o.receiver), -FeeAmount(o), -MaxNegativeBalance) >>
    ELSE << >>

FeeLegs(o) ==
  IF HasFeeAmount(o)
    THEN << Leg(Wallet(o.receiver), -FeeAmount(o), -MaxNegativeBalance),
            Leg(Wallet(System), FeeAmount(o), 0) >>
    ELSE << >>

CashLegs(o) ==
  IF o.sender \in Branch
    THEN << Leg(Cashbox(o.sender), -o.amount, 0) >> \o FeeLegs(o)
  ELSE IF o.receiver \in Branch
    THEN << Leg(Cashbox(o.receiver), o.amount, 0) >> \o FeeLegs(o)
  ELSE << >>

Legs(o) == IF o.method = "WALLET" THEN WalletLegs(o) ELSE CashLegs(o)

\* Both legs under one Promise.all.
Together(o) == o.method = "WALLET" /\ ~HasFeeAmount(o)

-----------------------------------------------------------------------------
(* State *)

VARIABLES
  row,      \* committed rows: balance, sum of its ledger entries, last balanceAfter
  draft,    \* the same, as the transaction holding the row's lock sees it
  lock,     \* which transaction holds the row lock
  state,    \* where each request stands
  order,    \* what it asks for
  taken,    \* legs whose row is locked and read
  done,     \* legs applied
  seen,     \* the balance each locking read returned, until it is used
  retries,  \* calls of updateBalance repeated after a deadlock
  orphan,   \* a repeated call has outlived its request
  cause     \* why a request was rolled back

vars == <<row, draft, lock, state, order, taken, done, seen, retries, orphan, cause>>

States == {"IDLE", "RUN", "RETRY", "COMMITTED", "ABORTED"}
Active == {"RUN", "RETRY"}
Causes == {"none", "AMOUNT", "FUNDS", "DEADLOCK", "CRASH"}
RowType == [balance : Int, posted : Int, last : Int]
Plan(t) == Legs(order[t])
NextToLock(t) == Plan(t)[taken[t] + 1]
NextToSave(t) == Plan(t)[done[t] + 1]

TypeOK ==
  /\ row \in [Account -> RowType]
  /\ draft \in [Account -> RowType]
  /\ lock \in [Account -> Tx \cup {Free}]
  /\ state \in [Tx -> States]
  /\ order \in [Tx -> Orders \cup {NoOrder}]
  /\ taken \in [Tx -> 0..4]
  /\ done \in [Tx -> 0..4]
  /\ seen \in [Tx -> [1..4 -> Int]]
  /\ retries \in [Tx -> Nat]
  /\ orphan \in [Tx -> BOOLEAN]
  /\ cause \in [Tx -> Causes]

OpeningRow(a) == [balance |-> Opening[a], posted |-> 0, last |-> Opening[a]]

Init ==
  /\ row = [a \in Account |-> OpeningRow(a)]
  /\ draft = [a \in Account |-> OpeningRow(a)]
  /\ lock = [a \in Account |-> Free]
  /\ state = [t \in Tx |-> "IDLE"]
  /\ order = [t \in Tx |-> NoOrder]
  /\ taken = [t \in Tx |-> 0]
  /\ done = [t \in Tx |-> 0]
  /\ seen = [t \in Tx |-> [i \in 1..4 |-> 0]]
  /\ retries = [t \in Tx |-> 0]
  /\ orphan = [t \in Tx |-> FALSE]
  /\ cause = [t \in Tx |-> "none"]

-----------------------------------------------------------------------------
(* Transactions *)

Release(t) == [a \in Account |-> IF lock[a] = t THEN Free ELSE lock[a]]

\* ROLLBACK: the rows t had written revert, its locks go.
Rollback(t) ==
  /\ draft' = [a \in Account |-> IF lock[a] = t THEN row[a] ELSE draft[a]]
  /\ lock' = Release(t)
  /\ UNCHANGED row

Abort(t, why) ==
  /\ state' = [state EXCEPT ![t] = "ABORTED"]
  /\ cause' = [cause EXCEPT ![t] = why]

\* strategy.validate: a plain read of the sender's committed balance.  A cash
\* payment is only validated when the branch pays.
WalletValidates(o) == row[Wallet(o.sender)].balance >= o.amount
CashValidates(o) ==
  o.sender \in Branch => row[Cashbox(o.sender)].balance >= o.amount
Validates(o) == IF o.method = "WALLET" THEN WalletValidates(o) ELSE CashValidates(o)

\* createPayment and validate: nothing another transaction can see.
Begin(t, o) ==
  /\ state[t] = "IDLE"
  /\ order' = [order EXCEPT ![t] = o]
  /\ IF o.amount <= 0 THEN Abort(t, "AMOUNT")
     ELSE IF ~Validates(o) THEN Abort(t, "FUNDS")
     ELSE state' = [state EXCEPT ![t] = "RUN"] /\ UNCHANGED cause
  /\ UNCHANGED <<row, draft, lock, taken, done, seen, retries, orphan>>

MayLock(t) ==
  /\ state[t] = "RUN"
  /\ taken[t] < Len(Plan(t))
  /\ taken[t] = done[t] \/ Together(order[t])

MaySave(t) ==
  /\ state[t] = "RUN"
  /\ done[t] < taken[t]
  /\ Together(order[t]) => taken[t] = Len(Plan(t))

\* Mutant: the balance comes from the wallet read before the lock was taken.
LockRow_StaleRead(t) ==
  /\ MayLock(t)
  /\ LET a == NextToLock(t).account IN
       /\ lock[a] \in {Free, t}
       /\ lock' = [lock EXCEPT ![a] = t]
       /\ seen' = [seen EXCEPT ![t][taken[t] + 1] = row[a].balance]
  /\ taken' = [taken EXCEPT ![t] = taken[t] + 1]
  /\ UNCHANGED <<row, draft, state, order, done, retries, orphan, cause>>

\* updateBalance, first half: SELECT ... FOR UPDATE.
LockRow(t) ==
  /\ MayLock(t)
  /\ LET a == NextToLock(t).account IN
       /\ lock[a] \in {Free, t}
       /\ lock' = [lock EXCEPT ![a] = t]
       /\ seen' = [seen EXCEPT ![t][taken[t] + 1] = draft[a].balance]
  /\ taken' = [taken EXCEPT ![t] = taken[t] + 1]
  /\ UNCHANGED <<row, draft, state, order, done, retries, orphan, cause>>

\* Mutant: validate() is trusted, the new balance is not checked again.
SaveRow_Unchecked(t) ==
  /\ MaySave(t)
  /\ LET leg == NextToSave(t)
         new == seen[t][done[t] + 1] + leg.amount
     IN  draft' = [draft EXCEPT ![leg.account] =
           [balance |-> new, posted |-> @.posted + leg.amount, last |-> new]]
  /\ done' = [done EXCEPT ![t] = done[t] + 1]
  /\ seen' = [seen EXCEPT ![t][done[t] + 1] = 0]
  /\ UNCHANGED <<row, lock, state, order, taken, retries, orphan, cause>>

\* updateBalance, second half: the new balance is within the floor; save it
\* and record the ledger entry with its balanceAfter.
SaveRow(t) ==
  /\ MaySave(t)
  /\ LET leg == NextToSave(t)
         new == seen[t][done[t] + 1] + leg.amount
     IN  /\ new >= leg.floor
         /\ draft' = [draft EXCEPT ![leg.account] =
              [balance |-> new, posted |-> @.posted + leg.amount, last |-> new]]
  /\ done' = [done EXCEPT ![t] = done[t] + 1]
  /\ seen' = [seen EXCEPT ![t][done[t] + 1] = 0]
  /\ UNCHANGED <<row, lock, state, order, taken, retries, orphan, cause>>

\* Mutant: the error is swallowed and the transaction left open.
RefuseRow_LeftOpen(t) ==
  /\ MaySave(t)
  /\ seen[t][done[t] + 1] + NextToSave(t).amount < NextToSave(t).floor
  /\ Abort(t, "FUNDS")
  /\ UNCHANGED <<row, draft, lock, order, taken, done, seen, retries, orphan>>

\* Mutant: the error is swallowed, the payment goes on without this leg.
RefuseRow_Skipped(t) ==
  /\ MaySave(t)
  /\ seen[t][done[t] + 1] + NextToSave(t).amount < NextToSave(t).floor
  /\ done' = [done EXCEPT ![t] = done[t] + 1]
  /\ seen' = [seen EXCEPT ![t][done[t] + 1] = 0]
  /\ UNCHANGED <<row, draft, lock, state, order, taken, retries, orphan, cause>>

\* updateBalance, second half: below the floor, throw.
RefuseRow(t) ==
  /\ MaySave(t)
  /\ seen[t][done[t] + 1] + NextToSave(t).amount < NextToSave(t).floor
  /\ Rollback(t)
  /\ Abort(t, "FUNDS")
  /\ UNCHANGED <<order, taken, done, seen, retries, orphan>>

\* Every leg applied: the payment is saved COMPLETED and the transaction commits.
Commit(t) ==
  /\ state[t] = "RUN"
  /\ done[t] = Len(Plan(t))
  /\ row' = [a \in Account |-> IF lock[a] = t THEN draft[a] ELSE row[a]]
  /\ lock' = Release(t)
  /\ state' = [state EXCEPT ![t] = "COMMITTED"]
  /\ UNCHANGED <<draft, order, taken, done, seen, retries, orphan, cause>>

-----------------------------------------------------------------------------
(* Deadlocks and crashes *)

Blocked(t) == MayLock(t) /\ lock[NextToLock(t).account] \notin {Free, t}

\* The database's deadlock detector looks for transactions waiting in a ring.
Deadlocked(t) ==
  \E S \in SUBSET Tx :
    /\ t \in S
    /\ \A s \in S : Blocked(s) /\ lock[NextToLock(s).account] \in S
    /\ \A s \in S : \E r \in S : lock[NextToLock(r).account] = s

\* Error 40P01: the database aborts the victim's transaction there and then;
\* updateBalance catches the error, backs off and will call itself again.
DeadlockVictim(t) ==
  /\ Deadlocked(t)
  /\ Rollback(t)
  /\ state' = [state EXCEPT ![t] = "RETRY"]
  /\ retries' = [retries EXCEPT ![t] = retries[t] + 1]
  /\ UNCHANGED <<order, taken, done, seen, orphan, cause>>

\* Awaited, the repeated call runs in the same transaction, which the database
\* has aborted: it answers 25P02, which is not an error updateBalance retries.
\* Under Promise.all it is the other call's save that meets 25P02: the request
\* is rolled back while the repeated call is still backing off.
RetryInAborted(t) ==
  /\ state[t] = "RETRY"
  /\ Abort(t, "DEADLOCK")
  /\ orphan' = [orphan EXCEPT ![t] = Together(order[t])]
  /\ UNCHANGED <<row, draft, lock, order, taken, done, seen, retries>>

\* The call nobody waits for wakes up.  Its request's transaction is over, so
\* @Transactional opens one of its own, which locks the row, checks the
\* balance, saves and commits; the ledger entry was its request's to record.
LateCredit(t) ==
  /\ orphan[t]
  /\ orphan' = [orphan EXCEPT ![t] = FALSE]
  /\ LET leg == NextToLock(t)
         new == row[leg.account].balance + leg.amount
     IN  /\ lock[leg.account] = Free
         /\ IF new < 0 THEN UNCHANGED <<row, draft>>
            ELSE /\ row' = [row EXCEPT ![leg.account].balance = new]
                 /\ draft' = [draft EXCEPT ![leg.account].balance = new]
  /\ UNCHANGED <<lock, state, order, taken, done, seen, retries, cause>>

\* The process or its connection dies; the database rolls back.
Crash(t) ==
  /\ state[t] \in Active
  /\ Rollback(t)
  /\ Abort(t, "CRASH")
  /\ UNCHANGED <<order, taken, done, seen, retries, orphan>>

Advance(t) ==
  LockRow(t) \/ SaveRow(t) \/ RefuseRow(t) \/ Commit(t) \/ RetryInAborted(t) \/ LateCredit(t)

Next ==
  \E t \in Tx :
    \/ \E o \in Orders : Begin(t, o)
    \/ LockRow(t)
    \/ SaveRow(t)
    \/ RefuseRow(t)
    \/ Commit(t)
    \/ DeadlockVictim(t)
    \/ RetryInAborted(t)
    \/ LateCredit(t)
    \/ Crash(t)

Spec == Init /\ [][Next]_vars

\* The event loop keeps running a request it has started, and the database's
\* deadlock detector runs.  Nothing makes a client send a request.
Fairness ==
  /\ \A t \in Tx : WF_vars(Advance(t))
  /\ WF_vars(\E t \in Tx : DeadlockVictim(t))

FairSpec == Spec /\ Fairness

-----------------------------------------------------------------------------
(* Properties *)

\* WalletService and CashboxService.updateBalance: however requests
\* interleave, no committed or pending balance drops below zero, and only a
\* branch wallet may be overdrawn, by a cash fee, to -maxNegativeBalance.
NoOverdraft ==
  \A a \in Account : row[a].balance >= Floor(a) /\ draft[a].balance >= Floor(a)

\* The audit trail (transactions and cash_transactions): the committed entries
\* of an account add up to the change of its balance, and the balanceAfter of
\* its latest entry is its balance.  A LateCredit breaks this.
AuditTrail ==
  \A a \in Account :
    /\ row[a].balance = Opening[a] + row[a].posted
    /\ row[a].balance = row[a].last

\* What the legs of an order do to an account.
LegEffect(legs, i, a) ==
  IF i \in 1..Len(legs) /\ legs[i].account = a THEN legs[i].amount ELSE 0
Net(o, a) ==
  LegEffect(Legs(o), 1, a) + LegEffect(Legs(o), 2, a)
    + LegEffect(Legs(o), 3, a) + LegEffect(Legs(o), 4, a)
Payable(o) == o.amount > 0

\* No payment whose legs run together is caught in a deadlock: when this holds,
\* no call outlives its request.
NoDeadlockTogether == \A t \in Tx : Deadlocked(t) => ~Together(order[t])

\* Payments towards a branch, or in cash, lock cashbox, profile, branch and system
\* rows in that order, in both strategies: they can wait for each other, never in
\* a ring.
OneWay(o) == o.method = "CASH" \/ (o.sender \in User /\ o.receiver \notin User)
AllOneWay == \A t \in Tx : order[t] # NoOrder => OneWay(order[t])
OneWayNeverDeadlocks == AllOneWay => \A t \in Tx : ~Deadlocked(t)

\* Row-locked transactions settle like single atomic steps: a payment's legs
\* are applied all or none, once each, and no concurrent one is lost.
Settled == [t \in Tx |-> IF state[t] = "COMMITTED" THEN order[t] ELSE NoOrder]
Balances == [a \in Account |-> row[a].balance]
Atomic == INSTANCE AtomicLedger WITH balance <- Balances, settled <- Settled
PaymentsAreAtomic == Atomic!Spec

\* Payments between wallets, and the fee of a cash payment, move money and
\* neither create nor lose any, as long as no wallet payment carries a fee.
WalletTotal(f) == SumFunctionOnSet([p \in Party |-> f[Wallet(p)]], Party)
FeeFree(o) == o.method = "CASH" \/ ~HasFeeAmount(o)
WalletMoneyConserved ==
  (\A t \in Tx : state[t] = "COMMITTED" => FeeFree(order[t]))
    => WalletTotal(Balances) = WalletTotal(Opening)

\* A request that was started is answered: it commits or is rolled back, and
\* in the end holds no row lock and has left no call behind.
EveryRequestEnds ==
  \A t \in Tx : state[t] # "IDLE" ~>
    /\ state[t] \in {"COMMITTED", "ABORTED"}
    /\ \A a \in Account : lock[a] # t
    /\ ~orphan[t]
=============================================================================
