------------------------- MODULE PaymentLedgerProofs ------------------------
(***************************************************************************)
(* What PaymentLedger guarantees for every set of requests, parties,       *)
(* orders and settings: its state is well typed and no account is          *)
(* overdrawn; and, while no payment whose legs run together is caught in a *)
(* deadlock, the audit trail agrees with the balances, row-locked payments *)
(* implement the atomic payments of AtomicLedger and wallet money is       *)
(* conserved.  Payments that go one way are never caught in a deadlock.    *)
(* With no condition at all: a step changes committed balances by a whole  *)
(* payment or, after a deadlock, by one late credit.                       *)
(***************************************************************************)
EXTENDS PaymentLedger, Sums

-----------------------------------------------------------------------------
(* Legs *)

LEMMA FeeType == \A o \in Orders : FeeAmount(o) \in Int /\ NetAmount(o) \in Int
<1> SUFFICES ASSUME NEW o \in Orders PROVE FeeAmount(o) \in Int /\ NetAmount(o) \in Int
  OBVIOUS
<1>1. o.amount \in Int
  BY OrdersAssumption DEF OrderType
<1>2. CalculateFee(o.amount) \in Int
  BY <1>1, SettingsAssumption DEF CalculateFee
<1> QED
  BY <1>1, <1>2 DEF FeeAmount, NetAmount

LEMMA AccountOf ==
  \A o \in Orders :
    /\ Wallet(o.sender) \in Account
    /\ Wallet(o.receiver) \in Account
    /\ Wallet(System) \in Account
    /\ o.sender \in Branch => Cashbox(o.sender) \in Account
    /\ o.receiver \in Branch => Cashbox(o.receiver) \in Account
  BY OrdersAssumption DEF OrderType, Account, Party

\* A leg that may run is well typed and never goes below its account's floor.
GoodLeg(leg) == leg \in LegType /\ leg.floor >= Floor(leg.account)

LEMMA GoodLegs ==
  \A o \in Orders :
    /\ Len(Legs(o)) \in 0..4
    /\ \A i \in 1..Len(Legs(o)) : GoodLeg(Legs(o)[i])
<1> SUFFICES ASSUME NEW o \in Orders
             PROVE  /\ Len(Legs(o)) \in 0..4
                    /\ \A i \in 1..Len(Legs(o)) : GoodLeg(Legs(o)[i])
  OBVIOUS
<1>1. o.amount \in Int /\ FeeAmount(o) \in Int /\ NetAmount(o) \in Int
  BY FeeType, OrdersAssumption DEF OrderType
<1>2. \A a \in Account, x \in Int : GoodLeg(Leg(a, x, 0))
  BY SettingsAssumption DEF GoodLeg, LegType, Leg, Floor
<1>3. HasFeeAmount(o) => o.receiver \in Branch
  BY OrdersAssumption DEF HasFeeAmount, FeeAmount
<1>4. HasFeeAmount(o) =>
        GoodLeg(Leg(Wallet(o.receiver), -FeeAmount(o), -MaxNegativeBalance))
  BY <1>1, <1>3, AccountOf, SettingsAssumption DEF GoodLeg, LegType, Leg, Floor
<1>5. /\ Len(WalletLegs(o)) \in 0..4
      /\ \A i \in 1..Len(WalletLegs(o)) : GoodLeg(WalletLegs(o)[i])
  BY <1>1, <1>2, AccountOf DEF WalletLegs
<1>6. /\ Len(CashLegs(o)) \in 0..4
      /\ \A i \in 1..Len(CashLegs(o)) : GoodLeg(CashLegs(o)[i])
  BY <1>1, <1>2, <1>4, AccountOf DEF CashLegs, FeeLegs
<1> QED
  BY <1>5, <1>6 DEF Legs

\* Legs that run together are a debit and a credit of different wallets.
LEMMA TogetherApart ==
  \A o \in Orders : Together(o) =>
    Len(Legs(o)) = 2 /\ Legs(o)[1].account # Legs(o)[2].account
  BY OrdersAssumption DEF Together, Legs, WalletLegs, Leg, Wallet

-----------------------------------------------------------------------------
(* Type correctness *)

\* How far a request has come in its plan.
Progress ==
  \A t \in Tx :
    /\ state[t] = "IDLE" => taken[t] = 0 /\ done[t] = 0
    /\ state[t] # "IDLE" =>
         /\ order[t] \in Orders
         /\ taken[t] \in 0..Len(Plan(t))
         /\ done[t] \in 0..taken[t]
         /\ ~Together(order[t]) => taken[t] <= done[t] + 1
    /\ orphan[t] => state[t] = "ABORTED"
    /\ state[t] = "RETRY" \/ orphan[t] => taken[t] < Len(Plan(t))

TypeInv == TypeOK /\ Progress

\* The legs of a request that has begun.
LEMMA PlanLegs ==
  ASSUME TypeInv, NEW t \in Tx, state[t] # "IDLE"
  PROVE  /\ Len(Plan(t)) \in 0..4
         /\ \A i \in 1..Len(Plan(t)) :
              /\ i \in 1..4
              /\ Plan(t)[i].account \in Account
              /\ Plan(t)[i].amount \in Int
              /\ Plan(t)[i].floor \in Int
              /\ Plan(t)[i].floor >= Floor(Plan(t)[i].account)
<1>1. order[t] \in Orders
  BY DEF TypeInv, Progress
<1>2. Len(Plan(t)) \in 0..4 /\ \A i \in 1..Len(Plan(t)) : GoodLeg(Plan(t)[i])
  BY <1>1, GoodLegs DEF Plan
<1>3. \A leg : GoodLeg(leg) =>
        /\ leg.account \in Account /\ leg.amount \in Int /\ leg.floor \in Int
        /\ leg.floor >= Floor(leg.account)
  BY SettingsAssumption DEF GoodLeg, LegType
<1> QED
  BY <1>2, <1>3

\* The leg LockRow works on.
LEMMA LegToLock ==
  ASSUME TypeInv, NEW t \in Tx, MayLock(t)
  PROVE  /\ state[t] = "RUN" /\ taken[t] \in 0..Len(Plan(t)) /\ taken[t] < Len(Plan(t))
         /\ taken[t] + 1 \in 1..Len(Plan(t)) /\ taken[t] + 1 \in 1..4
         /\ NextToLock(t) = Plan(t)[taken[t] + 1]
         /\ NextToLock(t).account \in Account
  BY PlanLegs DEF MayLock, NextToLock, TypeInv, Progress

\* The leg SaveRow and RefuseRow work on.
LEMMA LegToSave ==
  ASSUME TypeInv, NEW t \in Tx, MaySave(t)
  PROVE  /\ state[t] = "RUN" /\ done[t] < taken[t]
         /\ taken[t] \in 0..Len(Plan(t)) /\ done[t] \in 0..taken[t]
         /\ done[t] + 1 \in 1..taken[t] /\ done[t] + 1 \in 1..Len(Plan(t))
         /\ done[t] + 1 \in 1..4
         /\ NextToSave(t) = Plan(t)[done[t] + 1]
         /\ NextToSave(t).account \in Account
         /\ NextToSave(t).amount \in Int
         /\ NextToSave(t).floor \in Int
         /\ NextToSave(t).floor >= Floor(NextToSave(t).account)
<1>1. /\ state[t] = "RUN" /\ done[t] < taken[t]
      /\ taken[t] \in 0..Len(Plan(t)) /\ done[t] \in 0..taken[t]
      /\ Len(Plan(t)) \in 0..4
  BY PlanLegs DEF MaySave, TypeInv, Progress
<1>2. /\ done[t] + 1 \in 1..taken[t] /\ done[t] + 1 \in 1..Len(Plan(t))
      /\ done[t] + 1 \in 1..4
  <2> DEFINE n == Len(Plan(t))
             k == taken[t]
             d == done[t]
  <2>1. n \in 0..4 /\ k \in 0..n /\ d \in 0..k /\ d < k
    BY <1>1
  <2> HIDE DEF n, k, d
  <2>2. d + 1 \in 1..k /\ d + 1 \in 1..n /\ d + 1 \in 1..4
    BY <2>1
  <2> QED
    BY <2>2 DEF n, k, d
<1> QED
  BY <1>1, <1>2, PlanLegs DEF NextToSave

LEMMA DeadlockedMayLock == \A t \in Tx : Deadlocked(t) => MayLock(t)
  BY DEF Deadlocked, Blocked

LEMMA InitTypeInv == Init => TypeInv
  BY OpeningAssumption
     DEF Init, TypeInv, TypeOK, Progress, OpeningRow, RowType, States, Causes

LEMMA RollbackType ==
  ASSUME TypeOK, NEW t \in Tx, Rollback(t)
  PROVE  /\ row' \in [Account -> RowType]
         /\ draft' \in [Account -> RowType]
         /\ lock' \in [Account -> Tx \cup {Free}]
  BY DEF TypeOK, Rollback, Release

LEMMA NextTypeInv == TypeInv /\ [Next]_vars => TypeInv'
<1> SUFFICES ASSUME TypeInv, [Next]_vars PROVE TypeInv'
  OBVIOUS
<1> USE DEF TypeInv, Progress, States, Active, Causes
<1>1. ASSUME NEW t \in Tx, NEW o \in Orders, Begin(t, o) PROVE TypeInv'
  <2>1. /\ order' = [order EXCEPT ![t] = o]
        /\ state' \in [Tx -> States]
        /\ cause' \in [Tx -> Causes]
        /\ \A u \in Tx : u # t => state'[u] = state[u]
        /\ state[t] = "IDLE" /\ state'[t] \in {"RUN", "ABORTED"}
        /\ UNCHANGED <<row, draft, lock, taken, done, seen, retries, orphan>>
    BY <1>1 DEF TypeOK, Begin, Abort
  <2>2. taken[t] = 0 /\ done[t] = 0 /\ ~orphan[t] /\ 0 \in 0..Len(Legs(o))
    BY <2>1, GoodLegs
  <2>3. TypeOK'
    BY <2>1 DEF TypeOK
  <2>4. \A u \in Tx : u # t => Plan(u)' = Plan(u) /\ order'[u] = order[u]
    BY <2>1 DEF TypeOK, Plan
  <2>5. Plan(t)' = Legs(o) /\ order'[t] = o
    BY <2>1 DEF TypeOK, Plan
  <2>6. Progress'
    BY <2>1, <2>2, <2>4, <2>5
  <2> QED
    BY <2>3, <2>6
<1>2. ASSUME NEW t \in Tx, LockRow(t) PROVE TypeInv'
  <2> DEFINE a == NextToLock(t).account
  <2>1. a \in Account /\ MayLock(t) /\ draft[a].balance \in Int
    BY <1>2, LegToLock DEF LockRow, TypeOK, RowType
  <2>2. /\ lock' = [lock EXCEPT ![a] = t]
        /\ seen' = [seen EXCEPT ![t][taken[t] + 1] = draft[a].balance]
        /\ taken' = [taken EXCEPT ![t] = taken[t] + 1]
        /\ UNCHANGED <<row, draft, state, order, done, retries, orphan, cause>>
    BY <1>2 DEF LockRow
  <2> HIDE DEF a
  <2>3. /\ state[t] = "RUN" /\ taken[t] + 1 \in 1..Len(Plan(t)) /\ taken[t] + 1 \in 1..4
        /\ taken[t] \in 0..4 /\ done[t] \in 0..4
        /\ ~Together(order[t]) => taken[t] = done[t]
    BY <2>1, LegToLock DEF MayLock, TypeOK
  <2>4. TypeOK'
    <3>1. seen' \in [Tx -> [1..4 -> Int]]
      BY <2>1, <2>2, <2>3 DEF TypeOK
    <3>2. taken' \in [Tx -> 0..4]
      <4>1. taken[t] + 1 \in 0..4
        BY <2>3
      <4> QED
        BY <2>2, <4>1 DEF TypeOK
    <3> QED
      BY <2>1, <2>2, <3>1, <3>2 DEF TypeOK
  <2>5. \A u \in Tx : Plan(u)' = Plan(u)
    BY <2>2 DEF Plan
  <2>6. \A u \in Tx : taken'[u] = IF u = t THEN taken[t] + 1 ELSE taken[u]
    BY <2>2 DEF TypeOK
  <2>7. /\ taken[t] + 1 \in 0..Len(Plan(t)) /\ done[t] \in 0..taken[t] + 1
        /\ ~Together(order[t]) => taken[t] + 1 <= done[t] + 1
        /\ state[t] = "RUN" /\ ~orphan[t]
    BY <2>3
  <2>8. Progress'
    BY <2>2, <2>5, <2>6, <2>7
  <2> QED
    BY <2>4, <2>8
<1>3. ASSUME NEW t \in Tx, SaveRow(t) PROVE TypeInv'
  <2> DEFINE a == NextToSave(t).account
             x == NextToSave(t).amount
             new == seen[t][done[t] + 1] + x
  <2>1. /\ a \in Account /\ x \in Int /\ MaySave(t)
        /\ done[t] + 1 \in 1..taken[t] /\ done[t] + 1 \in 1..4
        /\ taken[t] \in 0..Len(Plan(t)) /\ state[t] = "RUN"
    BY <1>3, LegToSave DEF SaveRow
  <2>2. /\ draft' = [draft EXCEPT ![a] =
             [balance |-> new, posted |-> draft[a].posted + x, last |-> new]]
        /\ done' = [done EXCEPT ![t] = done[t] + 1]
        /\ seen' = [seen EXCEPT ![t][done[t] + 1] = 0]
        /\ UNCHANGED <<row, lock, state, order, taken, retries, orphan, cause>>
    BY <1>3 DEF SaveRow
  <2>3. new \in Int /\ draft[a].posted + x \in Int
    <3>1. seen[t][done[t] + 1] \in Int /\ draft[a].posted \in Int
      BY <2>1 DEF TypeOK, RowType
    <3> QED
      BY <2>1, <3>1
  <2> HIDE DEF a, x, new
  <2>4. [balance |-> new, posted |-> draft[a].posted + x, last |-> new] \in RowType
    BY <2>3 DEF RowType
  <2>5. draft' \in [Account -> RowType]
    BY <2>2, <2>4 DEF TypeOK
  <2>6. seen' \in [Tx -> [1..4 -> Int]]
    BY <2>1, <2>2 DEF TypeOK
  <2>7. done[t] + 1 \in 0..4 /\ done[t] + 1 \in 0..taken[t] /\ done[t] \in 0..4
    BY <2>1 DEF TypeOK
  <2>8. done' \in [Tx -> 0..4]
    BY <2>2, <2>7 DEF TypeOK
  <2>9. TypeOK'
    BY <2>2, <2>5, <2>6, <2>8 DEF TypeOK
  <2>10. /\ \A u \in Tx : done'[u] = IF u = t THEN done[t] + 1 ELSE done[u]
         /\ \A u \in Tx : Plan(u)' = Plan(u)
    BY <2>2 DEF TypeOK, Plan
  <2>11. ~Together(order[t]) => taken[t] <= (done[t] + 1) + 1
    <3>1. ~Together(order[t]) => taken[t] <= done[t] + 1
      BY <2>1
    <3>2. taken[t] \in Int /\ done[t] \in Int
      BY <2>7 DEF TypeOK
    <3> QED
      BY <3>1, <3>2
  <2>12. Progress'
    BY <2>1, <2>2, <2>7, <2>10, <2>11
  <2> QED
    BY <2>9, <2>12
<1>4. ASSUME NEW t \in Tx, RefuseRow(t) PROVE TypeInv'
  <2>1. state[t] = "RUN" /\ ~orphan[t]
    BY <1>4 DEF RefuseRow, MaySave
  <2>2. /\ Rollback(t)
        /\ state' = [state EXCEPT ![t] = "ABORTED"]
        /\ cause' = [cause EXCEPT ![t] = "FUNDS"]
        /\ UNCHANGED <<order, taken, done, seen, retries, orphan>>
    BY <1>4 DEF RefuseRow, Abort
  <2>3. TypeOK'
    BY <2>2, RollbackType DEF TypeOK
  <2>4. /\ \A u \in Tx : u # t => state'[u] = state[u]
        /\ state'[t] = "ABORTED"
        /\ \A u \in Tx : Plan(u)' = Plan(u)
    BY <2>2 DEF TypeOK, Plan
  <2>5. Progress'
    BY <2>1, <2>2, <2>4
  <2> QED
    BY <2>3, <2>5
<1>5. ASSUME NEW t \in Tx, Commit(t) PROVE TypeInv'
  BY <1>5 DEF TypeOK, Commit, Release, Plan
<1>6. ASSUME NEW t \in Tx, DeadlockVictim(t) PROVE TypeInv'
  <2>1. state[t] = "RUN" /\ taken[t] < Len(Plan(t))
    BY <1>6, DeadlockedMayLock DEF DeadlockVictim, MayLock
  <2>2. /\ Rollback(t)
        /\ state' = [state EXCEPT ![t] = "RETRY"]
        /\ retries' = [retries EXCEPT ![t] = retries[t] + 1]
        /\ UNCHANGED <<order, taken, done, seen, orphan, cause>>
    BY <1>6 DEF DeadlockVictim
  <2>3. TypeOK'
    <3>1. retries' \in [Tx -> Nat]
      BY <2>2 DEF TypeOK
    <3>2. state' \in [Tx -> States]
      BY <2>2 DEF TypeOK
    <3> QED
      BY <2>2, <3>1, <3>2, RollbackType DEF TypeOK
  <2>4. /\ \A u \in Tx : u # t => state'[u] = state[u]
        /\ state'[t] = "RETRY"
        /\ \A u \in Tx : Plan(u)' = Plan(u)
    BY <2>2 DEF TypeOK, Plan
  <2>5. Progress'
    BY <2>1, <2>2, <2>4
  <2> QED
    BY <2>3, <2>5
<1>7. ASSUME NEW t \in Tx, RetryInAborted(t) PROVE TypeInv'
  <2>1. Together(order[t]) \in BOOLEAN
    BY DEF Together
  <2>2. /\ state[t] = "RETRY" /\ taken[t] < Len(Plan(t))
        /\ state' = [state EXCEPT ![t] = "ABORTED"]
        /\ cause' = [cause EXCEPT ![t] = "DEADLOCK"]
        /\ orphan' = [orphan EXCEPT ![t] = Together(order[t])]
        /\ UNCHANGED <<row, draft, lock, order, taken, done, seen, retries>>
    BY <1>7 DEF RetryInAborted, Abort
  <2>3. TypeOK'
    BY <2>1, <2>2 DEF TypeOK
  <2>4. /\ \A u \in Tx : u # t => state'[u] = state[u] /\ orphan'[u] = orphan[u]
        /\ state'[t] = "ABORTED"
        /\ \A u \in Tx : Plan(u)' = Plan(u)
    BY <2>2 DEF TypeOK, Plan
  <2>5. Progress'
    BY <2>2, <2>4
  <2> QED
    BY <2>3, <2>5
<1>8. ASSUME NEW t \in Tx, LateCredit(t) PROVE TypeInv'
  <2> DEFINE leg == NextToLock(t)
             new == row[leg.account].balance + leg.amount
  <2>1. leg.account \in Account /\ leg.amount \in Int
    <3>1. state[t] # "IDLE" /\ taken[t] \in 0..Len(Plan(t)) /\ taken[t] < Len(Plan(t))
      BY <1>8 DEF LateCredit
    <3>2. Len(Plan(t)) \in 0..4
      BY <3>1, PlanLegs
    <3>3. taken[t] + 1 \in 1..Len(Plan(t))
      BY <3>1, <3>2
    <3> QED
      BY <3>1, <3>3, PlanLegs DEF NextToLock
  <2>2. /\ \/ UNCHANGED <<row, draft>>
           \/ /\ row' = [row EXCEPT ![leg.account].balance = new]
              /\ draft' = [draft EXCEPT ![leg.account].balance = new]
        /\ orphan' = [orphan EXCEPT ![t] = FALSE]
        /\ UNCHANGED <<lock, state, order, taken, done, seen, retries, cause>>
    BY <1>8 DEF LateCredit
  <2>3. row[leg.account].balance \in Int /\ new \in Int
    <3>1. row[leg.account].balance \in Int
      BY <2>1 DEF TypeOK, RowType
    <3> QED
      BY <2>1, <3>1
  <2> HIDE DEF leg, new
  <2>4. row' \in [Account -> RowType] /\ draft' \in [Account -> RowType]
    <3>1. \A r \in RowType : [r EXCEPT !.balance = new] \in RowType
      BY <2>3 DEF RowType
    <3> DEFINE b == leg.account
    <3>2. /\ [row EXCEPT ![b] = [row[b] EXCEPT !.balance = new]] \in [Account -> RowType]
          /\ [draft EXCEPT ![b] = [draft[b] EXCEPT !.balance = new]] \in [Account -> RowType]
      BY <2>1, <3>1 DEF TypeOK
    <3> QED
      BY <2>2, <3>2 DEF TypeOK
  <2>5. TypeOK'
    BY <2>2, <2>4 DEF TypeOK
  <2>6. Progress'
    BY <2>2 DEF TypeOK, Plan
  <2> QED
    BY <2>5, <2>6
<1>9. ASSUME NEW t \in Tx, Crash(t) PROVE TypeInv'
  <2>1. state[t] \in {"RUN", "RETRY"} /\ ~orphan[t]
    BY <1>9 DEF Crash
  <2> QED
    BY <1>9, <2>1, RollbackType DEF TypeOK, Crash, Abort, Plan
<1>10. CASE UNCHANGED vars
  BY <1>10 DEF TypeOK, vars, Plan
<1> QED
  BY <1>1, <1>2, <1>3, <1>4, <1>5, <1>6, <1>7, <1>8, <1>9, <1>10 DEF Next

\* Every reachable state of the ledger is well typed.
THEOREM LedgerTypeOK == Spec => []TypeOK
<1>1. TypeInv => TypeOK
  BY DEF TypeInv
<1> QED
  BY <1>1, InitTypeInv, NextTypeInv, PTL DEF Spec

-----------------------------------------------------------------------------
(* Row locks *)

\* Nobody has written a row nobody has locked.
FreeRowsAreCommitted == \A a \in Account : lock[a] = Free => draft[a] = row[a]

\* Only a running transaction holds locks.
HoldersRun == \A a \in Account, t \in Tx : lock[a] = t => state[t] = "RUN"

\* A row once locked stays locked while its transaction runs.
TakenRowsAreLocked ==
  \A t \in Tx : state[t] = "RUN" =>
    \A i \in 1..taken[t] : lock[Plan(t)[i].account] = t

\* The balance a locking read returned is still the row's balance when the
\* new one is saved: nobody else can have written the row in between.
SeenIsCurrent ==
  \A t \in Tx : state[t] = "RUN" =>
    \A i \in done[t] + 1..taken[t] : seen[t][i] = draft[Plan(t)[i].account].balance

LockInv == FreeRowsAreCommitted /\ HoldersRun /\ TakenRowsAreLocked /\ SeenIsCurrent

LEMMA InitLockInv == Init => LockInv
  BY SentinelAssumption
     DEF Init, LockInv, FreeRowsAreCommitted, HoldersRun, TakenRowsAreLocked, SeenIsCurrent

\* The rows of the legs a running request has locked.
LEMMA TakenLegs ==
  ASSUME TypeInv, NEW t \in Tx, state[t] = "RUN"
  PROVE  /\ taken[t] \in 0..4 /\ done[t] \in 0..taken[t]
         /\ \A i \in 1..taken[t] : i \in 1..Len(Plan(t)) /\ i \in 1..4
                                   /\ Plan(t)[i].account \in Account
<1>1. /\ taken[t] \in 0..Len(Plan(t)) /\ done[t] \in 0..taken[t]
      /\ Len(Plan(t)) \in 0..4
  BY PlanLegs DEF TypeInv, Progress
<1>2. \A i \in 1..taken[t] : i \in 1..Len(Plan(t))
  BY <1>1
<1>3. taken[t] \in 0..4
  BY DEF TypeInv, TypeOK
<1> QED
  BY <1>1, <1>2, <1>3, PlanLegs

\* A step of t that ends its transaction, gives up its locks and leaves the
\* rows of the others alone.
LEMMA EndLockInv ==
  ASSUME TypeInv, LockInv, NEW t \in Tx,
         \A u \in Tx : u # t => state'[u] = state[u],
         state'[t] # "RUN",
         lock' = Release(t), UNCHANGED <<order, taken, done, seen>>,
         \A a \in Account : IF lock[a] = t THEN row'[a] = draft'[a]
                            ELSE row'[a] = row[a] /\ draft'[a] = draft[a]
  PROVE  LockInv'
<1>1. \A a \in Account : lock'[a] = IF lock[a] = t THEN Free ELSE lock[a]
  BY DEF Release
<1>2. \A u \in Tx : Plan(u)' = Plan(u)
  BY DEF Plan
<1>3. FreeRowsAreCommitted'
  BY <1>1 DEF LockInv, FreeRowsAreCommitted
<1>4. HoldersRun'
  BY <1>1, SentinelAssumption DEF LockInv, HoldersRun
<1>5. ASSUME NEW u \in Tx, state'[u] = "RUN", NEW i \in 1..taken[u]
      PROVE  /\ u # t /\ state[u] = "RUN" /\ Plan(u)[i].account \in Account
             /\ lock[Plan(u)[i].account] = u
  BY <1>5, TakenLegs DEF LockInv, TakenRowsAreLocked
<1>6. TakenRowsAreLocked'
  BY <1>1, <1>2, <1>5 DEF TakenRowsAreLocked
<1>7. SeenIsCurrent'
  <2> SUFFICES ASSUME NEW u \in Tx, state'[u] = "RUN", NEW i \in done[u] + 1..taken[u]
               PROVE  seen[u][i] = draft'[Plan(u)[i].account].balance
    BY <1>2 DEF SeenIsCurrent
  <2>1. i \in 1..taken[u]
    <3>1. u # t /\ state[u] = "RUN"
      OBVIOUS
    <3> QED
      BY <3>1, TakenLegs
  <2>2. draft'[Plan(u)[i].account] = draft[Plan(u)[i].account] /\ state[u] = "RUN"
    BY <1>5, <2>1
  <2> QED
    BY <2>2 DEF LockInv, SeenIsCurrent
<1> QED
  BY <1>3, <1>4, <1>6, <1>7 DEF LockInv

LEMMA NextLockInv == TypeInv /\ LockInv /\ [Next]_vars => LockInv'
<1> SUFFICES ASSUME TypeInv, LockInv, [Next]_vars PROVE LockInv'
  OBVIOUS
<1>1. ASSUME NEW t \in Tx, NEW o \in Orders, Begin(t, o) PROVE LockInv'
  <2>1. /\ UNCHANGED <<row, draft, lock, taken, done, seen>>
        /\ state[t] = "IDLE" /\ state'[t] \in {"RUN", "ABORTED"}
        /\ \A u \in Tx : u # t => state'[u] = state[u] /\ order'[u] = order[u]
    BY <1>1 DEF Begin, Abort, TypeInv, TypeOK
  <2>2. taken[t] = 0 /\ done[t] = 0
    BY <2>1 DEF TypeInv, Progress
  <2>3. FreeRowsAreCommitted' /\ HoldersRun'
    BY <2>1 DEF LockInv, FreeRowsAreCommitted, HoldersRun
  <2>4. \A u \in Tx : u # t => Plan(u)' = Plan(u)
    BY <2>1 DEF Plan
  <2>5. TakenRowsAreLocked'
    BY <2>1, <2>2, <2>4 DEF LockInv, TakenRowsAreLocked
  <2>6. SeenIsCurrent'
    BY <2>1, <2>2, <2>4 DEF LockInv, SeenIsCurrent
  <2> QED
    BY <2>3, <2>5, <2>6 DEF LockInv
<1>2. ASSUME NEW t \in Tx, LockRow(t) PROVE LockInv'
  <2> DEFINE a == NextToLock(t).account
             k == taken[t] + 1
  <2>1. /\ a \in Account /\ a = Plan(t)[k].account /\ k \in 1..4 /\ state[t] = "RUN"
        /\ taken[t] \in 0..4 /\ done[t] \in 0..taken[t]
    BY <1>2, LegToLock, TakenLegs DEF LockRow
  <2>2. /\ lock[a] \in {Free, t}
        /\ lock' = [lock EXCEPT ![a] = t]
        /\ seen' = [seen EXCEPT ![t][k] = draft[a].balance]
        /\ taken' = [taken EXCEPT ![t] = k]
        /\ UNCHANGED <<row, draft, state, order, done>>
    BY <1>2 DEF LockRow
  <2>3. \A u \in Tx : Plan(u)' = Plan(u)
    BY <2>2 DEF Plan
  <2>4. \A u \in Tx : taken'[u] = IF u = t THEN k ELSE taken[u]
    BY <2>2 DEF TypeInv, TypeOK
  <2>5. \A i \in 1..taken[t] : i # k
    BY <2>1
  <2>6. \A i \in 1..k : i \in 1..taken[t] \/ i = k
    BY <2>1
  <2>7. \A i \in done[t] + 1..k : i \in done[t] + 1..taken[t] \/ i = k
    BY <2>1
  <2>8. \A i \in done[t] + 1..taken[t] : i \in 1..taken[t] /\ i \in 1..4
    BY <2>1
  <2> HIDE DEF a, k
  <2>9. FreeRowsAreCommitted'
    BY <2>1, <2>2, SentinelAssumption DEF LockInv, FreeRowsAreCommitted, TypeInv, TypeOK
  <2>10. HoldersRun'
    BY <2>1, <2>2 DEF LockInv, HoldersRun, TypeInv, TypeOK
  <2>11. TakenRowsAreLocked'
    <3> SUFFICES ASSUME NEW u \in Tx, state[u] = "RUN", NEW i \in 1..taken'[u]
                 PROVE  lock'[Plan(u)[i].account] = u
      BY <2>2, <2>3 DEF TakenRowsAreLocked
    <3>1. CASE u = t /\ i = k
      BY <2>1, <2>2, <3>1 DEF TypeInv, TypeOK
    <3>2. CASE i \in 1..taken[u]
      <4>1. lock[Plan(u)[i].account] = u /\ Plan(u)[i].account \in Account
        BY <3>2, TakenLegs DEF LockInv, TakenRowsAreLocked
      <4> QED
        BY <2>2, <4>1, SentinelAssumption DEF TypeInv, TypeOK
    <3> QED
      BY <2>4, <2>6, <3>1, <3>2
  <2>12. SeenIsCurrent'
    <3> SUFFICES ASSUME NEW u \in Tx, state[u] = "RUN", NEW i \in done[u] + 1..taken'[u]
                 PROVE  seen'[u][i] = draft[Plan(u)[i].account].balance
      BY <2>2, <2>3 DEF SeenIsCurrent
    <3>1. CASE u # t
      BY <2>2, <2>4, <3>1 DEF LockInv, SeenIsCurrent, TypeInv, TypeOK
    <3>2. CASE u = t /\ i = k
      BY <2>1, <2>2, <3>2 DEF TypeInv, TypeOK
    <3>3. CASE u = t /\ i \in done[t] + 1..taken[t]
      <4>1. i # k /\ i \in 1..4
        BY <2>5, <2>8, <3>3
      <4>2. seen'[t][i] = seen[t][i]
        BY <2>1, <2>2, <4>1 DEF TypeInv, TypeOK
      <4> QED
        BY <3>3, <4>2 DEF LockInv, SeenIsCurrent
    <3> QED
      BY <2>4, <2>7, <3>1, <3>2, <3>3
  <2> QED
    BY <2>9, <2>10, <2>11, <2>12 DEF LockInv
<1>3. ASSUME NEW t \in Tx, SaveRow(t) PROVE LockInv'
  <2> DEFINE a == NextToSave(t).account
             k == done[t] + 1
  <2>1. /\ a \in Account /\ a = Plan(t)[k].account /\ k \in 1..taken[t] /\ k \in 1..4
        /\ state[t] = "RUN" /\ taken[t] \in 0..4 /\ done[t] \in 0..taken[t]
    BY <1>3, LegToSave, TakenLegs DEF SaveRow
  <2>2. /\ \A b \in Account : b # a => draft'[b] = draft[b]
        /\ done' = [done EXCEPT ![t] = k]
        /\ seen' = [seen EXCEPT ![t][k] = 0]
        /\ UNCHANGED <<row, lock, state, order, taken>>
    BY <1>3, <2>1 DEF SaveRow, TypeInv, TypeOK
  <2>3. \A u \in Tx : Plan(u)' = Plan(u)
    BY <2>2 DEF Plan
  <2>4. lock[a] = t
    BY <2>1 DEF LockInv, TakenRowsAreLocked
  <2>5. \A i \in k + 1..taken[t] :
          i # k /\ i \in done[t] + 1..taken[t] /\ i \in 1..4 /\ Plan(t)[i].account # a
    <3>1. CASE Together(order[t])
      <4>1. order[t] \in Orders /\ taken[t] \in 0..Len(Plan(t))
        BY <2>1 DEF TypeInv, Progress
      <4>2. Len(Plan(t)) = 2 /\ Plan(t)[1].account # Plan(t)[2].account
        BY <3>1, <4>1, TogetherApart DEF Plan
      <4>3. \A i \in k + 1..taken[t] : i = 2 /\ k = 1
        BY <2>1, <4>1, <4>2
      <4> QED
        BY <2>1, <4>2, <4>3
    <3>2. CASE ~Together(order[t])
      <4>1. taken[t] <= k
        BY <2>1, <3>2 DEF TypeInv, Progress
      <4>2. \A i \in k + 1..taken[t] : FALSE
        BY <2>1, <4>1
      <4> QED
        BY <4>2
    <3> QED
      BY <3>1, <3>2
  <2> HIDE DEF a, k
  <2>6. FreeRowsAreCommitted'
    BY <2>1, <2>2, <2>4, SentinelAssumption DEF LockInv, FreeRowsAreCommitted
  <2>7. HoldersRun' /\ TakenRowsAreLocked'
    BY <2>2, <2>3 DEF LockInv, HoldersRun, TakenRowsAreLocked
  <2>8. SeenIsCurrent'
    <3> SUFFICES ASSUME NEW u \in Tx, state[u] = "RUN", NEW i \in done'[u] + 1..taken[u]
                 PROVE  seen'[u][i] = draft'[Plan(u)[i].account].balance
      BY <2>2, <2>3 DEF SeenIsCurrent
    <3>1. CASE u # t
      <4>1. seen'[u] = seen[u] /\ done'[u] = done[u]
        BY <2>2, <3>1 DEF TypeInv, TypeOK
      <4>2. i \in 1..taken[u] /\ Plan(u)[i].account \in Account
        BY <4>1, TakenLegs
      <4>3. lock[Plan(u)[i].account] = u
        BY <4>2 DEF LockInv, TakenRowsAreLocked
      <4>4. draft'[Plan(u)[i].account] = draft[Plan(u)[i].account]
        BY <2>2, <2>4, <3>1, <4>2, <4>3
      <4> QED
        BY <4>1, <4>4 DEF LockInv, SeenIsCurrent
    <3>2. CASE u = t
      <4>1. done'[t] = k
        BY <2>2 DEF TypeInv, TypeOK
      <4>2. i # k /\ i \in done[t] + 1..taken[t] /\ i \in 1..4 /\ Plan(t)[i].account # a
        BY <2>5, <3>2, <4>1
      <4>3. i \in 1..taken[t]
        BY <2>1, <4>2
      <4>4. Plan(t)[i].account \in Account
        BY <3>2, <4>3, TakenLegs
      <4>5. seen'[t][i] = seen[t][i]
        BY <2>1, <2>2, <4>2 DEF TypeInv, TypeOK
      <4> QED
        BY <2>2, <3>2, <4>2, <4>4, <4>5 DEF LockInv, SeenIsCurrent
    <3> QED
      BY <3>1, <3>2
  <2> QED
    BY <2>6, <2>7, <2>8 DEF LockInv
<1>4. ASSUME NEW t \in Tx, RefuseRow(t) \/ DeadlockVictim(t) \/ Crash(t) PROVE LockInv'
  <2>1. /\ Rollback(t) /\ UNCHANGED <<order, taken, done, seen>>
        /\ \A u \in Tx : u # t => state'[u] = state[u]
        /\ state'[t] \in {"ABORTED", "RETRY"}
    BY <1>4 DEF RefuseRow, DeadlockVictim, Crash, Abort, TypeInv, TypeOK
  <2> QED
    BY <2>1, EndLockInv DEF Rollback
<1>5. ASSUME NEW t \in Tx, Commit(t) PROVE LockInv'
  <2>1. /\ lock' = Release(t) /\ UNCHANGED <<draft, order, taken, done, seen>>
        /\ \A u \in Tx : u # t => state'[u] = state[u]
        /\ state'[t] = "COMMITTED"
        /\ \A a \in Account : row'[a] = IF lock[a] = t THEN draft[a] ELSE row[a]
    BY <1>5 DEF Commit, TypeInv, TypeOK
  <2> QED
    BY <2>1, EndLockInv
<1>6. ASSUME NEW t \in Tx, RetryInAborted(t) PROVE LockInv'
  <2>1. /\ UNCHANGED <<row, draft, lock, order, taken, done, seen>>
        /\ \A u \in Tx : (state'[u] = "RUN") = (state[u] = "RUN")
        /\ \A u \in Tx : Plan(u)' = Plan(u)
    BY <1>6 DEF RetryInAborted, Abort, TypeInv, TypeOK, Plan
  <2> QED
    BY <2>1 DEF LockInv, FreeRowsAreCommitted, HoldersRun, TakenRowsAreLocked, SeenIsCurrent
<1>7. ASSUME NEW t \in Tx, LateCredit(t) PROVE LockInv'
  <2> DEFINE a == NextToLock(t).account
  <2>1. /\ lock[a] = Free
        /\ \A b \in Account : b # a => row'[b] = row[b] /\ draft'[b] = draft[b]
        /\ UNCHANGED <<lock, state, order, taken, done, seen>>
    BY <1>7 DEF LateCredit, TypeInv, TypeOK
  <2>2. a \in Account => row[a] = draft[a]
    BY <2>1 DEF LockInv, FreeRowsAreCommitted
  <2>3. a \in Account => row'[a] = draft'[a]
    <3> DEFINE new == row[a].balance + NextToLock(t).amount
    <3>1. \/ UNCHANGED <<row, draft>>
          \/ /\ row' = [row EXCEPT ![a].balance = new]
             /\ draft' = [draft EXCEPT ![a].balance = new]
      BY <1>7 DEF LateCredit
    <3> HIDE DEF new, a
    <3> QED
      BY <2>2, <3>1 DEF TypeInv, TypeOK
  <2> HIDE DEF a
  <2>4. FreeRowsAreCommitted'
    BY <2>1, <2>3 DEF LockInv, FreeRowsAreCommitted
  <2>5. \A u \in Tx : Plan(u)' = Plan(u)
    BY <2>1 DEF Plan
  <2>6. HoldersRun' /\ TakenRowsAreLocked'
    BY <2>1, <2>5 DEF LockInv, HoldersRun, TakenRowsAreLocked
  <2>7. SeenIsCurrent'
    <3> SUFFICES ASSUME NEW u \in Tx, state[u] = "RUN", NEW i \in done[u] + 1..taken[u]
                 PROVE  seen[u][i] = draft'[Plan(u)[i].account].balance
      BY <2>1, <2>5 DEF SeenIsCurrent
    <3>1. i \in 1..taken[u] /\ Plan(u)[i].account \in Account
      BY TakenLegs
    <3>2. lock[Plan(u)[i].account] = u
      BY <3>1 DEF LockInv, TakenRowsAreLocked
    <3>3. draft'[Plan(u)[i].account] = draft[Plan(u)[i].account]
      BY <2>1, <3>1, <3>2, SentinelAssumption
    <3> QED
      BY <3>3 DEF LockInv, SeenIsCurrent
  <2> QED
    BY <2>4, <2>6, <2>7 DEF LockInv
<1>8. CASE UNCHANGED vars
  BY <1>8 DEF LockInv, FreeRowsAreCommitted, HoldersRun, TakenRowsAreLocked,
              SeenIsCurrent, Plan, vars
<1> QED
  BY <1>1, <1>2, <1>3, <1>4, <1>5, <1>6, <1>7, <1>8 DEF Next

-----------------------------------------------------------------------------
(* Balances *)

\* No row is below its floor, committed or not.
FloorInv ==
  \A a \in Account : row[a].balance >= Floor(a) /\ draft[a].balance >= Floor(a)

LEMMA InitFloorInv == Init => FloorInv
  BY OpeningAssumption DEF Init, FloorInv, OpeningRow

\* What SaveRow writes.
LEMMA SavedRow ==
  ASSUME TypeInv, LockInv, NEW t \in Tx, SaveRow(t)
  PROVE  LET a == NextToSave(t).account
             x == NextToSave(t).amount
         IN  /\ a \in Account /\ x \in Int /\ lock[a] = t
             /\ draft[a].balance + x >= Floor(a)
             /\ draft'[a] = [balance |-> draft[a].balance + x,
                             posted |-> draft[a].posted + x,
                             last |-> draft[a].balance + x]
             /\ \A b \in Account : b # a => draft'[b] = draft[b]
             /\ UNCHANGED <<row, lock, state, order, taken, orphan>>
<1> DEFINE a == NextToSave(t).account
           x == NextToSave(t).amount
           f == NextToSave(t).floor
           k == done[t] + 1
<1>1. /\ a \in Account /\ a = Plan(t)[k].account /\ x \in Int /\ f \in Int /\ f >= Floor(a)
      /\ k \in 1..taken[t] /\ state[t] = "RUN"
  BY LegToSave DEF SaveRow
<1>2. seen[t][k] = draft[a].balance /\ lock[a] = t
  <2>1. k \in done[t] + 1..taken[t]
    BY <1>1 DEF TypeInv, TypeOK
  <2> QED
    BY <1>1, <2>1 DEF LockInv, SeenIsCurrent, TakenRowsAreLocked
<1>3. /\ seen[t][k] + x >= f
      /\ draft' = [draft EXCEPT ![a] =
           [balance |-> seen[t][k] + x, posted |-> draft[a].posted + x, last |-> seen[t][k] + x]]
      /\ UNCHANGED <<row, lock, state, order, taken, orphan>>
  BY DEF SaveRow
<1>4. draft[a].balance \in Int /\ Floor(a) \in Int
  BY <1>1, SettingsAssumption DEF TypeInv, TypeOK, RowType, Floor
<1> HIDE DEF a, x, f, k
<1>5. draft[a].balance + x >= Floor(a)
  BY <1>1, <1>2, <1>3, <1>4
<1>6. /\ draft'[a] = [balance |-> draft[a].balance + x, posted |-> draft[a].posted + x,
                      last |-> draft[a].balance + x]
      /\ \A b \in Account : b # a => draft'[b] = draft[b]
  BY <1>1, <1>2, <1>3 DEF TypeInv, TypeOK
<1> QED
  BY <1>1, <1>2, <1>3, <1>5, <1>6 DEF a, x

LEMMA NextFloorInv == TypeInv /\ LockInv /\ FloorInv /\ [Next]_vars => FloorInv'
<1> SUFFICES ASSUME TypeInv, LockInv, FloorInv, [Next]_vars PROVE FloorInv'
  OBVIOUS
<1>1. ASSUME NEW t \in Tx, SaveRow(t) PROVE FloorInv'
  <2> DEFINE a == NextToSave(t).account
  <2>1. /\ draft'[a].balance >= Floor(a)
        /\ \A b \in Account : b # a => draft'[b] = draft[b]
        /\ row' = row
    <3> DEFINE x == NextToSave(t).amount
    <3>1. /\ draft[a].balance + x >= Floor(a)
          /\ draft'[a] = [balance |-> draft[a].balance + x,
                          posted |-> draft[a].posted + x,
                          last |-> draft[a].balance + x]
          /\ \A b \in Account : b # a => draft'[b] = draft[b]
          /\ row' = row
      BY <1>1, SavedRow
    <3> HIDE DEF a, x
    <3> QED
      BY <3>1
  <2> QED
    BY <2>1 DEF FloorInv
<1>2. ASSUME NEW t \in Tx, Rollback(t) PROVE FloorInv'
  BY <1>2 DEF Rollback, FloorInv
<1>3. ASSUME NEW t \in Tx, Commit(t) PROVE FloorInv'
  BY <1>3 DEF Commit, FloorInv
<1>4. CASE UNCHANGED <<row, draft>>
  BY <1>4 DEF FloorInv
<1>5. ASSUME NEW t \in Tx, LateCredit(t) PROVE FloorInv'
  <2> DEFINE a == NextToLock(t).account
             new == row[a].balance + NextToLock(t).amount
  <2>1. /\ orphan[t]
        /\ \/ UNCHANGED <<row, draft>>
           \/ /\ ~(new < 0)
              /\ row' = [row EXCEPT ![a].balance = new]
              /\ draft' = [draft EXCEPT ![a].balance = new]
    BY <1>5 DEF LateCredit
  <2>2. a \in Account /\ NextToLock(t).amount \in Int
    <3>1. state[t] # "IDLE" /\ taken[t] \in 0..Len(Plan(t)) /\ taken[t] < Len(Plan(t))
      BY <2>1 DEF TypeInv, Progress
    <3>2. Len(Plan(t)) \in 0..4
      BY <3>1, PlanLegs
    <3>3. taken[t] + 1 \in 1..Len(Plan(t))
      BY <3>1, <3>2
    <3> QED
      BY <3>1, <3>3, PlanLegs DEF NextToLock
  <2>3. row[a].balance \in Int
    BY <2>2 DEF TypeInv, TypeOK, RowType
  <2>4. new \in Int /\ Floor(a) \in Int /\ Floor(a) <= 0
    BY <2>2, <2>3, SettingsAssumption DEF Floor
  <2> HIDE DEF a, new
  <2>5. CASE UNCHANGED <<row, draft>>
    BY <1>4, <2>5
  <2>6. CASE /\ ~(new < 0)
             /\ row' = [row EXCEPT ![a].balance = new]
             /\ draft' = [draft EXCEPT ![a].balance = new]
    <3>1. new >= Floor(a)
      BY <2>4, <2>6
    <3>2. row'[a].balance = new /\ draft'[a].balance = new
      BY <2>2, <2>6 DEF TypeInv, TypeOK, RowType
    <3>3. \A b \in Account : b # a => row'[b] = row[b] /\ draft'[b] = draft[b]
      BY <2>6 DEF TypeInv, TypeOK
    <3> QED
      BY <3>1, <3>2, <3>3 DEF FloorInv
  <2> QED
    BY <2>1, <2>5, <2>6
<1>6. ASSUME NEW t \in Tx, NEW o \in Orders, Begin(t, o) PROVE UNCHANGED <<row, draft>>
  BY <1>6 DEF Begin
<1>7. ASSUME NEW t \in Tx, LockRow(t) \/ RetryInAborted(t) PROVE UNCHANGED <<row, draft>>
  BY <1>7 DEF LockRow, RetryInAborted
<1>8. ASSUME NEW t \in Tx, RefuseRow(t) \/ DeadlockVictim(t) \/ Crash(t)
      PROVE  Rollback(t)
  BY <1>8 DEF RefuseRow, DeadlockVictim, Crash
<1>9. CASE UNCHANGED vars
  BY <1>4, <1>9 DEF vars
<1> QED
  BY <1>1, <1>2, <1>3, <1>4, <1>5, <1>6, <1>7, <1>8, <1>9 DEF Next

\* WalletService.updateBalance and CashboxService.updateBalance never let a
\* balance below its floor, whatever runs concurrently, deadlocks or crashes.
THEOREM LedgerNoOverdraft == Spec => []NoOverdraft
<1>1. Init => TypeInv /\ LockInv /\ FloorInv
  BY InitTypeInv, InitLockInv, InitFloorInv
<1>2. TypeInv /\ LockInv /\ FloorInv /\ [Next]_vars => (TypeInv /\ LockInv /\ FloorInv)'
  BY NextTypeInv, NextLockInv, NextFloorInv
<1>3. FloorInv => NoOverdraft
  BY DEF FloorInv, NoOverdraft
<1> QED
  BY <1>1, <1>2, <1>3, PTL DEF Spec

-----------------------------------------------------------------------------
(* Calls that outlive their request *)

\* As long as no payment whose legs run together is caught in a deadlock, no
\* repeated call outlives its request.
NoOrphans == \A t \in Tx : ~orphan[t] /\ (state[t] = "RETRY" => ~Together(order[t]))

LEMMA InitNoOrphans == Init => NoOrphans
  BY DEF Init, NoOrphans

LEMMA NextNoOrphans ==
  TypeInv /\ NoOrphans /\ NoDeadlockTogether /\ [Next]_vars => NoOrphans'
<1> SUFFICES ASSUME TypeInv, NoOrphans, NoDeadlockTogether, [Next]_vars PROVE NoOrphans'
  OBVIOUS
<1>1. ASSUME NEW t \in Tx, NEW o \in Orders, Begin(t, o) PROVE NoOrphans'
  BY <1>1 DEF Begin, Abort, NoOrphans, TypeInv, TypeOK
<1>2. ASSUME NEW t \in Tx,
             LockRow(t) \/ SaveRow(t) \/ RefuseRow(t) \/ Commit(t) \/ Crash(t)
      PROVE  NoOrphans'
  <2>1. /\ UNCHANGED <<order, orphan>>
        /\ \A u \in Tx : state'[u] = state[u] \/ state'[u] \in {"ABORTED", "COMMITTED"}
    BY <1>2 DEF LockRow, SaveRow, RefuseRow, Commit, Crash, Abort, TypeInv, TypeOK
  <2> QED
    BY <2>1 DEF NoOrphans
<1>3. ASSUME NEW t \in Tx, DeadlockVictim(t) PROVE NoOrphans'
  <2>1. /\ ~Together(order[t]) /\ UNCHANGED <<order, orphan>>
        /\ \A u \in Tx : u # t => state'[u] = state[u]
    BY <1>3 DEF DeadlockVictim, NoDeadlockTogether, TypeInv, TypeOK
  <2> QED
    BY <2>1 DEF NoOrphans
<1>4. ASSUME NEW t \in Tx, RetryInAborted(t) PROVE NoOrphans'
  <2>1. /\ state[t] = "RETRY" /\ order' = order
        /\ orphan' = [orphan EXCEPT ![t] = Together(order[t])]
        /\ \A u \in Tx : state'[u] = state[u] \/ state'[u] = "ABORTED"
    BY <1>4 DEF RetryInAborted, Abort, TypeInv, TypeOK
  <2>2. ~Together(order[t])
    BY <2>1 DEF NoOrphans
  <2> QED
    BY <2>1, <2>2 DEF NoOrphans, TypeInv, TypeOK
<1>5. ASSUME NEW t \in Tx, LateCredit(t) PROVE NoOrphans'
  BY <1>5 DEF LateCredit, NoOrphans
<1>6. CASE UNCHANGED vars
  BY <1>6 DEF NoOrphans, vars
<1> QED
  BY <1>1, <1>2, <1>3, <1>4, <1>5, <1>6 DEF Next

-----------------------------------------------------------------------------
(* The audit trail *)

\* A balance is its opening plus what was posted, the last of which shows it.
Audited(a, r) == r.balance = Opening[a] + r.posted /\ r.balance = r.last
AuditInv == \A a \in Account : Audited(a, row[a]) /\ Audited(a, draft[a])

LEMMA InitAuditInv == Init => AuditInv
  BY OpeningAssumption DEF Init, AuditInv, Audited, OpeningRow

LEMMA NextAuditInv ==
  TypeInv /\ LockInv /\ NoOrphans /\ AuditInv /\ [Next]_vars => AuditInv'
<1> SUFFICES ASSUME TypeInv, LockInv, NoOrphans, AuditInv, [Next]_vars PROVE AuditInv'
  OBVIOUS
<1>1. ASSUME NEW t \in Tx, SaveRow(t) PROVE AuditInv'
  <2> DEFINE a == NextToSave(t).account
             x == NextToSave(t).amount
  <2>1. /\ a \in Account /\ x \in Int
        /\ draft'[a] = [balance |-> draft[a].balance + x,
                        posted |-> draft[a].posted + x,
                        last |-> draft[a].balance + x]
        /\ \A b \in Account : b # a => draft'[b] = draft[b]
        /\ row' = row
    BY <1>1, SavedRow
  <2> HIDE DEF a, x
  <2>2. /\ draft[a].balance \in Int /\ draft[a].posted \in Int /\ Opening[a] \in Int
        /\ draft[a].balance = Opening[a] + draft[a].posted
    BY <2>1, OpeningAssumption DEF TypeInv, TypeOK, RowType, AuditInv, Audited
  <2>3. Audited(a, draft'[a])
    BY <2>1, <2>2 DEF Audited
  <2> QED
    BY <2>1, <2>3 DEF AuditInv
<1>2. ASSUME NEW t \in Tx, Rollback(t) PROVE AuditInv'
  BY <1>2 DEF Rollback, AuditInv
<1>3. ASSUME NEW t \in Tx, Commit(t) PROVE AuditInv'
  BY <1>3 DEF Commit, AuditInv
<1>4. CASE UNCHANGED <<row, draft>>
  BY <1>4 DEF AuditInv
<1>5. ASSUME NEW t \in Tx, LateCredit(t) PROVE FALSE
  BY <1>5 DEF LateCredit, NoOrphans
<1>6. ASSUME NEW t \in Tx, NEW o \in Orders, Begin(t, o) PROVE UNCHANGED <<row, draft>>
  BY <1>6 DEF Begin
<1>7. ASSUME NEW t \in Tx, LockRow(t) \/ RetryInAborted(t) PROVE UNCHANGED <<row, draft>>
  BY <1>7 DEF LockRow, RetryInAborted
<1>8. ASSUME NEW t \in Tx, RefuseRow(t) \/ DeadlockVictim(t) \/ Crash(t)
      PROVE  Rollback(t)
  BY <1>8 DEF RefuseRow, DeadlockVictim, Crash
<1>9. CASE UNCHANGED vars
  BY <1>4, <1>9 DEF vars
<1> QED
  BY <1>1, <1>2, <1>3, <1>4, <1>5, <1>6, <1>7, <1>8, <1>9 DEF Next

\* The audit trail of every account agrees with its balance at all times,
\* provided no fee-less wallet payment is ever caught in a deadlock.
THEOREM LedgerAuditTrail == Spec /\ []NoDeadlockTogether => []AuditTrail
<1> DEFINE Inv == TypeInv /\ LockInv /\ NoOrphans /\ AuditInv
<1>1. Init => Inv
  BY InitTypeInv, InitLockInv, InitNoOrphans, InitAuditInv
<1>2. Inv /\ NoDeadlockTogether /\ [Next]_vars => Inv'
  BY NextTypeInv, NextLockInv, NextNoOrphans, NextAuditInv
<1>3. Inv => AuditTrail
  BY DEF AuditInv, Audited, AuditTrail
<1> HIDE DEF Inv
<1> QED
  BY <1>1, <1>2, <1>3, PTL DEF Spec

-----------------------------------------------------------------------------
(* Atomicity: PaymentLedger implements AtomicLedger *)

\* The effect on account a of the first k legs.
UpTo(legs, k, i, a) == IF i <= k THEN LegEffect(legs, i, a) ELSE 0
Applied(legs, k, a) ==
  UpTo(legs, k, 1, a) + UpTo(legs, k, 2, a) + UpTo(legs, k, 3, a) + UpTo(legs, k, 4, a)

LEMMA EffectType ==
  \A o \in Orders, i \in 1..4, a \in Account : LegEffect(Legs(o), i, a) \in Int
<1> SUFFICES ASSUME NEW o \in Orders, NEW i \in 1..4, NEW a \in Account
             PROVE  LegEffect(Legs(o), i, a) \in Int
  OBVIOUS
<1>1. i \in 1..Len(Legs(o)) => Legs(o)[i].amount \in Int
  BY GoodLegs DEF GoodLeg, LegType
<1> QED
  BY <1>1 DEF LegEffect

\* Applying one more leg adds that leg's effect; with no leg on an account
\* nothing happens to it; all legs together are the order's net effect.
LEMMA AppliedSteps ==
  ASSUME NEW o \in Orders, NEW a \in Account, NEW k \in 0..Len(Legs(o))
  PROVE  /\ Applied(Legs(o), k, a) \in Int
         /\ Applied(Legs(o), 0, a) = 0
         /\ k < Len(Legs(o)) =>
              Applied(Legs(o), k + 1, a) =
                Applied(Legs(o), k, a) + LegEffect(Legs(o), k + 1, a)
         /\ (\A i \in 1..k : Legs(o)[i].account # a) => Applied(Legs(o), k, a) = 0
         /\ Applied(Legs(o), Len(Legs(o)), a) = Net(o, a)
<1> DEFINE legs == Legs(o)
           n == Len(Legs(o))
<1>1. n \in 0..4 /\ k \in 0..4 /\ k <= n
  BY GoodLegs
<1>2. /\ LegEffect(legs, 1, a) \in Int /\ LegEffect(legs, 2, a) \in Int
      /\ LegEffect(legs, 3, a) \in Int /\ LegEffect(legs, 4, a) \in Int
  BY EffectType
<1>3. \A i \in 1..4 : i > n => LegEffect(legs, i, a) = 0
  BY <1>1 DEF LegEffect
<1>4. \A i \in 1..k : legs[i].account # a => LegEffect(legs, i, a) = 0
  BY <1>1 DEF LegEffect
<1>5. Net(o, a) = LegEffect(legs, 1, a) + LegEffect(legs, 2, a)
                    + LegEffect(legs, 3, a) + LegEffect(legs, 4, a)
  BY DEF Net
<1> HIDE DEF legs, n
<1>6. Applied(legs, k, a) \in Int /\ Applied(legs, 0, a) = 0
  BY <1>1, <1>2 DEF Applied, UpTo
<1>7. k < n => Applied(legs, k + 1, a) = Applied(legs, k, a) + LegEffect(legs, k + 1, a)
  <2>1. CASE k = 0
    BY <1>1, <1>2, <2>1 DEF Applied, UpTo
  <2>2. CASE k = 1
    BY <1>1, <1>2, <2>2 DEF Applied, UpTo
  <2>3. CASE k = 2
    BY <1>1, <1>2, <2>3 DEF Applied, UpTo
  <2>4. CASE k = 3
    BY <1>1, <1>2, <2>4 DEF Applied, UpTo
  <2> QED
    BY <1>1, <2>1, <2>2, <2>3, <2>4
<1>8. (\A i \in 1..k : legs[i].account # a) => Applied(legs, k, a) = 0
  <2> SUFFICES ASSUME \A i \in 1..k : legs[i].account # a
               PROVE  Applied(legs, k, a) = 0
    OBVIOUS
  <2>1. \A i \in 1..4 : UpTo(legs, k, i, a) = 0
    BY <1>1, <1>4 DEF UpTo
  <2> QED
    BY <2>1 DEF Applied
<1>9. Applied(legs, n, a) = Net(o, a)
  <2>1. \A i \in 1..4 : UpTo(legs, n, i, a) = LegEffect(legs, i, a)
    BY <1>1, <1>3 DEF UpTo
  <2> QED
    BY <1>5, <2>1 DEF Applied
<1> QED
  BY <1>6, <1>7, <1>8, <1>9 DEF legs, n

\* A running payment has a positive amount, and its draft of a row differs
\* from the committed row by exactly the legs it has applied.
Positive == \A t \in Tx : state[t] = "RUN" => Payable(order[t])
DraftIsAhead ==
  \A t \in Tx, a \in Account : lock[a] = t =>
    draft[a].balance = row[a].balance + Applied(Plan(t), done[t], a)

EffectInv == Positive /\ DraftIsAhead

LEMMA InitEffectInv == Init => EffectInv
  BY SentinelAssumption DEF Init, EffectInv, Positive, DraftIsAhead

\* A step of t that leaves the rows of the others alone, and after which t no
\* longer runs and holds no lock, keeps what is known of the others.
LEMMA EndEffectInv ==
  ASSUME TypeInv, LockInv, EffectInv, NEW t \in Tx,
         \A u \in Tx : u # t => state'[u] = state[u], state'[t] # "RUN",
         lock' = Release(t), UNCHANGED <<order, done>>,
         \A a \in Account : lock[a] # t => row'[a] = row[a] /\ draft'[a] = draft[a]
  PROVE  EffectInv'
<1>1. \A a \in Account : lock'[a] = IF lock[a] = t THEN Free ELSE lock[a]
  BY DEF Release
<1>2. \A u \in Tx : Plan(u)' = Plan(u)
  BY DEF Plan
<1>3. Positive'
  BY DEF EffectInv, Positive
<1>4. DraftIsAhead'
  BY <1>1, <1>2, SentinelAssumption DEF EffectInv, DraftIsAhead
<1> QED
  BY <1>3, <1>4 DEF EffectInv

LEMMA NextEffectInv == TypeInv /\ LockInv /\ EffectInv /\ [Next]_vars => EffectInv'
<1> SUFFICES ASSUME TypeInv, LockInv, EffectInv, [Next]_vars PROVE EffectInv'
  OBVIOUS
<1>1. ASSUME NEW t \in Tx, NEW o \in Orders, Begin(t, o) PROVE EffectInv'
  <2>1. /\ UNCHANGED <<row, draft, lock, done>>
        /\ state[t] = "IDLE" /\ order'[t] = o
        /\ state'[t] = "RUN" => o.amount > 0
        /\ \A u \in Tx : u # t => state'[u] = state[u] /\ order'[u] = order[u]
    <3>1. /\ UNCHANGED <<row, draft, lock, done>>
          /\ state[t] = "IDLE"
          /\ order' = [order EXCEPT ![t] = o]
          /\ \/ state' = [state EXCEPT ![t] = "ABORTED"]
             \/ ~(o.amount <= 0) /\ state' = [state EXCEPT ![t] = "RUN"]
      BY <1>1 DEF Begin, Abort
    <3>2. o.amount \in Int
      BY OrdersAssumption DEF OrderType
    <3> QED
      BY <3>1, <3>2 DEF TypeInv, TypeOK
  <2>2. Positive'
    BY <2>1 DEF EffectInv, Positive, Payable
  <2>3. \A a \in Account : lock[a] # t
    BY <2>1 DEF LockInv, HoldersRun
  <2>4. DraftIsAhead'
    BY <2>1, <2>3 DEF EffectInv, DraftIsAhead, Plan
  <2> QED
    BY <2>2, <2>4 DEF EffectInv
<1>2. ASSUME NEW t \in Tx, LockRow(t) PROVE EffectInv'
  <2> DEFINE a == NextToLock(t).account
  <2>1. /\ a \in Account /\ order[t] \in Orders /\ state[t] = "RUN"
        /\ done[t] \in 0..taken[t] /\ taken[t] \in 0..Len(Plan(t))
    BY <1>2, LegToLock DEF LockRow, TypeInv, Progress
  <2>2. /\ lock[a] \in {Free, t}
        /\ lock' = [lock EXCEPT ![a] = t]
        /\ UNCHANGED <<row, draft, state, order, done>>
    BY <1>2 DEF LockRow
  <2> HIDE DEF a
  <2>3. \A u \in Tx : Plan(u)' = Plan(u)
    BY <2>2 DEF Plan
  <2>4. Positive'
    BY <2>2 DEF EffectInv, Positive
  <2>5. DraftIsAhead'
    <3> SUFFICES ASSUME NEW u \in Tx, NEW b \in Account, lock'[b] = u
                 PROVE  draft[b].balance = row[b].balance + Applied(Plan(u), done[u], b)
      BY <2>2, <2>3 DEF DraftIsAhead
    <3>1. CASE lock[b] = u
      BY <3>1 DEF EffectInv, DraftIsAhead
    <3>2. CASE lock[b] # u
      <4>1. b = a /\ u = t /\ lock[b] = Free
        BY <2>1, <2>2, <3>2 DEF TypeInv, TypeOK
      <4>2. draft[b] = row[b]
        BY <4>1 DEF LockInv, FreeRowsAreCommitted
      <4>3. \A i \in 1..done[t] : i \in 1..taken[t]
        BY <2>1 DEF TypeInv, TypeOK
      <4>4. \A i \in 1..done[t] : Plan(t)[i].account # b
        BY <2>1, <4>1, <4>3, SentinelAssumption DEF LockInv, TakenRowsAreLocked
      <4>5. done[t] \in 0..Len(Plan(t))
        BY <2>1 DEF TypeInv, TypeOK
      <4>6. Applied(Plan(t), done[t], b) = 0
        BY <2>1, <4>4, <4>5, AppliedSteps DEF Plan
      <4> QED
        BY <4>1, <4>2, <4>6 DEF TypeInv, TypeOK, RowType
    <3> QED
      BY <3>1, <3>2
  <2> QED
    BY <2>4, <2>5 DEF EffectInv
<1>3. ASSUME NEW t \in Tx, SaveRow(t) PROVE EffectInv'
  <2> DEFINE a == NextToSave(t).account
             x == NextToSave(t).amount
             k == done[t]
  <2>1. /\ a \in Account /\ x \in Int
        /\ draft'[a] = [balance |-> draft[a].balance + x,
                        posted |-> draft[a].posted + x,
                        last |-> draft[a].balance + x]
        /\ \A b \in Account : b # a => draft'[b] = draft[b]
        /\ UNCHANGED <<row, lock, state, order>>
        /\ lock[a] = t
    BY <1>3, SavedRow
  <2>2. /\ order[t] \in Orders /\ k + 1 \in 1..Len(Plan(t)) /\ k \in 0..Len(Plan(t))
        /\ k < Len(Plan(t)) /\ k + 1 \in 1..4
        /\ a = Plan(t)[k + 1].account /\ x = Plan(t)[k + 1].amount
    <3>1. /\ order[t] \in Orders /\ k + 1 \in 1..Len(Plan(t)) /\ k + 1 \in 1..4
          /\ k \in 0..4 /\ Len(Plan(t)) \in 0..4
          /\ a = Plan(t)[k + 1].account /\ x = Plan(t)[k + 1].amount
      BY <1>3, LegToSave, PlanLegs DEF SaveRow, TypeInv, TypeOK, Progress
    <3> QED
      BY <3>1
  <2>3. \A u \in Tx : done'[u] = IF u = t THEN k + 1 ELSE done[u]
    BY <1>3 DEF SaveRow, TypeInv, TypeOK
  <2>4. \A u \in Tx : Plan(u)' = Plan(u)
    BY <2>1 DEF Plan
  <2>5. Positive'
    BY <2>1 DEF EffectInv, Positive
  <2>6. LegEffect(Plan(t), k + 1, a) = x
        /\ \A b \in Account : b # a => LegEffect(Plan(t), k + 1, b) = 0
    BY <2>2 DEF LegEffect
  <2>7. \A b \in Account :
          /\ Applied(Plan(t), k + 1, b) = Applied(Plan(t), k, b) + LegEffect(Plan(t), k + 1, b)
          /\ Applied(Plan(t), k, b) \in Int
    BY <2>2, AppliedSteps DEF Plan
  <2> HIDE DEF a, x, k
  <2>8. DraftIsAhead'
    <3> SUFFICES ASSUME NEW u \in Tx, NEW b \in Account, lock[b] = u
                 PROVE  draft'[b].balance = row[b].balance + Applied(Plan(u), done'[u], b)
      BY <2>1, <2>4 DEF DraftIsAhead
    <3>1. draft[b].balance = row[b].balance + Applied(Plan(u), done[u], b)
      BY DEF EffectInv, DraftIsAhead
    <3>2. row[b].balance \in Int /\ draft[b].balance \in Int
      BY DEF TypeInv, TypeOK, RowType
    <3>3. CASE u # t
      BY <2>1, <2>3, <3>1, <3>3
    <3>4. CASE u = t /\ b = a
      BY <2>1, <2>3, <2>6, <2>7, <3>1, <3>2, <3>4 DEF k
    <3>5. CASE u = t /\ b # a
      BY <2>1, <2>3, <2>6, <2>7, <3>1, <3>2, <3>5 DEF k
    <3> QED
      BY <3>3, <3>4, <3>5
  <2> QED
    BY <2>5, <2>8 DEF EffectInv
<1>4. ASSUME NEW t \in Tx, RefuseRow(t) \/ DeadlockVictim(t) \/ Crash(t) PROVE EffectInv'
  <2>1. /\ \A u \in Tx : u # t => state'[u] = state[u]
        /\ state'[t] \in {"ABORTED", "RETRY"}
        /\ Rollback(t) /\ UNCHANGED <<order, done>>
    BY <1>4 DEF RefuseRow, DeadlockVictim, Crash, Abort, TypeInv, TypeOK
  <2> QED
    BY <2>1, EndEffectInv DEF Rollback
<1>5. ASSUME NEW t \in Tx, Commit(t) PROVE EffectInv'
  <2>1. /\ \A u \in Tx : u # t => state'[u] = state[u]
        /\ state'[t] = "COMMITTED"
        /\ lock' = Release(t)
        /\ UNCHANGED <<draft, order, done>>
        /\ \A a \in Account : lock[a] # t => row'[a] = row[a]
    BY <1>5 DEF Commit, TypeInv, TypeOK
  <2> QED
    BY <2>1, EndEffectInv
<1>6. ASSUME NEW t \in Tx, RetryInAborted(t) PROVE EffectInv'
  <2>1. /\ UNCHANGED <<row, draft, lock, order, done>>
        /\ \A u \in Tx : state'[u] = "RUN" => state[u] = "RUN"
    BY <1>6 DEF RetryInAborted, Abort, TypeInv, TypeOK
  <2> QED
    BY <2>1 DEF EffectInv, Positive, DraftIsAhead, Plan
<1>7. ASSUME NEW t \in Tx, LateCredit(t) PROVE EffectInv'
  <2>1. /\ UNCHANGED <<lock, state, order, done>>
        /\ \A b \in Account : lock[b] # Free => row'[b] = row[b] /\ draft'[b] = draft[b]
    BY <1>7 DEF LateCredit, TypeInv, TypeOK
  <2>2. \A b \in Account, u \in Tx : lock[b] = u => row'[b] = row[b] /\ draft'[b] = draft[b]
    BY <2>1, SentinelAssumption
  <2> QED
    BY <2>1, <2>2 DEF EffectInv, Positive, DraftIsAhead, Plan
<1>8. CASE UNCHANGED vars
  BY <1>8 DEF EffectInv, Positive, DraftIsAhead, Plan, vars
<1> QED
  BY <1>1, <1>2, <1>3, <1>4, <1>5, <1>6, <1>7, <1>8 DEF Next

-----------------------------------------------------------------------------
(* Row-locked payments implement atomic payments *)

LedgerInv == TypeInv /\ LockInv /\ FloorInv /\ NoOrphans /\ EffectInv

LEMMA InitLedgerInv == Init => LedgerInv
  BY InitTypeInv, InitLockInv, InitFloorInv, InitNoOrphans, InitEffectInv DEF LedgerInv

LEMMA NextLedgerInv == LedgerInv /\ NoDeadlockTogether /\ [Next]_vars => LedgerInv'
  BY NextTypeInv, NextLockInv, NextFloorInv, NextNoOrphans, NextEffectInv DEF LedgerInv

LEMMA AtomicInit == Init => Atomic!Init
<1> SUFFICES ASSUME Init PROVE Atomic!Init
  OBVIOUS
<1>1. Balances = Opening
  BY OpeningAssumption DEF Init, Balances, OpeningRow
<1>2. Settled = [t \in Tx |-> NoOrder]
  BY DEF Init, Settled
<1> QED
  BY <1>1, <1>2 DEF Atomic!Init

\* What Commit makes public is the net effect of the order, on every account.
LEMMA CommitAppliesNet ==
  ASSUME TypeInv, LockInv, EffectInv, NEW t \in Tx, Commit(t), NEW a \in Account
  PROVE  row'[a].balance = row[a].balance + Net(order[t], a)
<1>1. /\ state[t] = "RUN" /\ done[t] = Len(Plan(t))
      /\ row'[a] = IF lock[a] = t THEN draft[a] ELSE row[a]
  BY DEF Commit
<1>2. /\ order[t] \in Orders /\ taken[t] \in 0..Len(Plan(t)) /\ done[t] \in 0..taken[t]
      /\ Len(Plan(t)) \in 0..4 /\ row[a].balance \in Int
  BY <1>1, PlanLegs DEF TypeInv, TypeOK, Progress, RowType
<1>3. taken[t] = done[t] /\ done[t] \in 0..Len(Plan(t))
  BY <1>1, <1>2
<1>4. Applied(Plan(t), done[t], a) = Net(order[t], a)
  BY <1>1, <1>2, <1>3, AppliedSteps DEF Plan
<1>5. CASE lock[a] = t
  BY <1>1, <1>4, <1>5 DEF EffectInv, DraftIsAhead
<1>6. CASE lock[a] # t
  <2>1. \A i \in 1..done[t] : Plan(t)[i].account # a
    BY <1>1, <1>3, <1>6 DEF LockInv, TakenRowsAreLocked
  <2>2. Applied(Plan(t), done[t], a) = 0
    BY <1>2, <1>3, <2>1, AppliedSteps DEF Plan
  <2> QED
    BY <1>1, <1>2, <1>4, <1>6, <2>2
<1> QED
  BY <1>5, <1>6

LEMMA CommitSettles ==
  ASSUME LedgerInv, LedgerInv', NEW t \in Tx, Commit(t)
  PROVE  Atomic!Settle(t, order[t])
<1>1. state[t] = "RUN" /\ state' = [state EXCEPT ![t] = "COMMITTED"] /\ order' = order
  BY DEF Commit
<1>2. Settled[t] = NoOrder
  BY <1>1 DEF Settled
<1>3. Payable(order[t])
  BY <1>1 DEF LedgerInv, EffectInv, Positive
<1>4. Settled' = [Settled EXCEPT ![t] = order[t]]
  BY <1>1 DEF Settled, LedgerInv, TypeInv, TypeOK
<1>5. Balances' = [a \in Account |-> Balances[a] + Net(order[t], a)]
  BY CommitAppliesNet DEF Balances, LedgerInv
<1>6. \A a \in Account : Balances'[a] >= Floor(a)
  BY DEF LedgerInv, FloorInv, Balances
<1> QED
  BY <1>2, <1>3, <1>4, <1>5, <1>6 DEF Atomic!Settle

LEMMA AtomicStep ==
  LedgerInv /\ LedgerInv' /\ [Next]_vars => [Atomic!Next]_<<Balances, Settled>>
<1> SUFFICES ASSUME LedgerInv, LedgerInv', [Next]_vars
             PROVE  Atomic!Next \/ UNCHANGED <<Balances, Settled>>
  OBVIOUS
<1>1. ASSUME NEW t \in Tx, Commit(t) PROVE Atomic!Next
  <2>1. order[t] \in Orders
    BY <1>1 DEF Commit, LedgerInv, TypeInv, Progress
  <2> QED
    BY <1>1, <2>1, CommitSettles DEF Atomic!Next
<1>2. ASSUME NEW t \in Tx, row' = row,
             state[t] # "COMMITTED", state'[t] # "COMMITTED",
             \A u \in Tx : u # t => state'[u] = state[u] /\ order'[u] = order[u]
      PROVE  UNCHANGED <<Balances, Settled>>
  BY <1>2 DEF Balances, Settled
<1>3. ASSUME NEW t \in Tx, NEW o \in Orders, Begin(t, o)
      PROVE  UNCHANGED <<Balances, Settled>>
  <2>1. /\ row' = row /\ state[t] = "IDLE"
        /\ state'[t] \in {"RUN", "ABORTED"}
        /\ \A u \in Tx : u # t => state'[u] = state[u] /\ order'[u] = order[u]
    BY <1>3 DEF Begin, Abort, LedgerInv, TypeInv, TypeOK
  <2> QED
    BY <1>2, <2>1
<1>4. ASSUME NEW t \in Tx, LockRow(t) \/ SaveRow(t)
      PROVE  UNCHANGED <<Balances, Settled>>
  BY <1>4 DEF LockRow, SaveRow, Balances, Settled
<1>5. ASSUME NEW t \in Tx,
             RefuseRow(t) \/ DeadlockVictim(t) \/ RetryInAborted(t) \/ Crash(t)
      PROVE  UNCHANGED <<Balances, Settled>>
  <2>1. row' = row /\ order' = order
    BY <1>5 DEF RefuseRow, DeadlockVictim, RetryInAborted, Crash, Rollback
  <2>2. state[t] \in {"RUN", "RETRY"}
    BY <1>5, DeadlockedMayLock
       DEF RefuseRow, DeadlockVictim, RetryInAborted, Crash, Active, MayLock, MaySave
  <2>3. \E s \in {"RETRY", "ABORTED"} : state' = [state EXCEPT ![t] = s]
    BY <1>5 DEF RefuseRow, DeadlockVictim, RetryInAborted, Crash, Abort
  <2>4. /\ state[t] # "COMMITTED" /\ state'[t] # "COMMITTED"
        /\ \A u \in Tx : u # t => state'[u] = state[u] /\ order'[u] = order[u]
    BY <2>1, <2>2, <2>3 DEF LedgerInv, TypeInv, TypeOK
  <2> QED
    BY <1>2, <2>1, <2>4
<1>6. ASSUME NEW t \in Tx, LateCredit(t) PROVE FALSE
  BY <1>6 DEF LateCredit, LedgerInv, NoOrphans
<1>7. CASE UNCHANGED vars
  BY <1>7 DEF Balances, Settled, vars
<1> QED
  BY <1>1, <1>3, <1>4, <1>5, <1>6, <1>7 DEF Next

\* PaymentOrchestratorService.createAndExecutePayment: whatever the requests,
\* however their row locks interleave and whichever of them deadlock or crash,
\* a payment takes effect as a whole, once, or not at all; provided no fee-less
\* wallet payment is caught in a deadlock.
THEOREM LedgerImplementsAtomic == Spec /\ []NoDeadlockTogether => PaymentsAreAtomic
<1>1. Init => Atomic!Init
  BY AtomicInit
<1>2. LedgerInv /\ LedgerInv' /\ [Next]_vars => [Atomic!Next]_Atomic!vars
  BY AtomicStep DEF Atomic!vars
<1> QED
  BY <1>1, <1>2, InitLedgerInv, NextLedgerInv, PTL
     DEF Spec, PaymentsAreAtomic, Atomic!Spec

-----------------------------------------------------------------------------
(* Payments that go one way never wait in a ring *)

\* The order in which a payment towards a branch locks rows.
Rank(a) ==
  IF a[1] = "cashbox" THEN 1
  ELSE IF a[2] \in User THEN 2 ELSE IF a[2] \in Branch THEN 3 ELSE 4

LEMMA RankOf ==
  /\ \A a \in Account : Rank(a) \in 1..4
  /\ \A p \in User : Rank(Wallet(p)) = 2
  /\ \A b \in Branch : Rank(Wallet(b)) = 3 /\ Rank(Cashbox(b)) = 1
  /\ Rank(Wallet(System)) = 4
BY PartyAssumption DEF Rank, Wallet, Cashbox

\* The legs of such a payment are in that order; a row comes again only at once.
LEMMA LegsRise ==
  ASSUME NEW o \in Orders, OneWay(o)
  PROVE  \A i, j \in 1..Len(Legs(o)) : i < j =>
           \/ Rank(Legs(o)[i].account) < Rank(Legs(o)[j].account)
           \/ Legs(o)[i].account = Legs(o)[j].account
<1>1. /\ o.method \in {"WALLET", "CASH"} /\ o.sender \in Party /\ o.receiver \in Party
      /\ HasFeeAmount(o) => o.receiver \in Branch
  BY OrdersAssumption DEF OrderType, HasFeeAmount, FeeAmount
<1>2. CASE o.method = "WALLET"
  <2>1. /\ Rank(Wallet(o.sender)) = 2 /\ Rank(Wallet(System)) = 4
        /\ Rank(Wallet(o.receiver)) \in {3, 4}
        /\ HasFeeAmount(o) => Rank(Wallet(o.receiver)) = 3
    BY <1>1, <1>2, RankOf DEF OneWay, Party
  <2>2. CASE HasFeeAmount(o)
    <3>1. /\ Len(Legs(o)) = 4
          /\ Legs(o)[1].account = Wallet(o.sender) /\ Legs(o)[2].account = Wallet(o.receiver)
          /\ Legs(o)[3].account = Wallet(o.receiver) /\ Legs(o)[4].account = Wallet(System)
      BY <1>2, <2>2 DEF Legs, WalletLegs, Leg
    <3>2. \A i, j \in 1..4 : i < j => (i = 1 \/ (i = 2 /\ j \in {3, 4}) \/ (i = 3 /\ j = 4))
      OBVIOUS
    <3> QED BY <2>1, <2>2, <3>1, <3>2
  <2>3. CASE ~HasFeeAmount(o)
    <3>1. /\ Len(Legs(o)) = 2
          /\ Legs(o)[1].account = Wallet(o.sender) /\ Legs(o)[2].account = Wallet(o.receiver)
      BY <1>2, <2>3 DEF Legs, WalletLegs, Leg
    <3> QED BY <2>1, <3>1
  <2> QED BY <2>2, <2>3
<1>3. CASE o.method = "CASH"
  <2>1. Legs(o) = CashLegs(o)
    BY <1>3 DEF Legs
  <2>2. CASE o.sender \notin Branch /\ o.receiver \notin Branch
    BY <2>1, <2>2 DEF CashLegs
  <2>3. CASE o.sender \in Branch \/ o.receiver \in Branch
    <3>1. PICK b, x : b \in Branch /\ CashLegs(o) = << Leg(Cashbox(b), x, 0) >> \o FeeLegs(o)
      BY <2>3 DEF CashLegs
    <3>2. CASE HasFeeAmount(o)
      <4>1. /\ Len(Legs(o)) = 3
            /\ Legs(o)[1].account = Cashbox(b) /\ Legs(o)[2].account = Wallet(o.receiver)
            /\ Legs(o)[3].account = Wallet(System)
        BY <2>1, <3>1, <3>2 DEF FeeLegs, Leg
      <4>2. Rank(Cashbox(b)) = 1 /\ Rank(Wallet(o.receiver)) = 3 /\ Rank(Wallet(System)) = 4
        BY <1>1, <3>1, <3>2, RankOf
      <4> QED BY <4>1, <4>2
    <3>3. CASE ~HasFeeAmount(o)
      BY <2>1, <3>1, <3>3 DEF FeeLegs
    <3> QED BY <3>2, <3>3
  <2> QED BY <2>2, <2>3
<1> QED BY <1>1, <1>2, <1>3

\* A row is only locked for a leg.
LocksAreTaken ==
  \A a \in Account, t \in Tx : lock[a] = t => \E i \in 1..taken[t] : Plan(t)[i].account = a

LEMMA InitLocksAreTaken == Init => LocksAreTaken
BY SentinelAssumption DEF Init, LocksAreTaken

LEMMA NextLocksAreTaken == TypeInv /\ LockInv /\ LocksAreTaken /\ [Next]_vars => LocksAreTaken'
<1> SUFFICES ASSUME TypeInv, LockInv, LocksAreTaken, [Next]_vars,
                    NEW a \in Account, NEW u \in Tx, lock'[a] = u
             PROVE  \E i \in 1..taken'[u] : Legs(order'[u])[i].account = a
  BY DEF LocksAreTaken, Plan
<1>1. ASSUME lock[a] = u, order'[u] = order[u], taken'[u] = taken[u]
      PROVE  \E i \in 1..taken'[u] : Legs(order'[u])[i].account = a
  BY <1>1 DEF LocksAreTaken, Plan
<1>2. ASSUME NEW t \in Tx, NEW o \in Orders, Begin(t, o)
      PROVE  \E i \in 1..taken'[u] : Legs(order'[u])[i].account = a
  <2>1. lock[a] = u /\ taken' = taken /\ state[t] = "IDLE" /\ order' = [order EXCEPT ![t] = o]
    BY <1>2 DEF Begin
  <2>2. u # t
    BY <2>1 DEF LockInv, HoldersRun
  <2> QED BY <1>1, <2>1, <2>2 DEF TypeInv, TypeOK
<1>3. ASSUME NEW t \in Tx, LockRow(t)
      PROVE  \E i \in 1..taken'[u] : Legs(order'[u])[i].account = a
  <2>1. /\ order' = order /\ MayLock(t)
        /\ lock' = [lock EXCEPT ![NextToLock(t).account] = t]
        /\ taken' = [taken EXCEPT ![t] = taken[t] + 1]
    BY <1>3 DEF LockRow
  <2>2. /\ taken[t] \in 0..4 /\ taken'[t] = taken[t] + 1 /\ NextToLock(t).account \in Account
        /\ NextToLock(t) = Legs(order[t])[taken[t] + 1]
    BY <2>1, LegToLock DEF TypeInv, TypeOK, NextToLock, Plan
  <2>3. CASE lock[a] = u
    <3>1. PICK i \in 1..taken[u] : Plan(u)[i].account = a
      BY <2>3 DEF LocksAreTaken
    <3>2. i \in 1..taken'[u]
      BY <2>1, <2>2 DEF TypeInv, TypeOK
    <3> QED BY <2>1, <3>1, <3>2 DEF Plan
  <2>4. CASE lock[a] # u
    <3>1. u = t /\ a = NextToLock(t).account
      BY <2>1, <2>2, <2>4 DEF TypeInv, TypeOK
    <3> QED BY <2>1, <2>2, <3>1
  <2> QED BY <2>3, <2>4
<1>4. ASSUME NEW t \in Tx, SaveRow(t) \/ RetryInAborted(t) \/ LateCredit(t)
      PROVE  \E i \in 1..taken'[u] : Legs(order'[u])[i].account = a
  BY <1>1, <1>4 DEF SaveRow, RetryInAborted, LateCredit
<1>5. ASSUME NEW t \in Tx, RefuseRow(t) \/ Commit(t) \/ DeadlockVictim(t) \/ Crash(t)
      PROVE  \E i \in 1..taken'[u] : Legs(order'[u])[i].account = a
  <2>1. lock' = Release(t) /\ order' = order /\ taken' = taken
    BY <1>5 DEF RefuseRow, Commit, DeadlockVictim, Crash, Rollback
  <2>2. lock[a] = u
    BY <2>1, SentinelAssumption DEF Release
  <2> QED BY <1>1, <2>1, <2>2
<1>6. CASE UNCHANGED vars
  BY <1>1, <1>6 DEF vars
<1> QED BY <1>2, <1>3, <1>4, <1>5, <1>6 DEF Next

\* Who waits for a row waits at a lower one than its holder waits for.
LEMMA WaitsRise ==
  ASSUME TypeInv, LockInv, LocksAreTaken, AllOneWay,
         NEW s \in Tx, NEW h \in Tx, Blocked(s), Blocked(h), lock[NextToLock(s).account] = h
  PROVE  Rank(NextToLock(s).account) < Rank(NextToLock(h).account)
<1> DEFINE a == NextToLock(s).account
           b == NextToLock(h).account
<1>1. MayLock(s) /\ MayLock(h) /\ a \in Account /\ b \in Account
  BY LegToLock DEF Blocked
<1>2. state[h] = "RUN" /\ order[h] \in Orders /\ OneWay(order[h])
  BY <1>1, SentinelAssumption DEF MayLock, TypeInv, Progress, AllOneWay
<1>3. PICK i \in 1..taken[h] : Plan(h)[i].account = a
  BY <1>1 DEF LocksAreTaken
<1>4. /\ taken[h] \in 0..Len(Plan(h)) /\ taken[h] + 1 \in 1..Len(Plan(h))
      /\ b = Plan(h)[taken[h] + 1].account
  BY <1>1, LegToLock
<1>5. i \in 1..Len(Legs(order[h])) /\ i < taken[h] + 1 /\ Len(Plan(h)) = Len(Legs(order[h]))
  <2>1. Len(Plan(h)) \in Nat
    BY <1>2, PlanLegs
  <2> QED BY <1>3, <1>4, <2>1 DEF Plan
<1>6. Rank(a) < Rank(b) \/ a = b
  BY <1>2, <1>3, <1>4, <1>5, LegsRise DEF Plan
<1>7. a # b
  BY <1>1 DEF Blocked
<1> QED BY <1>6, <1>7

LEMMA NoRing ==
  TypeInv /\ LockInv /\ LocksAreTaken => OneWayNeverDeadlocks
<1> SUFFICES ASSUME TypeInv, LockInv, LocksAreTaken, AllOneWay, NEW t \in Tx, Deadlocked(t)
             PROVE  FALSE
  BY DEF OneWayNeverDeadlocks
<1>1. PICK S \in SUBSET Tx : t \in S /\ \A s \in S : Blocked(s) /\ lock[NextToLock(s).account] \in S
  BY DEF Deadlocked
<1> DEFINE At(s) == Rank(NextToLock(s).account)
<1>2. \A s \in S : At(s) \in 1..4
  BY <1>1, LegToLock, RankOf DEF Blocked
<1>3. \A s \in S : \E h \in S : At(s) < At(h)
  <2> TAKE s \in S
  <2>1. PICK h \in S : lock[NextToLock(s).account] = h
    BY <1>1
  <2> QED BY <1>1, <2>1, WaitsRise
<1> HIDE DEF At
<1>4. \A s \in S : At(s) # 4
  BY <1>2, <1>3
<1>5. \A s \in S : At(s) # 3
  BY <1>2, <1>3, <1>4
<1>6. \A s \in S : At(s) # 2
  BY <1>2, <1>3, <1>4, <1>5
<1>7. \A s \in S : At(s) # 1
  BY <1>2, <1>3, <1>4, <1>5, <1>6
<1> QED BY <1>1, <1>2, <1>4, <1>5, <1>6, <1>7

\* Payments towards a branch and cash payments never deadlock, however many run
\* at once: WalletPaymentStrategy and CashPaymentStrategy lock in one order.
THEOREM LedgerOneWayNeverDeadlocks == Spec => []OneWayNeverDeadlocks
<1>1. Init => TypeInv /\ LockInv /\ LocksAreTaken
  BY InitTypeInv, InitLockInv, InitLocksAreTaken
<1>2. TypeInv /\ LockInv /\ LocksAreTaken /\ [Next]_vars => (TypeInv /\ LockInv /\ LocksAreTaken)'
  BY NextTypeInv, NextLockInv, NextLocksAreTaken
<1> QED BY <1>1, <1>2, NoRing, PTL DEF Spec


-----------------------------------------------------------------------------
(* Wallet money is conserved *)

LEMMA PartyFinite == IsFiniteSet(Party)
<1>1. IsFiniteSet(User \cup Branch) /\ IsFiniteSet({System})
  BY PartyAssumption, FS_Union, FS_Singleton
<1> QED
  BY <1>1, FS_Union DEF Party

\* Money moves from one wallet to another: the total stays.
LEMMA TransferKeepsTotal ==
  ASSUME NEW g, NEW p \in Party, NEW q \in Party, p # q, NEW n \in Int,
         \A s \in Party : g[s] = IF s = p THEN -n ELSE IF s = q THEN n ELSE 0
  PROVE  SumFunctionOnSet(g, Party) = 0
<1> DEFINE zero == [s \in Party |-> 0]
           half == [s \in Party |-> IF s = p THEN -n ELSE 0]
<1>1. SumFunctionOnSet(zero, Party) = 0
  BY PartyFinite, SumZero
<1>2. SumFunctionOnSet(half, Party) = SumFunctionOnSet(zero, Party) + (half[p] - zero[p])
  <2>1. /\ \A s \in Party : zero[s] \in Int
        /\ \A s \in Party : s # p => half[s] = zero[s]
        /\ half[p] \in Int
    OBVIOUS
  <2> HIDE DEF zero, half
  <2> QED
    BY <2>1, PartyFinite, SumChange
<1>3. SumFunctionOnSet(g, Party) = SumFunctionOnSet(half, Party) + (g[q] - half[q])
  <2>1. /\ \A s \in Party : half[s] \in Int
        /\ \A s \in Party : s # q => g[s] = half[s]
        /\ g[q] \in Int
    OBVIOUS
  <2> HIDE DEF half
  <2> QED
    BY <2>1, PartyFinite, SumChange
<1> QED
  BY <1>1, <1>2, <1>3

\* What a payment does to the wallets: the sender pays the receiver, the branch
\* pays its cash fee to the system, or no wallet is touched.
LEMMA FeeFreeTransfers ==
  ASSUME NEW o \in Orders, FeeFree(o)
  PROVE  \/ \A s \in Party : Net(o, Wallet(s)) = 0
         \/ \E p, q \in Party, n \in Int :
              /\ p # q
              /\ \A s \in Party : Net(o, Wallet(s)) = IF s = p THEN -n ELSE IF s = q THEN n ELSE 0
<1>1. /\ o.sender \in Party /\ o.receiver \in Party /\ o.sender # o.receiver
      /\ o.amount \in Int /\ FeeAmount(o) \in Int
      /\ o.method \in {"WALLET", "CASH"}
  BY OrdersAssumption, FeeType DEF OrderType
<1>2. \A s, p \in Party : (Wallet(s) = Wallet(p)) <=> s = p
  BY DEF Wallet
<1>3. \A b : \A s \in Party : Cashbox(b) # Wallet(s)
  BY DEF Wallet, Cashbox
<1>4. CASE o.method = "WALLET"
  <2>1. ~HasFeeAmount(o)
    BY <1>4 DEF FeeFree
  <2>2. \A s \in Party : Net(o, Wallet(s)) =
          IF s = o.sender THEN -o.amount ELSE IF s = o.receiver THEN o.amount ELSE 0
    BY <1>1, <1>2, <1>4, <2>1 DEF Net, LegEffect, Legs, WalletLegs, Leg
  <2> QED
    BY <1>1, <2>2
<1>5. CASE o.method = "CASH"
  <2>1. \A legs : legs = Legs(o) =>
          \/ legs = << >>
          \/ \E b : legs = << Leg(Cashbox(b), -o.amount, 0) >> \o FeeLegs(o)
          \/ \E b : legs = << Leg(Cashbox(b), o.amount, 0) >> \o FeeLegs(o)
    BY <1>5 DEF Legs, CashLegs
  <2>2. CASE ~HasFeeAmount(o)
    <3>1. FeeLegs(o) = << >>
      BY <2>2 DEF FeeLegs
    <3>2. \A s \in Party : Net(o, Wallet(s)) = 0
      BY <2>1, <3>1, <1>1, <1>3 DEF Net, LegEffect, Leg
    <3> QED
      BY <3>2
  <2>3. CASE HasFeeAmount(o)
    <3>1. o.receiver \in Branch /\ System \in Party /\ o.receiver # System
      BY <2>3, OrdersAssumption, PartyAssumption DEF HasFeeAmount, FeeAmount, Party
    <3>2. FeeLegs(o) = << Leg(Wallet(o.receiver), -FeeAmount(o), -MaxNegativeBalance),
                          Leg(Wallet(System), FeeAmount(o), 0) >>
      BY <2>3 DEF FeeLegs
    <3>3. \A legs, b, m : legs = << Leg(Cashbox(b), m, 0) >> \o FeeLegs(o) =>
            /\ Len(legs) = 3
            /\ legs[1].account = Cashbox(b)
            /\ legs[2].account = Wallet(o.receiver) /\ legs[2].amount = -FeeAmount(o)
            /\ legs[3].account = Wallet(System) /\ legs[3].amount = FeeAmount(o)
      BY <3>2 DEF Leg
    <3>4. \E b, m : Legs(o) = << Leg(Cashbox(b), m, 0) >> \o FeeLegs(o)
      BY <1>5, <3>1 DEF Legs, CashLegs
    <3>5. PICK legs, b : /\ legs = Legs(o) /\ Len(legs) = 3
                         /\ legs[1].account = Cashbox(b)
                         /\ legs[2].account = Wallet(o.receiver) /\ legs[2].amount = -FeeAmount(o)
                         /\ legs[3].account = Wallet(System) /\ legs[3].amount = FeeAmount(o)
      BY <3>3, <3>4
    <3>6. \A s \in Party : Net(o, Wallet(s)) =
            IF s = o.receiver THEN -FeeAmount(o) ELSE IF s = System THEN FeeAmount(o) ELSE 0
      BY <1>1, <1>2, <1>3, <3>1, <3>5 DEF Net, LegEffect
    <3> QED
      BY <1>1, <3>1, <3>6
  <2> QED
    BY <2>2, <2>3
<1> QED
  BY <1>1, <1>4, <1>5

\* So a payment leaves the total of the wallets as it was.
LEMMA FeeFreeKeepsTotal ==
  ASSUME NEW o \in Orders, FeeFree(o), NEW b, NEW c, \A a \in Account : b[a] \in Int,
         \A a \in Account : c[a] = b[a] + Net(o, a)
  PROVE  WalletTotal(c) = WalletTotal(b)
<1> DEFINE before == [p \in Party |-> b[Wallet(p)]]
           after == [p \in Party |-> c[Wallet(p)]]
           change == [p \in Party |-> Net(o, Wallet(p))]
<1>1. \A p \in Party : Wallet(p) \in Account
  BY DEF Account
<1>2. \A p \in Party : Net(o, Wallet(p)) \in Int
  BY FeeFreeTransfers
<1>3. SumFunctionOnSet(change, Party) = 0
  <2>1. CASE \A s \in Party : Net(o, Wallet(s)) = 0
    BY <2>1, PartyFinite, SumZero
  <2>2. CASE \E p, q \in Party, n \in Int :
              /\ p # q
              /\ \A s \in Party : Net(o, Wallet(s)) = IF s = p THEN -n ELSE IF s = q THEN n ELSE 0
    BY <2>2, TransferKeepsTotal
  <2> QED
    BY <2>1, <2>2, FeeFreeTransfers
<1>4. /\ \A p \in Party : before[p] \in Int /\ change[p] \in Int
      /\ \A p \in Party : after[p] = before[p] + change[p]
  BY <1>1, <1>2
<1>5. SumFunctionOnSet(after, Party) =
        SumFunctionOnSet(before, Party) + SumFunctionOnSet(change, Party)
  <2> HIDE DEF before, after, change
  <2> QED
    BY <1>4, PartyFinite, SumPlus
<1>6. SumFunctionOnSet(before, Party) \in Int
  BY <1>4, PartyFinite, SumInt
<1> QED
  BY <1>3, <1>5, <1>6 DEF WalletTotal

\* The same property of the abstract ledger, and its invariant.
SettledMoneyConserved ==
  (\A t \in Tx : Settled[t] # NoOrder => FeeFree(Settled[t]))
    => WalletTotal(Balances) = WalletTotal(Opening)

LEMMA AtomicConserves ==
  TypeInv /\ SettledMoneyConserved /\ [Atomic!Next]_Atomic!vars => SettledMoneyConserved'
<1> SUFFICES ASSUME TypeInv, SettledMoneyConserved, [Atomic!Next]_<<Balances, Settled>>
             PROVE  SettledMoneyConserved'
  BY DEF Atomic!vars
<1>1. CASE UNCHANGED <<Balances, Settled>>
  BY <1>1 DEF SettledMoneyConserved
<1>2. ASSUME NEW t \in Tx, NEW o \in Orders, Atomic!Settle(t, o)
      PROVE  SettledMoneyConserved'
  <2>1. PICK s, b, c, d : s = Settled /\ b = Balances /\ c = Balances' /\ d = Settled'
    OBVIOUS
  <2>2. /\ s[t] = NoOrder /\ d = [s EXCEPT ![t] = o]
        /\ c = [a \in Account |-> b[a] + Net(o, a)]
    BY <1>2, <2>1 DEF Atomic!Settle
  <2>3. t \in DOMAIN s /\ DOMAIN s = Tx
    BY <2>1 DEF Settled
  <2>4. \A a \in Account : b[a] \in Int
    BY <2>1 DEF Balances, TypeInv, TypeOK, RowType
  <2>5. ASSUME \A u \in Tx : d[u] # NoOrder => FeeFree(d[u])
        PROVE  WalletTotal(c) = WalletTotal(Opening)
    <3>1. FeeFree(o)
      BY <2>2, <2>3, <2>5, SentinelAssumption
    <3>2. \A u \in Tx : s[u] # NoOrder => FeeFree(s[u])
      BY <2>2, <2>3, <2>5
    <3>3. WalletTotal(b) = WalletTotal(Opening)
      BY <2>1, <3>2 DEF SettledMoneyConserved
    <3>4. WalletTotal(c) = WalletTotal(b)
      BY <2>2, <2>4, <3>1, FeeFreeKeepsTotal
    <3> QED
      BY <3>3, <3>4
  <2> QED
    BY <2>1, <2>5 DEF SettledMoneyConserved
<1> QED
  BY <1>1, <1>2 DEF Atomic!Next

\* createAndExecutePayment with both strategies: while no wallet payment carries
\* a fee, whatever payments settle, no wallet money appears or gets lost.
THEOREM LedgerMoneyConserved ==
  Spec /\ []NoDeadlockTogether => []WalletMoneyConserved
<1>1. Init => SettledMoneyConserved
  <2> SUFFICES ASSUME Init PROVE SettledMoneyConserved
    OBVIOUS
  <2>1. Balances = Opening
    BY AtomicInit DEF Atomic!Init
  <2> QED
    BY <2>1 DEF SettledMoneyConserved
<1>2. LedgerInv /\ LedgerInv' /\ [Next]_vars /\ SettledMoneyConserved => SettledMoneyConserved'
  BY AtomicStep, AtomicConserves DEF LedgerInv, Atomic!vars
<1>3. SettledMoneyConserved => WalletMoneyConserved
  BY DEF SettledMoneyConserved, WalletMoneyConserved, Settled
<1> QED
  BY <1>1, <1>2, <1>3, InitLedgerInv, NextLedgerInv, PTL DEF Spec

\* So for payments that go one way audit trail, conservation and atomicity hold
\* without a proviso on deadlocks.
COROLLARY LedgerOneWay ==
  Spec /\ []AllOneWay => []AuditTrail /\ []WalletMoneyConserved /\ PaymentsAreAtomic
<1>1. OneWayNeverDeadlocks /\ AllOneWay => NoDeadlockTogether
  BY DEF OneWayNeverDeadlocks, NoDeadlockTogether
<1> QED
  BY <1>1, LedgerOneWayNeverDeadlocks, LedgerAuditTrail, LedgerMoneyConserved,
     LedgerImplementsAtomic, PTL

\* No payment committed, no balance changed.
NothingSettledNothingMoved ==
  (\A t \in Tx : state[t] # "COMMITTED") => Balances = Opening

\* FINANCE_MODULE_REVIEW.md:186, "Proper error handling and rollback": as long as
\* no payment has been committed every balance is as it was, provided no fee-less
\* wallet payment is caught in a deadlock.
THEOREM LedgerRollsBackWhole ==
  Spec /\ []NoDeadlockTogether => []NothingSettledNothingMoved
<1>1. Init => NothingSettledNothingMoved
  BY AtomicInit DEF Atomic!Init, NothingSettledNothingMoved
<1>2. ASSUME LedgerInv, LedgerInv', [Next]_vars, NothingSettledNothingMoved
      PROVE  NothingSettledNothingMoved'
  <2>1. CASE UNCHANGED <<Balances, Settled>>
    <3>1. \A t \in Tx : (state[t] = "COMMITTED" <=> Settled[t] # NoOrder)
                        /\ (state'[t] = "COMMITTED" <=> Settled'[t] # NoOrder)
      BY <1>2, SentinelAssumption DEF Settled, LedgerInv, TypeInv, Progress
    <3> QED
      BY <1>2, <2>1, <3>1 DEF NothingSettledNothingMoved
  <2>2. ASSUME NEW t \in Tx, NEW o \in Orders, Atomic!Settle(t, o)
        PROVE  \E u \in Tx : state'[u] = "COMMITTED"
    <3>1. Settled'[t] = o
      BY <2>2 DEF Atomic!Settle, Settled
    <3> QED
      BY <3>1, SentinelAssumption DEF Settled
  <2> QED
    BY <1>2, <2>1, <2>2, AtomicStep DEF Atomic!Next, NothingSettledNothingMoved
<1> QED
  BY <1>1, <1>2, InitLedgerInv, NextLedgerInv, PTL DEF Spec

-----------------------------------------------------------------------------
(* What can move a committed balance, deadlocks or not *)

\* A repeated call that may outlive its request is the credit of a positive
\* amount: its request had locked one of its two rows, the sender's.
LateCallCredits ==
  \A t \in Tx :
    /\ orphan[t] => Together(order[t]) /\ cause[t] = "DEADLOCK"
    /\ (state[t] = "RETRY" \/ orphan[t]) /\ Together(order[t])
         => taken[t] = 1 /\ Payable(order[t])

LEMMA InitLateCallCredits == Init => LateCallCredits
BY DEF Init, LateCallCredits

\* Who is caught in a ring holds a row: somebody in the ring waits for it.
LEMMA VictimHasLocked ==
  ASSUME TypeInv, LocksAreTaken, NEW t \in Tx, Deadlocked(t)
  PROVE  taken[t] >= 1
<1>1. PICK r \in Tx : Blocked(r) /\ lock[NextToLock(r).account] = t
  BY DEF Deadlocked
<1>2. NextToLock(r).account \in Account
  BY <1>1, LegToLock DEF Blocked
<1>3. PICK i \in 1..taken[t] : Plan(t)[i].account = NextToLock(r).account
  BY <1>1, <1>2 DEF LocksAreTaken
<1> QED
  BY <1>3 DEF TypeInv, TypeOK

LEMMA NextLateCallCredits ==
  TypeInv /\ LocksAreTaken /\ EffectInv /\ LateCallCredits /\ [Next]_vars => LateCallCredits'
<1> SUFFICES ASSUME TypeInv, LocksAreTaken, EffectInv, LateCallCredits, [Next]_vars
             PROVE  LateCallCredits'
  OBVIOUS
<1>1. ASSUME NEW t \in Tx, NEW o \in Orders, Begin(t, o) PROVE LateCallCredits'
  <2>1. /\ UNCHANGED <<taken, orphan>> /\ state[t] = "IDLE" /\ ~orphan[t]
        /\ state'[t] # "RETRY"
        /\ \A u \in Tx : u # t => state'[u] = state[u] /\ order'[u] = order[u]
                                  /\ cause'[u] = cause[u]
    BY <1>1 DEF Begin, Abort, TypeInv, TypeOK, Progress
  <2> QED
    BY <2>1 DEF LateCallCredits
<1>2. ASSUME NEW t \in Tx, DeadlockVictim(t) PROVE LateCallCredits'
  <2>1. /\ Deadlocked(t) /\ UNCHANGED <<order, taken, orphan, cause>>
        /\ state' = [state EXCEPT ![t] = "RETRY"]
    BY <1>2 DEF DeadlockVictim
  <2>2. state[t] = "RUN" /\ taken[t] < Len(Plan(t)) /\ ~orphan[t] /\ order[t] \in Orders
    BY <2>1, DeadlockedMayLock, LegToLock DEF TypeInv, Progress
  <2>3. Together(order[t]) => taken[t] = 1 /\ Payable(order[t])
    <3>1. taken[t] >= 1 /\ taken[t] \in 0..4
      BY <2>1, VictimHasLocked DEF TypeInv, TypeOK
    <3>2. Together(order[t]) => Len(Plan(t)) = 2
      BY <2>2, TogetherApart DEF Plan
    <3>3. \A n, k : k >= 1 /\ k \in 0..4 /\ k < n /\ n = 2 => k = 1
      OBVIOUS
    <3>4. Together(order[t]) => taken[t] = 1
      BY <2>2, <3>1, <3>2, <3>3
    <3>5. Payable(order[t])
      BY <2>2 DEF EffectInv, Positive
    <3> QED
      BY <3>4, <3>5
  <2> QED
    BY <2>1, <2>2, <2>3 DEF LateCallCredits, TypeInv, TypeOK
<1>3. ASSUME NEW t \in Tx, RetryInAborted(t) PROVE LateCallCredits'
  <2>1. /\ state[t] = "RETRY" /\ UNCHANGED <<order, taken>>
        /\ state' = [state EXCEPT ![t] = "ABORTED"]
        /\ cause' = [cause EXCEPT ![t] = "DEADLOCK"]
        /\ orphan' = [orphan EXCEPT ![t] = Together(order[t])]
    BY <1>3 DEF RetryInAborted, Abort
  <2>2. /\ state'[t] = "ABORTED" /\ cause'[t] = "DEADLOCK" /\ orphan'[t] = Together(order[t])
        /\ \A u \in Tx : u # t => state'[u] = state[u] /\ orphan'[u] = orphan[u]
                                  /\ cause'[u] = cause[u]
    BY <2>1 DEF TypeInv, TypeOK
  <2> QED
    BY <2>1, <2>2 DEF LateCallCredits
<1>4. ASSUME NEW t \in Tx, RefuseRow(t) \/ Crash(t) PROVE LateCallCredits'
  <2>1. /\ UNCHANGED <<order, taken, orphan>> /\ state[t] \in {"RUN", "RETRY"}
        /\ state'[t] = "ABORTED"
        /\ \A u \in Tx : u # t => state'[u] = state[u] /\ cause'[u] = cause[u]
    BY <1>4 DEF RefuseRow, Crash, Abort, Active, MaySave, TypeInv, TypeOK
  <2>2. ~orphan[t]
    BY <2>1 DEF TypeInv, Progress
  <2> QED
    BY <2>1, <2>2 DEF LateCallCredits
<1>5. ASSUME NEW t \in Tx, Commit(t) PROVE LateCallCredits'
  <2>1. /\ UNCHANGED <<order, taken, orphan, cause>>
        /\ \A u \in Tx : state'[u] = "RETRY" => state[u] = "RETRY"
    BY <1>5 DEF Commit, TypeInv, TypeOK
  <2> QED
    BY <2>1 DEF LateCallCredits
<1>6. ASSUME NEW t \in Tx, LockRow(t) PROVE LateCallCredits'
  <2>1. /\ UNCHANGED <<state, order, orphan, cause>> /\ state[t] = "RUN"
        /\ \A u \in Tx : u # t => taken'[u] = taken[u]
    BY <1>6 DEF LockRow, MayLock, TypeInv, TypeOK
  <2>2. ~orphan[t]
    BY <2>1 DEF TypeInv, Progress
  <2> QED
    BY <2>1, <2>2 DEF LateCallCredits
<1>7. ASSUME NEW t \in Tx, SaveRow(t) PROVE LateCallCredits'
  BY <1>7 DEF SaveRow, LateCallCredits
<1>8. ASSUME NEW t \in Tx, LateCredit(t) PROVE LateCallCredits'
  <2>1. /\ UNCHANGED <<state, order, taken, cause>>
        /\ \A u \in Tx : orphan'[u] => orphan[u]
    BY <1>8 DEF LateCredit, TypeInv, TypeOK
  <2> QED
    BY <2>1 DEF LateCallCredits
<1>9. CASE UNCHANGED vars
  BY <1>9 DEF vars, LateCallCredits
<1> QED
  BY <1>1, <1>2, <1>3, <1>4, <1>5, <1>6, <1>7, <1>8, <1>9 DEF Next

\* The three things a step can do to the committed balances: nothing; apply the
\* whole of one payment, which commits; or credit its receiver with the amount of
\* a payment that a deadlock has rolled back, which its left-over call does once.
CommitsInFull(t) ==
  /\ state[t] = "RUN" /\ state'[t] = "COMMITTED"
  /\ \A a \in Account : row'[a].balance = row[a].balance + Net(order[t], a)
CreditsLate(t) ==
  /\ state[t] = "ABORTED" /\ cause[t] = "DEADLOCK"
  /\ orphan[t] /\ ~orphan'[t] /\ Payable(order[t])
  /\ \A a \in Account : row'[a].balance = row[a].balance +
       IF a = Wallet(order[t].receiver) THEN order[t].amount ELSE 0
MoneyMoves ==
  \/ \A a \in Account : row'[a].balance = row[a].balance
  \/ \E t \in Tx : CommitsInFull(t) \/ CreditsLate(t)

LEMMA LateCreditAdds ==
  ASSUME TypeInv, LateCallCredits, NEW t \in Tx, LateCredit(t)
  PROVE  CreditsLate(t) \/ row' = row
<1>1. /\ orphan[t] /\ orphan' = [orphan EXCEPT ![t] = FALSE]
      /\ state[t] = "ABORTED" /\ order[t] \in Orders
      /\ Together(order[t]) /\ cause[t] = "DEADLOCK"
      /\ taken[t] = 1 /\ Payable(order[t])
  BY DEF LateCredit, LateCallCredits, TypeInv, Progress
<1>2. ~orphan'[t]
  BY <1>1 DEF TypeInv, TypeOK
<1>3. /\ NextToLock(t).account = Wallet(order[t].receiver)
      /\ NextToLock(t).amount = order[t].amount
  BY <1>1 DEF NextToLock, Plan, Together, Legs, WalletLegs, Leg
<1>4. Wallet(order[t].receiver) \in Account
  BY <1>1, AccountOf
<1>5. \/ row' = row
      \/ row' = [row EXCEPT ![Wallet(order[t].receiver)].balance =
                   row[Wallet(order[t].receiver)].balance + order[t].amount]
  BY <1>3 DEF LateCredit
<1>6. CASE row' # row
  <2>1. \A a \in Account : row[a].balance \in Int /\ row[a] \in RowType
    BY DEF TypeInv, TypeOK, RowType
  <2>2. \A a \in Account : row'[a].balance = row[a].balance +
          IF a = Wallet(order[t].receiver) THEN order[t].amount ELSE 0
    BY <1>4, <1>5, <1>6, <2>1 DEF TypeInv, TypeOK, RowType
  <2> QED
    BY <1>1, <1>2, <2>2 DEF CreditsLate
<1> QED
  BY <1>6

\* PaymentOrchestratorService with WalletService.updateBalance's retry: however
\* requests interleave, deadlock and crash, a payment that commits takes effect
\* in full; and all that a deadlock can leave behind is one credit too many.
THEOREM LedgerMoneyMoves == Spec => [][MoneyMoves]_vars
<1> DEFINE Inv == TypeInv /\ LockInv /\ LocksAreTaken /\ EffectInv /\ LateCallCredits
<1>1. Init => Inv
  BY InitTypeInv, InitLockInv, InitLocksAreTaken, InitEffectInv, InitLateCallCredits
<1>2. Inv /\ [Next]_vars => Inv'
  BY NextTypeInv, NextLockInv, NextLocksAreTaken, NextEffectInv, NextLateCallCredits
<1>3. Inv /\ [Next]_vars => [MoneyMoves]_vars
  <2> SUFFICES ASSUME Inv, Next PROVE MoneyMoves
    OBVIOUS
  <2>1. ASSUME NEW t \in Tx, Commit(t) PROVE CommitsInFull(t)
    <3>1. state[t] = "RUN" /\ state'[t] = "COMMITTED"
      BY <2>1 DEF Commit, TypeInv, TypeOK
    <3> QED
      BY <2>1, <3>1, CommitAppliesNet DEF CommitsInFull
  <2>2. ASSUME NEW t \in Tx, LateCredit(t) PROVE CreditsLate(t) \/ row' = row
    BY <2>2, LateCreditAdds
  <2>3. ASSUME NEW t \in Tx, ~Commit(t), ~LateCredit(t),
               \/ \E o \in Orders : Begin(t, o)
               \/ LockRow(t) \/ SaveRow(t) \/ RefuseRow(t)
               \/ DeadlockVictim(t) \/ RetryInAborted(t) \/ Crash(t)
        PROVE  row' = row
    BY <2>3 DEF Begin, LockRow, SaveRow, RefuseRow, DeadlockVictim, RetryInAborted,
                Crash, Rollback
  <2> QED
    BY <2>1, <2>2, <2>3 DEF Next, MoneyMoves
<1> HIDE DEF Inv
<1> QED
  BY <1>1, <1>2, <1>3, PTL DEF Spec
=============================================================================
