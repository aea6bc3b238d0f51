--------------------------- MODULE MCStudentBilling --------------------------
(* Small instances of StudentBilling for TLC. *)
EXTENDS StudentBilling, TLC

CONSTANTS r1, r2, r3, r4, may, lesson, course, k1, ali, sara

Ask(what, item, key, method, amount) ==
  [what |-> what, item |-> item, key |-> key, method |-> method, amount |-> amount]
Month(key, method) == Ask("CREATE", may, key, method, 0)
Lesson(key, method) == Ask("CREATE", lesson, key, method, 0)
Course(key, method, amount) == Ask("CREATE", course, key, method, amount)
Instalment(method, amount) == Ask("INSTALMENT", course, NoKey, method, amount)

Kind_ == may :> "SUBSCRIPTION" @@ lesson :> "SESSION" @@ course :> "CLASS"
Student == may :> ali @@ lesson :> sara @@ course :> ali
Prices == may :> 2 @@ lesson :> 1 @@ course :> 3

\* A subscription sent three times under one key, and another student's session
\* charge under the same key.
SameKeyJobs ==
  r1 :> Month(k1, "WALLET") @@ r2 :> Month(k1, "CASH") @@ r3 :> Month(k1, "WALLET")
    @@ r4 :> Lesson(k1, "CASH")

\* A class charge, two instalments of which one completes it, and a refund.
InstalmentJobs ==
  r1 :> Course(NoKey, "CASH", 1) @@ r2 :> Instalment("WALLET", 2)
    @@ r3 :> Instalment("CASH", 1) @@ r4 :> Ask("REFUND", course, NoKey, "CASH", 0)

\* Odd amounts: a first payment above the price, an instalment of nothing; and
\* a class charge retried under its key.
OddJobs ==
  r1 :> Course(k1, "CASH", 4) @@ r2 :> Course(k1, "CASH", 3)
    @@ r3 :> Instalment("WALLET", 0) @@ r4 :> Course(k1, "WALLET", 2)

AllWorkloads == {SameKeyJobs, InstalmentJobs, OddJobs}
=============================================================================
