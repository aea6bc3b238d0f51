--------------------------- MODULE EnrolmentProofs ---------------------------
(***************************************************************************)
(* Proofs about Enrolment, for any number of requests, students and        *)
(* groups: whatever the requests do together, an unraced student's groups  *)
(* fit, and reports are what was committed.                                *)
(*                                                                         *)
(* SeatsFit is about committed rows, and a commit adds one: so the rows    *)
(* already there must fit what a request has looked up but not committed   *)
(* (Seen), although time has passed since.  That holds because nobody else *)
(* was enrolling the student (OneAtATime), so no row of hers has appeared, *)
(* and a group that came back is in restored.                              *)
(***************************************************************************)
EXTENDS Enrolment, TLAPS

OneAtATime ==
  \A s \in Student \ raced : \A q, r \in Request :
    Enrolling(q, s) /\ Enrolling(r, s) => q = r

\* What the look-ups of r found of a row is still true.
Away(x) == GroupOf(x) \in gone \cup restored
SeenRow(r, s, x) ==
  /\ item[r][s] \in {"unbooked", "ok"} => Away(x) \/ ClassOf[GroupOf(x)] # ClassOf[job[r].group]
  /\ item[r][s] = "ok" => Away(x) \/ job[r].skip \/ <<job[r].group, GroupOf(x)>> \notin Clash
Seen ==
  \A s \in Student \ raced : \A r \in Request : Enrolling(r, s) =>
    \A q \in Request \cup {Nobody} : Taken(<<q, s>>) => SeenRow(r, s, <<q, s>>)

\* Rows come from answered requests, and what a request is doing fits what it is.
RowsAnswered ==
  \A r \in Request : \A s \in Student : seat[<<r, s>>] # "absent" =>
    phase[r] = "answered" /\ job[r].op = "assign" /\ s \in job[r].students /\ item[r][s] = "ok"
Doing ==
  \A r \in Request :
    /\ phase[r] \in {"new", "lost"} => \A s \in Student : item[r][s] = "todo"
    /\ phase[r] = "new" => ~aborted[r] /\ waiting[r] = Nobody
    /\ \A s \in Student :
         /\ item[r][s] \in {"looked", "unbooked"} => job[r].op = "assign"
         /\ item[r][s] \in {"found", "ok"} /\ job[r].op = "remove" =>
              target[r][s] \in Seat /\ seat[target[r][s]] # "absent"
    /\ aborted[r] => \E s \in job[r].students : item[r][s] = "failed"
    /\ waiting[r] # Nobody =>
         /\ phase[r] = "running" /\ ~aborted[r] /\ job[r].op = "remove"
         /\ waiting[r] \in job[r].students /\ item[r][waiting[r]] = "found"

IInv == /\ TypeOK /\ RowsAnswered /\ Doing /\ OneAtATime /\ Seen
        /\ SeatsFit /\ AnswersTell

-----------------------------------------------------------------------------
(* Types *)

\* The initial states have the right types and satisfy the rest.
LEMMA InitHolds == ASSUME Init PROVE IInv
<1>1. PICK c \in Scenarios : job = c[1] /\ first = c[2]  BY DEF Init
<1>2. TypeOK
  <2>1. <<job, first>> \in Scenarios  BY <1>1, EnrolmentAssumption
  <2>2. /\ seat \in [Seat -> {"absent", "active", "left"}]
        /\ target \in [Request -> [Student -> Seat \cup {NoSeat}]]
    BY DEF Init, Seat
  <2> QED  BY <2>1, <2>2 DEF Init, TypeOK
<1>3. RowsAnswered /\ Doing  BY <1>2, EnrolmentAssumption DEF Init, TypeOK, RowsAnswered, Doing, Seat
<1>4. OneAtATime /\ Seen  BY DEF Init, OneAtATime, Seen, Enrolling
<1>5. SeatsFit  BY <1>3 DEF Init, SeatsFit, RowsAnswered, Taken, Seat
<1>6. AnswersTell  BY DEF Init, AnswersTell
<1> QED  BY <1>2, <1>3, <1>4, <1>5, <1>6 DEF IInv

LEMMA TypesKept == ASSUME TypeOK, [Next]_vars PROVE TypeOK'
<1> USE DEF TypeOK, Given, Fail, Advance, Become
<1>1. ASSUME NEW r \in Request, NEW s \in Student, OfItem(r, s) PROVE TypeOK'
  <2>1. CASE Refuse(r, s)  BY <2>1 DEF Refuse
  <2>2. CASE LookGroup(r, s)  BY <2>2 DEF LookGroup
  <2>3. CASE GroupRefused(r, s)  BY <2>3 DEF GroupRefused
  <2>4. CASE LookClass(r, s)  BY <2>4 DEF LookClass
  <2>5. CASE ClassRefused(r, s)  BY <2>5 DEF ClassRefused
  <2>6. CASE LookHours(r, s)  BY <2>6 DEF LookHours
  <2>7. CASE HoursRefused(r, s)  BY <2>7 DEF HoursRefused
  <2>8. CASE Find(r, s)  BY <2>8 DEF Find
  <2>9. CASE NotAssigned(r, s)  BY <2>9 DEF NotAssigned
  <2>10. CASE Wait(r, s)  BY <2>10 DEF Wait
  <2>11. CASE Leave(r, s)  BY <2>11 DEF Leave
  <2>12. CASE FailInAborted(r, s)  BY <2>12 DEF FailInAborted
  <2> QED  BY <1>1, <2>1, <2>2, <2>3, <2>4, <2>5, <2>6, <2>7, <2>8, <2>9, <2>10, <2>11, <2>12
       DEF OfItem
<1>2. ASSUME NEW r \in Request, DeadlockVictim(r) PROVE TypeOK'
  BY <1>2 DEF DeadlockVictim
<1>3. ASSUME NEW r \in Request, Answer(r) PROVE TypeOK'  BY <1>3 DEF Answer
<1>4. ASSUME NEW r \in Request, Begin(r) PROVE TypeOK'  BY <1>4 DEF Begin
<1>5. ASSUME NEW r \in Request, RefuseAll(r) PROVE TypeOK'  BY <1>5 DEF RefuseAll
<1>6. ASSUME NEW r \in Request, Crash(r) PROVE TypeOK'  BY <1>6 DEF Crash
<1>7. ASSUME NEW gs \in SUBSET Group, DeleteGroups(gs) PROVE TypeOK'
  BY <1>7, EnrolmentAssumption DEF DeleteGroups
<1>8. ASSUME NEW gs \in SUBSET Group, RestoreGroups(gs) PROVE TypeOK'
  BY <1>8 DEF RestoreGroups
<1>9. ASSUME NEW r \in Request, NEW s \in Student, StatementFails(r, s) PROVE TypeOK'
  BY <1>9 DEF StatementFails
<1>10. CASE UNCHANGED vars  BY <1>10 DEF vars, Seat
<1> QED  BY <1>1, <1>2, <1>3, <1>4, <1>5, <1>6, <1>7, <1>8, <1>9, <1>10 DEF Next, Step

-----------------------------------------------------------------------------
(* Steps of one request with one student *)

\* What such a step may change, and what it has looked up.
ItemChange(r, s) ==
  /\ UNCHANGED <<job, first, seat, gone, phase, aborted, restored>>
  /\ phase[r] = "running" /\ s \in job[r].students /\ raced \subseteq raced'
  /\ item[r][s] # "failed"
  /\ \A q \in Request : \A t \in Student : q # r \/ t # s =>
       item'[q][t] = item[q][t] /\ target'[q][t] = target[q][t]
  /\ \A q \in Request \ {r} : waiting'[q] = waiting[q]
  /\ job[r].op = "assign" =>
       /\ waiting'[r] = waiting[r]
       /\ \/ item'[r][s] = "failed"
          \/ /\ item'[r][s] = "looked"
             /\ s \notin raced' => \A q \in Request : ~Enrolling(q, s)
          \/ item[r][s] = "looked" /\ item'[r][s] = "unbooked" /\ ~InClass(r, s)
          \/ item[r][s] = "unbooked" /\ item'[r][s] = "ok" /\ (job[r].skip \/ ~Clashes(r, s))
  /\ job[r].op = "remove" =>
       \/ item'[r][s] = "failed" /\ waiting'[r] = Nobody
       \/ /\ item'[r][s] = "found" /\ ~aborted[r]
          /\ target'[r][s] \in Seat /\ seat[target'[r][s]] # "absent"
          /\ waiting'[r] \in {s, Nobody}
       \/ /\ item[r][s] = "found" /\ item'[r][s] = "ok" /\ waiting'[r] = Nobody
          /\ target'[r][s] = target[r][s]

LEMMA ItemChanges ==
  ASSUME TypeOK, Doing, NEW r \in Request, NEW s \in Student, OfItem(r, s)
  PROVE  ItemChange(r, s)
<1> USE DEF ItemChange, Given, Fail, Advance, Become
<1>0. /\ item \in [Request -> [Student -> {"todo", "looked", "unbooked", "found", "ok", "failed"}]]
      /\ target \in [Request -> [Student -> Seat \cup {NoSeat}]]
      /\ waiting \in [Request -> Student \cup {Nobody}]
      /\ Nobody \notin Student
  BY EnrolmentAssumption DEF TypeOK
<1>a. aborted[r] => waiting[r] = Nobody  BY DEF Doing
<1>b. item[r][s] = "found" /\ job[r].op = "remove" =>
        target[r][s] \in Seat /\ seat[target[r][s]] # "absent"
  BY DEF Doing
<1>1. CASE Refuse(r, s)  BY <1>1, <1>0, <1>a, <1>b DEF Refuse, Works
<1>2. CASE LookGroup(r, s)  BY <1>2, <1>0, <1>a, <1>b DEF LookGroup, Works
<1>3. CASE GroupRefused(r, s)  BY <1>3, <1>0, <1>a, <1>b DEF GroupRefused, Works
<1>4. CASE LookClass(r, s)  BY <1>4, <1>0, <1>a, <1>b DEF LookClass, Works
<1>5. CASE ClassRefused(r, s)  BY <1>5, <1>0, <1>a, <1>b DEF ClassRefused, Works
<1>6. CASE LookHours(r, s)  BY <1>6, <1>0, <1>a, <1>b DEF LookHours, Works
<1>7. CASE HoursRefused(r, s)  BY <1>7, <1>0, <1>a, <1>b DEF HoursRefused, Works
<1>8. CASE Find(r, s)  BY <1>8, <1>0, <1>a, <1>b DEF Find, Works, Taken
<1>9. CASE NotAssigned(r, s)  BY <1>9, <1>0, <1>a, <1>b DEF NotAssigned, Works
<1>10. CASE Wait(r, s)  BY <1>10, <1>0, <1>a, <1>b DEF Wait, Works
<1>11. CASE Leave(r, s)  BY <1>11, <1>0, <1>a, <1>b DEF Leave
<1>12. CASE FailInAborted(r, s)  BY <1>12, <1>0, <1>a, <1>b DEF FailInAborted, Unsettled
<1> QED  BY OfItem(r, s), <1>1, <1>2, <1>3, <1>4, <1>5, <1>6, <1>7, <1>8, <1>9, <1>10, <1>11, <1>12
     DEF OfItem

\* Rows and requests go together after such a step.
LEMMA ItemKeepsRows ==
  ASSUME IInv, NEW r \in Request, NEW s \in Student, ItemChange(r, s)
  PROVE  RowsAnswered' /\ Doing'
<1> USE DEF IInv, ItemChange
<1>0. Nobody \notin Student /\ \A q \in Request : job[q].students \subseteq Student
  BY EnrolmentAssumption DEF TypeOK
<1>1. RowsAnswered'  BY DEF RowsAnswered
<1>2. Doing'
  <2> SUFFICES ASSUME NEW q \in Request
      PROVE  /\ phase[q] \in {"new", "lost"} => \A t \in Student : item'[q][t] = "todo"
             /\ phase[q] = "new" => ~aborted[q] /\ waiting'[q] = Nobody
             /\ \A t \in Student :
                  /\ item'[q][t] \in {"looked", "unbooked"} => job[q].op = "assign"
                  /\ item'[q][t] \in {"found", "ok"} /\ job[q].op = "remove" =>
                       target'[q][t] \in Seat /\ seat[target'[q][t]] # "absent"
             /\ aborted[q] => \E t \in job[q].students : item'[q][t] = "failed"
             /\ waiting'[q] # Nobody =>
                  /\ phase[q] = "running" /\ ~aborted[q] /\ job[q].op = "remove"
                  /\ waiting'[q] \in job[q].students /\ item'[q][waiting'[q]] = "found"
    BY DEF Doing
  <2>1. CASE q # r
    <3>1. \A t \in Student : item'[q][t] = item[q][t] /\ target'[q][t] = target[q][t]
      BY <2>1
    <3>2. aborted[q] => \E t \in job[q].students : item'[q][t] = "failed"
      BY <1>0, <3>1 DEF Doing
    <3> QED  BY <1>0, <2>1, <3>1, <3>2 DEF Doing
  <2>2. CASE q = r
    <3>1. job[r].op \in {"assign", "remove"}  BY EnrolmentAssumption DEF TypeOK
    <3>2. \A t \in Student \ {s} : item'[r][t] = item[r][t] /\ target'[r][t] = target[r][t]
      OBVIOUS
    <3>3. aborted[r] => \E t \in job[r].students : item'[r][t] = "failed"
      BY <1>0, <3>2 DEF Doing
    <3>4. CASE job[r].op = "assign"  BY <2>2, <3>2, <3>3, <3>4 DEF Doing
    <3>5. CASE job[r].op = "remove"  BY <2>2, <3>2, <3>3, <3>5, <1>0 DEF Doing
    <3> QED  BY <3>1, <3>4, <3>5
  <2> QED  BY <2>1, <2>2
<1> QED  BY <1>1, <1>2

\* So do the look-ups.
LEMMA ItemKeepsLooks ==
  ASSUME IInv, NEW r \in Request, NEW s \in Student, ItemChange(r, s)
  PROVE  OneAtATime' /\ Seen'
<1> USE DEF IInv, ItemChange
<1>0. job[r].op \in {"assign", "remove"}  BY EnrolmentAssumption DEF TypeOK
<1>1. \A q \in Request, t \in Student : Enrolling(q, t)' =>
        Enrolling(q, t) \/ (q = r /\ t = s /\ item'[r][s] = "looked" /\ job[r].op = "assign")
  BY DEF Enrolling
<1>2. OneAtATime'  BY <1>0, <1>1 DEF OneAtATime, Enrolling
<1>3. Seen'
  <2> SUFFICES ASSUME NEW t \in Student \ raced, NEW q \in Request, Enrolling(q, t)',
                      NEW p \in Request \cup {Nobody}, Taken(<<p, t>>)
               PROVE  SeenRow(q, t, <<p, t>>)'
    BY DEF Seen, Taken
  <2>1. CASE q # r \/ t # s
    BY <1>1, <2>1 DEF Seen, SeenRow, Away, GroupOf
  <2>2. CASE q = r /\ t = s
    <3>1. <<p, s>> \in Seat  BY DEF Seat
    <3>2. CASE item'[r][s] = "looked"  BY <2>2, <3>2 DEF SeenRow
    <3>3. CASE item[r][s] = "looked" /\ item'[r][s] = "unbooked" /\ ~InClass(r, s)
      BY <2>2, <3>1, <3>3 DEF SeenRow, InClass, Away, GroupOf
    <3>4. CASE item[r][s] = "unbooked" /\ item'[r][s] = "ok" /\ (job[r].skip \/ ~Clashes(r, s))
      <4>1. SeenRow(r, s, <<p, s>>)  BY <1>1, <2>2, <3>4 DEF Seen
      <4> QED  BY <2>2, <3>1, <3>4, <4>1 DEF SeenRow, Clashes, Away, GroupOf
    <3> QED  BY <2>2, <3>2, <3>3, <3>4 DEF Enrolling
  <2> QED  BY <2>1, <2>2
<1> QED  BY <1>2, <1>3

\* Committed rows and reports are not touched.
LEMMA ItemKeepsPromises ==
  ASSUME IInv, NEW r \in Request, NEW s \in Student, ItemChange(r, s)
  PROVE  SeatsFit' /\ AnswersTell'
<1> USE DEF IInv, ItemChange
<1>1. SeatsFit'  BY DEF SeatsFit, Fit, Skips, Taken, GroupOf
<1>2. AnswersTell'
  <2> SUFFICES ASSUME NEW q \in Request, phase[q] = "answered", NEW t \in job[q].students
      PROVE  /\ item'[q][t] = "ok" =>
                  \/ aborted[q] /\ Several(q)
                  \/ IF job[q].op = "assign" THEN seat[<<q, t>>] # "absent"
                                            ELSE seat[target'[q][t]] = "left"
             /\ job[q].op = "assign" /\ item'[q][t] = "failed" => seat[<<q, t>>] = "absent"
    BY DEF AnswersTell, Several
  <2>1. q # r /\ t \in Student  BY EnrolmentAssumption DEF TypeOK
  <2> QED  BY <2>1 DEF AnswersTell
<1> QED  BY <1>1, <1>2

LEMMA ItemStep ==
  ASSUME IInv, TypeOK', NEW r \in Request, NEW s \in Student, OfItem(r, s)
  PROVE  IInv'
<1>1. ItemChange(r, s)  BY ItemChanges DEF IInv
<1> QED  BY <1>1, ItemKeepsRows, ItemKeepsLooks, ItemKeepsPromises DEF IInv

-----------------------------------------------------------------------------
(* Steps of a request as a whole *)

LEMMA BeginStep == ASSUME IInv, TypeOK', NEW r \in Request, Begin(r) PROVE IInv'
<1> USE DEF IInv, Begin, Given
<1>1. RowsAnswered'  BY DEF RowsAnswered, TypeOK
<1>2. Doing'  BY DEF Doing, TypeOK
<1>3. \A q \in Request, s \in Student : Enrolling(q, s)' <=> Enrolling(q, s)
  BY DEF Enrolling, Doing, TypeOK
<1>4. OneAtATime'  BY <1>3 DEF OneAtATime
<1>5. Seen'  BY <1>3 DEF Seen, SeenRow, Away, Taken, GroupOf
<1>6. SeatsFit'  BY DEF SeatsFit, Fit, Skips, Taken, GroupOf
<1>7. AnswersTell'  BY DEF AnswersTell, Several, TypeOK
<1> QED  BY <1>1, <1>2, <1>4, <1>5, <1>6, <1>7

LEMMA RefuseAllStep == ASSUME IInv, TypeOK', NEW r \in Request, RefuseAll(r) PROVE IInv'
<1> USE DEF IInv, RefuseAll, Given
<1>0. \A s \in Student : seat[<<r, s>>] = "absent" /\ item'[r][s] = "failed"
  BY DEF RowsAnswered, TypeOK
<1>1. RowsAnswered'  BY <1>0 DEF RowsAnswered, TypeOK
<1>2. Doing'
  <2> SUFFICES ASSUME NEW q \in Request
      PROVE  /\ phase'[q] \in {"new", "lost"} => \A s \in Student : item'[q][s] = "todo"
             /\ phase'[q] = "new" => ~aborted[q] /\ waiting[q] = Nobody
             /\ \A s \in Student :
                  /\ item'[q][s] \in {"looked", "unbooked"} => job[q].op = "assign"
                  /\ item'[q][s] \in {"found", "ok"} /\ job[q].op = "remove" =>
                       target[q][s] \in Seat /\ seat[target[q][s]] # "absent"
             /\ aborted[q] => \E s \in job[q].students : item'[q][s] = "failed"
             /\ waiting[q] # Nobody =>
                  /\ phase'[q] = "running" /\ ~aborted[q] /\ job[q].op = "remove"
                  /\ waiting[q] \in job[q].students /\ item'[q][waiting[q]] = "found"
    BY DEF Doing
  <2>1. CASE q = r  BY <1>0, <2>1 DEF Doing, TypeOK
  <2>2. CASE q # r  BY <2>2 DEF Doing, TypeOK
  <2> QED  BY <2>1, <2>2
<1>3. \A q \in Request, s \in Student : Enrolling(q, s)' <=> Enrolling(q, s)
  BY <1>0 DEF Enrolling, Doing, TypeOK
<1>4. OneAtATime'  BY <1>3 DEF OneAtATime
<1>5. Seen'
  <2> SUFFICES ASSUME NEW s \in Student \ raced, NEW q \in Request, Enrolling(q, s)',
                      NEW p \in Request \cup {Nobody}, Taken(<<p, s>>)
               PROVE  SeenRow(q, s, <<p, s>>)'
    BY DEF Seen, Taken
  <2>1. q # r  BY <1>0 DEF Enrolling
  <2> QED  BY <1>3, <2>1 DEF Seen, SeenRow, Away, GroupOf, TypeOK
<1>6. SeatsFit'  BY DEF SeatsFit, Fit, Skips, Taken, GroupOf
<1>7. AnswersTell'
  <2> SUFFICES ASSUME NEW q \in Request, phase'[q] = "answered", NEW s \in job[q].students
      PROVE  /\ item'[q][s] = "ok" =>
                  \/ aborted[q] /\ Several(q)
                  \/ IF job[q].op = "assign" THEN seat[<<q, s>>] # "absent"
                                            ELSE seat[target[q][s]] = "left"
             /\ job[q].op = "assign" /\ item'[q][s] = "failed" => seat[<<q, s>>] = "absent"
    BY DEF AnswersTell, Several
  <2>0. s \in Student  BY EnrolmentAssumption DEF TypeOK
  <2>1. CASE q = r  BY <1>0, <2>0, <2>1
  <2>2. CASE q # r  BY <2>0, <2>2 DEF AnswersTell, TypeOK
  <2> QED  BY <2>1, <2>2
<1> QED  BY <1>1, <1>2, <1>4, <1>5, <1>6, <1>7

LEMMA CrashStep == ASSUME IInv, TypeOK', NEW r \in Request, Crash(r) PROVE IInv'
<1> USE DEF IInv, Crash, Given
<1>0. \A s \in Student : seat[<<r, s>>] = "absent" /\ item'[r][s] = "todo"
  BY DEF RowsAnswered, TypeOK
<1>1. RowsAnswered'  BY <1>0 DEF RowsAnswered, TypeOK
<1>2. Doing'
  <2> SUFFICES ASSUME NEW q \in Request
      PROVE  /\ phase'[q] \in {"new", "lost"} => \A s \in Student : item'[q][s] = "todo"
             /\ phase'[q] = "new" => ~aborted'[q] /\ waiting'[q] = Nobody
             /\ \A s \in Student :
                  /\ item'[q][s] \in {"looked", "unbooked"} => job[q].op = "assign"
                  /\ item'[q][s] \in {"found", "ok"} /\ job[q].op = "remove" =>
                       target'[q][s] \in Seat /\ seat[target'[q][s]] # "absent"
             /\ aborted'[q] => \E s \in job[q].students : item'[q][s] = "failed"
             /\ waiting'[q] # Nobody =>
                  /\ phase'[q] = "running" /\ ~aborted'[q] /\ job[q].op = "remove"
                  /\ waiting'[q] \in job[q].students /\ item'[q][waiting'[q]] = "found"
    BY DEF Doing
  <2>1. CASE q = r  BY <1>0, <2>1 DEF Doing, TypeOK
  <2>2. CASE q # r  BY <2>2 DEF Doing, TypeOK
  <2> QED  BY <2>1, <2>2
<1>3. \A q \in Request, s \in Student : Enrolling(q, s)' => Enrolling(q, s) /\ q # r
  BY <1>0 DEF Enrolling, TypeOK
<1>4. OneAtATime'  BY <1>3 DEF OneAtATime
<1>5. Seen'
  <2> SUFFICES ASSUME NEW s \in Student \ raced, NEW q \in Request, Enrolling(q, s)',
                      NEW p \in Request \cup {Nobody}, Taken(<<p, s>>)
               PROVE  SeenRow(q, s, <<p, s>>)'
    BY DEF Seen, Taken
  <2> QED  BY <1>3 DEF Seen, SeenRow, Away, GroupOf, TypeOK
<1>6. SeatsFit'  BY DEF SeatsFit, Fit, Skips, Taken, GroupOf
<1>7. AnswersTell'
  <2> SUFFICES ASSUME NEW q \in Request, phase'[q] = "answered", NEW s \in job[q].students
      PROVE  /\ item'[q][s] = "ok" =>
                  \/ aborted'[q] /\ Several(q)
                  \/ IF job[q].op = "assign" THEN seat[<<q, s>>] # "absent"
                                            ELSE seat[target'[q][s]] = "left"
             /\ job[q].op = "assign" /\ item'[q][s] = "failed" => seat[<<q, s>>] = "absent"
    BY DEF AnswersTell, Several
  <2>1. q # r /\ s \in Student  BY EnrolmentAssumption DEF TypeOK
  <2> QED  BY <2>1 DEF AnswersTell, TypeOK
<1> QED  BY <1>1, <1>2, <1>4, <1>5, <1>6, <1>7

\* A failing statement of one student, w, aborts the transaction.
LEMMA AbortStep ==
  ASSUME IInv, TypeOK', NEW r \in Request, NEW w \in job[r].students,
         phase[r] = "running", item[r][w] \in Unsettled,
         UNCHANGED <<job, first, seat, gone, phase, target, raced, restored>>,
         item' = [item EXCEPT ![r][w] = "failed"], waiting' = [waiting EXCEPT ![r] = Nobody],
         aborted' = [aborted EXCEPT ![r] = TRUE]
  PROVE  IInv'
<1> USE DEF IInv, Unsettled
<1>1. w \in Student  BY EnrolmentAssumption DEF TypeOK
<1>2. /\ item'[r][w] = "failed" /\ waiting'[r] = Nobody /\ aborted'[r]
      /\ \A t \in Student \ {w} : item'[r][t] = item[r][t]
      /\ \A q \in Request \ {r} : /\ item'[q] = item[q] /\ waiting'[q] = waiting[q]
                                  /\ aborted'[q] = aborted[q]
  BY <1>1 DEF TypeOK
<1>3. RowsAnswered'  BY <1>1, <1>2 DEF RowsAnswered, TypeOK
<1>4. Doing'
  <2> SUFFICES ASSUME NEW q \in Request
      PROVE  /\ phase[q] \in {"new", "lost"} => \A s \in Student : item'[q][s] = "todo"
             /\ phase[q] = "new" => ~aborted'[q] /\ waiting'[q] = Nobody
             /\ \A s \in Student :
                  /\ item'[q][s] \in {"looked", "unbooked"} => job[q].op = "assign"
                  /\ item'[q][s] \in {"found", "ok"} /\ job[q].op = "remove" =>
                       target[q][s] \in Seat /\ seat[target[q][s]] # "absent"
             /\ aborted'[q] => \E s \in job[q].students : item'[q][s] = "failed"
             /\ waiting'[q] # Nobody =>
                  /\ phase[q] = "running" /\ ~aborted'[q] /\ job[q].op = "remove"
                  /\ waiting'[q] \in job[q].students /\ item'[q][waiting'[q]] = "found"
    BY <1>2 DEF Doing
  <2>1. CASE q = r  BY <1>1, <1>2, <2>1 DEF Doing
  <2>2. CASE q # r  BY <1>2, <2>2 DEF Doing
  <2> QED  BY <2>1, <2>2
<1>5. \A q \in Request, s \in Student : Enrolling(q, s)' =>
        Enrolling(q, s) /\ item'[q][s] = item[q][s]
  BY <1>1, <1>2 DEF Enrolling
<1>6. OneAtATime'  BY <1>2, <1>5 DEF OneAtATime
<1>7. Seen'
  <2> SUFFICES ASSUME NEW s \in Student \ raced, NEW q \in Request, Enrolling(q, s)',
                      NEW p \in Request \cup {Nobody}, Taken(<<p, s>>)
               PROVE  SeenRow(q, s, <<p, s>>)'
    BY <1>2 DEF Seen, Taken
  <2> QED  BY <1>2, <1>5 DEF Seen, SeenRow, Away, GroupOf
<1>8. SeatsFit'  BY <1>2 DEF SeatsFit, Fit, Skips, Taken, GroupOf
<1>9. AnswersTell'
  <2> SUFFICES ASSUME NEW q \in Request, phase[q] = "answered", NEW s \in job[q].students
      PROVE  /\ item'[q][s] = "ok" =>
                  \/ aborted'[q] /\ Several(q)
                  \/ IF job[q].op = "assign" THEN seat[<<q, s>>] # "absent"
                                            ELSE seat[target[q][s]] = "left"
             /\ job[q].op = "assign" /\ item'[q][s] = "failed" => seat[<<q, s>>] = "absent"
    BY <1>2 DEF AnswersTell, Several
  <2>1. q # r /\ s \in Student  BY EnrolmentAssumption DEF TypeOK
  <2> QED  BY <1>2, <2>1 DEF AnswersTell
<1> QED  BY <1>3, <1>4, <1>6, <1>7, <1>8, <1>9

LEMMA VictimStep == ASSUME IInv, TypeOK', NEW r \in Request, DeadlockVictim(r) PROVE IInv'
<1>1. PICK w \in Student : w = waiting[r] /\ w # Nobody
  BY EnrolmentAssumption DEF DeadlockVictim, IInv, TypeOK
<1>2. phase[r] = "running" /\ w \in job[r].students /\ item[r][w] \in Unsettled
  BY <1>1 DEF IInv, Doing, Unsettled
<1>3. /\ UNCHANGED <<job, first, seat, gone, phase, target, raced, restored>>
      /\ item' = [item EXCEPT ![r][w] = "failed"] /\ waiting' = [waiting EXCEPT ![r] = Nobody]
      /\ aborted' = [aborted EXCEPT ![r] = TRUE]
  BY <1>1 DEF DeadlockVictim, Given
<1> QED  BY <1>2, <1>3, AbortStep

LEMMA FailureStep ==
  ASSUME IInv, TypeOK', NEW r \in Request, NEW s \in Student, StatementFails(r, s)
  PROVE  IInv'
<1>1. /\ s \in job[r].students /\ phase[r] = "running" /\ item[r][s] \in Unsettled
      /\ waiting[r] = Nobody
  BY DEF StatementFails, Works
<1>2. waiting' = [waiting EXCEPT ![r] = Nobody]
  BY <1>1 DEF StatementFails, IInv, TypeOK
<1> QED  BY <1>1, <1>2, AbortStep DEF StatementFails, Become, Given

LEMMA DeletedStep == ASSUME IInv, TypeOK', NEW gs \in SUBSET Group, DeleteGroups(gs) PROVE IInv'
<1> USE DEF IInv, DeleteGroups, Given
<1>1. RowsAnswered' /\ Doing' /\ AnswersTell'
  BY DEF RowsAnswered, Doing, AnswersTell, Several
<1>2. \A q \in Request, s \in Student : Enrolling(q, s)' <=> Enrolling(q, s)
  BY DEF Enrolling
<1>3. OneAtATime'  BY <1>2 DEF OneAtATime
<1>4. Seen'  BY <1>2 DEF Seen, SeenRow, Away, Taken, GroupOf
<1>5. SeatsFit'  BY DEF SeatsFit, Fit, Skips, Taken, GroupOf
<1> QED  BY <1>1, <1>3, <1>4, <1>5

LEMMA RestoredStep == ASSUME IInv, TypeOK', NEW gs \in SUBSET Group, RestoreGroups(gs) PROVE IInv'
<1> USE DEF IInv, RestoreGroups, Given
<1>0. gone \cup restored \subseteq gone' \cup restored'  OBVIOUS
<1>1. RowsAnswered' /\ Doing' /\ AnswersTell'
  BY DEF RowsAnswered, Doing, AnswersTell, Several
<1>2. \A q \in Request, s \in Student : Enrolling(q, s)' <=> Enrolling(q, s)
  BY DEF Enrolling
<1>3. OneAtATime'  BY <1>2 DEF OneAtATime
<1>4. Seen'  BY <1>0, <1>2 DEF Seen, SeenRow, Away, Taken, GroupOf
<1>5. SeatsFit'  BY <1>0 DEF SeatsFit, Fit, Skips, Taken, GroupOf
<1> QED  BY <1>1, <1>3, <1>4, <1>5

\* What a commit does to the rows.
LEMMA Committed ==
  ASSUME IInv, NEW r \in Request, Answer(r)
  PROVE  /\ \A x \in Seat : Taken(x)' => Taken(x) \/ Joined(r, x)
         /\ \A x \in Seat : seat[x] # "absent" => seat'[x] # "absent"
         /\ \A x \in Seat : seat[x] = "left" => seat'[x] = "left"
         /\ \A q \in Request, s \in Student :
              seat'[<<q, s>>] # "absent" => seat[<<q, s>>] # "absent" \/ Joined(r, <<q, s>>)
<1> USE DEF IInv, Answer
<1>1. \A x \in Seat : seat'[x] = IF Joined(r, x) THEN "active"
                                 ELSE IF Left(r, x) THEN "left" ELSE seat[x]
  OBVIOUS
<1>2. \A x \in Seat : Joined(r, x) => seat[x] = "absent"
  BY DEF Joined, RowsAnswered, Seat
<1>3. \A x \in Seat : Left(r, x) => seat[x] # "absent"
  <2> SUFFICES ASSUME NEW x \in Seat, Left(r, x) PROVE seat[x] # "absent"  OBVIOUS
  <2>1. PICK s \in job[r].students : item[r][s] = "ok" /\ target[r][s] = x /\ job[r].op = "remove"
    BY DEF Left, Holds
  <2>2. s \in Student  BY EnrolmentAssumption DEF TypeOK
  <2> QED  BY <2>1, <2>2 DEF Doing
<1> QED  BY <1>1, <1>2, <1>3 DEF Taken, Seat

LEMMA AnswerStep == ASSUME IInv, TypeOK', NEW r \in Request, Answer(r) PROVE IInv'
<1> USE DEF IInv, Answer, Given
<1>0. job[r].students \subseteq Student /\ \A q \in Request : job[q].students \subseteq Student
  BY EnrolmentAssumption DEF TypeOK
<1>1. \A q \in Request : q # r => phase'[q] = phase[q]
  BY DEF TypeOK
<1>2. phase'[r] = "answered"  BY DEF TypeOK
<1>3. waiting[r] = Nobody  BY DEF Settled, Doing
<1>4. RowsAnswered'
  <2> SUFFICES ASSUME NEW q \in Request, NEW s \in Student, seat'[<<q, s>>] # "absent"
      PROVE  /\ phase'[q] = "answered" /\ job[q].op = "assign"
             /\ s \in job[q].students /\ item[q][s] = "ok"
    BY DEF RowsAnswered
  <2>1. CASE seat[<<q, s>>] # "absent"  BY <1>1, <1>2, <2>1 DEF RowsAnswered
  <2>2. CASE Joined(r, <<q, s>>)  BY <1>2, <2>2 DEF Joined
  <2> QED  BY <2>1, <2>2, Committed
<1>5. Doing'
  <2> SUFFICES ASSUME NEW q \in Request
      PROVE  /\ phase'[q] \in {"new", "lost"} => \A s \in Student : item[q][s] = "todo"
             /\ phase'[q] = "new" => ~aborted[q] /\ waiting[q] = Nobody
             /\ \A s \in Student :
                  /\ item[q][s] \in {"looked", "unbooked"} => job[q].op = "assign"
                  /\ item[q][s] \in {"found", "ok"} /\ job[q].op = "remove" =>
                       target[q][s] \in Seat /\ seat'[target[q][s]] # "absent"
             /\ aborted[q] => \E s \in job[q].students : item[q][s] = "failed"
             /\ waiting[q] # Nobody =>
                  /\ phase'[q] = "running" /\ ~aborted[q] /\ job[q].op = "remove"
                  /\ waiting[q] \in job[q].students /\ item[q][waiting[q]] = "found"
    BY DEF Doing
  <2> QED  BY <1>1, <1>2, <1>3, Committed DEF Doing
<1>6. \A q \in Request, s \in Student : Enrolling(q, s)' => Enrolling(q, s) /\ q # r
  BY <1>1, <1>2 DEF Enrolling
<1>7. OneAtATime'  BY <1>6 DEF OneAtATime
<1>8. \A s \in Student : Joined(r, <<r, s>>) => Enrolling(r, s)
  BY DEF Joined, Enrolling
<1>9. Seen'
  <2> SUFFICES ASSUME NEW s \in Student \ raced, NEW q \in Request, Enrolling(q, s)',
                      NEW p \in Request \cup {Nobody}, Taken(<<p, s>>)'
               PROVE  SeenRow(q, s, <<p, s>>)'
    BY DEF Seen
  <2>1. Enrolling(q, s) /\ q # r  BY <1>6
  <2>2. <<p, s>> \in Seat  BY DEF Seat
  <2>3. ~Joined(r, <<p, s>>)  BY <1>8, <2>1 DEF OneAtATime, Joined
  <2>4. Taken(<<p, s>>)  BY <2>2, <2>3, Committed
  <2>5. SeenRow(q, s, <<p, s>>)  BY <2>1, <2>4 DEF Seen
  <2> QED  BY <2>5 DEF SeenRow, Away, GroupOf
<1>10. SeatsFit'
  <2> SUFFICES ASSUME NEW s \in Student \ raced, NEW p \in Request \cup {Nobody},
                      NEW q \in Request \cup {Nobody}, p # q,
                      Taken(<<p, s>>)', Taken(<<q, s>>)'
      PROVE  \/ {GroupOf(<<p, s>>), GroupOf(<<q, s>>)} \cap (gone \cup restored) # {}
             \/ Fit(<<p, s>>, <<q, s>>)
    BY DEF SeatsFit, Fit, Skips, GroupOf
  <2>1. <<p, s>> \in Seat /\ <<q, s>> \in Seat  BY DEF Seat
  <2>2. ASSUME NEW o \in Request \cup {Nobody}, Joined(r, <<r, s>>), Taken(<<o, s>>)
        PROVE  \/ Away(<<o, s>>)
               \/ /\ ClassOf[GroupOf(<<o, s>>)] # ClassOf[job[r].group]
                  /\ job[r].skip \/ <<job[r].group, GroupOf(<<o, s>>)>> \notin Clash
    BY <1>8, <2>2 DEF Seen, SeenRow, Joined
  <2>3. GroupOf(<<r, s>>) = job[r].group /\ (Skips(<<r, s>>) <=> job[r].skip)
    BY EnrolmentAssumption DEF GroupOf, Skips
  <2>4. CASE Taken(<<p, s>>) /\ Taken(<<q, s>>)  BY <2>4 DEF SeatsFit
  <2>5. CASE Joined(r, <<p, s>>)
    <3>0. p = r /\ ~Joined(r, <<q, s>>)  BY <2>5 DEF Joined
    <3>1. p = r /\ Taken(<<q, s>>)  BY <2>1, <3>0, Committed
    <3> QED  BY <2>2, <2>3, <2>5, <3>1 DEF Fit, Away
  <2>6. CASE Joined(r, <<q, s>>)
    <3>0. q = r /\ ~Joined(r, <<p, s>>)  BY <2>6 DEF Joined
    <3>1. q = r /\ Taken(<<p, s>>)  BY <2>1, <3>0, Committed
    <3>2. <<GroupOf(<<p, s>>), job[r].group>> \in Clash =>
            <<job[r].group, GroupOf(<<p, s>>)>> \in Clash
      BY EnrolmentAssumption
    <3> QED  BY <2>2, <2>3, <2>6, <3>1, <3>2 DEF Fit, Away
  <2> QED  BY <2>1, <2>4, <2>5, <2>6, Committed
<1>11. AnswersTell'
  <2> SUFFICES ASSUME NEW q \in Request, phase'[q] = "answered", NEW s \in job[q].students
      PROVE  /\ item[q][s] = "ok" =>
                  \/ aborted[q] /\ Several(q)
                  \/ IF job[q].op = "assign" THEN seat'[<<q, s>>] # "absent"
                                            ELSE seat'[target[q][s]] = "left"
             /\ job[q].op = "assign" /\ item[q][s] = "failed" => seat'[<<q, s>>] = "absent"
    BY DEF AnswersTell, Several
  <2>0. s \in Student /\ <<q, s>> \in Seat  BY <1>0 DEF Seat
  <2>1. /\ job[q].op \in {"assign", "remove"}
        /\ job[q].op = "remove" /\ item[q][s] = "ok" => target[q][s] \in Seat
    BY <2>0, EnrolmentAssumption DEF Doing, TypeOK
  <2>2. CASE q # r
    <3>1. phase[q] = "answered"  BY <1>1, <2>2
    <3>2. ~Joined(r, <<q, s>>)  BY <2>2 DEF Joined
    <3>3. seat'[<<q, s>>] # "absent" <=> seat[<<q, s>>] # "absent"
      <4>1. s \in Student  BY <2>0
      <4> QED  BY <2>0, <3>2, <4>1, Committed
    <3>4. \A x \in Seat : seat[x] = "left" => seat'[x] = "left"  BY Committed
    <3> QED  BY <2>1, <3>1, <3>3, <3>4 DEF AnswersTell
  <2>3. CASE q = r
    <3>1. item[r][s] = "ok" /\ aborted[r] => Several(r)
      <4>1. aborted[r] => \E t \in job[r].students : item[r][t] = "failed"  BY DEF Doing
      <4> QED  BY <2>3, <4>1 DEF Several
    <3>2. ASSUME job[r].op = "assign", item[r][s] = "ok", ~aborted[r]
          PROVE  seat'[<<r, s>>] # "absent"
      <4>1. Joined(r, <<r, s>>)  BY <2>3, <3>2 DEF Joined
      <4> QED  BY <2>0, <2>3, <4>1
    <3>3. ASSUME job[r].op # "assign", item[r][s] = "ok", ~aborted[r]
          PROVE  seat'[target[r][s]] = "left"
      <4>1. job[r].op = "remove"  BY <2>1, <2>3, <3>3
      <4>2. Left(r, target[r][s]) /\ ~Joined(r, target[r][s])
        BY <2>3, <3>3, <4>1 DEF Left, Holds, Joined
      <4> QED  BY <2>1, <2>3, <3>3, <4>1, <4>2
    <3>4. ASSUME item[r][s] = "failed" PROVE seat'[<<r, s>>] = "absent"
      <4>1. seat[<<r, s>>] = "absent" /\ s \in Student  BY <2>0 DEF RowsAnswered
      <4>2. ~Joined(r, <<r, s>>)  BY <3>4 DEF Joined
      <4> QED  BY <2>0, <4>1, <4>2, Committed
    <3> QED  BY <2>3, <3>1, <3>2, <3>3, <3>4
  <2> QED  BY <2>2, <2>3
<1> QED  BY <1>4, <1>5, <1>7, <1>9, <1>10, <1>11

-----------------------------------------------------------------------------
(* The theorems *)

LEMMA IInvKept == ASSUME IInv, [Next]_vars PROVE IInv'
<1>0. TypeOK'  BY TypesKept DEF IInv
<1>1. ASSUME NEW r \in Request, Step(r) PROVE IInv'
  BY <1>0, <1>1, ItemStep, FailureStep, VictimStep, AnswerStep DEF Step
<1>2. ASSUME NEW r \in Request, Begin(r) \/ RefuseAll(r) \/ Crash(r) PROVE IInv'
  BY <1>0, <1>2, BeginStep, RefuseAllStep, CrashStep
<1>3. ASSUME NEW gs \in SUBSET Group, DeleteGroups(gs) \/ RestoreGroups(gs) PROVE IInv'
  BY <1>0, <1>3, DeletedStep, RestoredStep
<1>4. CASE UNCHANGED vars
  <2>1. RowsAnswered' /\ Doing' /\ AnswersTell'
    BY <1>4 DEF vars, IInv, RowsAnswered, Doing, AnswersTell, Several
  <2>2. OneAtATime' /\ Seen'
    BY <1>4 DEF vars, IInv, OneAtATime, Seen, SeenRow, Away, Enrolling, Taken, GroupOf
  <2>3. SeatsFit'  BY <1>4 DEF vars, IInv, SeatsFit, Fit, Skips, Taken, GroupOf
  <2> QED  BY <1>0, <2>1, <2>2, <2>3 DEF IInv
<1> QED  BY <1>1, <1>2, <1>3, <1>4 DEF Next

\* The inductive invariant holds of every behaviour.
THEOREM EnrolmentInvHolds == Spec => []IInv
<1>1. Init => IInv  BY InitHolds
<1>2. IInv /\ [Next]_vars => IInv'  BY IInvKept
<1> QED  BY <1>1, <1>2, PTL DEF Spec

\* The look-ups of assignStudentToGroup keep a student in one group of a class and
\* out of overlapping timetables, for a student that no two requests were enrolling
\* at once: no removal, failure, crash or deletion of a group elsewhere breaks it.
THEOREM SeatsAlwaysFit == Spec => []SeatsFit
<1>1. IInv => SeatsFit  BY DEF IInv
<1> QED  BY <1>1, EnrolmentInvHolds, PTL

\* The report of executeBulk is what the transaction committed, but for a bulk of
\* several students whose transaction an error aborted.
THEOREM ReportsTell == Spec => []AnswersTell
<1>1. IInv => AnswersTell  BY DEF IInv
<1> QED  BY <1>1, EnrolmentInvHolds, PTL
=============================================================================
