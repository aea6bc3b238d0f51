------------------------------ MODULE Enrolment ------------------------------
(***************************************************************************)
(* Students join and leave groups: assignStudentToGroup, in bulk or alone, *)
(* removeStudentsFromGroup, and the soft deletion of groups.  A request is *)
(* one transaction on one connection; executeBulk works on its students    *)
(* concurrently, catches what goes wrong with each, and answers with a     *)
(* report.  A student may be in one group of a class only, and, unless the *)
(* caller skips the warning, not in two groups that meet at the same hour. *)
(* The database does not know either rule: each is a look-up before the    *)
(* insert.                                                                 *)
(***************************************************************************)
CONSTANTS
  Request, Student, Group,
  ClassOf,   \* the class of a group
  Clash,     \* pairs of groups whose timetables overlap
  Scenarios, \* what the requests ask for: [op, group, students, skip], and where
             \* the students are at the beginning
  Perishable, \* bound: the groups that may be deleted
  Nobody, NoSeat

ASSUME EnrolmentAssumption ==
  /\ Clash \subseteq Group \X Group
  /\ \A g, h \in Group : <<g, h>> \in Clash => <<h, g>> \in Clash
  /\ Scenarios \subseteq
       [Request -> [op : {"assign", "remove"}, group : Group,
                    students : SUBSET Student, skip : BOOLEAN]]
         \X [Student -> Group \cup {Nobody}]
  /\ Perishable \subseteq Group
  /\ Nobody \notin Student \cup Group \cup Request
  /\ NoSeat \notin (Request \cup {Nobody}) \X Student

VARIABLES
  job, first, \* chosen initially
  seat,       \* committed rows of group_students
  gone,       \* soft-deleted groups
  phase,      \* where a request is
  item,       \* what executeBulk is doing with a student of a request
  target,     \* the row a removal has found for a student
  waiting,    \* the student whose UPDATE waits for a row lock, if any
  aborted,    \* PostgreSQL has aborted the request's transaction
  raced,      \* history: students two requests were enrolling at one time
  restored    \* history: groups that have been restored

vars == <<job, first, seat, gone, phase, item, target, waiting, aborted, raced, restored>>

\* A row is named by the request that inserted it; Nobody inserted the first ones.
Seat == (Request \cup {Nobody}) \X Student
GroupOf(x) == IF x[1] = Nobody THEN first[x[2]] ELSE job[x[1]].group
Taken(x) == seat[x] = "active"

Init ==
  /\ \E c \in Scenarios : job = c[1] /\ first = c[2]
  /\ seat = [x \in Seat |->
               IF x[1] = Nobody /\ first[x[2]] # Nobody THEN "active" ELSE "absent"]
  /\ gone = {}
  /\ phase = [r \in Request |-> "new"]
  /\ item = [r \in Request |-> [s \in Student |-> "todo"]]
  /\ target = [r \in Request |-> [s \in Student |-> NoSeat]]
  /\ waiting = [r \in Request |-> Nobody]
  /\ aborted = [r \in Request |-> FALSE]
  /\ raced = {} /\ restored = {}

Given == UNCHANGED <<job, first>>
Become(r, s, to) == item' = [item EXCEPT ![r][s] = to]
\* The queries of one transaction share a connection: behind one that waits,
\* all wait.
Works(r, s, op, at) ==
  /\ phase[r] = "running" /\ ~aborted[r] /\ waiting[r] = Nobody
  /\ job[r].op = op /\ s \in job[r].students /\ item[r][s] = at

Begin(r) ==
  /\ phase[r] = "new" /\ job[r].students # {}
  /\ job[r].op = "assign" \/ job[r].group \notin gone
  /\ phase' = [phase EXCEPT ![r] = "running"]
  /\ Given /\ UNCHANGED <<seat, gone, item, target, waiting, aborted, raced, restored>>

\* An empty list is refused; removeStudentsFromGroup reads the group first, and
\* fails as a whole.
RefuseAll(r) ==
  /\ phase[r] = "new"
  /\ job[r].students = {} \/ (job[r].op = "remove" /\ job[r].group \in gone)
  /\ phase' = [phase EXCEPT ![r] = "answered"]
  /\ item' = [item EXCEPT ![r] = [s \in Student |-> "failed"]]
  /\ Given /\ UNCHANGED <<seat, gone, target, waiting, aborted, raced, restored>>

Fail(r, s) ==
  /\ Become(r, s, "failed")
  /\ Given /\ UNCHANGED <<seat, gone, phase, target, waiting, aborted, raced, restored>>

\* Access, an inactive profile, centre or branch, a class that is over, or a
\* timetable that overlaps itself.
Refuse(r, s) ==
  /\ \/ \E op \in {"assign", "remove"} : Works(r, s, op, "todo")
     \/ Works(r, s, "assign", "unbooked")
  /\ Fail(r, s)

-----------------------------------------------------------------------------
(* assignStudentToGroup *)

Enrolling(q, s) ==
  /\ phase[q] = "running" /\ job[q].op = "assign"
  /\ item[q][s] \in {"looked", "unbooked", "ok"}

Advance(r, s, to) ==
  /\ Become(r, s, to)
  /\ Given /\ UNCHANGED <<seat, gone, phase, target, waiting, aborted, raced, restored>>

InGroup(r, s) == \E x \in Seat : x[2] = s /\ Taken(x) /\ GroupOf(x) = job[r].group
LookGroup(r, s) ==
  /\ Works(r, s, "assign", "todo")
  /\ job[r].group \notin gone /\ ~InGroup(r, s)
  /\ Become(r, s, "looked")
  /\ raced' = IF \E q \in Request : Enrolling(q, s) THEN raced \cup {s} ELSE raced
  /\ Given /\ UNCHANGED <<seat, gone, phase, target, waiting, aborted, restored>>
GroupRefused(r, s) ==
  /\ Works(r, s, "assign", "todo") /\ (job[r].group \in gone \/ InGroup(r, s))
  /\ Fail(r, s)

\* Deleted groups do not count, here and below.
InClass(r, s) ==
  \E x \in Seat : /\ x[2] = s /\ Taken(x) /\ GroupOf(x) \notin gone
                  /\ ClassOf[GroupOf(x)] = ClassOf[job[r].group]
\* Mutant: only the group itself is looked at.
LookClass_AnyGroup(r, s) == Works(r, s, "assign", "looked") /\ Advance(r, s, "unbooked")
LookClass(r, s) ==
  /\ Works(r, s, "assign", "looked") /\ ~InClass(r, s)
  /\ Advance(r, s, "unbooked")
ClassRefused(r, s) == Works(r, s, "assign", "looked") /\ InClass(r, s) /\ Fail(r, s)

Clashes(r, s) ==
  \E x \in Seat : /\ x[2] = s /\ Taken(x) /\ GroupOf(x) \notin gone
                  /\ <<job[r].group, GroupOf(x)>> \in Clash
\* With the INSERT, which nobody sees before the commit.
LookHours(r, s) ==
  /\ Works(r, s, "assign", "unbooked") /\ (job[r].skip \/ ~Clashes(r, s))
  /\ Advance(r, s, "ok")
HoursRefused(r, s) ==
  /\ Works(r, s, "assign", "unbooked") /\ ~job[r].skip /\ Clashes(r, s)
  /\ Fail(r, s)

-----------------------------------------------------------------------------
(* removeStudentsFromGroup *)

Find(r, s) ==
  /\ Works(r, s, "remove", "todo")
  /\ \E x \in Seat :
       /\ x[2] = s /\ Taken(x) /\ GroupOf(x) = job[r].group
       /\ target' = [target EXCEPT ![r][s] = x]
  /\ Become(r, s, "found")
  /\ Given /\ UNCHANGED <<seat, gone, phase, waiting, aborted, raced, restored>>
NotAssigned(r, s) == Works(r, s, "remove", "todo") /\ ~InGroup(r, s) /\ Fail(r, s)

\* Who has written a row and not ended yet.
Holds(q, x) ==
  /\ phase[q] = "running" /\ ~aborted[q] /\ job[q].op = "remove"
  /\ \E s \in job[q].students : item[q][s] = "ok" /\ target[q][s] = x
LockedFor(r, s) == \E q \in Request \ {r} : Holds(q, target[r][s])

Wait(r, s) ==
  /\ Works(r, s, "remove", "found") /\ LockedFor(r, s)
  /\ waiting' = [waiting EXCEPT ![r] = s]
  /\ Given /\ UNCHANGED <<seat, gone, phase, item, target, aborted, raced, restored>>

\* The UPDATE of leftAt.
Leave(r, s) ==
  /\ phase[r] = "running" /\ ~aborted[r] /\ waiting[r] \in {s, Nobody}
  /\ job[r].op = "remove" /\ s \in job[r].students /\ item[r][s] = "found"
  /\ ~LockedFor(r, s)
  /\ Become(r, s, "ok")
  /\ waiting' = [waiting EXCEPT ![r] = Nobody]
  /\ Given /\ UNCHANGED <<seat, gone, phase, target, aborted, raced, restored>>

\* Where a student is for whom nothing has been decided.
Unsettled == {"todo", "looked", "unbooked", "found"}

\* Two removals of the same students in a different order.  PostgreSQL aborts
\* one of a ring; the catch of executeBulk reports the one student, and every
\* later statement fails.
Awaits(d, e) == waiting[d] # Nobody /\ Holds(e, target[d][waiting[d]])
Ring(D) ==
  \A d \in D : (\E e \in D \ {d} : Awaits(d, e)) /\ (\E e \in D \ {d} : Awaits(e, d))
DeadlockVictim(r) ==
  /\ waiting[r] # Nobody
  /\ \E D \in SUBSET Request : r \in D /\ Ring(D)
  /\ item' = [item EXCEPT ![r][waiting[r]] = "failed"]
  /\ waiting' = [waiting EXCEPT ![r] = Nobody]
  /\ aborted' = [aborted EXCEPT ![r] = TRUE]
  /\ Given /\ UNCHANGED <<seat, gone, phase, target, raced, restored>>

\* A statement of one student fails, which aborts the transaction for all.
StatementFails(r, s) ==
  /\ \E op \in {"assign", "remove"}, at \in Unsettled : Works(r, s, op, at)
  /\ Become(r, s, "failed")
  /\ aborted' = [aborted EXCEPT ![r] = TRUE]
  /\ Given /\ UNCHANGED <<seat, gone, phase, target, waiting, raced, restored>>

\* Mutant: a student whose statement fails never settles.
FailInAborted_Never(r, s) == FALSE /\ Fail(r, s)
FailInAborted(r, s) ==
  /\ phase[r] = "running" /\ aborted[r]
  /\ s \in job[r].students /\ item[r][s] \in Unsettled
  /\ Fail(r, s)

-----------------------------------------------------------------------------
(* The end of a request: executeBulk returns its report, and the COMMIT of *)
(* an aborted transaction rolls it back without an error.                  *)

Settled(r) == \A s \in job[r].students : item[r][s] \in {"ok", "failed"}
Joined(r, x) ==
  /\ ~aborted[r] /\ job[r].op = "assign"
  /\ x[1] = r /\ x[2] \in job[r].students /\ item[r][x[2]] = "ok"
Left(r, x) == Holds(r, x)

\* Mutant: one failure rolls the whole request back.
Answer_AllOrNothing(r) ==
  /\ phase[r] = "running" /\ Settled(r)
  /\ phase' = [phase EXCEPT ![r] = "answered"]
  /\ seat' = [x \in Seat |->
               IF \E s \in job[r].students : item[r][s] = "failed" THEN seat[x]
               ELSE IF Joined(r, x) THEN "active" ELSE IF Left(r, x) THEN "left" ELSE seat[x]]
  /\ Given /\ UNCHANGED <<gone, item, target, waiting, aborted, raced, restored>>
Answer(r) ==
  /\ phase[r] = "running" /\ Settled(r)
  /\ phase' = [phase EXCEPT ![r] = "answered"]
  /\ seat' = [x \in Seat |-> IF Joined(r, x) THEN "active"
                             ELSE IF Left(r, x) THEN "left" ELSE seat[x]]
  /\ Given /\ UNCHANGED <<gone, item, target, waiting, aborted, raced, restored>>

\* The process or its connection dies; the transaction is rolled back.
Crash(r) ==
  /\ phase[r] = "running"
  /\ phase' = [phase EXCEPT ![r] = "lost"]
  /\ item' = [item EXCEPT ![r] = [s \in Student |-> "todo"]]
  /\ target' = [target EXCEPT ![r] = [s \in Student |-> NoSeat]]
  /\ waiting' = [waiting EXCEPT ![r] = Nobody]
  /\ aborted' = [aborted EXCEPT ![r] = FALSE]
  /\ Given /\ UNCHANGED <<seat, gone, raced, restored>>

DeleteGroups(gs) ==
  /\ gs \subseteq Perishable \ gone /\ gs # {}
  /\ gone' = gone \cup gs
  /\ Given /\ UNCHANGED <<seat, phase, item, target, waiting, aborted, raced, restored>>
RestoreGroups(gs) ==
  /\ gs \subseteq gone /\ gs # {}
  /\ gone' = gone \ gs /\ restored' = restored \cup gs
  /\ Given /\ UNCHANGED <<seat, phase, item, target, waiting, aborted, raced>>

OfItem(r, s) ==
  \/ Refuse(r, s)
  \/ LookGroup(r, s) \/ GroupRefused(r, s) \/ LookClass(r, s) \/ ClassRefused(r, s)
  \/ LookHours(r, s) \/ HoursRefused(r, s)
  \/ Find(r, s) \/ NotAssigned(r, s) \/ Wait(r, s) \/ Leave(r, s) \/ FailInAborted(r, s)
Step(r) ==
  /\ phase[r] = "running"
  /\ (\E s \in Student : OfItem(r, s) \/ StatementFails(r, s)) \/ DeadlockVictim(r) \/ Answer(r)

Next ==
  \/ \E r \in Request : Begin(r) \/ RefuseAll(r) \/ Step(r) \/ Crash(r)
  \/ \E gs \in SUBSET Group : DeleteGroups(gs) \/ RestoreGroups(gs)

\* A query that has answered resumes its await, a lock that is free is granted,
\* and PostgreSQL looks for deadlocks.
Fairness == \A r \in Request : WF_vars(Step(r))
Spec == Init /\ [][Next]_vars /\ Fairness
-----------------------------------------------------------------------------
(* What holds *)

TypeOK ==
  /\ <<job, first>> \in Scenarios
  /\ seat \in [Seat -> {"absent", "active", "left"}]
  /\ gone \subseteq Group /\ restored \subseteq Group /\ raced \subseteq Student
  /\ phase \in [Request -> {"new", "running", "answered", "lost"}]
  /\ item \in [Request -> [Student -> {"todo", "looked", "unbooked", "found", "ok",
                                       "failed"}]]
  /\ target \in [Request -> [Student -> Seat \cup {NoSeat}]]
  /\ waiting \in [Request -> Student \cup {Nobody}]
  /\ aborted \in [Request -> BOOLEAN]

Skips(x) == x[1] # Nobody /\ job[x[1]].skip
Fit(x, y) ==
  /\ ClassOf[GroupOf(x)] # ClassOf[GroupOf(y)]
  /\ Skips(x) \/ Skips(y) \/ <<GroupOf(x), GroupOf(y)>> \notin Clash

\* A student is in one group of a class, and in no two groups that meet at one
\* hour unless somebody skipped the warning: assignStudentToGroup keeps this by
\* look-ups alone, for a student nobody else was enrolling at the same time and
\* groups that are neither deleted nor came back.
SeatsFit ==
  \A s \in Student \ raced : \A q, r \in Request \cup {Nobody} :
    (q # r /\ Taken(<<q, s>>) /\ Taken(<<r, s>>)) =>
      \/ {GroupOf(<<q, s>>), GroupOf(<<r, s>>)} \cap (gone \cup restored) # {}
      \/ Fit(<<q, s>>, <<r, s>>)

\* The report of executeBulk is what was committed: who is reported as joined has
\* a row, who is reported as removed has left, and who failed to join has none.
\* The exception is a bulk of several whose transaction was aborted, by a deadlock
\* or another error: the rollback does not correct its report.
Several(r) == \E s, t \in job[r].students : s # t
AnswersTell ==
  \A r \in Request : phase[r] = "answered" =>
    \A s \in job[r].students :
      /\ item[r][s] = "ok" =>
           \/ aborted[r] /\ Several(r)
           \/ IF job[r].op = "assign" THEN seat[<<r, s>>] # "absent"
                                     ELSE seat[target[r][s]] = "left"
      /\ job[r].op = "assign" /\ item[r][s] = "failed" => seat[<<r, s>>] = "absent"

\* Every request is answered or lost: no student of a bulk operation keeps the
\* others from settling, and no ring of row locks lasts.
EveryRequestAnswered == <>[](\A r \in Request : phase[r] # "running")
=============================================================================
