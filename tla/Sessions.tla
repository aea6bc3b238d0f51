------------------------------ MODULE Sessions ------------------------------
(* The lessons of one group: SessionsService, SessionsController's status      *)
(* endpoint, AttendanceService and SessionsCleanupJob, working on the rows of  *)
(* the tables sessions, attendance and group_students.                         *)
(*                                                                             *)
(* A lesson of the timetable has no row until somebody checks it in, cancels   *)
(* it or the job finds that it was missed: it is virtual, named by its slot.   *)
(* Every request runs in one READ COMMITTED transaction without locks, so what *)
(* one statement reads may be old when the next one uses it; the statements of *)
(* a request are the values of its pc:                                         *)
(*   match     a virtual lesson looks for its schedule item and its row        *)
(*   again     checkInSession calls itself for the row it found there          *)
(*   count     finishSession counts the students without a mark                *)
(*   conflict  a new time is compared with the rows there are                  *)
(*   copy      BaseRepository.update loads the whole row                       *)
(*   save      TypeORM writes every column in which that copy differs from the *)
(*             row, or inserts the copy when the row is gone; then the commit  *)
(*   insert    a new row is inserted and committed                             *)
(*   remove, mark, markAbsent   the last statements of the other requests      *)
EXTENDS Integers, FiniteSets

CONSTANTS
  Timetable,   \* the start times given by the group's schedule items
  Extra,       \* the other start times a request may ask for
  Horizon,     \* bound: the last instant of the clock
  Lead,        \* how long before its start a lesson can be checked in
  Grace,       \* how long after its start a lesson may still be SCHEDULED
  Window,      \* how far the job looks back for lessons without a row
  Duration,    \* the class's duration
  Ids,         \* bound: 1 .. n, the rows that can ever be inserted
  Students,
  Users,       \* the requests in flight
  Openings,    \* the rows there are when the model starts
  MaxRequests, \* bound: how many requests there are
  MaxPayouts,  \* bound: payout records of one session are counted up to it
  PayUnit      \* what the class's teacher is paid for

ASSUME SessionsAssumption ==
  /\ Timetable \subseteq Nat \ {0} /\ Extra \subseteq Nat \ {0}
  /\ Timetable \cap Extra = {}
  /\ {Horizon, Lead, Grace, Window, Duration, MaxRequests} \subseteq Nat
  /\ MaxPayouts \in Nat \ {0}
  /\ Ids \subseteq Nat \ {0} /\ IsFiniteSet(Ids)
  /\ IsFiniteSet(Students)
  /\ PayUnit \in {"session", "student", "month"}

\* A row as it is inserted, before anybody works on it further.
RowAt(slot, status, extra) ==
  [at |-> slot, status |-> status, extra |-> extra, tally |-> 0, cleared |-> {}]

\* The row with another start and status.
Put(row, slot, status) ==
  [at |-> slot, status |-> status, extra |-> row.extra, tally |-> row.tally,
   cleared |-> row.cleared]

Slots == Timetable \cup Extra

SessionStatus ==
  {"SCHEDULED", "CHECKING_IN", "CONDUCTING", "FINISHED", "CANCELED", "MISSED"}

\* tally stands for the totals of the marks the row stores; cleared is history:
\* the students who were enrolled when the lesson was finished.
Row == [at: Slots, status: SessionStatus, extra: BOOLEAN, tally: Nat,
        cleared: SUBSET Students]
New  == [at |-> 0, status |-> "new"]     \* an id no row has had yet
Gone == [at |-> 0, status |-> "gone"]    \* the id of a deleted row

\* No two opening rows share a start, and no lesson is over yet.
ASSUME OpeningsAssumption ==
  \A s \in Openings :
    /\ s \in [Ids -> Row \cup {New}]
    /\ \A i, j \in Ids : s[i] # New /\ s[j] # New /\ s[i].at = s[j].at => i = j
    /\ \A i \in Ids : s[i].status # "FINISHED"

\* SessionStateMachine.TRANSITIONS, for the statuses a request may ask for.
TRANSITIONS ==
  {<<"SCHEDULED", "checkIn">>, <<"CHECKING_IN", "start">>,
   <<"CONDUCTING", "finish">>, <<"SCHEDULED", "cancel">>,
   <<"CHECKING_IN", "cancel">>, <<"CONDUCTING", "cancel">>,
   <<"CANCELED", "schedule">>}

target == [checkIn |-> "CHECKING_IN", start |-> "CONDUCTING",
           finish |-> "FINISHED", cancel |-> "CANCELED",
           schedule |-> "SCHEDULED"]

VARIABLES
  asked,       \* how many requests there were
  clock,
  session,     \* the rows, by id
  mark,        \* attendance: "none", "present" (or late), "absent", by id and student
  enrolled,    \* the students of group_students with leftAt IS NULL
  payouts,     \* teacher payout records, by session id
  pc, req,     \* where each request is, and what it asks for
  copy,        \* the row BaseRepository.update loaded for the request
  seen,        \* the students a query of the request returned
  job,         \* the cleanup job's next statement
  stale,       \* the ids it found SCHEDULED and too old
  erased       \* history: the ids of deleted rows

vars == <<asked, clock, session, mark, enrolled, payouts, pc, req, copy, seen, job,
          stale, erased>>
rows == <<session, mark, payouts, erased>>
work == <<pc, req, copy, seen>>
cleanup == <<job, stale>>

Live == {i \in Ids : session[i].status \in SessionStatus}
Fresh == {i \in Ids : session[i] = New}
NextId(i) == i \in Fresh /\ \A j \in Fresh : i =< j
At(slot) == {i \in Live : session[i].at = slot}
Virtual == {t \in Timetable : At(t) = {}}
Marked(i) == {a \in Students : mark[i][a] # "none"}

\* findOverlappingSessions and findOverlappingSessionsByGroup: any status counts.
Overlapping(slot, except) ==
  {i \in Live \ {except} : /\ session[i].at < slot + Duration
                           /\ session[i].at + Duration > slot}

\* A request: the operation, the row's id or 0, the start time or 0.
Ask(op, id, at) == [op |-> op, id |-> id, at |-> at]
NoRequest == Ask("none", 0, 0)

SessionsInit ==
  /\ asked = 0
  /\ clock = 0
  /\ session \in Openings
  /\ mark = [i \in Ids |-> [a \in Students |-> "none"]]
  /\ enrolled = Students
  /\ payouts = [i \in Ids |-> 0]
  /\ pc = [u \in Users |-> "idle"]
  /\ req = [u \in Users |-> NoRequest]
  /\ copy = [u \in Users |-> New]
  /\ seen = [u \in Users |-> {}]
  /\ job = "idle"
  /\ stale = {}
  /\ erased = {}

(* Requests                                                                    *)

\* Bound: no request takes the id of a virtual lesson, which the job may still insert.
Room == Cardinality(Fresh) >= Cardinality(Virtual)

Begin(u, r, next) ==
  /\ pc[u] = "idle"
  /\ asked < MaxRequests /\ asked' = asked + 1
  /\ req' = [req EXCEPT ![u] = r]
  /\ pc' = [pc EXCEPT ![u] = next]
  /\ UNCHANGED <<clock, rows, enrolled, copy, cleanup>>

Goto(u, next) == pc' = [pc EXCEPT ![u] = next]

\* The request's answer, or its error: nothing of it is kept.
Answer(u) ==
  /\ pc' = [pc EXCEPT ![u] = "idle"]
  /\ req' = [req EXCEPT ![u] = NoRequest]
  /\ copy' = [copy EXCEPT ![u] = New]
  /\ seen' = [seen EXCEPT ![u] = {}]

\* The status the service insists on when it loads the row.
Accepted(op) ==
  CASE op = "checkIn"  -> {"SCHEDULED"}
    [] op = "start"    -> {"CHECKING_IN"}
    [] op = "finish"   -> {"CONDUCTING"}
    [] op = "schedule" -> {"CANCELED"}

\* PATCH :sessionId/status on a row. All but cancelSession read the row again and
\* insist on its status; cancelSession relies on the endpoint's look at the
\* transitions and takes the row as it then finds it.
Transition(u) ==
  /\ \E i \in Live, op \in DOMAIN target :
       /\ <<session[i].status, op>> \in TRANSITIONS
       /\ op # "cancel" => session[i].status \in Accepted(op)
       /\ Begin(u, Ask(op, i, 0), IF op = "finish" THEN "count" ELSE "copy")
  /\ UNCHANGED seen

\* The same on a lesson without a row, which the endpoint takes as SCHEDULED.
TransitionVirtual(u) ==
  /\ \E t \in Virtual, op \in DOMAIN target :
       /\ <<"SCHEDULED", op>> \in TRANSITIONS
       /\ Begin(u, Ask(op, 0, t), "match")
  /\ UNCHANGED seen

\* createExtraSession: the start may not be in the past.
CreateExtra(u) ==
  /\ \E t \in Slots :
       /\ t >= clock
       /\ Begin(u, Ask("create", 0, t), "conflict")
  /\ UNCHANGED seen

\* updateSession to a new time; one that changes neither start nor end is not
\* compared with other rows.
Move(u) ==
  /\ \E i \in Live, t \in Slots, next \in {"conflict", "copy"} :
       /\ session[i].status = "SCHEDULED"
       /\ t >= clock
       /\ next = "copy" => t = session[i].at
       /\ Begin(u, Ask("move", i, t), next)
  /\ UNCHANGED seen

\* deleteSession, with validateSessionDeletion.
Delete(u) ==
  /\ \E i \in Live :
       /\ session[i].status = "SCHEDULED" /\ session[i].extra
       /\ Begin(u, Ask("delete", i, 0), "remove")
  /\ UNCHANGED seen

\* validateSessionAndAccess
Active(i) == session[i].status \in {"CHECKING_IN", "CONDUCTING"}

\* markAttendance of a student of the group who has no mark; markAllAbsent of
\* every student who has none.
TakeAttendance(u) ==
  \E i \in Live, op \in {"mark", "markAbsent"} :
    /\ Active(i)
    /\ IF op = "mark"
       THEN \E a \in enrolled \ Marked(i) : seen' = [seen EXCEPT ![u] = {a}]
       ELSE /\ enrolled \ Marked(i) # {}
            /\ seen' = [seen EXCEPT ![u] = enrolled \ Marked(i)]
    /\ Begin(u, Ask(op, i, 0), op)

(* What the service reads before it writes                                     *)

\* findMatchingScheduleItemForStartSession takes the day's earliest item whose
\* check-in is open, whatever slot was asked for; cancelling takes the slot itself.
Matching(u) ==
  IF req[u].op = "cancel" THEN {req[u].at}
  ELSE {t \in Timetable : /\ clock >= t - Lead
                          /\ \A s \in Timetable : clock >= s - Lead => t =< s}

\* The row found at the matching slot is checked in or cancelled instead;
\* without one a row is inserted there.
Match(u) ==
  /\ pc[u] = "match"
  /\ \E t \in Matching(u) :
       \/ \E i \in At(t) :
            /\ req' = [req EXCEPT ![u] = Ask(req[u].op, i, 0)]
            /\ Goto(u, IF req[u].op = "cancel" THEN "copy" ELSE "again")
       \/ /\ At(t) = {}
          /\ req' = [req EXCEPT ![u] = Ask(req[u].op, 0, t)]
          /\ Goto(u, "insert")
  /\ UNCHANGED <<asked, clock, rows, enrolled, copy, seen, cleanup>>

\* checkInSession calls itself for the row it found.
Again(u) ==
  /\ pc[u] = "again"
  /\ req[u].id \in Live
  /\ session[req[u].id].status \in Accepted("checkIn")
  /\ Goto(u, "copy")
  /\ UNCHANGED <<asked, clock, rows, enrolled, req, copy, seen, cleanup>>

\* getUnmarkedStudentCount: no enrolled student may be without a mark.  Mutant:
\* the count is not looked at.
Count_Ignored(u) ==
  /\ pc[u] = "count"
  /\ seen' = [seen EXCEPT ![u] = enrolled]
  /\ Goto(u, "copy")
  /\ UNCHANGED <<asked, clock, rows, enrolled, req, copy, cleanup>>
Count(u) ==
  /\ pc[u] = "count"
  /\ enrolled \subseteq Marked(req[u].id)
  /\ seen' = [seen EXCEPT ![u] = enrolled]
  /\ Goto(u, "copy")
  /\ UNCHANGED <<asked, clock, rows, enrolled, req, copy, cleanup>>

\* validateTeacherConflict and validateGroupConflict.
Conflict(u) ==
  /\ pc[u] = "conflict"
  /\ Overlapping(req[u].at, req[u].id) = {}
  /\ Goto(u, IF req[u].op = "create" THEN "insert" ELSE "copy")
  /\ UNCHANGED <<asked, clock, rows, enrolled, req, copy, seen, cleanup>>

\* BaseRepository.update loads the row again.  Mutant: it does not ask whether
\* there is one.
Copy_Unchecked(u) ==
  /\ pc[u] = "copy"
  /\ copy' = [copy EXCEPT ![u] = session[req[u].id]]
  /\ Goto(u, "save")
  /\ UNCHANGED <<asked, clock, rows, enrolled, req, seen, cleanup>>
Copy(u) ==
  /\ pc[u] = "copy"
  /\ req[u].id \in Live
  /\ copy' = [copy EXCEPT ![u] = session[req[u].id]]
  /\ Goto(u, "save")
  /\ UNCHANGED <<asked, clock, rows, enrolled, req, seen, cleanup>>

\* A refused check, an access rule, a lost connection or a crash: the transaction
\* is rolled back. A listener of SESSION.FINISHED whose statement fails swallows
\* the error, and COMMIT rolls the aborted transaction back all the same.
Abandon(u) ==
  /\ pc[u] # "idle"
  /\ Answer(u)
  /\ UNCHANGED <<asked, clock, rows, enrolled, cleanup>>

(* What it writes                                                              *)

\* The unique index on (groupId, startTime).  Mutant: the index is not unique.
Unique_Plain(slot, id) == TRUE
Unique(slot, id) == At(slot) \subseteq {id}

\* The payouts SessionsListener creates for a finished session. The count of
\* students it needs per student is 0: the query names attendance."deletedAt",
\* a column the table has not, and its error is answered with 0.
PayoutsDue == IF PayUnit = "session" THEN 1 ELSE 0

AtMost(n) == IF n > MaxPayouts THEN MaxPayouts ELSE n

\* SessionAttendanceListener stores the totals of the marks.
Settled(row, i, counted) ==
  [at |-> row.at, status |-> row.status, extra |-> row.extra,
   tally |-> Cardinality(Marked(i)), cleared |-> counted]

\* The copy is changed and saved; finishing also stores the totals of the marks
\* and creates the teacher's payout, by listeners that run in the transaction.
\* Mutant: nobody waits for the listener, and the process may die before it is done.
PayoutsCreated_Unawaited == {0, PayoutsDue}
PayoutsCreated == {PayoutsDue}

SaveStatus(u) ==
  LET i == req[u].id
      op == req[u].op
      finishing == op = "finish"
      row == Put(copy[u], copy[u].at, target[op]) IN
  /\ pc[u] = "save" /\ op \in DOMAIN target
  /\ Unique(copy[u].at, i)
  /\ session' = [session EXCEPT ![i] = IF finishing THEN Settled(row, i, seen[u]) ELSE row]
  /\ \E n \in IF finishing THEN PayoutsCreated ELSE {0} :
       payouts' = [payouts EXCEPT ![i] = AtMost(payouts[i] + n)]
  /\ Room'
  /\ Answer(u)
  /\ UNCHANGED <<asked, clock, mark, enrolled, cleanup, erased>>

\* updateSession writes the new time into its copy.
SaveTime(u) ==
  LET i == req[u].id IN
  /\ pc[u] = "save" /\ req[u].op = "move"
  /\ Unique(req[u].at, i)
  /\ session' = [session EXCEPT ![i] = Put(copy[u], req[u].at, copy[u].status)]
  /\ Room'
  /\ Answer(u)
  /\ UNCHANGED <<asked, clock, mark, enrolled, payouts, cleanup, erased>>

\* The extra lesson, the lesson checked in or the tombstone is inserted.
Insert(u) ==
  LET op == req[u].op IN
  /\ pc[u] = "insert"
  /\ Unique(req[u].at, 0)
  /\ \E i \in Ids :
       /\ NextId(i)
       /\ session' = [session EXCEPT ![i] =
            RowAt(req[u].at,
                  CASE op = "create"  -> "SCHEDULED"
                    [] op = "checkIn" -> "CHECKING_IN"
                    [] OTHER          -> "CANCELED",
                  op = "create")]
  /\ Room'
  /\ Answer(u)
  /\ UNCHANGED <<asked, clock, mark, enrolled, payouts, cleanup, erased>>

\* BaseRepository.remove deletes whatever the row has become, and its marks.
Remove(u) ==
  LET i == req[u].id IN
  /\ pc[u] = "remove"
  /\ i \in Live
  /\ session' = [session EXCEPT ![i] = Gone]
  /\ mark' = [mark EXCEPT ![i] = [a \in Students |-> "none"]]
  /\ erased' = erased \cup {i}
  /\ Room'
  /\ Answer(u)
  /\ UNCHANGED <<asked, clock, enrolled, payouts, cleanup>>

\* The marks of one request are inserted in one transaction: the unique index on
\* (session, student) refuses them all when one of the students has a mark.
\* Mutant: a mark that is there is overwritten.
NoneMarked_Upsert(u) == TRUE
NoneMarked(u) == seen[u] \cap Marked(req[u].id) = {}

InsertMarks(u) ==
  LET i == req[u].id IN
  /\ pc[u] \in {"mark", "markAbsent"}
  /\ i \in Live
  /\ NoneMarked(u)
  /\ mark' = [mark EXCEPT ![i] =
       [a \in Students |->
          IF a \notin seen[u] THEN mark[i][a]
          ELSE IF pc[u] = "mark" THEN "present" ELSE "absent"]]
  /\ Answer(u)
  /\ UNCHANGED <<asked, clock, session, enrolled, payouts, cleanup, erased>>

(* The cleanup job, every half hour                                            *)

\* The lessons of the timetable whose hour is over and that started within the
\* look-back.  The code reads the clock once per run, the model where it is used:
\* a run is short beside an hour.
Overdue == {t \in Timetable : clock - Window =< t /\ t < clock - Grace}

\* The rows a statement inserts take the free ids in order.
IdsInOrder(given) ==
  /\ \A s, t \in DOMAIN given : s < t => given[s] < given[t]
  /\ \A t \in DOMAIN given : \A i \in Fresh : i < given[t] => \E s \in DOMAIN given : given[s] = i

\* Those of the slots due that have no row get one, ON CONFLICT DO NOTHING.
InsertMissed(due) ==
  \E given \in [due \cap Virtual -> Fresh] :
    /\ IdsInOrder(given)
    /\ session' = [i \in Ids |->
         IF \E t \in DOMAIN given : given[t] = i
         THEN RowAt(CHOOSE t \in DOMAIN given : given[t] = i, "MISSED", FALSE)
         ELSE session[i]]

\* Mutant: without ON CONFLICT the statement fails with the first slot that has a
\* row, and the run of the job with it.
MaterializeMissed_Conflicting ==
  /\ job = "idle"
  /\ IF Overdue \subseteq Virtual THEN InsertMissed(Overdue) /\ job' = "select"
                                 ELSE UNCHANGED <<session, job>>
  /\ UNCHANGED <<asked, clock, mark, enrolled, payouts, work, stale, erased>>
MaterializeMissed ==
  /\ job = "idle"
  /\ InsertMissed(Overdue)
  /\ job' = "select"
  /\ UNCHANGED <<asked, clock, mark, enrolled, payouts, work, stale, erased>>

\* The slots are inserted by the five hundred, each chunk a statement that commits
\* by itself: a run that fails among them keeps the chunks before.
MaterializeFails ==
  /\ job = "idle"
  /\ \E due \in SUBSET Overdue : InsertMissed(due)
  /\ UNCHANGED <<asked, clock, mark, enrolled, payouts, work, cleanup, erased>>

\* The rows that should have begun an hour ago, however long ago that is.
SelectStale ==
  /\ job = "select"
  /\ stale' = {i \in Live : session[i].status = "SCHEDULED" /\ session[i].at =< clock - Grace}
  /\ job' = "update"
  /\ UNCHANGED <<asked, clock, rows, enrolled, work>>

\* UPDATE ... WHERE id IN (...): it does not look at the status again.
MarkMissed ==
  /\ job = "update"
  /\ session' = [i \in Ids |->
       IF i \in stale \cap Live THEN Put(session[i], session[i].at, "MISSED") ELSE session[i]]
  /\ job' = "idle"
  /\ stale' = {}
  /\ UNCHANGED <<asked, clock, mark, enrolled, payouts, work, erased>>

\* A failing statement ends the run, and so does the death of the process.
RunFails ==
  /\ job # "idle"
  /\ job' = "idle"
  /\ stale' = {}
  /\ UNCHANGED <<asked, clock, rows, enrolled, work>>

(* The rest of the world                                                       *)

Tick ==
  /\ clock < Horizon
  /\ clock' = clock + 1
  /\ UNCHANGED <<asked, rows, enrolled, work, cleanup>>

\* A student joins the group or leaves it.
Enrol(a) ==
  /\ enrolled' = (enrolled \ {a}) \cup ({a} \ enrolled)
  /\ UNCHANGED <<asked, clock, rows, work, cleanup>>

Request(u) ==
  \/ Transition(u) \/ TransitionVirtual(u) \/ CreateExtra(u) \/ Move(u) \/ Delete(u)
  \/ TakeAttendance(u)
  \/ Match(u) \/ Again(u) \/ Count(u) \/ Conflict(u) \/ Copy(u)
  \/ SaveStatus(u) \/ SaveTime(u) \/ Insert(u) \/ Remove(u) \/ InsertMarks(u)
  \/ Abandon(u)

Cleanup ==
  \/ MaterializeMissed \/ SelectStale \/ MarkMissed
  \/ MaterializeFails \/ RunFails

SessionsNext ==
  \/ \E u \in Users : Request(u)
  \/ Cleanup
  \/ Tick
  \/ \E a \in Students : Enrol(a)

\* The cron starts a run every half hour, whatever became of the last one, and a
\* statement of the job does not fail in every run.  Nobody has to send requests.
SessionsSpec ==
  /\ SessionsInit /\ [][SessionsNext]_vars
  /\ WF_vars(MaterializeMissed) /\ SF_vars(SelectStale) /\ SF_vars(MarkMissed)

(* Properties                                                                  *)

\* The rows, marks and requests have their types.
SessionsTypeOK ==
  /\ clock \in 0 .. Horizon
  /\ session \in [Ids -> Row \cup {New, Gone}]
  /\ mark \in [Ids -> [Students -> {"none", "present", "absent"}]]
  /\ enrolled \subseteq Students
  /\ payouts \in [Ids -> 0 .. MaxPayouts]
  /\ pc \in [Users -> {"idle", "match", "again", "count", "conflict", "copy", "save",
                      "insert", "remove", "mark", "markAbsent"}]
  /\ req \in [Users -> [op: DOMAIN target \cup {"none", "create", "move", "delete", "mark", "markAbsent"},
                       id: Ids \cup {0}, at: Slots \cup {0}]]
  /\ copy \in [Users -> Row \cup {New}]
  /\ \A u \in Users : pc[u] = "save" => copy[u] \in Row
  /\ seen \in [Users -> SUBSET Students]
  /\ stale \subseteq Ids

\* Two check-ins, a cancellation and the cleanup job may all find a lesson of
\* the timetable virtual and insert it: one row comes of it.
OneRowPerSlot == \A i, j \in Live : session[i].at = session[j].at => i = j

\* A lesson that is FINISHED was finished when every student then enrolled had a
\* mark, the marks are there and its stored totals count them, however many
\* requests worked on it meanwhile; a row that was deleted and came back is exempt.
FinishedWasMarked ==
  \A i \in Live \ erased :
    session[i].status = "FINISHED" =>
      /\ session[i].cleared \subseteq Marked(i)
      /\ Cardinality(session[i].cleared) =< session[i].tally

\* A FINISHED lesson of a teacher paid per session has its payout record: the
\* listener works in the transaction that finishes the lesson, so the two are
\* committed together or not at all.
FinishedIsPaidFor ==
  \A i \in Live : PayUnit = "session" /\ session[i].status = "FINISHED" => payouts[i] > 0

\* A mark is never changed: neither a scan nor mark-all-absent overwrites what
\* the other one stored; it disappears with its session only.
MarksStick ==
  [][\A i \in Ids, a \in Students :
       mark[i][a] # "none" => mark'[i][a] = mark[i][a] \/ session'[i] = Gone]_vars

\* A row that is SCHEDULED though its hour is over.
Late(i) ==
  i \in Live /\ session[i].status = "SCHEDULED" /\ session[i].at < clock - Grace

\* No lesson with a row stays SCHEDULED after its hour, however long the cleanup
\* job was down; one without a row gets a row, unless the look-back passes before
\* a run reaches it: then the job never gives it one.
PastLessonsSettle ==
  /\ \A i \in Ids : Late(i) ~> ~Late(i)
  /\ \A t \in Timetable : (t \in Overdue) ~> (At(t) # {} \/ t < clock - Window)
=============================================================================
