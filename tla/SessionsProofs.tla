--------------------------- MODULE SessionsProofs ---------------------------
(* What holds of a group's lessons for any timetable, any number of students,  *)
(* of requests in flight and of rows: types, one row per start time, and that  *)
(* a finished lesson was marked and is paid for.                               *)
EXTENDS Sessions, FiniteSetTheorems, TLAPS

Statements == {"idle", "match", "again", "count", "conflict", "copy", "save", "insert",
               "remove", "mark", "markAbsent"}
Operations == DOMAIN target \cup {"none", "create", "move", "delete", "mark", "markAbsent"}
Requests == [op: Operations, id: Ids \cup {0}, at: Slots \cup {0}]

\* What request r at statement next has found out by then: the row or the start
\* time it works on, and the kind of request it is.
Knows(next, r) ==
  /\ next \in {"again", "count", "copy", "save", "remove", "mark", "markAbsent"} => r.id \in Ids
  /\ next \in {"match", "insert", "conflict"} => r.at \in Slots
  /\ next \in {"copy", "save"} /\ r.op = "move" => r.at \in Slots
  /\ next = "match" => r.op \in DOMAIN target \ {"finish"}
  /\ next = "again" => r.op \in DOMAIN target \ {"finish"}
  /\ next = "count" => r.op = "finish"
  /\ next = "conflict" /\ r.op # "create" => r.op = "move" /\ r.id \in Ids

Aimed == \A u \in Users : Knows(pc[u], req[u])

\* The students a request to finish has counted have their marks still.
Counted(u) ==
  pc[u] \in {"copy", "save"} /\ req[u].op = "finish" /\ req[u].id \notin erased
    => seen[u] \subseteq Marked(req[u].id)
CountStands == \A u \in Users : Counted(u)

\* What FinishedWasMarked and FinishedIsPaidFor say of a row with id i.
Sound(row, i) ==
  row.status = "FINISHED" =>
    /\ i \notin erased => /\ row.cleared \subseteq Marked(i)
                          /\ Cardinality(row.cleared) =< row.tally
    /\ PayUnit = "session" => payouts[i] > 0
RowsSound == \A i \in Live : Sound(session[i], i)

\* The same of the copies requests may still save.
CopiesSound == \A u \in Users : pc[u] = "save" => Sound(copy[u], req[u].id)

\* The properties are inductive together with these facts about requests.
SessionsInv ==
  SessionsTypeOK /\ Aimed /\ CountStands /\ CopiesSound /\ OneRowPerSlot /\ RowsSound

(* Rows                                                                        *)

\* A live id holds a row of the type, and an id that holds one is live.
LEMMA LiveIsRow ==
  ASSUME SessionsTypeOK, NEW i \in Ids
  PROVE  i \in Live <=> session[i] \in Row
<1>1. session[i] \in Row \cup {New, Gone}
  BY DEF SessionsTypeOK
<1>2. ASSUME session[i] \in Row PROVE i \in Live
  BY <1>2 DEF Row, Live
<1>3. ASSUME session[i] \in {New, Gone} PROVE i \notin Live
  BY <1>3 DEF New, Gone, Live, SessionStatus
<1>4. ASSUME session[i] \in {New, Gone} PROVE session[i] \notin Row
  BY <1>4 DEF New, Gone, Row, SessionStatus
<1>. QED
  BY <1>1, <1>2, <1>3, <1>4

LEMMA MarkedFinite ==
  ASSUME NEW i
  PROVE  /\ IsFiniteSet(Marked(i)) /\ Cardinality(Marked(i)) \in Nat
         /\ \A S \in SUBSET Marked(i) : Cardinality(S) =< Cardinality(Marked(i))
<1>1. IsFiniteSet(Students) /\ Marked(i) \subseteq Students
  BY SessionsAssumption DEF Marked
<1>2. IsFiniteSet(Marked(i))
  BY <1>1, FS_Subset
<1>. QED
  BY <1>2, FS_Subset, FS_CardinalityType

\* What Put and RowAt make of rows is a row.
LEMMA PutIsRow ==
  ASSUME NEW row \in Row, NEW slot \in Slots, NEW status \in SessionStatus
  PROVE  Put(row, slot, status) \in Row
BY DEF Put, Row

LEMMA RowAtIsRow ==
  ASSUME NEW slot \in Slots, NEW status \in SessionStatus, NEW extra \in BOOLEAN
  PROVE  RowAt(slot, status, extra) \in Row
BY DEF RowAt, Row

LEMMA SettledIsRow ==
  ASSUME NEW row \in Row, NEW i \in Ids, NEW counted \in SUBSET Students
  PROVE  Settled(row, i, counted) \in Row
<1>1. Cardinality(Marked(i)) \in Nat
  BY MarkedFinite
<1>. QED
  BY <1>1 DEF Settled, Row

(* What a step has to show                                                     *)

\* What is sound stays so: marks and payouts only grow, but with a deleted row.
LEMMA SoundStays ==
  ASSUME SessionsTypeOK, SessionsTypeOK', NEW i \in Ids, NEW row \in Row, Sound(row, i),
         erased \subseteq erased', i \notin erased' => Marked(i) \subseteq Marked(i)',
         payouts'[i] >= payouts[i]
  PROVE  Sound(row, i)'
<1>1. payouts[i] \in Nat /\ payouts'[i] \in Nat
  BY SessionsAssumption DEF SessionsTypeOK
<1>. QED
  BY <1>1 DEF Sound

Same(v) == pc'[v] = pc[v] /\ req'[v] = req[v] /\ copy'[v] = copy[v] /\ seen'[v] = seen[v]

\* A step keeps the invariant when every row and every request is as it was, or
\* is shown to be sound.
LEMMA InvStays ==
  ASSUME SessionsInv, SessionsTypeOK', Aimed', OneRowPerSlot', erased \subseteq erased',
         \A i \in Ids : i \notin erased' => Marked(i) \subseteq Marked(i)',
         \A i \in Ids : payouts'[i] >= payouts[i],
         \A i \in Live' : Sound(session[i], i)' \/ (i \in Live /\ session'[i] = session[i]),
         \A v \in Users :
           Same(v) \/ (Counted(v)' /\ (pc'[v] = "save" => Sound(copy[v], req[v].id)'))
  PROVE  SessionsInv'
<1>1. CountStands'
  <2>. SUFFICES ASSUME NEW v \in Users PROVE Counted(v)'
    BY DEF CountStands
  <2>1. CASE Same(v)
    <3>1. Counted(v) /\ Knows(pc[v], req[v])
      BY DEF SessionsInv, CountStands, Aimed
    <3>2. CASE pc[v] \in {"copy", "save"} /\ req[v].id \notin erased'
      <4>1. PICK i \in Ids : i = req[v].id
        BY <3>1, <3>2 DEF Knows
      <4>2. Marked(i) \subseteq Marked(i)'
        BY <4>1, <3>2
      <4>. QED
        BY <2>1, <3>1, <4>1, <4>2 DEF Counted, Same, Marked
    <3>3. CASE ~(pc[v] \in {"copy", "save"} /\ req[v].id \notin erased')
      BY <2>1, <3>3 DEF Counted, Same
    <3>. QED
      BY <3>2, <3>3
  <2>. QED
    BY <2>1
<1>2. CopiesSound'
  <2>. SUFFICES ASSUME NEW v \in Users, pc'[v] = "save" PROVE Sound(copy[v], req[v].id)'
    BY DEF CopiesSound
  <2>1. CASE Same(v)
    <3>1. Sound(copy[v], req[v].id) /\ req[v].id \in Ids /\ copy[v] \in Row
      BY <2>1 DEF Same, SessionsInv, CopiesSound, Aimed, Knows, SessionsTypeOK
    <3>. DEFINE c == copy[v]  i == req[v].id
    <3>2. \A row \in Row, j \in Ids : Sound(row, j) => Sound(row, j)'
      BY SoundStays DEF SessionsInv
    <3>. QED
      BY <2>1, <3>1, <3>2 DEF Same, Sound, Marked
  <2>. QED
    BY <2>1
<1>3. RowsSound'
  <2>. SUFFICES ASSUME NEW i \in Live', i \in Live, session'[i] = session[i]
                PROVE  Sound(session[i], i)'
    BY DEF RowsSound
  <2>1. i \in Ids /\ session[i] \in Row /\ Sound(session[i], i)
    BY LiveIsRow DEF SessionsInv, RowsSound, Live
  <2>2. \A row \in Row : Sound(row, i) => Sound(row, i)'
    BY <2>1, SoundStays DEF SessionsInv
  <2>. QED
    BY <2>1, <2>2 DEF Sound
<1>. QED
  BY <1>1, <1>2, <1>3 DEF SessionsInv

(* Requests                                                                    *)

\* A statement that writes nothing moves one request on.
LEMMA RequestMoves ==
  ASSUME SessionsInv, NEW u \in Users, NEW next \in Statements, NEW r \in Requests,
         pc' = [pc EXCEPT ![u] = next], req' = [req EXCEPT ![u] = r], Knows(next, r),
         NEW c \in Row \cup {New}, copy' = [copy EXCEPT ![u] = c],
         NEW S \in SUBSET Students, seen' = [seen EXCEPT ![u] = S],
         UNCHANGED <<clock, session, mark, enrolled, payouts, erased, stale>>,
         next = "save" => c \in Row /\ Sound(c, r.id),
         next \in {"copy", "save"} /\ r.op = "finish" /\ r.id \notin erased
           => S \subseteq Marked(r.id)
  PROVE  SessionsInv'
<1>0. SessionsTypeOK /\ Aimed
  BY DEF SessionsInv
<1>1. pc' \in [Users -> Statements] /\ req' \in [Users -> Requests]
  BY <1>0 DEF SessionsTypeOK, Statements, Requests, Operations
<1>2. /\ copy' \in [Users -> Row \cup {New}] /\ seen' \in [Users -> SUBSET Students]
      /\ \A v \in Users : pc'[v] = "save" => copy'[v] \in Row
  BY <1>0 DEF SessionsTypeOK
<1>3. SessionsTypeOK'
  BY <1>0, <1>1, <1>2 DEF SessionsTypeOK, Statements, Requests, Operations
<1>4. \A v \in Users : v # u => Same(v)
  BY <1>0 DEF Same, SessionsTypeOK
<1>5. pc'[u] = next /\ req'[u] = r /\ copy'[u] = c /\ seen'[u] = S
  BY <1>0 DEF SessionsTypeOK
<1>6. \A v \in Users : Knows(pc'[v], req'[v])
  BY <1>0, <1>4, <1>5 DEF Same, Aimed
<1>7. Aimed'
  BY <1>6 DEF Aimed
<1>8. OneRowPerSlot' /\ \A i \in Live' : i \in Live
  BY DEF SessionsInv, OneRowPerSlot, Live
<1>9. \A i \in Ids : Marked(i) \subseteq Marked(i)' /\ payouts'[i] >= payouts[i]
  BY <1>0 DEF Marked, SessionsTypeOK
<1>10. Counted(u)'
  BY <1>5 DEF Counted, Marked
<1>11. pc'[u] = "save" => Sound(copy[u], req[u].id)'
  BY <1>5 DEF Sound, Marked
<1>. QED
  BY <1>3, <1>4, <1>7, <1>8, <1>9, <1>10, <1>11, InvStays

\* The same when the request stays what it is.
LEMMA RequestGoesOn ==
  ASSUME SessionsInv, NEW u \in Users, NEW next \in Statements,
         pc' = [pc EXCEPT ![u] = next], req' = req, Knows(next, req[u]),
         NEW c \in Row \cup {New}, copy' = [copy EXCEPT ![u] = c],
         NEW S \in SUBSET Students, seen' = [seen EXCEPT ![u] = S],
         UNCHANGED <<clock, session, mark, enrolled, payouts, erased, stale>>,
         next = "save" => c \in Row /\ Sound(c, req[u].id),
         next \in {"copy", "save"} /\ req[u].op = "finish" /\ req[u].id \notin erased
           => S \subseteq Marked(req[u].id)
  PROVE  SessionsInv'
<1>1. PICK r \in Requests : r = req[u] /\ req' = [req EXCEPT ![u] = r]
  BY DEF SessionsInv, SessionsTypeOK, Requests, Operations
<1>2. /\ Knows(next, r) /\ (next = "save" => c \in Row /\ Sound(c, r.id))
      /\ next \in {"copy", "save"} /\ r.op = "finish" /\ r.id \notin erased
           => S \subseteq Marked(r.id)
  BY <1>1
<1>. QED
  BY <1>1, <1>2, RequestMoves

\* Every endpoint's request begins with what its first statement needs.
LEMMA RequestBegins ==
  ASSUME SessionsInv, NEW u \in Users, NEW next \in Statements \ {"save"},
         NEW r \in Requests, Begin(u, r, next), Knows(next, r),
         next = "copy" => r.op # "finish",
         NEW S \in SUBSET Students, seen' = [seen EXCEPT ![u] = S]
  PROVE  SessionsInv'
<1>1. /\ pc' = [pc EXCEPT ![u] = next] /\ req' = [req EXCEPT ![u] = r]
      /\ UNCHANGED <<clock, session, mark, enrolled, payouts, copy, erased, stale>>
  BY DEF Begin, rows, cleanup
<1>2. copy[u] \in Row \cup {New} /\ copy' = [copy EXCEPT ![u] = copy[u]]
  BY <1>1 DEF SessionsInv, SessionsTypeOK
<1>. QED
  BY <1>1, <1>2, RequestMoves

LEMMA BeginningKeepsInv ==
  ASSUME SessionsInv, NEW u \in Users,
         \/ Transition(u) \/ TransitionVirtual(u) \/ CreateExtra(u) \/ Move(u) \/ Delete(u)
         \/ TakeAttendance(u)
  PROVE  SessionsInv'
<1>0. seen[u] \in SUBSET Students /\ seen = [seen EXCEPT ![u] = seen[u]]
  BY DEF SessionsInv, SessionsTypeOK
<1>1. CASE Transition(u)
  <2>1. PICK i \in Live, op \in DOMAIN target :
          Begin(u, Ask(op, i, 0), IF op = "finish" THEN "count" ELSE "copy")
    BY <1>1 DEF Transition
  <2>2. /\ Ask(op, i, 0) \in Requests
        /\ Knows(IF op = "finish" THEN "count" ELSE "copy", Ask(op, i, 0))
    BY DEF Ask, Requests, Operations, Knows, Live, target
  <2>3. seen' = seen
    BY <1>1 DEF Transition
  <2>4. CASE op = "finish"
    BY <1>0, <2>1, <2>2, <2>3, <2>4, RequestBegins DEF Statements, Ask
  <2>5. CASE op # "finish"
    BY <1>0, <2>1, <2>2, <2>3, <2>5, RequestBegins DEF Statements, Ask
  <2>. QED
    BY <2>4, <2>5
<1>2. CASE TransitionVirtual(u)
  <2>1. PICK t \in Virtual, op \in DOMAIN target \ {"finish"} :
          Begin(u, Ask(op, 0, t), "match")
    BY <1>2 DEF TransitionVirtual, TRANSITIONS
  <2>2. Ask(op, 0, t) \in Requests /\ Knows("match", Ask(op, 0, t))
    BY DEF Ask, Requests, Operations, Knows, Virtual, Slots
  <2>3. seen' = seen
    BY <1>2 DEF TransitionVirtual
  <2>. QED
    BY <1>0, <2>1, <2>2, <2>3, RequestBegins DEF Statements
<1>3. CASE CreateExtra(u)
  <2>1. PICK t \in Slots : Begin(u, Ask("create", 0, t), "conflict")
    BY <1>3 DEF CreateExtra
  <2>2. Ask("create", 0, t) \in Requests /\ Knows("conflict", Ask("create", 0, t))
    BY DEF Ask, Requests, Operations, Knows
  <2>3. seen' = seen
    BY <1>3 DEF CreateExtra
  <2>. QED
    BY <1>0, <2>1, <2>2, <2>3, RequestBegins DEF Statements
<1>4. CASE Move(u)
  <2>1. PICK i \in Live, t \in Slots, next \in {"conflict", "copy"} :
          Begin(u, Ask("move", i, t), next)
    BY <1>4 DEF Move
  <2>2. Ask("move", i, t) \in Requests /\ Knows(next, Ask("move", i, t))
    BY DEF Ask, Requests, Operations, Knows, Live
  <2>3. seen' = seen
    BY <1>4 DEF Move
  <2>. QED
    BY <1>0, <2>1, <2>2, <2>3, RequestBegins DEF Statements, Ask
<1>5. CASE Delete(u)
  <2>1. PICK i \in Live : Begin(u, Ask("delete", i, 0), "remove")
    BY <1>5 DEF Delete
  <2>2. Ask("delete", i, 0) \in Requests /\ Knows("remove", Ask("delete", i, 0))
    BY DEF Ask, Requests, Operations, Knows, Live
  <2>3. seen' = seen
    BY <1>5 DEF Delete
  <2>. QED
    BY <1>0, <2>1, <2>2, <2>3, RequestBegins DEF Statements
<1>6. CASE TakeAttendance(u)
  <2>1. PICK i \in Live, op \in {"mark", "markAbsent"} :
          /\ IF op = "mark"
             THEN \E a \in enrolled \ Marked(i) : seen' = [seen EXCEPT ![u] = {a}]
             ELSE seen' = [seen EXCEPT ![u] = enrolled \ Marked(i)]
          /\ Begin(u, Ask(op, i, 0), op)
    BY <1>6 DEF TakeAttendance
  <2>2. Ask(op, i, 0) \in Requests /\ Knows(op, Ask(op, i, 0))
    BY DEF Ask, Requests, Operations, Knows, Live
  <2>3. PICK S \in SUBSET Students : seen' = [seen EXCEPT ![u] = S]
    <3>1. enrolled \subseteq Students
      BY DEF SessionsInv, SessionsTypeOK
    <3>. QED
      BY <2>1, <3>1
  <2>. QED
    BY <2>1, <2>2, <2>3, RequestBegins DEF Statements
<1>. QED
  BY <1>1, <1>2, <1>3, <1>4, <1>5, <1>6

\* A reading statement finds what the next one relies on: a copy of a sound row,
\* or that every student enrolled has a mark.
LEMMA ReadingKeepsInv ==
  ASSUME SessionsInv, NEW u \in Users,
         Match(u) \/ Again(u) \/ Count(u) \/ Conflict(u) \/ Copy(u)
  PROVE  SessionsInv'
<1>0. /\ req[u] \in Requests /\ Knows(pc[u], req[u])
      /\ copy[u] \in Row \cup {New} /\ seen[u] \in SUBSET Students
      /\ req = [req EXCEPT ![u] = req[u]] /\ copy = [copy EXCEPT ![u] = copy[u]]
      /\ seen = [seen EXCEPT ![u] = seen[u]]
  BY DEF SessionsInv, SessionsTypeOK, Aimed, Requests, Operations
<1>1. CASE Match(u)
  <2>. DEFINE Goes(r, next) == /\ pc' = [pc EXCEPT ![u] = next]
                               /\ req' = [req EXCEPT ![u] = r]
                               /\ Knows(next, r) /\ r.op # "finish"
  <2>1. \E r \in Requests, next \in Statements \ {"save"} : Goes(r, next)
    <3>1. PICK t \in Matching(u) :
            \/ \E i \in At(t) :
                 /\ req' = [req EXCEPT ![u] = Ask(req[u].op, i, 0)]
                 /\ Goto(u, IF req[u].op = "cancel" THEN "copy" ELSE "again")
            \/ req' = [req EXCEPT ![u] = Ask(req[u].op, 0, t)] /\ Goto(u, "insert")
      BY <1>1 DEF Match
    <3>2. t \in Slots /\ req[u].op \in Operations
      BY <1>0, <1>1 DEF Match, Matching, Slots, Knows, Requests
    <3>5. req[u].op \in DOMAIN target \ {"finish"}
      BY <1>0, <1>1 DEF Match, Knows
    <3>3. CASE req' = [req EXCEPT ![u] = Ask(req[u].op, 0, t)] /\ Goto(u, "insert")
      <4>1. Goes(Ask(req[u].op, 0, t), "insert") /\ Ask(req[u].op, 0, t) \in Requests
        BY <3>2, <3>3, <3>5 DEF Ask, Requests, Knows, Goto
      <4>. QED
        BY <4>1 DEF Statements
    <3>4. ASSUME NEW i \in At(t), req' = [req EXCEPT ![u] = Ask(req[u].op, i, 0)],
                 Goto(u, IF req[u].op = "cancel" THEN "copy" ELSE "again")
          PROVE  \E r \in Requests, next \in Statements \ {"save"} : Goes(r, next)
      <4>1. i \in Ids
        BY DEF At, Live
      <4>2. Ask(req[u].op, i, 0) \in Requests
        BY <4>1, <3>2 DEF Ask, Requests
      <4>3. CASE req[u].op = "cancel"
        <5>1. Goes(Ask(req[u].op, i, 0), "copy")
          BY <4>1, <4>3, <3>4 DEF Ask, Knows, Goto
        <5>. QED
          BY <5>1, <4>2 DEF Statements
      <4>4. CASE req[u].op # "cancel"
        <5>1. Goes(Ask(req[u].op, i, 0), "again")
          BY <4>1, <4>4, <3>4, <3>5 DEF Ask, Knows, Goto
        <5>. QED
          BY <5>1, <4>2 DEF Statements
      <4>. QED
        BY <4>3, <4>4
    <3>. QED
      BY <3>1, <3>3, <3>4
  <2>2. PICK r \in Requests, next \in Statements \ {"save"} : Goes(r, next)
    BY <2>1
  <2>3. UNCHANGED <<clock, session, mark, enrolled, payouts, erased, copy, seen, stale>>
    BY <1>1 DEF Match, rows, cleanup
  <2>. QED
    BY <1>0, <2>2, <2>3, RequestMoves
<1>2. CASE Again(u)
  <2>1. /\ pc' = [pc EXCEPT ![u] = "copy"] /\ req' = req /\ pc[u] = "again"
        /\ UNCHANGED <<clock, session, mark, enrolled, payouts, erased, copy, seen, stale>>
    BY <1>2 DEF Again, Goto, rows, cleanup
  <2>2. Knows("copy", req[u]) /\ req[u].op # "finish"
    BY <1>0, <2>1 DEF Knows, target
  <2>3. copy' = [copy EXCEPT ![u] = copy[u]]
        /\ seen' = [seen EXCEPT ![u] = seen[u]]
    BY <1>0, <2>1
  <2>. QED
    BY <1>0, <2>1, <2>2, <2>3, RequestGoesOn DEF Statements
<1>5. CASE Count(u)
  <2>1. /\ pc' = [pc EXCEPT ![u] = "copy"] /\ req' = req /\ pc[u] = "count"
        /\ seen' = [seen EXCEPT ![u] = enrolled] /\ enrolled \subseteq Marked(req[u].id)
        /\ UNCHANGED <<clock, session, mark, enrolled, payouts, erased, copy, stale>>
    BY <1>5 DEF Count, Goto, rows, cleanup
  <2>2. Knows("copy", req[u]) /\ enrolled \in SUBSET Students
    BY <1>0, <2>1 DEF Knows, SessionsInv, SessionsTypeOK
  <2>. QED
    BY <1>0, <2>1, <2>2, RequestGoesOn DEF Statements
<1>3. CASE Conflict(u)
  <2>1. PICK next \in Statements \ {"save"} :
          /\ pc' = [pc EXCEPT ![u] = next] /\ Knows(next, req[u])
          /\ next = "copy" => req[u].op # "finish"
    <3>1. pc[u] = "conflict" /\ pc' = [pc EXCEPT ![u] = IF req[u].op = "create" THEN "insert" ELSE "copy"]
      BY <1>3 DEF Conflict, Goto
    <3>2. CASE req[u].op = "create"
      BY <1>0, <3>1, <3>2 DEF Knows, Statements
    <3>3. CASE req[u].op # "create"
      BY <1>0, <3>1, <3>3 DEF Knows, Statements
    <3>. QED
      BY <3>2, <3>3
  <2>2. UNCHANGED <<clock, session, mark, enrolled, payouts, erased, req, copy, seen, stale>>
    BY <1>3 DEF Conflict, rows, cleanup
  <2>3. copy' = [copy EXCEPT ![u] = copy[u]] /\ seen' = [seen EXCEPT ![u] = seen[u]]
    BY <1>0, <2>2
  <2>. QED
    BY <1>0, <2>1, <2>2, <2>3, RequestGoesOn
<1>4. CASE Copy(u)
  <2>1. /\ pc' = [pc EXCEPT ![u] = "save"] /\ req' = req /\ pc[u] = "copy"
        /\ copy' = [copy EXCEPT ![u] = session[req[u].id]] /\ req[u].id \in Live
        /\ UNCHANGED <<clock, session, mark, enrolled, payouts, erased, seen, stale>>
    BY <1>4 DEF Copy, Goto, rows, cleanup
  <2>2. PICK c \in Row : c = session[req[u].id] /\ Sound(c, req[u].id)
    BY <2>1, LiveIsRow DEF Live, SessionsInv, RowsSound
  <2>3. copy' = [copy EXCEPT ![u] = c] /\ seen' = [seen EXCEPT ![u] = seen[u]]
    BY <1>0, <2>1, <2>2
  <2>4. Knows("save", req[u]) /\ Counted(u)
    BY <1>0, <2>1 DEF Knows, SessionsInv, CountStands
  <2>5. req[u].op = "finish" /\ req[u].id \notin erased => seen[u] \subseteq Marked(req[u].id)
    BY <2>1, <2>4 DEF Counted
  <2>. QED
    BY <1>0, <2>1, <2>2, <2>3, <2>4, <2>5, RequestGoesOn DEF Statements
<1>. QED
  BY <1>1, <1>2, <1>3, <1>4, <1>5

\* The last statement of a request: the request is over.
LEMMA RequestEnds ==
  ASSUME SessionsInv, NEW u \in Users, Answer(u),
         session' \in [Ids -> Row \cup {New, Gone}],
         mark' \in [Ids -> [Students -> {"none", "present", "absent"}]],
         payouts' \in [Ids -> 0 .. MaxPayouts], UNCHANGED <<clock, enrolled, stale>>,
         OneRowPerSlot', erased \subseteq erased',
         \A i \in Ids : i \notin erased' => Marked(i) \subseteq Marked(i)',
         \A i \in Ids : payouts'[i] >= payouts[i],
         \A i \in Live' : Sound(session[i], i)' \/ (i \in Live /\ session'[i] = session[i])
  PROVE  SessionsInv'
<1>0. SessionsTypeOK /\ Aimed
  BY DEF SessionsInv
<1>1. /\ pc' = [pc EXCEPT ![u] = "idle"] /\ req' = [req EXCEPT ![u] = NoRequest]
      /\ copy' = [copy EXCEPT ![u] = New] /\ seen' = [seen EXCEPT ![u] = {}]
  BY DEF Answer
<1>2. NoRequest \in Requests /\ Knows("idle", NoRequest)
  BY DEF NoRequest, Ask, Requests, Operations, Knows
<1>3. pc' \in [Users -> Statements] /\ req' \in [Users -> Requests]
  BY <1>0, <1>1, <1>2 DEF SessionsTypeOK, Statements, Requests, Operations
<1>4. copy' \in [Users -> Row \cup {New}] /\ seen' \in [Users -> SUBSET Students]
  BY <1>0, <1>1 DEF SessionsTypeOK
<1>5. \A v \in Users : v # u => Same(v)
  BY <1>0, <1>1 DEF SessionsTypeOK, Same
<1>6. pc'[u] = "idle" /\ req'[u] = NoRequest
  BY <1>0, <1>1 DEF SessionsTypeOK
<1>7. \A v \in Users : pc'[v] = "save" => copy'[v] \in Row
  BY <1>0, <1>5, <1>6 DEF SessionsTypeOK, Same
<1>8. SessionsTypeOK'
  BY <1>0, <1>3, <1>4, <1>7 DEF SessionsTypeOK, Statements, Requests, Operations
<1>9. Aimed'
  <2>1. \A v \in Users : Knows(pc'[v], req'[v])
    BY <1>0, <1>2, <1>5, <1>6 DEF Same, Aimed
  <2>. QED
    BY <2>1 DEF Aimed
<1>10. Counted(u)' /\ ~(pc'[u] = "save")
  BY <1>6 DEF Counted
<1>. QED
  BY <1>5, <1>8, <1>9, <1>10, InvStays

\* A request that ends by writing one row at a start time no other row has.
LEMMA RowWritten ==
  ASSUME SessionsInv, NEW u \in Users, Answer(u), NEW i \in Ids, NEW row \in Row,
         session' = [session EXCEPT ![i] = row], Unique(row.at, i),
         payouts' \in [Ids -> 0 .. MaxPayouts], \A j \in Ids : payouts'[j] >= payouts[j],
         UNCHANGED <<clock, mark, enrolled, stale, erased>>, Sound(row, i)'
  PROVE  SessionsInv'
<1>0. session \in [Ids -> Row \cup {New, Gone}]
  BY DEF SessionsInv, SessionsTypeOK
<1>1. /\ session' \in [Ids -> Row \cup {New, Gone}] /\ session'[i] = row
      /\ \A j \in Ids \ {i} : session'[j] = session[j]
  BY <1>0
<1>2. mark' \in [Ids -> [Students -> {"none", "present", "absent"}]]
  BY DEF SessionsInv, SessionsTypeOK
<1>3. \A j \in Live' \ {i} : j \in Live
  BY <1>1 DEF Live
<1>4. OneRowPerSlot'
  <2>. SUFFICES ASSUME NEW j \in Live', NEW k \in Live', session'[j].at = session'[k].at
                PROVE  j = k
    BY DEF OneRowPerSlot
  <2>1. CASE j # i /\ k # i
    BY <1>1, <1>3, <2>1 DEF SessionsInv, OneRowPerSlot, Live
  <2>2. CASE j = i
    BY <1>1, <1>3, <2>2 DEF Unique, At, Live
  <2>3. CASE k = i
    BY <1>1, <1>3, <2>3 DEF Unique, At, Live
  <2>. QED
    BY <2>1, <2>2, <2>3
<1>5. \A j \in Ids : Marked(j) \subseteq Marked(j)'
  BY DEF Marked
<1>6. Sound(session[i], i)'
  BY <1>1 DEF Sound
<1>7. \A j \in Live' : Sound(session[j], j)' \/ (j \in Live /\ session'[j] = session[j])
  <2>. TAKE j \in Live'
  <2>1. j \in Ids
    BY DEF Live
  <2>2. CASE j = i
    BY <1>6, <2>2
  <2>3. CASE j # i
    BY <1>1, <1>3, <2>1, <2>3
  <2>. QED
    BY <2>2, <2>3
<1>. QED
  BY <1>1, <1>2, <1>4, <1>5, <1>7, RequestEnds

LEMMA SavingKeepsInv ==
  ASSUME SessionsInv, NEW u \in Users, SaveStatus(u)
  PROVE  SessionsInv'
<1>. DEFINE row == Put(copy[u], copy[u].at, target[req[u].op])
            new == IF req[u].op = "finish" THEN Settled(row, req[u].id, seen[u]) ELSE row
<1>1. /\ copy[u] \in Row /\ req[u].id \in Ids /\ seen[u] \in SUBSET Students
      /\ target[req[u].op] \in SessionStatus /\ copy[u].at \in Slots
  BY DEF SaveStatus, SessionsInv, SessionsTypeOK, Aimed, Knows, target, SessionStatus, Row
<1>2. row \in Row
  BY <1>1, PutIsRow
<1>3. new \in Row /\ new.at = copy[u].at
  <2>1. Settled(row, req[u].id, seen[u]) \in Row
    BY <1>1, <1>2, SettledIsRow
  <2>. QED
    BY <1>2, <2>1 DEF Settled, Put
<1>4. session' = [session EXCEPT ![req[u].id] = new]
  BY DEF SaveStatus
<1>5. PICK n \in IF req[u].op = "finish" THEN {PayoutsDue} ELSE {0} :
        payouts' = [payouts EXCEPT ![req[u].id] = AtMost(payouts[req[u].id] + n)]
  BY DEF SaveStatus, PayoutsCreated
<1>6. Answer(u) /\ UNCHANGED <<clock, mark, enrolled, stale, erased>>
      /\ Unique(new.at, req[u].id)
  BY <1>3 DEF SaveStatus, cleanup
<1>7. /\ payouts' \in [Ids -> 0 .. MaxPayouts] /\ \A j \in Ids : payouts'[j] >= payouts[j]
      /\ req[u].op = "finish" /\ PayUnit = "session" => payouts'[req[u].id] > 0
  <2>. PICK i \in Ids : i = req[u].id
    BY <1>1
  <2>1. payouts \in [Ids -> 0 .. MaxPayouts] /\ MaxPayouts \in Nat \ {0} /\ n \in {0, 1}
    BY <1>5, SessionsAssumption DEF SessionsInv, SessionsTypeOK, PayoutsDue
  <2>2. /\ AtMost(payouts[i] + n) \in 0 .. MaxPayouts /\ AtMost(payouts[i] + n) >= payouts[i]
        /\ n = 1 => AtMost(payouts[i] + n) > 0
    BY <2>1 DEF AtMost
  <2>3. req[u].op = "finish" /\ PayUnit = "session" => n = 1
    BY <1>5 DEF PayoutsDue
  <2>. QED
    BY <1>5, <2>1, <2>2, <2>3
<1>. PICK i \in Ids, r \in Row, S \in SUBSET Students :
       i = req[u].id /\ r = new /\ S = seen[u]
  BY <1>1, <1>3
<1>8. Sound(r, i)'
  <2>1. CASE req[u].op = "finish"
    <3>1. i \notin erased => S \subseteq Marked(i)
      BY <2>1 DEF SaveStatus, SessionsInv, CountStands, Counted
    <3>2. i \notin erased => Cardinality(S) =< Cardinality(Marked(i))
      BY <3>1, MarkedFinite
    <3>3. r.cleared = S /\ r.tally = Cardinality(Marked(i))
      BY <2>1 DEF Settled
    <3>4. mark' = mark /\ erased' = erased /\ (PayUnit = "session" => payouts'[i] > 0)
      BY <1>6, <1>7, <2>1
    <3>5. Marked(i)' = Marked(i)
      BY <3>4 DEF Marked
    <3>. QED
      BY <3>1, <3>2, <3>3, <3>4, <3>5 DEF Sound
  <2>2. CASE req[u].op # "finish"
    <3>1. r.status # "FINISHED"
      BY <2>2 DEF SaveStatus, Put, target
    <3>. QED
      BY <3>1 DEF Sound
  <2>. QED
    BY <2>1, <2>2
<1>9. session' = [session EXCEPT ![i] = r] /\ Unique(r.at, i)
  BY <1>4, <1>6
<1>. QED
  BY <1>6, <1>7, <1>8, <1>9, RowWritten

LEMMA MovingKeepsInv ==
  ASSUME SessionsInv, NEW u \in Users, SaveTime(u)
  PROVE  SessionsInv'
<1>1. /\ copy[u] \in Row /\ req[u].id \in Ids /\ req[u].at \in Slots
      /\ Sound(copy[u], req[u].id)
  BY DEF SaveTime, SessionsInv, SessionsTypeOK, Aimed, Knows, CopiesSound
<1>2. Put(copy[u], req[u].at, copy[u].status) \in Row
  BY <1>1, PutIsRow DEF Row
<1>. PICK i \in Ids, r \in Row, c \in Row :
       i = req[u].id /\ c = copy[u] /\ r = Put(c, req[u].at, c.status)
  BY <1>1, <1>2
<1>3. /\ session' = [session EXCEPT ![i] = r] /\ Unique(r.at, i) /\ Answer(u)
      /\ UNCHANGED <<clock, mark, enrolled, payouts, stale, erased>>
  BY DEF SaveTime, cleanup, Put
<1>4. Sound(r, i)'
  BY <1>1, <1>3 DEF Sound, Put, Marked
<1>5. payouts' \in [Ids -> 0 .. MaxPayouts] /\ \A j \in Ids : payouts'[j] >= payouts[j]
  BY <1>3, SessionsAssumption DEF SessionsInv, SessionsTypeOK
<1>. QED
  BY <1>3, <1>4, <1>5, RowWritten

LEMMA InsertingKeepsInv ==
  ASSUME SessionsInv, NEW u \in Users, Insert(u)
  PROVE  SessionsInv'
<1>. DEFINE status == CASE req[u].op = "create"  -> "SCHEDULED"
                        [] req[u].op = "checkIn" -> "CHECKING_IN"
                        [] OTHER                 -> "CANCELED"
<1>1. req[u].at \in Slots /\ status \in SessionStatus
  BY DEF Insert, SessionsInv, Aimed, Knows, SessionStatus
<1>2. RowAt(req[u].at, status, req[u].op = "create") \in Row
  BY <1>1, RowAtIsRow
<1>. PICK r \in Row : r = RowAt(req[u].at, status, req[u].op = "create")
  BY <1>2
<1>3. PICK i \in Ids : session' = [session EXCEPT ![i] = r] /\ i \notin Live
  <2>1. PICK i \in Ids : NextId(i) /\ session' = [session EXCEPT ![i] = r]
    BY DEF Insert
  <2>2. i \notin Live
    BY <2>1 DEF NextId, Fresh, Live, New, SessionStatus
  <2>. QED
    BY <2>1, <2>2
<1>4. /\ r.at = req[u].at /\ r.status # "FINISHED"
  BY DEF RowAt
<1>5. Unique(r.at, i) /\ Sound(r, i)'
  <2>1. 0 \notin Ids
    BY SessionsAssumption
  <2>. QED
    BY <1>4, <2>1 DEF Insert, Unique, At, Live, Sound
<1>6. Answer(u) /\ UNCHANGED <<clock, mark, enrolled, payouts, stale, erased>>
  BY DEF Insert, cleanup
<1>7. payouts' \in [Ids -> 0 .. MaxPayouts] /\ \A j \in Ids : payouts'[j] >= payouts[j]
  BY <1>6, SessionsAssumption DEF SessionsInv, SessionsTypeOK
<1>. QED
  BY <1>3, <1>5, <1>6, <1>7, RowWritten

LEMMA RemovingKeepsInv ==
  ASSUME SessionsInv, NEW u \in Users, Remove(u)
  PROVE  SessionsInv'
<1>. PICK i \in Ids : i = req[u].id
  BY DEF Remove, SessionsInv, Aimed, Knows
<1>1. /\ session' = [session EXCEPT ![i] = Gone] /\ erased' = erased \cup {i}
      /\ mark' = [mark EXCEPT ![i] = [a \in Students |-> "none"]]
      /\ Answer(u) /\ UNCHANGED <<clock, enrolled, payouts, stale>>
  BY DEF Remove, cleanup
<1>2. /\ session \in [Ids -> Row \cup {New, Gone}] /\ payouts \in [Ids -> 0 .. MaxPayouts]
      /\ mark \in [Ids -> [Students -> {"none", "present", "absent"}]]
  BY DEF SessionsInv, SessionsTypeOK
<1>3. session' \in [Ids -> Row \cup {New, Gone}]
  BY <1>1, <1>2
<1>4. mark' \in [Ids -> [Students -> {"none", "present", "absent"}]]
  BY <1>1, <1>2
<1>5. \A j \in Live' : j \in Live /\ session'[j] = session[j]
  BY <1>1, <1>2 DEF Live, Gone, SessionStatus
<1>6. OneRowPerSlot'
  BY <1>5 DEF SessionsInv, OneRowPerSlot
<1>7. \A j \in Ids : j \notin erased' => Marked(j) \subseteq Marked(j)'
  BY <1>1, <1>2 DEF Marked
<1>8. payouts' \in [Ids -> 0 .. MaxPayouts] /\ \A j \in Ids : payouts'[j] >= payouts[j]
  BY <1>1, <1>2, SessionsAssumption
<1>. QED
  BY <1>1, <1>3, <1>4, <1>5, <1>6, <1>7, <1>8, RequestEnds

LEMMA MarkingKeepsInv ==
  ASSUME SessionsInv, NEW u \in Users, InsertMarks(u)
  PROVE  SessionsInv'
<1>. PICK i \in Ids : i = req[u].id
  BY DEF InsertMarks, SessionsInv, Aimed, Knows
<1>. DEFINE new == [a \in Students |-> IF a \notin seen[u] THEN mark[i][a]
                                       ELSE IF pc[u] = "mark" THEN "present" ELSE "absent"]
<1>1. /\ mark' = [mark EXCEPT ![i] = new] /\ NoneMarked(u)
      /\ Answer(u) /\ UNCHANGED <<clock, session, enrolled, payouts, stale, erased>>
  BY DEF InsertMarks, cleanup
<1>2. /\ session \in [Ids -> Row \cup {New, Gone}] /\ payouts \in [Ids -> 0 .. MaxPayouts]
      /\ mark \in [Ids -> [Students -> {"none", "present", "absent"}]]
  BY DEF SessionsInv, SessionsTypeOK
<1>3. new \in [Students -> {"none", "present", "absent"}]
  BY <1>2
<1>4. mark' \in [Ids -> [Students -> {"none", "present", "absent"}]]
  BY <1>1, <1>2, <1>3
<1>5. \A j \in Ids : Marked(j) \subseteq Marked(j)'
  <2>1. \A a \in Students : new[a] = "none" => mark[i][a] = "none"
    OBVIOUS
  <2>. HIDE DEF new
  <2>. QED
    BY <1>1, <1>2, <2>1 DEF Marked
<1>6. OneRowPerSlot' /\ \A j \in Live' : j \in Live /\ session'[j] = session[j]
  BY <1>1 DEF SessionsInv, OneRowPerSlot, Live
<1>7. /\ session' \in [Ids -> Row \cup {New, Gone}] /\ payouts' \in [Ids -> 0 .. MaxPayouts]
      /\ \A j \in Ids : payouts'[j] >= payouts[j]
  BY <1>1, <1>2, SessionsAssumption
<1>. QED
  BY <1>1, <1>4, <1>5, <1>6, <1>7, RequestEnds

LEMMA AbandoningKeepsInv ==
  ASSUME SessionsInv, NEW u \in Users, Abandon(u)
  PROVE  SessionsInv'
<1>1. Answer(u) /\ UNCHANGED <<clock, session, mark, enrolled, payouts, stale, erased>>
  BY DEF Abandon, rows, cleanup
<1>2. /\ session' \in [Ids -> Row \cup {New, Gone}] /\ payouts' \in [Ids -> 0 .. MaxPayouts]
      /\ mark' \in [Ids -> [Students -> {"none", "present", "absent"}]]
      /\ \A j \in Ids : payouts'[j] >= payouts[j]
  BY <1>1, SessionsAssumption DEF SessionsInv, SessionsTypeOK
<1>3. \A j \in Ids : Marked(j) \subseteq Marked(j)'
  BY <1>1 DEF Marked
<1>4. OneRowPerSlot' /\ \A j \in Live' : j \in Live /\ session'[j] = session[j]
  BY <1>1 DEF SessionsInv, OneRowPerSlot, Live
<1>. QED
  BY <1>1, <1>2, <1>3, <1>4, RequestEnds

(* The cleanup job and the rest of the world                                   *)

\* No request moves in these steps; the job's rows are not FINISHED.
LEMMA WorldMoves ==
  ASSUME SessionsInv, UNCHANGED <<mark, payouts, pc, req, copy, seen, erased>>,
         clock' \in 0 .. Horizon, enrolled' \subseteq Students, stale' \subseteq Ids,
         session' \in [Ids -> Row \cup {New, Gone}], OneRowPerSlot',
         \A i \in Live' :
           session'[i].status # "FINISHED" \/ (i \in Live /\ session'[i] = session[i])
  PROVE  SessionsInv'
<1>1. SessionsTypeOK' /\ Aimed'
  BY DEF SessionsInv, SessionsTypeOK, Aimed
<1>2. \A v \in Users : Same(v)
  BY DEF Same
<1>3. \A i \in Ids : Marked(i) \subseteq Marked(i)' /\ payouts'[i] >= payouts[i]
  BY SessionsAssumption DEF Marked, SessionsInv, SessionsTypeOK
<1>4. \A i \in Live' : Sound(session[i], i)' \/ (i \in Live /\ session'[i] = session[i])
  BY DEF Sound
<1>. QED
  BY <1>1, <1>2, <1>3, <1>4, InvStays

\* The lessons the job inserts have start times no row has, and different ones.
LEMMA MaterializingKeepsInv ==
  ASSUME SessionsInv, NEW due \in SUBSET Timetable, InsertMissed(due),
         UNCHANGED <<clock, mark, enrolled, payouts, work, stale, erased>>
  PROVE  SessionsInv'
<1>1. PICK given \in [due \cap Virtual -> Fresh] :
        /\ IdsInOrder(given)
        /\ session' = [i \in Ids |->
             IF \E t \in DOMAIN given : given[t] = i
             THEN RowAt(CHOOSE t \in DOMAIN given : given[t] = i, "MISSED", FALSE)
             ELSE session[i]]
  BY DEF InsertMissed
<1>2. /\ UNCHANGED <<clock, enrolled, stale>>
      /\ UNCHANGED <<mark, payouts, pc, req, copy, seen, erased>>
  BY DEF work
<1>3. /\ session \in [Ids -> Row \cup {New, Gone}] /\ clock \in 0 .. Horizon
      /\ enrolled \subseteq Students /\ stale \subseteq Ids
  BY DEF SessionsInv, SessionsTypeOK
<1>4. \A i \in Ids :
        \/ session'[i] = session[i]
        \/ \E t \in due \cap Virtual : given[t] = i /\ session'[i] = RowAt(t, "MISSED", FALSE)
  <2>. TAKE i \in Ids
  <2>1. CASE \E t \in DOMAIN given : given[t] = i
    <3>1. PICK t : t = CHOOSE s \in DOMAIN given : given[s] = i
      OBVIOUS
    <3>2. t \in due \cap Virtual /\ given[t] = i
      BY <2>1, <3>1
    <3>3. session'[i] = RowAt(t, "MISSED", FALSE)
      BY <1>1, <2>1, <3>1
    <3>. QED
      BY <3>2, <3>3
  <2>2. CASE ~ \E t \in DOMAIN given : given[t] = i
    BY <1>1, <2>2
  <2>. QED
    BY <2>1, <2>2
<1>5. \A t \in due \cap Virtual : RowAt(t, "MISSED", FALSE) \in Row
  BY RowAtIsRow DEF Virtual, Slots, SessionStatus
<1>6. session' \in [Ids -> Row \cup {New, Gone}]
  <2>1. session' = [i \in Ids |-> session'[i]]
    BY <1>1
  <2>2. \A i \in Ids : session'[i] \in Row \cup {New, Gone}
    BY <1>3, <1>4, <1>5
  <2>. QED
    BY <2>1, <2>2
<1>7. \A i \in Live' : \/ i \in Live /\ session'[i] = session[i]
                       \/ \E t \in due \cap Virtual :
                            given[t] = i /\ session'[i].at = t /\ session'[i].status = "MISSED"
  <2>. TAKE i \in Live'
  <2>1. i \in Ids /\ session'[i].status \in SessionStatus
    BY DEF Live
  <2>2. CASE session'[i] = session[i]
    BY <2>1, <2>2 DEF Live
  <2>3. CASE session'[i] # session[i]
    <3>1. PICK t \in due \cap Virtual : given[t] = i /\ session'[i] = RowAt(t, "MISSED", FALSE)
      BY <1>4, <2>1, <2>3
    <3>2. session'[i].at = t /\ session'[i].status = "MISSED"
      BY <3>1 DEF RowAt
    <3>. QED
      BY <3>1, <3>2
  <2>. QED
    BY <2>2, <2>3
<1>8. OneRowPerSlot'
  <2>. SUFFICES ASSUME NEW i \in Live', NEW j \in Live', session'[i].at = session'[j].at
                PROVE  i = j
    BY DEF OneRowPerSlot
  <2>1. \A t \in Virtual, k \in Live : session[k].at # t
    BY DEF Virtual, At
  <2>. QED
    BY <1>7, <2>1 DEF SessionsInv, OneRowPerSlot
<1>9. \A i \in Live' :
        session'[i].status # "FINISHED" \/ (i \in Live /\ session'[i] = session[i])
  BY <1>7
<1>. QED
  BY <1>2, <1>3, <1>6, <1>8, <1>9, WorldMoves

LEMMA MarkingMissedKeepsInv ==
  ASSUME SessionsInv, MarkMissed
  PROVE  SessionsInv'
<1>1. /\ session' = [i \in Ids |-> IF i \in stale \cap Live
                                   THEN Put(session[i], session[i].at, "MISSED") ELSE session[i]]
      /\ stale' = {} /\ UNCHANGED <<clock, enrolled>>
      /\ UNCHANGED <<mark, payouts, pc, req, copy, seen, erased>>
  BY DEF MarkMissed, work
<1>2. /\ session \in [Ids -> Row \cup {New, Gone}] /\ clock \in 0 .. Horizon
      /\ enrolled \subseteq Students
  BY DEF SessionsInv, SessionsTypeOK
<1>3. \A i \in stale \cap Live : Put(session[i], session[i].at, "MISSED") \in Row
  <2>. TAKE i \in stale \cap Live
  <2>1. session[i] \in Row /\ session[i].at \in Slots
    BY LiveIsRow DEF SessionsInv, Live, Row
  <2>. QED
    BY <2>1, PutIsRow DEF SessionStatus
<1>4. session' \in [Ids -> Row \cup {New, Gone}]
  BY <1>1, <1>2, <1>3
<1>5. \A i \in Live' : /\ i \in Live /\ session'[i].at = session[i].at
                       /\ session'[i].status = "MISSED" \/ session'[i] = session[i]
  <2>. TAKE i \in Live'
  <2>1. i \in Ids /\ session'[i].status \in SessionStatus
    BY DEF Live
  <2>2. CASE i \in stale \cap Live
    BY <1>1, <2>1, <2>2 DEF Put
  <2>3. CASE i \notin stale \cap Live
    BY <1>1, <2>1, <2>3 DEF Live
  <2>. QED
    BY <2>2, <2>3
<1>6. OneRowPerSlot'
  BY <1>5 DEF SessionsInv, OneRowPerSlot
<1>. QED
  BY <1>1, <1>2, <1>4, <1>5, <1>6, WorldMoves

(* Theorems                                                                    *)

LEMMA StepsKeepInv ==
  ASSUME SessionsInv, [SessionsNext]_vars
  PROVE  SessionsInv'
<1>1. ASSUME NEW u \in Users, Request(u) PROVE SessionsInv'
  BY <1>1, BeginningKeepsInv, ReadingKeepsInv, SavingKeepsInv, MovingKeepsInv,
     InsertingKeepsInv, RemovingKeepsInv, MarkingKeepsInv, AbandoningKeepsInv DEF Request
<1>2. CASE MaterializeMissed \/ MaterializeFails
  <2>1. PICK due \in SUBSET Timetable : InsertMissed(due)
    BY <1>2 DEF MaterializeMissed, MaterializeFails, Overdue
  <2>2. UNCHANGED <<clock, mark, enrolled, payouts, work, stale, erased>>
    BY <1>2 DEF MaterializeMissed, MaterializeFails, cleanup
  <2>. QED
    BY <2>1, <2>2, MaterializingKeepsInv
<1>3. CASE SelectStale \/ RunFails
  <2>1. /\ UNCHANGED <<clock, session, enrolled>> /\ stale' \subseteq Ids
        /\ UNCHANGED <<mark, payouts, pc, req, copy, seen, erased>>
    BY <1>3 DEF SelectStale, RunFails, rows, work, Live
  <2>. QED
    BY <2>1, WorldMoves DEF SessionsInv, SessionsTypeOK, OneRowPerSlot, Live
<1>4. CASE Tick
  <2>1. /\ UNCHANGED <<session, enrolled, stale>> /\ clock' \in 0 .. Horizon
        /\ UNCHANGED <<mark, payouts, pc, req, copy, seen, erased>>
    BY <1>4, SessionsAssumption DEF Tick, rows, work, cleanup, SessionsInv, SessionsTypeOK
  <2>. QED
    BY <2>1, WorldMoves DEF SessionsInv, SessionsTypeOK, OneRowPerSlot, Live
<1>5. ASSUME NEW a \in Students, Enrol(a) PROVE SessionsInv'
  <2>1. /\ UNCHANGED <<session, clock, stale>> /\ enrolled' \subseteq Students
        /\ UNCHANGED <<mark, payouts, pc, req, copy, seen, erased>>
    BY <1>5 DEF Enrol, rows, work, cleanup, SessionsInv, SessionsTypeOK
  <2>. QED
    BY <2>1, WorldMoves DEF SessionsInv, SessionsTypeOK, OneRowPerSlot, Live
<1>6. CASE UNCHANGED vars
  <2>1. /\ UNCHANGED <<session, clock, enrolled, stale>>
        /\ UNCHANGED <<mark, payouts, pc, req, copy, seen, erased>>
    BY <1>6 DEF vars
  <2>. QED
    BY <2>1, WorldMoves DEF SessionsInv, SessionsTypeOK, OneRowPerSlot, Live
<1>. QED
  BY <1>1, <1>2, <1>3, <1>4, <1>5, <1>6, MarkingMissedKeepsInv
     DEF SessionsNext, Cleanup

LEMMA InitHasInv ==
  ASSUME SessionsInit
  PROVE  SessionsInv
<1>1. /\ session \in [Ids -> Row \cup {New}]
      /\ \A i, j \in Ids : session[i] # New /\ session[j] # New
                             /\ session[i].at = session[j].at => i = j
      /\ \A i \in Ids : session[i].status # "FINISHED"
  BY OpeningsAssumption DEF SessionsInit
<1>2. SessionsTypeOK
  BY <1>1, SessionsAssumption DEF SessionsInit, SessionsTypeOK, NoRequest, Ask
<1>3. Aimed /\ CountStands /\ CopiesSound
  BY DEF SessionsInit, Aimed, Knows, CountStands, Counted, CopiesSound
<1>4. OneRowPerSlot /\ RowsSound
  BY <1>1 DEF OneRowPerSlot, RowsSound, Sound, Live, New, SessionStatus
<1>. QED
  BY <1>2, <1>3, <1>4 DEF SessionsInv

THEOREM SessionsInvHolds == SessionsSpec => []SessionsInv
BY InitHasInv, StepsKeepInv, PTL DEF SessionsSpec

\* A lesson has one row at most, however many requests and runs of the cleanup
\* job find it without one: the unique index on (groupId, startTime) stands in
\* every path that inserts or moves a row, the job's ON CONFLICT among them.
THEOREM SlotsAreUnique == SessionsSpec => [](SessionsTypeOK /\ OneRowPerSlot)
<1>1. SessionsInv => SessionsTypeOK /\ OneRowPerSlot
  BY DEF SessionsInv
<1>. QED
  BY <1>1, SessionsInvHolds, PTL

\* A finished lesson was finished when every enrolled student had a mark, and
\* its totals count them: a request that saves an old copy of the row over it
\* writes the status, the totals and the marks' history of one moment.
THEOREM FinishedWereMarked == SessionsSpec => []FinishedWasMarked
<1>1. SessionsInv => FinishedWasMarked
  BY DEF SessionsInv, RowsSound, Sound, FinishedWasMarked
<1>. QED
  BY <1>1, SessionsInvHolds, PTL

\* A finished lesson of a teacher paid per session has a payout record.
THEOREM FinishedArePaidFor == SessionsSpec => []FinishedIsPaidFor
<1>1. SessionsInv => FinishedIsPaidFor
  BY DEF SessionsInv, RowsSound, Sound, FinishedIsPaidFor
<1>. QED
  BY <1>1, SessionsInvHolds, PTL

\* No step changes a mark: a scan and mark-all-absent never overwrite each
\* other, and a mark disappears with its session only.
THEOREM MarksAreKept == SessionsSpec => MarksStick
<1>. DEFINE Kept == \A i \in Ids, a \in Students :
                      mark[i][a] # "none" => mark'[i][a] = mark[i][a] \/ session'[i] = Gone
<1>1. ASSUME SessionsInv, [SessionsNext]_vars PROVE Kept
  <2>0. /\ session \in [Ids -> Row \cup {New, Gone}]
        /\ mark \in [Ids -> [Students -> {"none", "present", "absent"}]]
    BY <1>1 DEF SessionsInv, SessionsTypeOK
  <2>1. ASSUME NEW u \in Users, InsertMarks(u) PROVE Kept
    <3>. PICK k \in Ids : k = req[u].id
      BY <1>1, <2>1 DEF InsertMarks, SessionsInv, Aimed, Knows
    <3>. DEFINE new == [a \in Students |-> IF a \notin seen[u] THEN mark[k][a]
                                           ELSE IF pc[u] = "mark" THEN "present" ELSE "absent"]
    <3>1. mark' = [mark EXCEPT ![k] = new] /\ seen[u] \cap Marked(k) = {}
      BY <2>1 DEF InsertMarks, NoneMarked
    <3>2. \A a \in Students : mark[k][a] # "none" => new[a] = mark[k][a]
      BY <3>1 DEF Marked
    <3>. HIDE DEF new
    <3>. QED
      BY <2>0, <3>1, <3>2
  <2>2. ASSUME NEW u \in Users, Remove(u) PROVE Kept
    BY <2>0, <2>2 DEF Remove
  <2>3. ASSUME UNCHANGED mark PROVE Kept
    BY <2>3
  <2>4. ASSUME NEW u \in Users, Request(u), ~InsertMarks(u), ~Remove(u) PROVE UNCHANGED mark
    BY <2>4 DEF Request, Transition, TransitionVirtual, CreateExtra, Move, Delete,
       TakeAttendance, Begin, Match, Again, Count, Conflict, Copy, SaveStatus, SaveTime,
       Insert, Abandon, rows
  <2>5. ASSUME Cleanup \/ Tick \/ (\E a \in Students : Enrol(a)) \/ UNCHANGED vars
        PROVE  UNCHANGED mark
    BY <2>5 DEF Cleanup, MaterializeMissed, MaterializeFails, SelectStale, MarkMissed, RunFails,
       Tick, Enrol, rows, vars
  <2>. HIDE DEF Kept
  <2>. QED
    BY <1>1, <2>1, <2>2, <2>3, <2>4, <2>5 DEF SessionsNext
<1>2. SessionsInv /\ [SessionsNext]_vars => [Kept]_vars
  BY <1>1
<1>. QED
  BY <1>2, SessionsInvHolds, PTL DEF SessionsSpec, MarksStick
=============================================================================
