---------------------------- MODULE WhatsAppStatus ---------------------------
(***************************************************************************)
(* The delivery reports of one WhatsApp message.  Meta accepts the message *)
(* inside the sender's transaction and posts webhooks about it, each with  *)
(* one or more reports, possibly more than once.  Webhooks are jobs of a   *)
(* queue with several workers: reports of one webhook are processed one    *)
(* after the other, those of different webhooks are not.                   *)
(*                                                                         *)
(* The log row can be found by the message id once the sender has          *)
(* committed; the sender is the CommitSent of NotificationJobs.            *)
(***************************************************************************)
EXTENDS Integers, Sequences, SequencesExt, WorkQueue

CONSTANT Webhook   \* webhooks that Meta may post

VARIABLES
  row,      \* status of the log row; "UNCOMMITTED" until the sender commits
  reported, \* what happened to the message, as Meta knows it
  marks,    \* reports marked as processed, in Redis
  batch,    \* reports a webhook carries
  pos,      \* reports of it that are settled
  pc,       \* what its worker does
  restarts,   \* times its worker died
  applied,  \* history: how often a report was written to the row
  dropped   \* history: reports given up after they were taken in hand

reportVars == <<faults, row, reported, marks, batch, pos, pc, restarts, applied, dropped>>

Report == {"sent", "delivered", "read", "failed"}
Histories == {<<"sent", "delivered", "read">>, <<"sent", "failed">>}

\* mapStatus
RowStatus(report) ==
  CASE report = "sent" -> "SENT"
    [] report \in {"delivered", "read"} -> "DELIVERED"
    [] report = "failed" -> "FAILED"

ReportsInit ==
  /\ faults \in Environments
  /\ row = "UNCOMMITTED"
  /\ reported = <<>>
  /\ marks = {}
  /\ batch = [w \in Webhook |-> <<>>] /\ pos = [w \in Webhook |-> 0]
  /\ pc = [w \in Webhook |-> "NONE"] /\ restarts = [w \in Webhook |-> 0]
  /\ applied = [r \in Report |-> 0]
  /\ dropped = {}

Commit ==
  /\ row = "UNCOMMITTED"
  /\ row' = "SENT"
  /\ UNCHANGED <<faults, reported, marks, batch, pos, pc, restarts, applied, dropped>>

Happen ==
  /\ \E h \in Histories, r \in Report :
       /\ IsPrefix(Append(reported, r), h)
       /\ reported' = Append(reported, r)
  /\ UNCHANGED <<faults, row, marks, batch, pos, pc, restarts, applied, dropped>>

\* Any stretch of the reports, for the first time or again.
Post(w) ==
  /\ pc[w] = "NONE"
  /\ "EARLY" \in faults \/ row # "UNCOMMITTED"
  /\ \E i, j \in DOMAIN reported :
       i <= j /\ batch' = [batch EXCEPT ![w] = SubSeq(reported, i, j)]
  /\ pc' = [pc EXCEPT ![w] = "NEXT"]
  /\ UNCHANGED <<faults, row, reported, marks, pos, restarts, applied, dropped>>

Current(w) == batch[w][pos[w] + 1]

\* Leave the report in hand, whatever became of it.
Settle(w) ==
  /\ pos' = [pos EXCEPT ![w] = @ + 1]
  /\ pc' = [pc EXCEPT ![w] = IF pos[w] + 1 < Len(batch[w]) THEN "NEXT" ELSE "DONE"]

\* checkAndMarkProcessed: SET NX on message and status.  Mutants: the key names
\* the message only; the mark is set after the update.
KeyOf_Message(r) == "sent"
KeyOf(r) == r
CheckNew_NoMark(w) ==
  /\ pc[w] = "NEXT" /\ KeyOf(Current(w)) \notin marks
  /\ pc' = [pc EXCEPT ![w] = "CHECKED"]
  /\ UNCHANGED <<faults, row, reported, marks, batch, pos, restarts, applied, dropped>>
CheckNew(w) ==
  /\ pc[w] = "NEXT" /\ KeyOf(Current(w)) \notin marks
  /\ marks' = marks \cup {KeyOf(Current(w))}
  /\ pc' = [pc EXCEPT ![w] = "CHECKED"]
  /\ UNCHANGED <<faults, row, reported, batch, pos, restarts, applied, dropped>>
CheckKnown(w) ==
  /\ pc[w] = "NEXT" /\ KeyOf(Current(w)) \in marks
  /\ Settle(w)
  /\ UNCHANGED <<faults, row, reported, marks, batch, restarts, applied, dropped>>
CheckFails(w) ==
  /\ "REDIS" \in faults
  /\ pc[w] = "NEXT"
  /\ pc' = [pc EXCEPT ![w] = "CHECKED"]
  /\ UNCHANGED <<faults, row, reported, marks, batch, pos, restarts, applied, dropped>>

\* findByWhatsAppMessageId; without a row the report is an orphan.
Find(w) ==
  /\ pc[w] = "CHECKED" /\ row # "UNCOMMITTED"
  /\ pc' = [pc EXCEPT ![w] = "FOUND"]
  /\ UNCHANGED <<faults, row, reported, marks, batch, pos, restarts, applied, dropped>>
Orphan(w) ==
  /\ pc[w] = "CHECKED" /\ row = "UNCOMMITTED"
  /\ Settle(w)
  /\ dropped' = dropped \cup {Current(w)}
  /\ UNCHANGED <<faults, row, reported, marks, batch, restarts, applied>>

\* updateStatusWithMetadata writes the status of this report, whatever the row
\* has by now.
Update(w) ==
  /\ pc[w] = "FOUND"
  /\ row' = RowStatus(Current(w))
  /\ applied' = [applied EXCEPT ![Current(w)] = @ + 1]
  /\ Settle(w)
  /\ UNCHANGED <<faults, reported, marks, batch, restarts, dropped>>

\* An error of one report is logged and the loop goes on.  Mutant: it is thrown,
\* and the queue runs the job again.
Swallow_Retried(w) ==
  /\ "UPDATE" \in faults
  /\ pc[w] \in {"CHECKED", "FOUND"}
  /\ pc' = [pc EXCEPT ![w] = "NEXT"]
  /\ pos' = [pos EXCEPT ![w] = 0]
  /\ marks' = {}
  /\ UNCHANGED <<faults, row, reported, batch, restarts, applied, dropped>>
Swallow(w) ==
  /\ "UPDATE" \in faults
  /\ pc[w] \in {"CHECKED", "FOUND"}
  /\ Settle(w)
  /\ dropped' = dropped \cup {Current(w)}
  /\ UNCHANGED <<faults, row, reported, marks, batch, restarts, applied>>

\* The worker dies; the job starts again with its first report, or fails.  The
\* report in hand keeps its mark; those ahead are lost when the job fails.
InHand(w) == IF pc[w] \in {"CHECKED", "FOUND"} THEN {Current(w)} ELSE {}
Ahead(w) == ToSet(SubSeq(batch[w], pos[w] + 1, Len(batch[w])))
WebhookCrash(w) ==
  /\ "CRASH" \in faults
  /\ pc[w] \in {"NEXT", "CHECKED", "FOUND"}
  /\ restarts' = [restarts EXCEPT ![w] = @ + 1]
  /\ pos' = [pos EXCEPT ![w] = 0]
  /\ pc' = [pc EXCEPT ![w] = IF restarts[w] < MaxStalls THEN "NEXT" ELSE "DEAD"]
  /\ dropped' = dropped \cup InHand(w) \cup
                 (IF restarts[w] < MaxStalls THEN {} ELSE Ahead(w))
  /\ UNCHANGED <<faults, row, reported, marks, batch, applied>>

Process(w) ==
  \/ CheckNew(w) \/ CheckKnown(w) \/ CheckFails(w)
  \/ Find(w) \/ Orphan(w) \/ Update(w) \/ Swallow(w)
ReportsNext ==
  \/ Commit \/ Happen
  \/ \E w \in Webhook : Post(w) \/ Process(w) \/ WebhookCrash(w)
ReportsSpec == ReportsInit /\ [][ReportsNext]_reportVars
ReportsFairSpec == ReportsSpec /\ \A w \in Webhook : WF_reportVars(Process(w))

-----------------------------------------------------------------------------
(* Properties *)

ReportsTypeOK ==
  /\ faults \in Environments /\ dropped \subseteq Report
  /\ row \in {"UNCOMMITTED", "SENT", "DELIVERED", "FAILED"}
  /\ \E h \in Histories : IsPrefix(reported, h)
  /\ marks \subseteq Report
  /\ \A w \in Webhook :
       /\ pos[w] \in 0 .. Len(batch[w])
       /\ pc[w] \in {"NEXT", "CHECKED", "FOUND"} => pos[w] < Len(batch[w])
       /\ restarts[w] \in 0 .. MaxStalls + 1
  /\ applied \in [Report -> Nat]

\* However often Meta repeats itself, in however many webhooks at once, and
\* although workers die and updates fail, a report is written at most once, while
\* Redis can be read (an unreadable mark counts as missing, by design).
AppliedOnce == "REDIS" \notin faults => \A r \in Report : applied[r] <= 1

Settled == \A w \in Webhook : pc[w] \in {"NONE", "DONE", "DEAD"}
Posted == UNION {ToSet(batch[w]) : w \in Webhook}

\* A report that no webhook has given up (as an orphan, for an error, or because
\* its worker died) was written, by one of the webhooks that carried it; that the
\* others skip it never means that nobody wrote it. Types hold.
PostedIsApplied == ReportsTypeOK /\ (Settled => \A r \in Posted \ dropped : applied[r] > 0)

\* A webhook job ends, though its errors are not retried and not counted.
WebhooksEnd == \A w \in Webhook : (pc[w] = "NEXT") ~> (pc[w] \in {"DONE", "DEAD"})
=============================================================================
