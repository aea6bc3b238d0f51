----------------------------- MODULE MCSessions -----------------------------
(* One group with one lesson in its timetable, a time for an extra lesson and  *)
(* two requests in flight beside the cleanup job.                              *)
EXTENDS Sessions

MCTimetable == {1}
MCExtra == {2}
MCIds == 1 .. 2

\* The table is empty, or an extra lesson is being held.
MCOpenings ==
  {[i \in MCIds |-> New],
   [i \in MCIds |-> IF i = 1 THEN RowAt(2, "CONDUCTING", TRUE) ELSE New]}
=============================================================================
