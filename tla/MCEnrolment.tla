----------------------------- MODULE MCEnrolment -----------------------------
(* A small instance of Enrolment for TLC: two groups of one class and one of  *)
(* another that meets at the hour of the first; three requests.               *)
EXTENDS Enrolment, TLC

CONSTANTS r1, r2, r3, s1, s2, s3, g1, g2, h, algebra, biology

Classes == (g1 :> algebra) @@ (g2 :> algebra) @@ (h :> biology)
SameHour == {g1, h} \X {g1, h} \cup {<<g2, g2>>}

Asks(op, g, students, skip) ==
  [op |-> op, group |-> g, students |-> students, skip |-> skip]
Three(x, y, z) == (r1 :> x) @@ (r2 :> y) @@ (r3 :> z)
Both == {s1, s2}
Nowhere == [s \in Student |-> Nobody]
InG1 == [s \in Student |-> g1]
SomeScenarios ==
  { << Three(Asks("assign", g1, {s1}, FALSE), Asks("assign", g2, {s1}, FALSE),
             Asks("assign", h, {s1}, FALSE)), Nowhere >>,
    << Three(Asks("assign", g2, {s1}, FALSE), Asks("assign", h, {s1}, TRUE),
             Asks("remove", g1, {s1}, FALSE)), InG1 >>,
    << Three(Asks("assign", g1, {s1}, FALSE), Asks("assign", h, Both, TRUE),
             Asks("remove", g1, {s1}, FALSE)), Nowhere >>,
    << Three(Asks("remove", g1, Student, FALSE), Asks("remove", g1, Both, FALSE),
             Asks("assign", g2, {}, FALSE)), InG1 >> }
=============================================================================
