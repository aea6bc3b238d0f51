SPECIFICATION SessionsSpec
CONSTANTS
  Timetable <- MCTimetable
  Extra <- MCExtra
  Ids <- MCIds
  Horizon = 4
  Lead = 0
  Grace = 1
  Window = 2
  Duration = 1
  Students = {s1}
  Users = {u1, u2}
  Openings <- MCOpenings
  MaxRequests = 3
  MaxPayouts = 1
  PayUnit = "session"
INVARIANTS
  OneRowPerSlot
  FinishedWasMarked
  FinishedIsPaidFor
PROPERTIES
  MarksStick
  PastLessonsSettle
CHECK_DEADLOCK FALSE
