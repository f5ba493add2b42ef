CONSTANTS
  None = None
  EventId <- MCEventIds
  TaskId = {"t1", "t2"}
  RootId = {"r1", "r2"}
  Correlation = {"c1", "c2"}
  RouteRef = {"d1"}
  OtherRef = {"a1", "a2", "g1", "p1"}
  GroupRef = {"g1"}
  ReportRef = {"p1"}
  RefTail <- MCRefTail
  Offered <- MCOffered
SPECIFICATION Spec
\* The function has returned.
CHECK_DEADLOCK FALSE
INVARIANTS
  SameProjectionsAgain
