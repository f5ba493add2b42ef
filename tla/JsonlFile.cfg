CONSTANTS
  None = None
  EventId <- MCEventIds
  TaskId = {"t1"}
  RootId = {"r1"}
  Correlation = {"c1"}
  RouteRef = {"d1"}
  OtherRef = {"a1"}
  Offered <- MCOffered
  Given <- MCGiven
  Writer = {w1, w2, w3}
  Faults = {"torn", "bare"}
  MaxWrites = 4
SYMMETRY Symmetry
SPECIFICATION Spec
\* The writes of the bound may be used up.
CHECK_DEADLOCK FALSE
INVARIANTS
  TypeOK
  AckedOrUnreadable
PROPERTIES
  ImplementsLog
  FreshAppendSticks
