CONSTANTS
  None = None
  EventId <- MCEventIds
  TaskId = {"t1", "t2"}
  RootId = {"r1", "r2"}
  Correlation = {"c1", "c2"}
  RouteRef = {"d1"}
  OtherRef = {"a1", "a2"}
  Offered <- MCOffered
SPECIFICATION ConsumerSpec
\* Every id of the universe may be used up and the consumer up to date.
CHECK_DEADLOCK FALSE
INVARIANTS
  ConsumerTypeOK
  UniqueEventIds
  RollbackTracesToProposal
  Replayable
  SkipsOnlyLateIds
