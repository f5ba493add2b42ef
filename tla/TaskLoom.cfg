SPECIFICATION Spec
CONSTANTS
  EventId <- MCEventId
  TaskId <- MCTaskId
  RootId <- MCRootId
  Correlation <- MCCorrelation
  RouteRef <- MCRouteRef
  OtherRef <- MCOtherRef
  Config <- MCConfig
  GroupRef <- MCGroupRef
  ReportRef <- MCReportRef
  RefTail <- MCRefTail
  Offered = {}
  None = None
\* A run ends.
CHECK_DEADLOCK FALSE
INVARIANTS
  TypeOK
  PanicsOnlyOnCollision
  RunValidates
