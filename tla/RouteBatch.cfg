CONSTANTS
  MaxRequests = 7
  MaxWorkers = 5
  Block = 2
SPECIFICATION Spec
\* The call has returned.
CHECK_DEADLOCK FALSE
INVARIANTS
  TypeOK
PROPERTY
  ImplementsBackend
