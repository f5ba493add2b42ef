SPECIFICATION LedgersSpec
CONSTANTS
  ProposalId = {p1}
  SnapshotId = {1, 2}
  RollbackId = {r1}
  None = None
  MaxTime = 9
  MaxStep = 1
\* A torn ledger is not read or written any more; timestamps may be used up.
CHECK_DEADLOCK FALSE
INVARIANTS
  LedgersLoad
  
PROPERTIES
  RefusalsAreExplained
