CONSTANTS
  ProposalId = {p1, p2, p3}
  SnapshotId = {1, 2, 3}
  RollbackId = {b1, b2, b3}
  None = None
  MaxTime = 7
  MaxStep = 1
SYMMETRY Symmetry
SPECIFICATION Spec
\* Timestamps, snapshot ids and rollback ids run out.
CHECK_DEADLOCK FALSE
INVARIANTS
  TypeOK
  RoutingTruthExists
  EvidenceInOrder
  ReferencesResolve
  RolledBackStaysOut
PROPERTIES
  RollbackMovesRouting
  CommitOnEvidence
