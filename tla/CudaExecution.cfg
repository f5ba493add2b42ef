CONSTANTS
  None = None
  agent_vectors = agent_vectors
  request_vectors = request_vectors
  Inputs = {agent_vectors, request_vectors}
  Outputs = {"agent_ids", "flags"}
  small = small
  large = large
  Plans = {small, large}
  MaxBatches = 3
  OtherHolders = 1
  UsizeMax = 60
  U32Modulus = 8
  BlockDim = 2
  Shapes <- MCShapes
SPECIFICATION Spec
SYMMETRY Symmetry
\* The batches are used up, or the executor is gone.
CHECK_DEADLOCK FALSE
INVARIANTS
  TypeOK
  NothingLeaks
  OwnedIsAlive
  ContextOutlivesObjects
  WorkspaceFits
  AnswersOwnBatch
  KernelServesBatch
