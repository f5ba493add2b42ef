CONSTANTS
  None = None
  Scannable <- MCScannable
  MaxAgents = 4
  MaxK = 3
  NaN <- MCNaN
  Epsilon = 1
  Rounding <- MCRounding
  Radius = {2, 3}
  Fallback = 9
  Infinity = 100
SPECIFICATION Spec
\* The result has been returned.
CHECK_DEADLOCK FALSE
INVARIANTS
  TypeOK
  HoldsTheBest
  AnswersAsFullSort
  CudaAgreesWithCpu
