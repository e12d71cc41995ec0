CONSTANTS
  N = 3
  Txns = {1, 2}
  None = None
SPECIFICATION Spec
INVARIANTS
  CandidateHoldsAll
  OrderIrrelevant
CHECK_DEADLOCK FALSE
