CONSTANTS
  N = 2
  ForceBootstrap = TRUE
  None = None
  Faults <- OnlySQL
SPECIFICATION Spec
PROPERTIES
  JoinJoins
