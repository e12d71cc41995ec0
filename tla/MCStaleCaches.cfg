CONSTANTS
  N = 2
  ForceBootstrap = FALSE
  None = None
  Faults <- StaleCaches
SPECIFICATION Spec
INVARIANTS
  StatusCoherent
  OneBootstrapPerPass
PROPERTIES
  CandidateTriggersReconcile
