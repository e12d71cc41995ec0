CONSTANTS
  N = 3
  ForceBootstrap = FALSE
  None = None
  Faults <- NotStale
SPECIFICATION Spec
INVARIANTS
  TypeOK
  StatusCoherent
  OneBootstrapPerPass
PROPERTIES
  StatusKept
