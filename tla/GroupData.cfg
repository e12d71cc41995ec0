CONSTANTS
  N = 3
  ForceBootstrap = FALSE
  None = None
  Faults = {"kill", "edit"}
  Txns = {"t"}
SPECIFICATION DataSpec
INVARIANTS
  BootstrapWhenNoneOnline
  NoSplitBrain
  CommittedKept
PROPERTIES
  OneGroupImplemented
  ConvergesOrLoses
