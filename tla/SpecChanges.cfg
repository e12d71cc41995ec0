CONSTANTS
  MaxReplicas = 3
  MaxEdits = 2
  None = None
SPECIFICATION Spec
INVARIANTS
  TypeOK
PROPERTIES
  OneGroupUnlessDropped
  SettlesOrStuck
CHECK_DEADLOCK FALSE
