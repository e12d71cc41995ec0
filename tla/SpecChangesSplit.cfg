CONSTANTS
  MaxReplicas = 3
  MaxEdits = 2
  None = None
SPECIFICATION Spec
PROPERTIES
  OtherPodsChecked
CHECK_DEADLOCK FALSE
