CONSTANTS
  MaxReplicas = 1
  Ports = {3306, 3307}
  MySQLPort = 3306
  ResourceNames <- Names
  Numerals <- ThreeNumerals
  Overrides <- UpToTwoKeys
  None = None
SPECIFICATION Spec
INVARIANTS
  PortIsServed
CHECK_DEADLOCK FALSE
