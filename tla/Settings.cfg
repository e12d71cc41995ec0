CONSTANTS
  MaxReplicas = 3
  Ports = {3306, 3307}
  MySQLPort = 3306
  ResourceNames <- Names
  Numerals <- ThreeNumerals
  Overrides <- UpToTwoKeys
  None = None
SPECIFICATION Spec
INVARIANTS
  IdentitiesAgree
  OperatorStartsGroups
  OverridesTakeEffect
CHECK_DEADLOCK FALSE
