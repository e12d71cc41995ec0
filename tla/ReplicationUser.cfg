CONSTANTS
  Pods = {p1, p2, p3}
  None = None
  Faults = {"sql", "reconnect", "crash"}
SPECIFICATION Spec
INVARIANTS
  NoErrantTransaction
  PrivilegesUnlessCutShort
