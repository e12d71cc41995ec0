CONSTANTS
  Pods = {p1, p2, p3}
  None = None
  Faults = {"sql"}
SPECIFICATION Spec
INVARIANTS
  UserHasPrivileges
