CONSTANTS
  Pods = {p1}
  Confs = {c1, c2, c3}
  Random = {w1, w2}
  Provided <- SomeKeys
  Own = {w1}
  MaxFailures = 1
  Revert = FALSE
  None = None
  NoKey = NoKey
SPECIFICATION FairSpec
INVARIANTS
  TypeOK
  HashTellsConf
PROPERTIES
  SecretsStable
  RollsOut
CHECK_DEADLOCK FALSE
