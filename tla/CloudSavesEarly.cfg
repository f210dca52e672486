CONSTANTS
  Files = {a}
  Underscored = {}
  a = a
  Envs = {{"early", "device"}}
  MaxVersions = 2
  MaxTime = 2
SPECIFICATION FairSpec
PROPERTIES
  FreshIsSkipped
CHECK_DEADLOCK FALSE
