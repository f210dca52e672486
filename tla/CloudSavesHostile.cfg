CONSTANTS
  Files = {a}
  Underscored = {}
  a = a
  Envs = {{"slow", "reorder", "fail", "conflict", "early", "exit", "device", "migrate", "unreadable"},
          {"slow", "reorder", "fail", "conflict", "early", "exit", "tear", "unwritable", "device", "migrate", "unreadable"}}
  MaxVersions = 4
  MaxTime = 4
SPECIFICATION Spec
INVARIANTS
  TypeOK
PROPERTIES
  FresherOnlyIfCutShort
CHECK_DEADLOCK FALSE
