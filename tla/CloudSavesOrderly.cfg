CONSTANTS
  Files = {a, b}
  Underscored = {b}
  a = a
  b = b
  Envs = {{"exit", "device"}, {"fail", "exit", "device", "migrate"},
          {"fail", "exit", "tear", "unwritable", "device", "migrate"}}
  MaxVersions = 3
  MaxTime = 4
SPECIFICATION FairSpec
INVARIANTS
  NewestSaveSurvives
PROPERTIES
  RemoteNeverRegresses
  SavesReachCloud
  NewerSnapshotArrives
CHECK_DEADLOCK FALSE
