\* A device with one interface and two calls or restarts, or with two interfaces
\* and one.
CONSTANTS
  Devices = {d}
  d = d
  MaxPorts = 2
  Budget = 3
SPECIFICATION FairSpec
INVARIANTS
  TypeOK
  AttachedIsListed
  IdsUnique
  SoleReader
  NothingLeaks
  CrashNeedsOverlap
PROPERTIES
  CloseReturns
CHECK_DEADLOCK FALSE
