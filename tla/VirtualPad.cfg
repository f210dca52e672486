CONSTANTS
  Buttons = {enter}
  enter = enter
  realSize = 100
  CrossPoints <- MCCrossPoints
  MaxFingers = 2
SPECIFICATION Spec
INVARIANTS
  TypeOK
  HeldKeysMatchViews
PROPERTIES
  SteersWithFinger
  LiftReleases
CHECK_DEADLOCK TRUE
