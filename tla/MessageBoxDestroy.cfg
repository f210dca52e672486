SPECIFICATION FairBoxSpec
CONSTANTS
  MaxGames = 1
  MaxCalls = 1
  Buttons = {1, 2}
PROPERTIES OnDestroyReturns
CHECK_DEADLOCK FALSE
