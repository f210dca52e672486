\* The race between SDLMain's mSDLThread = null and its finish().
CONSTANTS
  MaxGames = 2
SPECIFICATION Spec
INVARIANT StartsOnce
CHECK_DEADLOCK TRUE
