\* Before and after Android 7.0 (mHasMultiWindow is chosen in Init).
CONSTANTS
  MaxGames = 3
SPECIFICATION FairSpec
INVARIANTS
  TypeOK
  NoLostResume
  ResumedHasSurface
  AtMostOneGame
  QuitAfterMain
  PauseReachesGame
PROPERTIES
  GameOverEndsProcess
  OnDestroyReturns
  HostContract
CHECK_DEADLOCK TRUE
