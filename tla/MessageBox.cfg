SPECIFICATION FairBoxSpec
CONSTANTS
  MaxGames = 2
  MaxCalls = 2
  Buttons = {1, 2}
INVARIANTS BoxTypeOK BoxReturnsChoice OneDialog WaitsForReason
PROPERTIES AnswerReturns
CHECK_DEADLOCK FALSE
