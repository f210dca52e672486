\* The callback of the direct write meets a queued report.
CONSTANTS
  FaultCases = {{}}
  IsChromebook = FALSE
  MaxOps = 2
  MaxLinks = 1
SPECIFICATION Spec
INVARIANTS
  FinishesOnlyRun
CHECK_DEADLOCK FALSE
