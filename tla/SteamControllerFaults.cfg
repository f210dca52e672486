\* Either everything may go wrong except the status of a callback, or nothing.
CONSTANTS
  FaultCases = {{}, {"early", "refuse", "drop", "discovery", "shutdown"}}
  IsChromebook = TRUE
  MaxOps = 4
  MaxLinks = 3
SPECIFICATION FairSpec
INVARIANTS
  TypeOK
  OneHome
  NoIdleQueue
  FirstLinkNeverThrows
  ConfiguredBeforeRegistered
PROPERTIES
  EventuallyRegistered
  NoStall
CHECK_DEADLOCK FALSE
