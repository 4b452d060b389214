CONSTANTS
  Total = 7
  Window = 2
  Keep = 2
  None = None
SPECIFICATION FairSpec
INVARIANTS
  CheckpointsAsUninterrupted
  FinishedLogsExact
  NoRowAfterTear
PROPERTIES
  EventuallyTrained
  ImplementsKindOutput
