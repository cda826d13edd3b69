SPECIFICATION FairSpec
CONSTANTS
  None = None
  root = root
  inner = inner
  ghost = ghost
  Root = root
  Experiences <- Catalogue
  MaxFaults = 2
INVARIANTS
  OrderIsKept
  EndsAreJustified
  SequentialJournalReplays
PROPERTIES
  CancelStartsNothing
  RunEnds
CHECK_DEADLOCK FALSE
