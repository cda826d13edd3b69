SPECIFICATION Spec
CONSTANTS
  None = None
  root = root
  inner = inner
  ghost = ghost
  Root = root
  Experiences <- JustPair
  MaxFaults = 0
INVARIANTS
  StageWithinRun
CHECK_DEADLOCK FALSE
