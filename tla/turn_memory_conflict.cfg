SPECIFICATION RunSpec
CONSTANTS
  None = None
  Turns = {t1, t2}
  Scopes = {s1}
  Calls = {c1, c2}
  Pipeline = pipeline
  owner = owner
  fact = fact
  trunk = trunk
  EffectChoices <- StateAndMemory
  MaxFaults = 0
  MaxActive = 2
INVARIANTS ScopeProjectable
CHECK_DEADLOCK FALSE
