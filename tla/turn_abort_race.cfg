SPECIFICATION Spec
CONSTANTS
  None = None
  Turns = {t1}
  Scopes = {s1}
  Calls = {c1}
  Pipeline = pipeline
  owner = owner
  fact = fact
  trunk = trunk
  EffectChoices <- Documents
  MaxFaults = 0
  MaxActive = 1
INVARIANTS AtMostOneTerminal
CHECK_DEADLOCK FALSE
