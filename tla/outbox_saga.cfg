SPECIFICATION FocusSpec
CONSTANTS
  None = None
  Nil = Nil
  Foci = {"effects"}
  Turns = {t1, t2}
  Scopes = {s1}
  Calls = {c1, c2}
  Pipeline = pipeline
  owner = owner
  fact = fact
  trunk = trunk
  EffectChoices <- Documents
  MaxFaults = 1
  MaxActive = 2
  a = a
  b = b
  c = c
  mail = mail
  audit = audit
  first = first
  second = second
  Handlers = {mail, audit}
  Compensators = {mail}
  MaxAttempts <- Attempts
  Keys = {a, b}
  Sagas = {first}
  Intents <- Nothing
  Abortable = {}
  StepsOf <- Alone
  Dispatchers = {}
  MaxDisposals = 0
INVARIANTS
  FailedSagaIsUndone
CHECK_DEADLOCK FALSE
