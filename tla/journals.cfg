SPECIFICATION FairFocusSpec
CONSTANTS
  None = None
  Nil = Nil
  Foci = {"turns", "effects"}
  Turns = {t1, t2}
  Scopes = {s1}
  Calls = {c1, c2}
  Pipeline = pipeline
  owner = owner
  fact = fact
  trunk = trunk
  EffectChoices <- Documents
  MaxFaults = 1
  MaxActive = 2
  a = a
  b = b
  c = c
  mail = mail
  audit = audit
  first = first
  second = second
  Handlers = {mail, audit}
  Compensators = {mail}
  MaxAttempts <- Attempts
  Keys = {a, b, c}
  Sagas = {first, second}
  Intents <- Loose
  Abortable = {first, d}
  StepsOf <- Shared
  Dispatchers = {d}
  MaxDisposals = 1
INVARIANTS
  AtMostOneTerminal
  PhaseMatchesLog
  IInv
  LogIsHistory
  EntriesAreTrue
  SagaUndoesInOrder
PROPERTIES
  ImplementsTransaction
  EveryRunSettles
  SettledStays
  TaskEnds
CHECK_DEADLOCK FALSE
