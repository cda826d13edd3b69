SPECIFICATION FairDeliverySpec
CONSTANTS
  None = None
  Requests = {r1, r2}
  Messages = {m1, m2}
  Turns = {t1, t2}
  Calls = {c1, c2}
  Reused = {r1}
  Foreign = {m2}
  Mishaps = {"denial", "fault", "crash", "drop", "garble", "cancel"}
  MaxMishaps = 2
INVARIANTS
  RequestsAreWhole
  DeliveredIsSaid
PROPERTIES
  ImplementsRegister
  CallsAndSubmissionsEnd
CHECK_DEADLOCK FALSE
