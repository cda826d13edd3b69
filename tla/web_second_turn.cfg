SPECIFICATION DeliverySpec
CONSTANTS
  None = None
  Requests = {r1, r2}
  Messages = {m1}
  Turns = {t1, t2}
  Calls = {c1, c2, c3}
  Reused = {}
  Foreign = {}
  Mishaps = {"drop"}
  MaxMishaps = 1
INVARIANTS
  SaidOnce
CHECK_DEADLOCK FALSE
