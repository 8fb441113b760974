\* The fair system with a second payment on the order.
SPECIFICATION FairSpec
CONSTANTS
  b1 = b1
  Attempts = {r1}
  Txns = {t1}
  Payments = {p1, p2}
  Amounts = {100}
  Price = 100
  ForeignOrder = foreign
  None = none
  Buyers = {b1}
  Keys = {k1}
  Owner <- OneOwner
  Workers = {}
  Handlers = {h1}
  Subscribed = {"payment.failed", "order.paid"}
  CrashPoints = {}
PROPERTIES CapturedSettles
CHECK_DEADLOCK FALSE
