\* One payment on one transaction under the fairness of FairSpec; execute may die.
SPECIFICATION FairSpec
CONSTANTS
  b1 = b1
  Attempts = {r1}
  Txns = {t1}
  Payments = {p1}
  Amounts = {100}
  Price = 100
  ForeignOrder = foreign
  None = none
  Buyers = {b1}
  Keys = {k1}
  Owner <- OneOwner
  Workers = {w1}
  Handlers = {h1}
  Subscribed = {"payment.captured", "payment.failed", "order.paid"}
  CrashPoints = {"execute"}
PROPERTIES UncertaintyResolves CapturedSettles
CHECK_DEADLOCK FALSE
