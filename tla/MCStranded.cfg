\* The fair system, with a reconciliation worker that may die between its two
\* database transactions.
SPECIFICATION FairSpec
CONSTANTS
  b1 = b1
  Attempts = {r1}
  Txns = {t1}
  Payments = {}
  Amounts = {100}
  Price = 100
  ForeignOrder = foreign
  None = none
  Buyers = {b1}
  Keys = {k1}
  Owner <- OneOwner
  Workers = {w1}
  Handlers = {}
  Subscribed = {"payment.captured", "payment.failed", "order.paid"}
  CrashPoints = {"reconcile"}
PROPERTIES UncertaintyResolves
CHECK_DEADLOCK FALSE
