\* One transaction, one payment of right or wrong amount on its order or on a foreign
\* one, two callbacks at once, reconciliation and deaths of both services.
SPECIFICATION Spec
CONSTANTS
  b1 = b1
  Attempts = {r1}
  Txns = {t1}
  Payments = {p1}
  Amounts = {100, 250}
  Price = 100
  ForeignOrder = foreign
  None = none
  Buyers = {b1}
  Keys = {k1}
  Owner <- OneOwner
  Workers = {w1}
  Handlers = {h1, h2}
  Subscribed = {"payment.captured", "payment.failed", "order.paid", "refund.processed"}
  CrashPoints = {"execute", "reconcile"}
SYMMETRY Symmetry
INVARIANTS Inductive SucceededIsPaid NoPaymentBeforePending
PROPERTIES ImplementsLifecycle
CHECK_DEADLOCK FALSE
