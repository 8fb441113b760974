\* One transaction, two payments on its order or on a foreign one, two callbacks
\* at once, failed and repeated events; the transaction is dispatched undisturbed.
SPECIFICATION Spec
CONSTANTS
  b1 = b1
  Attempts = {r1}
  Txns = {t1}
  Payments = {p1, p2}
  Amounts = {100}
  Price = 100
  ForeignOrder = foreign
  None = none
  Buyers = {b1}
  Keys = {k1}
  Owner <- OneOwner
  Workers = {}
  Handlers = {h1, h2}
  Subscribed = {"payment.authorized", "payment.failed", "order.paid"}
  CrashPoints = {}
SYMMETRY Symmetry
INVARIANTS Inductive SucceededIsPaid ProcessedIsRecorded
PROPERTIES ReferencesStand SettledStands ReceiptsStand
CHECK_DEADLOCK FALSE
