\* Three execute calls over two transactions of one buyer, with two keys each and a
\* second buyer, a reconciliation worker, deaths of both services; nobody pays yet.
SPECIFICATION Spec
CONSTANTS
  b1 = b1
  Attempts = {r1, r2, r3}
  Txns = {t1, t2}
  Payments = {}
  Amounts = {100}
  Price = 100
  ForeignOrder = foreign
  None = none
  Buyers = {b1, b2}
  Keys = {k1, k2}
  Owner <- OneOwner
  Workers = {w1}
  Handlers = {}
  Subscribed = {}
  CrashPoints = {"execute", "reconcile"}
SYMMETRY Symmetry
INVARIANTS Inductive TypeOK OneOrderPerTransaction PendingNamesItsOrder LegalTransitions RepliesMatchRequests
PROPERTIES AnswersRepeat ImplementsLifecycle
CHECK_DEADLOCK FALSE
