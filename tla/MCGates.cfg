\* One proposal, two calls of its buyer, two approvals, two policy updates and a manual
\* decision, a product edit and expiry.
SPECIFICATION Spec
CONSTANTS
  None = none
  Held = held
  PolicyIds = {q1}
  Editors = {e1, e2}
  Limits = {10}
  MaxPolicyVersion = 2
  Proposals = {p1}
  Total = 10
  Life = 2
  Horizon = 1
  MaxProductVersion = 2
  MaxRows = 2
  Sessions = {b1, b2}
  Approvals = {a1, a2}
  Reviews = {m1}
SYMMETRY Symmetry
CONSTRAINTS FewRows FewCalls FewMoves
INVARIANTS TypeOK CurrentDecisionFollowsPolicy AnswersAgree TransactionsAreGated Bookkeeping
PROPERTIES DispatchFollowsUnracedPolicy GatesNeverReturn
CHECK_DEADLOCK FALSE
