\* Two manual decisions at once on one proposal under review.
SPECIFICATION Spec
CONSTANTS
  None = none
  Held = held
  PolicyIds = {q1}
  Editors = {e1}
  Limits = {10}
  MaxPolicyVersion = 1
  Proposals = {p1}
  Total = 10
  Life = 1
  Horizon = 0
  MaxProductVersion = 1
  MaxRows = 3
  Sessions = {b1}
  Approvals = {a1}
  Reviews = {m1, m2}
INVARIANTS OneVerdictPerVersion
CHECK_DEADLOCK FALSE
