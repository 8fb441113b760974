\* Two policy updates at once over one proposal, its buyer and an approval.
SPECIFICATION Spec
CONSTANTS
  None = none
  Held = held
  PolicyIds = {q1}
  Editors = {e1, e2}
  Limits = {10}
  MaxPolicyVersion = 2
  Proposals = {p1}
  Total = 10
  Life = 1
  Horizon = 0
  MaxProductVersion = 1
  MaxRows = 1
  Sessions = {b1}
  Approvals = {a1}
  Reviews = {}
CONSTRAINTS FewCalls FewMoves
PROPERTIES DispatchFollowsPolicy
CHECK_DEADLOCK FALSE
