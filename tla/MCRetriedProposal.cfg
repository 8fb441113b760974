\* One thread that serves a request and its retry under the same Idempotency-Key.
SPECIFICATION Spec
CONSTANTS
  None = none
  Requests = {1}
  MaxRequests = 2
  Proposals = {1, 2}
  Keys = {k1}
  Derived = derived
  MaxSteps = 1
  MaxCalls = 1
  Connections = 1
INVARIANTS KeysReplay
CHECK_DEADLOCK FALSE
