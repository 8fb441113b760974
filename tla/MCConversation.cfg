\* Two requests at once, three in all, over two proposals and two connections.
SPECIFICATION Spec
CONSTANTS
  None = none
  Requests = {1, 2}
  MaxRequests = 3
  Proposals = {1, 2}
  Keys = {k1}
  Derived = derived
  MaxSteps = 2
  MaxCalls = 2
  Connections = 2
INVARIANTS Inductive TypeOK ToldIsStored
PROPERTIES ImplementsContract RequestsEnd
CHECK_DEADLOCK FALSE
