\* Two requests and one slot: a forward can wait behind another.
CONSTANTS
  Node = {n1, n2}
  Req = {q1, q2}
  MaxParallel = 1
  RouteModes = {"forward"}
  Failing = {}
  Stopping = {}
  None = None
SPECIFICATION Spec
SYMMETRY Slots
INVARIANTS SteadyRunsOnce
