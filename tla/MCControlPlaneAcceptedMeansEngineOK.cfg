CONSTANTS
  Node = {n1, n2}
  Req = {q1}
  MaxParallel = 1
  RouteModes = {"forward", "redirect"}
  Failing = {n1}
  Stopping = {n1}
  None = None
SPECIFICATION Spec
INVARIANT AcceptedMeansEngineOK
