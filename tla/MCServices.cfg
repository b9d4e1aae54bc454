\* Three changes of the environment let a disk or a route go and come back;
\* two restarts can be under way at once.
CONSTANTS
  Scenarios <- MCScenarios
  Peers <- MCPeers
  Self = "node-a"
  Addrs <- MCAddrs
  Nil = Nil
  MaxFlaps = 3
  MaxRestarts = 2
SPECIFICATION Spec
CHECK_DEADLOCK FALSE
INVARIANTS PrecedenceKept  
PROPERTIES RestartEnds DegradedFences 
