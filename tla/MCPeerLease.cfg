\* Two peers: every lease hand-over, restart and drain has its two parties.
CONSTANTS
  Node = {n1, n2}
  None = None
SYMMETRY Peers
SPECIFICATION Spec
INVARIANTS PrimaryHoldsLease OnePrimary
PROPERTIES StoppingNeverWins BootWinnerHasData WriterContract
