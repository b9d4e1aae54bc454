\* The configuration names every peer.  Two calls: the replies of the first
\* may arrive during the second.
CONSTANTS
  Node = {n1, n2}
  Expected = {n1, n2}
  Programs <- MCPrograms
  MaxChanges = 3
  None = None
SPECIFICATION FanoutSpec
SYMMETRY Symmetry
CHECK_DEADLOCK FALSE
INVARIANTS StatusOfThisCall StablePrimaryNamed 
