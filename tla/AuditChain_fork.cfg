\* Two writers: the chain forks.
SPECIFICATION Spec
CONSTANTS
  Writers = {w1, w2}
  MaxRows = 3
  MaxCrashes = 0
SYMMETRY Symmetry
INVARIANTS
  IsChain
CHECK_DEADLOCK FALSE
