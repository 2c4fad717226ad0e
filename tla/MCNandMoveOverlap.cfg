CONSTANTS
  NBLOCKS = 6
  Moves <- OverlapMoves
  Garbage <- LastBlock
SPECIFICATION Spec
INVARIANTS
  OverlapStaysInside
