CONSTANTS
  NBLOCKS = 8
  Moves <- SoundMoves
  Garbage <- LastBlock
SPECIFICATION Spec
INVARIANTS
  OthersUntouched
  DataFollows
  DataStaysTogether
  FailureReverts
  NothingLost
