CONSTANTS
  W = 4
  NSECT = 20
  Layouts <- MCLayouts
  NBLOCKS = 4
  PartNames = {"a", "b", "c", "d", "e", "f", "garbage"}
  MAXPARTS = 5
  Requests <- MCRequests
SPECIFICATION MCSpec
INVARIANTS
  SectorsSurvive
  NewestSurvives
  NoSecondConversion
  OneStaleEntry
  DataDisjoint
  StuckOnlyIfImpossible
