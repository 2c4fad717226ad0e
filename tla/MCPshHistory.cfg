CONSTANTS
  l1 = l1
  l2 = l2
  blank = blank
  b1 = b1
  b2 = b2
  b3 = b3
  b4 = b4
  b5 = b5
  null = null
  HISTSZ = 4
  Lines <- MCLines
  Blank <- MCBlank
  Bufs <- MCBufs
  NULL = null
SPECIFICATION Spec
INVARIANTS
  NoLeakNoDangling
  RunningLineIsLive
  HistoryPrintsRing
PROPERTIES
  RingIsLog
