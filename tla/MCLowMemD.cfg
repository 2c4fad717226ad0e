CONSTANTS
  PidMax = 5
  Prog <- MCProg
  Self = 2
  TOTAL = 3
  WORD = 3
  MaxAnon = 2
  MaxThreads = 6
  MaxGap = 2
  THREADS = 5
  PROTECTED = 1
  XNames <- TwoNames
  RESERVE = 2
  MINVICTIM = 1
  COOLDOWN = 2
  REPORT = 1
  WARNING = 3
  CRITICAL = 2
SPECIFICATION FairSpec
INVARIANTS
  KillIsAccountedFor
PROPERTIES
  VictimIsLargest
  LowMemoryIsActedOn
