CONSTANTS
  Lines <- NothingToRun
  Unknown <- MCUnknown
  NFD = 6
SPECIFICATION Spec
INVARIANTS
  NoFdLeft
