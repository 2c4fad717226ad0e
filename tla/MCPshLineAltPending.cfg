CONSTANTS
  CMDSZ = 3
  HISTSZ = 3
  ESCSZ = 5
  Text = {"x"}
  EscBytes <- AltBytes
  Alnum <- MCAlnum
  Controls <- KeyControls
  Completions <- NoCompletions
  Histories <- NoHistory
SPECIFICATION Spec
INVARIANTS
  KeyEndsSequence
