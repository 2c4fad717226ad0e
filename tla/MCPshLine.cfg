CONSTANTS
  CMDSZ = 3
  HISTSZ = 3
  ESCSZ = 7
  Text = {"x", " "}
  EscBytes <- KeyBytes
  Alnum <- MCAlnum
  Controls <- AllControls
  Completions <- MCCompletions
  Histories <- SomeHistories
SPECIFICATION Spec
INVARIANTS
  LineFits
  ScreenShowsLine
  RunsWhatWasShown
PROPERTIES
  BrowsingKeepsDraft
