SPECIFICATION Spec
CONSTANTS
  TextWidth = 2
  TermHeight = 2
  ScrollbackRows = 4
  Chars = {"a"}
  Prompts <- MCPrompts
  Outputs <- MCOutputs
  InitialCap = 3
  HistoryMax = 2
  HistoryLine = 1
  MaxTyped = 4
INVARIANTS InputInPlace ScreenIsWindow
PROPERTIES EditsInPlace OutputIsSeen
