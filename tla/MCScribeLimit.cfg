SPECIFICATION Spec
CONSTANTS
  Chars = {"a"}
  TabWidth = 2
  MaxLines = 2
  TextRows = 1
  MaxText = 3
  Files <- MCFiles
  Needles <- MCNeedles
CHECK_DEADLOCK FALSE
INVARIANT CursorInText
