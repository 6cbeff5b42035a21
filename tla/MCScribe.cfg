SPECIFICATION Spec
CONSTANTS
  Chars = {"a"}
  TabWidth = 2
  MaxLines = 6
  TextRows = 2
  MaxText = 3
  Files <- MCFiles
  Needles <- MCNeedles
CHECK_DEADLOCK FALSE
INVARIANTS CursorInText CleanTextIsInFile ScreenShowsText
PROPERTIES ImplementsDocument
