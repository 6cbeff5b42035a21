SPECIFICATION Spec
CONSTANTS
  ColourCount = 2
  DefaultW = 3
  DefaultH = 2
  Contents <- MCContents
INVARIANTS ScreenShowsRune CleanRuneIsInFile
PROPERTY ImplementsCanvas
