SPECIFICATION Spec
CONSTANTS
  Names = {f, g}
  Texts <- MCTexts
  MaxText = 2
  NodesPerSector = 4
  SectorCells = 2
  NodeLimits = {4, 5}
  MaxFaults = 1
  LastLba = 6
  FirstDisks = {"none", "other"}
SYMMETRY Symmetry
INVARIANT ReadsReturnContents
PROPERTIES CleanedOnlyBySaving RestartRestores
