SPECIFICATION Spec
CONSTANTS
  Names = {f, g}
  Texts <- MCTexts
  MaxText = 2
  NodesPerSector = 4
  SectorCells = 2
  NodeLimits = {5}
  MaxFaults = 1
  LastLba = 6
  FirstDisks = {"none"}
PROPERTY FreshOnlyIfAbsent
