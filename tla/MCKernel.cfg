SPECIFICATION FairSpec
CONSTANTS
  MAX_TASKS = 4
  DelayYields = 1
  ExitCodes = {0}
  ScriptMax = 2
INVARIANTS
  JanusMatchesTable
  ImagesMatchGolems
PROPERTIES
  FocusIsHandedOver
  TaskFairSpec
  FocusLeavesZombie
  FocusIsSeen
