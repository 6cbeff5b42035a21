SPECIFICATION TaskFairSpec
CONSTANTS
  MAX_TASKS = 5
  DelayYields = 2
  ExitCodes = {0, 1}
INVARIANTS
  OneRunning
  CoreTasksStay
  GolemsAreWaitedFor
PROPERTIES
  ImplementsLifecycle
  ZombieIsFinal
  WaitEndsByCollecting
  ReadyTaskRuns
  ZombieReclaimed
  WaitReturns
