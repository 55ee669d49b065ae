SPECIFICATION Spec
CONSTANTS
  infra = infra
  worker = worker
  side = side
  Free = Free
  Procs <- MCProcs
  NonCritical <- MCNonCritical
  Frames <- MCFrames
  Configs <- MCConfigs
INVARIANTS
  RegisteredStopped
  TeardownOnIdleNodes
  TruthfulSuccess
  WindowsInOrder
PROPERTIES
  CriticalFailureStops
  StopEndsRun
CHECK_DEADLOCK FALSE
