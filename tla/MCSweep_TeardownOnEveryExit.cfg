SPECIFICATION Spec
CONSTANTS
  infra = infra
  worker = worker
  side = side
  Free = Free
  Procs <- MCProcs
  NonCritical <- MCNonCritical
  Frames <- MCFrames
  Configs <- MCConfigs
INVARIANT TeardownOnEveryExit
CHECK_DEADLOCK FALSE
