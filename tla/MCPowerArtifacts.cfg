SPECIFICATION Spec
CONSTANTS
  Hosts = {"n1"}
  Gpus = {0, 1}
  Jobs <- MCJobs
  MaxGap = 2
  Tolerance = 1
  Start = 1
  MaxTime = 5
  MaxFaults = 1
  None = None
INVARIANTS
  ArtifactsSound
  MeasuredInThisRun
  ScanKeepsSingletons
CHECK_DEADLOCK FALSE
