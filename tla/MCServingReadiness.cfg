SPECIFICATION ReadinessSpec
CONSTANTS
    Jobs <- MCJobs
    MaxDeaths = 2
INVARIANT ReadinessSound
INVARIANT OneBatchLoads
PROPERTY HealthyGetsReady
