\* The script ends, and with it the behaviour.
CHECK_DEADLOCK FALSE
SPECIFICATION Spec
CONSTANTS
    Jobs <- MCJobs
    SlowServers <- MCServers
    MaxTicks = 2
INVARIANT MeasurementsSound
INVARIANT AllUndone
PROPERTY ScriptEnds
