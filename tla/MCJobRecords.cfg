SPECIFICATION Spec
CONSTANTS
    None = None
    Jobs <- MCJobs
INVARIANT ReportsSound
INVARIANT RecordsSound
INVARIANT ShortageWarned
PROPERTY CpusKept
PROPERTY CleanupEnds
CHECK_DEADLOCK FALSE
