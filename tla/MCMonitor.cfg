\* The user quits and the jobs are over: then nothing happens any more.
CHECK_DEADLOCK FALSE
SPECIFICATION Spec
CONSTANTS
    Jobs = {1, 2}
    Lives <- MCLives
    OldJobs = {2}
    Height <- MCHeight
    Lines = 3
    ShowAll = TRUE
    MaxTroubles = 1
    MaxKeys = 3
    MaxResumes = 1
INVARIANT DashboardSound
PROPERTY ConfirmedSound
PROPERTY ListCatchesUp
