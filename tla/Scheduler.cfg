SPECIFICATION FairSpec
CONSTANTS
    MaxJobs = 2
    MaxLoops = 2
    MaxDeaths = 1
    Request = {r1, r2}
INVARIANT SchedulerInvariant
PROPERTY RemovalsAreExact
PROPERTY DueJobsAreScanned
CHECK_DEADLOCK FALSE
