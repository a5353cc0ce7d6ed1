SPECIFICATION FairSpec
CONSTANTS
    Jobs = {j1, j2}
    NoJob = NoJob
    Stages <- MCStages
    MaxStarts = 2
    MaxFaults = 0
PROPERTIES RequeuedJobsFinish
CHECK_DEADLOCK FALSE
