SPECIFICATION FairSpec
CONSTANTS
    Jobs = {j1, j2, j3}
    NoJob = NoJob
    Stages <- MCStages
    MaxStarts = 2
    MaxFaults = 1
INVARIANTS TypeOK Inv StrandedByFaults AtMostOneAttempt NoPhantomProgress
PROPERTIES FinishedNotRerun ImplementsContract QueuedJobsFinish
CHECK_DEADLOCK FALSE
