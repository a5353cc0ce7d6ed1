SPECIFICATION FairSpec
CONSTANTS
    Jobs = {j1, j2, j3}
    NoJob = NoJob
    Stages <- MCStages
    MaxStarts = 2
INVARIANTS TypeOK MemoryInv EveryJobInOnePlace WorkerSurvives
PROPERTIES ImplementsVolatileContract WaitingJobsFinish
CHECK_DEADLOCK FALSE
