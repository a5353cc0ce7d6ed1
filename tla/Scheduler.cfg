SPECIFICATION FairSpec
CONSTANTS
    EpochMaxSeconds = 2
    EpochMaxCost = 2
    MinResidencySeconds = 1
    SwitchCooldownSeconds = 1
    QueueMaxWaitSeconds = 2
    Swapping = TRUE
    BatchMaxCost = 1
    MaxPending <- MCUnevenQueues
    TimeCap = 2
    MaxFailures = 1
INVARIANTS TypeOK BelievesRight OverdueNotPassedTwice
PROPERTY NoStarvation
