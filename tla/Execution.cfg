SPECIFICATION FairSpec
CONSTANTS
    Duration <- MCDuration
    Unknown = Unknown
    Payloads <- MCPayloads
    Limit <- MCLimit
    Watched <- MCWatched
    MaxCrashes = 1
INVARIANTS TypeOK VideoCovered NoTinyTail ResultsMatchInputs
PROPERTIES ImplementsStages JobEnds TornClipsGo
CHECK_DEADLOCK FALSE
