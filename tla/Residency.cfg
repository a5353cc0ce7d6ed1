SPECIFICATION FairSpec
CONSTANTS
    embedding = embedding
    reranking = reranking
    Models <- MCModels
    NoModel = NoModel
    Vram <- MCVram
    Overhead = 4
    Caps = {22, 23}
    MaxFailures = 4
INVARIANTS TypeOK ResidencyInv AtMostOneReady TruthfulStates ServesReady
PROPERTIES FailedSwitchRestores EnsureRecovers
CHECK_DEADLOCK FALSE
