SPECIFICATION Spec
CONSTANTS
    embedding = embedding
    reranking = reranking
    Models <- MCModels
    NoModel = NoModel
    Vram <- MCVram
    Overhead = 4
    Caps = {22}
    MaxFailures = 1
INVARIANT SwappingKeepsOne
CHECK_DEADLOCK FALSE
