SPECIFICATION FairSpec
CONSTANTS
    w1 = w1  w2 = w2
    Worker = {w1, w2}
    Froms = {1, 3}
    Tos = {2, 7}
    Heads = {0, 6}
    Confirmations = 1
    MinChunk = 1
    MaxChunk = 4
    ChunkSize = 2
    RangeLimit = 1
    MaxFaults = 1
    Word = 32
INVARIANTS TypeOK Exclusive CheckpointHasLogs SuccessIsComplete
PROPERTIES Returns ImplementsJob
CHECK_DEADLOCK FALSE
