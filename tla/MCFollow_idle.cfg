SPECIFICATION IdleSpec
CONSTANTS
    k1 = k1  k2 = k2  k3 = k3  a = a  b = b
    Key <- MCKey
    Bodies <- MCBodies
    FinalityDepth = 9
    Confirmations = 0
    MaxHeight = 4
    MaxReorgs = 2
    StartBlock = 1
    MinChunk = 1
    MaxChunk = 3
    ChunkSize = 2
    ResultLimit = 1
    Undecodable <- MCNone
    MaxFaults = 1
    Word = 1024
INVARIANTS CleanWhenIndexing RollbackCutsNone
