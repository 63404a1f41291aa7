SPECIFICATION RaceSpec
CONSTANTS
    k1 = k1  k2 = k2  k3 = k3  a = a  b = b
    Key <- MCKey
    Bodies <- MCFewBodies
    FinalityDepth = 9
    Confirmations = 0
    MaxHeight = 3
    MaxReorgs = 1
    StartBlock = 1
    MinChunk = 1
    MaxChunk = 3
    ChunkSize = 2
    ResultLimit = 1
    Undecodable <- MCNone
    MaxFaults = 0
    Word = 1024
PROPERTIES EventuallyFresh
