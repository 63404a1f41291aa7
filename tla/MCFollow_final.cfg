SPECIFICATION Spec
CONSTANTS
    k1 = k1  k2 = k2  k3 = k3  a = a  b = b
    Key <- MCKey
    Bodies <- MCBodies
    FinalityDepth = 2
    Confirmations = 2
    MaxHeight = 5
    MaxReorgs = 2
    StartBlock = 1
    MinChunk = 1
    MaxChunk = 3
    ChunkSize = 2
    ResultLimit = 1
    Undecodable <- MCUndecodable
    MaxFaults = 2
    Word = 1024
INVARIANTS Fresh Complete
PROPERTIES ImplementsFeed
