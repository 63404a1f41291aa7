SPECIFICATION Spec
CONSTANTS
    r1 = r1  r2 = r2
    Word = 64
    MaxScale = 64
    MaxStored = 6
    Shipped <- MCShipped
    Request = {r1, r2}
    Address <- MCAddress
    Length <- MCLength
    Lower <- MCLower
CHECK_DEADLOCK FALSE
INVARIANTS StaysInBounds Halves GrowsBack FileSurvives StartsSane KnownEvents
