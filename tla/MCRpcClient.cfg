SPECIFICATION FairSpec
CONSTANTS
    c1 = c1  c2 = c2
    Call = {c1, c2}
    Concurrency = 1
    Retries = 1
INVARIANTS TypeOK SlotsAccounted TooManyIsHeard BoundedWork
PROPERTIES Returns ImplementsRemote
CHECK_DEADLOCK FALSE
