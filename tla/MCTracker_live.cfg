SPECIFICATION FairSpec
CONSTANTS
    t1 = t1  t2 = t2  t3 = t3  s1 = s1  s2 = s2
    f1 = f1  f2 = f2  r1 = r1  r2 = r2
    Tx = {t1, t3}
    Slot = {s1, s2}
    SlotOf <- MCSlotOf
    None = None
    FetchWorker = {f1}
    ReceiptWorker = {r1}
    TrackLifecycle = TRUE
    MaxInflight = 1
    HeadCapacity = 1
    DroppedTTL = 0
    MaxClock = 0
    MaxDuplicates = 0
    MaxReorgs = 1
    MaxFaults = 1
    MaxCrashes = 0
INVARIANTS MinedWasMined
PROPERTIES Releases StopsPolling
