SPECIFICATION FairSpec
CONSTANTS
    PendingCapacity = 1
    HeadCapacity = 1
    MaxBackoff = 30
    MaxNotices = 3
    MaxStream = 3
    MaxLosses = 2
INVARIANTS TypeOK Handshaken
PROPERTIES Subscribes
CHECK_DEADLOCK FALSE
