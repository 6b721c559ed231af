CONSTANTS
    thread_count = 2
    HwKinds <- MCBothKinds
    AsyncSafe = FALSE
    Drain = Drain
    HwContexts = {1, 2, 3, 4}
    MaxPackets = 3
    MaxFrames = 1
SPECIFICATION FairSpec
INVARIANTS
    Inv
    HwAccelExclusive
PROPERTIES
    FrameOrderSpec
    CallsReturn
CHECK_DEADLOCK FALSE
