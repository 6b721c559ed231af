CONSTANTS
    nb_streams = 3
    limiting = {0, 1}
    frames_max <- ThreeLimits
    frame_samples <- ThreeSizes
    buf_size = 2
    Frames <- ThreeKinds
    MayRefuse = {1}
    MaxSent <- ThreeSent
SPECIFICATION FairSpec
INVARIANT TypeOK
INVARIANT NoStreamGetsAhead
INVARIANT FinishedInTime
INVARIANT NothingKeptBack
INVARIANT NoLaggardAtOverflow
PROPERTY SamplesAsAsked
PROPERTY EofReturned
CHECK_DEADLOCK FALSE
