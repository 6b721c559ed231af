CONSTANTS
    d1 = d1
    d2 = d2
    c1 = c1
    c2 = c2
    f1 = f1
    f2 = f2
    e1 = e1
    m1 = m1
    Demuxers <- OneDemuxer
    Filters <- TwoFilters
    Decoders = {c1}
    Encoders = {e1}
    Muxers = {m1}
    Outs <- ChainOuts
    NbIn <- ChainNbIn
    NbPkts <- ChainPkts
    SCHEDULE_TOLERANCE = 1
    QueueSize = 1
    Takes <- AllFrames
    MayFail = {}
    UserMayStop = FALSE
SPECIFICATION FairSpec
PROPERTY EofFrameArrives
CHECK_DEADLOCK FALSE
