CONSTANTS
    d1 = d1
    d2 = d2
    c1 = c1
    c2 = c2
    f1 = f1
    f2 = f2
    e1 = e1
    m1 = m1
    Demuxers <- TwoDemuxers
    Filters <- OneFilter
    Decoders = {}
    Encoders = {e1}
    Muxers = {m1}
    Outs <- CopyOuts
    NbIn <- CopyNbIn
    NbPkts <- CopyPkts
    SCHEDULE_TOLERANCE = 1
    QueueSize = 1
    Takes <- AllFrames
    MayFail = {}
    UserMayStop = FALSE
SPECIFICATION FairSpec
INVARIANT LeadIsBounded
PROPERTY TranscodeEnds
CHECK_DEADLOCK FALSE
