CONSTANTS
    d1 = d1
    d2 = d2
    c1 = c1
    c2 = c2
    f1 = f1
    f2 = f2
    e1 = e1
    m1 = m1
    Demuxers <- TwoDemuxers
    Filters <- OneFilter
    Decoders = {c1}
    Encoders = {e1}
    Muxers = {m1}
    Outs <- MixedOuts
    NbIn <- MixedNbIn
    NbPkts <- MixedPkts
    SCHEDULE_TOLERANCE = 1
    QueueSize = 1
    Takes <- AllFrames
    MayFail = {c1}
    UserMayStop = FALSE
SPECIFICATION Spec
INVARIANT TypeOK
INVARIANT NothingLost
INVARIANT FrozenOnlyIfChoked
PROPERTY TakenInOrder
CHECK_DEADLOCK FALSE
