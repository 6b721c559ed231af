CONSTANTS
    p1 = p1
    p2 = p2
    nb_streams = 2
    queue_size = 2
    Senders <- MCSenders
    Feeds <- MCFeeds
    AllocMayFail = FALSE
    MaxItems = 3
SPECIFICATION FairSpec
INVARIANTS
    FifosAgree
    DeliveredToItsStream
    SenderNotForgotten
    InFlight
PROPERTIES
    ChannelsSpec
    EofArrives
    SendReturns
CHECK_DEADLOCK FALSE
