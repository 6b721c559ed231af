CONSTANTS
    p1 = p1
    p2 = p2
    nb_streams = 2
    queue_size = 2
    Senders <- MCSenders
    Feeds <- MCFeeds
    AllocMayFail = TRUE
    MaxItems = 2
SPECIFICATION Spec
INVARIANTS
    TypeOK
    LabelForEveryItem
    ReceiverNotForgotten
CHECK_DEADLOCK FALSE
