CONSTANTS
    Senders = {s1, s2, s3}
    Receivers = {r1, r2}
    Messages = {a, b}
    nelem = 2
    HasFreeFunc = TRUE
SPECIFICATION FairSpec
INVARIANTS
    TypeOK
    SleepersNotForgotten
PROPERTIES
    MessageQueueSpec
    CallsComplete
CHECK_DEADLOCK FALSE
