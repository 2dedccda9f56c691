SPECIFICATION FairSpec
CONSTANTS
    Loop = Loop
    w1 = w1
    w2 = w2
    Workers = {w1, w2}
    DisconnSenders = {Loop, w1}
    TRACE_JMSG = TRUE
    NoThread = NoThread
    MaxMsgs = 3
INVARIANTS
    FramesContiguous
    FarewellDelivered
PROPERTIES
    DisconnHappens
CHECK_DEADLOCK FALSE
