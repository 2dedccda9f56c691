SPECIFICATION Spec
CONSTANTS
    Loop = Loop
    w1 = w1
    w2 = w2
    Workers = {w1, w2}
    DisconnSenders = {Loop}
    TRACE_JMSG = TRUE
    NoThread = NoThread
    MaxMsgs = 3
INVARIANT
    ByeDelivered
CHECK_DEADLOCK FALSE
